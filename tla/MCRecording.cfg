\* Two writers, two paths; three identities: a path can be forgotten and
\* recreated while a writer still holds its first identity.
CONSTANTS
  Paths = {p1, p2}
  ProjectIds = {i1, i2, i3}
  EventIds = {e1}
  CapsuleIds = {c1, c2}
  Bodies = {b}
  Writers = {w1, w2}
  None = None
  OtherTool = other_tool
  Absent = Absent
  Refused = Refused
SYMMETRY Symmetry
SPECIFICATION Spec
INVARIANT NoOrphanRows
INVARIANT MappingsSound
INVARIANT ResolversAgree
PROPERTY ForgottenForGood
PROPERTY ImplementsLedger
