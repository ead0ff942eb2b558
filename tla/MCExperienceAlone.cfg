\* One agent at a time over three days: two capsules of one topic with two
\* lessons, one of them left by an early release.
CONSTANTS
  Agents = {p1}
  Projects = {p1}
  Home <- MCHome
  Workspace <- MCWorkspace
  Scopes = {"project"}
  CapsuleIds = {c1, c2}
  Topics = {t}
  Lessons = {l1, l2}
  Envs = {h}
  ConfirmEnv = h
  Receipts = {}
  Caveats = {TRUE}
  Legacy = {c1}
  MaxEvidence = 2
  Required = 2
  DayLength = 1
  MaxTime = 2
  MaxForgets = 0
  None = None
SYMMETRY Symmetry
SPECIFICATION Spec
INVARIANT CapsulesValid
PROPERTY NoLostUpdate
PROPERTY RecoveryEarned
PROPERTY ContradictionMarksBoth
PROPERTY RecordsOnce
PROPERTY RetiredIsFrozen
CHECK_DEADLOCK FALSE
