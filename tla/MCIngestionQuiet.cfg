\* Two overlapping ingesters, one mishap (a crash, or the file started over while
\* nobody has it open), one forget or one pruned event, and a torn line.
CONSTANTS
  Paths = {p1}
  Home = p1
  ProjectIds = {i1, i2, i3}
  EventIds = {e1, e2}
  CapsuleIds = {}
  Bodies = {}
  Ingesters = {g1, g2}
  None = None
  MaxTorn = 1
  MaxLines = 3
  MaxRewrites = 1
  MaxCrashes = 1
  MaxMishaps = 1
  MaxDeletions = 1
SYMMETRY Symmetry
SPECIFICATION MCQuietSpec
INVARIANT TypeOK
INVARIANT CursorNeverAhead
INVARIANT CursorExact
CHECK_DEADLOCK FALSE
INVARIANT QuietNoResurrection
PROPERTY QuietCursorAdvances
