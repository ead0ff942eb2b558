\* The roadmap's claim about retained cursors, with two ingesters.
CONSTANTS
  Paths = {p1}
  Home = p1
  ProjectIds = {i1, i2}
  EventIds = {e1, e2}
  CapsuleIds = {}
  Bodies = {}
  Ingesters = {g1, g2}
  None = None
  MaxTorn = 0
  MaxLines = 2
  MaxRewrites = 0
  MaxCrashes = 0
  MaxDeletions = 1
SPECIFICATION MCSpec
INVARIANT NoTranscriptResurrection
CHECK_DEADLOCK FALSE
