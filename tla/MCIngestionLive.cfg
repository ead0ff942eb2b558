\* Overlapping ingesters under fairness, with a crash and a forget or a prune.
CONSTANTS
  Paths = {p1}
  Home = p1
  ProjectIds = {i1, i2, i3}
  EventIds = {e1}
  CapsuleIds = {}
  Bodies = {}
  Ingesters = {g1, g2}
  None = None
  MaxTorn = 1
  MaxLines = 2
  MaxRewrites = 0
  MaxCrashes = 1
  MaxDeletions = 1
SPECIFICATION MCFairSpec
PROPERTY EveryCallSettles
CHECK_DEADLOCK FALSE
