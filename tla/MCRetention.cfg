\* Two pruners of any policies over three events and two capsules, with two rows
\* appended or touched meanwhile.
CONSTANTS
  EventIds = {1, 2, 3}
  CapsuleIds = {1, 2}
  MaxTime = 1
  BatchSize = 2
  Pruners = {p1, p2}
  MaxAppends = 2
  None = None
SPECIFICATION FairSpec
INVARIANT PreviewExact
PROPERTY ExhaustedWhenDone
PROPERTY PruningEnds
CHECK_DEADLOCK FALSE
