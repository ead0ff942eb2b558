\* Two requests beside a host that keeps polling, two changes by others.
CONSTANTS
  MaxRequests = 2
  MaxCalls = 2
  Notified <- MCNotified
  InitialWorlds <- MCInitialWorlds
  MaxChanges = 2
  MaxCapsules = 1
  None = None
SPECIFICATION SeenSpec
INVARIANT RepliedOnce
INVARIANT CalmMeansShown
INVARIANT ShownWasTrue
INVARIANT NoticeConfirmed
PROPERTY RefreshPublished
PROPERTY EveryRequestAnswered
CHECK_DEADLOCK FALSE
