\* One request of twelve, one write by other processes.
CONSTANTS
  Host = "here"
  Today = 105
  Window = 6
  Sparse = 3
  BriefLimit = 3
  MaxLegacy = 1
  MaxWrites = 1
  CapsuleIds <- MCCapsuleIds
  Stores <- MCStores
  Unwritten <- MCUnwritten
  Practices <- MCPractices
  Executions <- MCExecutions
  Requests <- MCRequests
SPECIFICATION Spec
INVARIANT NothingOverlooked
INVARIANT FailureReserved
INVARIANT TrimmedFromTheEnd
INVARIANT ConfirmedIndependently
INVARIANT BroaderOnlyWhenSparse
INVARIANT TextNotHidden
PROPERTY PromptNeverHeld
CHECK_DEADLOCK FALSE
