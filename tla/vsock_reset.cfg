SPECIFICATION Spec
CONSTANTS
  MaxRequests = 2
  Backlog = 8
  AgentMayDie = FALSE
INVARIANTS
  FailuresAreVsockErrors
CHECK_DEADLOCK FALSE
