SPECIFICATION FairSpec
CONSTANTS
  MaxRequests = 4
  Backlog = 2
  AgentMayDie = TRUE
INVARIANTS
  TypeOK
  SerialCommands
  NoLateEffect
  
PROPERTIES
  QueueDrains
  ExchangeEnds
CHECK_DEADLOCK FALSE
