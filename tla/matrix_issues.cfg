SPECIFICATION Spec
CONSTANTS
  o1 = o1
  o2 = o2
  Empty = Empty
  NoBranch = NoBranch
  Ahead = Ahead
  OSes = {o1, o2}
  Processors <- MCProcessors
  Payloads <- MCPayloads
  maxRetries = 2
  maxRunning = 2
INVARIANTS
  TypeOK
  DoneMeansPublished
  CellsUnderHeader
  NewestStaysOpen
\* Every job comes to its end, and no more issues are opened.
CHECK_DEADLOCK FALSE
