SPECIFICATION Spec
CONSTANTS
  NoGeneration = NoGeneration
  NoTcb = NoTcb
  ReportError = ReportError
  Hosts <- MCHosts
  SweepAll = 16
  AboveSteps = 3
  NoKey = NoKey
  NoFile = NoFile
  NoLaunch = NoLaunch
  MaxRuns = 2
INVARIANTS
  TypeOK
  
  ConformantPasses
  ReadsOwnArtifacts
  TwoGuestsCompared
CHECK_DEADLOCK FALSE
