SPECIFICATION Spec
CONSTANTS
  Installations <- MCInstallations
  VersionOrder <- MCVersionOrder
  Requests <- MCRequests
  NoBuild = NoBuild
  NoLevel = NoLevel
  NoFile = NoFile
  Empty = Empty
  Partial = Partial
  Prereqs = 1
  MaxRuns <- MCMaxRuns
INVARIANTS
  TypeOK
  CertifiedSound
  MilestoneEarned
  BodyOfTheSameRun
  FreshOrAbsent
  FinishedSurvives
  RunsWhatWasAsked
  ExitTellsTruth
PROPERTIES
  PipelineEnds
CHECK_DEADLOCK FALSE
