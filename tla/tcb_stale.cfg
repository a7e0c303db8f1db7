SPECIFICATION Spec
CONSTANTS
  CoreFields <- MCCoreFields
  Fields <- MCFields
  LowerOrder <- MCLowerOrder
  Installed <- MCInstalled
  Provisional <- MCProvisional
  NoOverride = NoOverride
  NoReport = NoReport
  MaxRuns = 2
PROPERTIES
  CommitNeverBlesses
