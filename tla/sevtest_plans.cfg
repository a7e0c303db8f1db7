SPECIFICATION Spec
CONSTANTS
  v1 = v1
  v2 = v2
  f1 = f1
  f2 = f2
  NoVM = NoVM
  NoProfile = NoProfile
  VMs <- MCVMs
  Profiles <- MCProfiles
  Texts <- MCTexts
  Tests <- ShortTests
  Debug = TRUE
  MaxTests = 1
SYMMETRY Symmetry
INVARIANTS
  TypeOK
PROPERTIES
  ReportsFaithfully
CHECK_DEADLOCK FALSE
