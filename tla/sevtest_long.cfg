SPECIFICATION FairSpec
CONSTANTS
  v1 = v1
  v2 = v2
  f1 = f1
  f2 = f2
  NoVM = NoVM
  NoProfile = NoProfile
  VMs <- MCVMs
  Profiles <- MCProfiles
  Texts <- MCTexts
  Tests <- LongTests
  Debug = TRUE
  MaxTests = 2
INVARIANTS
  OrphansBounded
  AnsweredByOwnGuest
  HandlerConfined
PROPERTIES
  ProfileFlow
  TestEnds
CHECK_DEADLOCK FALSE
