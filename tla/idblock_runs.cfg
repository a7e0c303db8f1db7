SPECIFICATION Spec
CONSTANTS
  Images = {imageA, imageB}
  Metas <- MCMetas
  InvalidMeta = InvalidMeta
  NoFile = NoFile
  Malformed = Malformed
  NoBlock = NoBlock
  NoLaunch = NoLaunch
  MaxRuns = 2
  MaxReplaced = 2
INVARIANTS
  TypeOK
  PassMeansExercised
  RejectedForItsReason
  SignedFresh
  OneDefect
