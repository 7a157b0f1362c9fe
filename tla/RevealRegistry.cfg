SPECIFICATION Spec
CONSTANTS
  None = None
  CovclaimdPubKey = CovclaimdPubKey
  SignerPubKey = SignerPubKey
  EmulatorPubKey = EmulatorPubKey
  Preimages <- MCPreimages
  Closures <- MCClosures
  Consumer = Consumer
  aliceTree = aliceTree
  bobTree = bobTree
  alicePreimage = alicePreimage
  bobPreimage = bobPreimage
  aliceKey = aliceKey
  bobKey = bobKey
  otherPubKey = otherPubKey
  fundAlice = fundAlice
  topUpAlice = topUpAlice
  fundBoth = fundBoth
  b1 = b1
  b2 = b2
  Outputs <- BatchedOutputs
  Requests <- BothAndBad
  Background = {b1, b2}
  MaxRegistrations = 1
  RegistrationTTL = 1
  IndexerLeads = FALSE
  TimeoutsHappen = TRUE
  MaxTime = 2
  MaxFaults = 1
CHECK_DEADLOCK FALSE
SYMMETRY BackgroundSymmetry
INVARIANTS
  TypeOK
  MatchedClaimsBuild
  RegistryBounded
  RefusedOnlyWhenFull
PROPERTIES
  RemovedOnlyForCause
