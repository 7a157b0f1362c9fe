SPECIFICATION Spec
CONSTANTS
  None = None
  CovclaimdPubKey = CovclaimdPubKey
  SignerPubKey = SignerPubKey
  EmulatorPubKey = EmulatorPubKey
  Preimages <- MCPreimages
  Closures <- MCClosures
  Consumer = Consumer
  aliceTree = aliceTree
  bobTree = bobTree
  alicePreimage = alicePreimage
  bobPreimage = bobPreimage
  aliceKey = aliceKey
  bobKey = bobKey
  otherPubKey = otherPubKey
  fundAlice = fundAlice
  topUpAlice = topUpAlice
  fundBoth = fundBoth
  b1 = b1
  b2 = b2
  Outputs <- BatchedOutputs
  Requests <- BothReveal
  Background = {b1}
  MaxRegistrations = 1
  RegistrationTTL = 0
  IndexerLeads = TRUE
  TimeoutsHappen = FALSE
  MaxTime = 1
  MaxFaults = 0
CHECK_DEADLOCK FALSE
PROPERTIES
  NoExpiredClaim
