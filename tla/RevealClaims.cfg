SPECIFICATION Spec
CONSTANTS
  None = None
  CovclaimdPubKey = CovclaimdPubKey
  SignerPubKey = SignerPubKey
  EmulatorPubKey = EmulatorPubKey
  Preimages <- MCPreimages
  Closures <- MCClosures
  Consumer = Consumer
  aliceTree = aliceTree
  bobTree = bobTree
  alicePreimage = alicePreimage
  bobPreimage = bobPreimage
  aliceKey = aliceKey
  bobKey = bobKey
  otherPubKey = otherPubKey
  fundAlice = fundAlice
  topUpAlice = topUpAlice
  fundBoth = fundBoth
  b1 = b1
  b2 = b2
  Outputs <- TopUpOutputs
  Requests <- AliceAndBad
  Background = {b1, b2}
  MaxRegistrations = 1
  RegistrationTTL = 0
  IndexerLeads = FALSE
  TimeoutsHappen = FALSE
  MaxTime = 0
  MaxFaults = 0
CHECK_DEADLOCK FALSE
SYMMETRY BackgroundSymmetry
INVARIANTS
  IInv
PROPERTIES
  ImplementsClaimService
