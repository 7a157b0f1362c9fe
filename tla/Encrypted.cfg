SPECIFICATION FairSpec
CONSTANTS
  None = None
  CovclaimdPubKey = CovclaimdPubKey
  SignerPubKey = SignerPubKey
  EmulatorPubKey = EmulatorPubKey
  Consumer = Consumer
  aliceTree = aliceTree
  bobTree = bobTree
  alicePreimage = alicePreimage
  bobPreimage = bobPreimage
  aliceKey = aliceKey
  bobKey = bobKey
  otherPubKey = otherPubKey
  fundAlice = fundAlice
  fundUnbound = fundUnbound
  forOther = forOther
  Preimages <- MCPreimages
  Closures <- MCClosures
  Outputs <- MCOutputs
  Taptrees <- MCTaptrees
  Extensions <- MCExtensions
  MaxFaults = 1
CHECK_DEADLOCK FALSE
INVARIANTS
  TypeOK
  MatchedClaimsBuild
PROPERTIES
  ImplementsClaimService
  EntitledIsClaimed
