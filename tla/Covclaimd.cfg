SPECIFICATION FairSpec
CONSTANTS
  None = None
  CovclaimdPubKey = CovclaimdPubKey
  SignerPubKey = SignerPubKey
  EmulatorPubKey = EmulatorPubKey
  Consumer = Consumer
  aliceTree = aliceTree
  bobTree = bobTree
  alicePreimage = alicePreimage
  bobPreimage = bobPreimage
  aliceKey = aliceKey
  bobKey = bobKey
  otherPubKey = otherPubKey
  fundAlice = fundAlice
  b1 = b1
  Unset = Unset
  url = url
  secretKey = secretKey
  zeroKey = zeroKey
  Preimages <- MCPreimages
  Closures <- MCClosures
  Outputs <- MCOutputs
  Requests <- MCRequests
  Environments <- MCEnvironments
  SecretKeys = {secretKey}
  HeldPorts <- MCHeldPorts
  Background = {b1}
  MaxCalls = 1
  MaxRegistrations = 1
  RegistrationTTL = 0
  IndexerLeads = TRUE
  TimeoutsHappen = TRUE
  MaxTime = 0
  MaxFaults = 0
CHECK_DEADLOCK FALSE
INVARIANTS
  TypeOK
  IInv
  DrainedBeforeClose
  GatewayFailsForCause
  ExitTellsWhy
PROPERTIES
  ImplementsExecutor
  CanceledExits
  BackgroundFinishes
  ServedIsClaimed
