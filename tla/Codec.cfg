SPECIFICATION Spec
CONSTANTS
  None = None
  HexBase = 3
  KeyLen = 3
  AmountLen = 2
  PubKey <- MCPubKey
  Packets <- MCPackets
  Foreign <- MCWires
INVARIANTS TypeOK IInv ReadsWhatWasWritten SerializedIsReadBack FilterMissesNone
CHECK_DEADLOCK FALSE
