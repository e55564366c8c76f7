CONSTANTS
  ClientHandshakeSize = 2
  ServerReplySize = 3
  HeaderSize = 2
  MaxReceive = 1
  Keys = {1, 2}
  Capacity = 2
  Bodies = {0, 1}
  MaxMessages = 2
SPECIFICATION FairSpec
INVARIANTS
  TypeOK
  FramesAligned
  HandshakeAgreement
PROPERTIES
  ImplementsChannel
  EventuallyDelivered
  PairSettles
CHECK_DEADLOCK FALSE
