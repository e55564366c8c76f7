CONSTANTS
  ClientHandshakeSize = 2
  ServerReplySize = 1
  HeaderSize = 2
  MaxReceive = 3
  Keys = {k1, k2}
  Sizes = {0, 1, 2, 3, 4}
  Bodies = {0, 1}
  MaxInbound = 5
  MaxUnsent = 3
  MaxStarts = 1
SPECIFICATION FairSpec
PROPERTIES
  ArrivedIsHandled
CHECK_DEADLOCK FALSE
