CONSTANTS
  Descriptors = {3, 4, 5}
  Peers = {p, q, r}
  MaxUnread = 1
SPECIFICATION FairSpec
PROPERTIES
  NeverBusyWaiting
CHECK_DEADLOCK FALSE
