CONSTANTS
  Descriptors = {3, 4, 5}
  Peers = {p, q, r}
  MaxUnread = 1
SPECIFICATION FairSpec
INVARIANTS
  TypeOK
  OneOwner
PROPERTIES
  StaleEventHarmless
  PeersAreServed
CHECK_DEADLOCK FALSE
