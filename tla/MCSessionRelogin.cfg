CONSTANTS
  alice = alice
  ALICE = ALICE
  bob = bob
  RawLogins <- MCRawLogins
  Logins <- MCLogins
  Normal <- MCNormal
  Passwords = {p, q}
  AccessMasks = {none, guest, admin}
  NoAccess = none
  NoLogin = nobody
  Ids = {1}
  None = None
SPECIFICATION Spec
PROPERTIES
  StateGoesForward
