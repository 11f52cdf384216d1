SPECIFICATION FairSpec
CONSTANTS
  None = None
  a1 = a1
  Attempts = {a1}
  Backends = {"rustls", "native"}
  Values <- MCValues
  Certs <- MCCerts
  PublicRoots = {"webpki"}
  InvalidNames = {"not a name"}
  NotDer = "no der"
  Addresses = {"ibmi", "tunnel"}
  MaxMoves = 1
INVARIANTS
  TypeOK PasswordOnlyToDaemon FreshCounterZero
PROPERTIES
  PinnedPeerAccepted NoSessionLeft ConnectReturns
CHECK_DEADLOCK FALSE
