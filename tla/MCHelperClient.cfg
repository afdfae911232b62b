CONSTANTS
  c1 = c1
  c2 = c2
  u1 = u1
  d1 = d1
  NoRequest = NoRequest
  Request <- MCRequest
  Connects <- MCConnects
  Disconnects <- MCDisconnects
  SessionOf <- MCSessionOf
  MaxNoise = 1
SPECIFICATION FairSpec
CHECK_DEADLOCK FALSE
INVARIANTS
  TypeOK
  UsesKnownSession
  NativeSessionsAreOwned
PROPERTIES
  RequestSettles
