CONSTANTS
  a = a
  b = b
  c1 = c1
  c2 = c2
  c3 = c3
  Lease = {c1, c3}
  OwnerToken = {a, b}
  Hostname = {h1, h2}
  TokensOf <- Owners
  NoRoute = NoRoute
  Requests <- MixedRequests
  MaxFrames = 1
SPECIFICATION FairSpec
INVARIANTS
  CleanupIsLast
PROPERTIES
  ImplementsOwnership
  ClosedConnectionsExpire
CHECK_DEADLOCK FALSE
