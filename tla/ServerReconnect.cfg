CONSTANTS
  a = a
  b = b
  c1 = c1
  c2 = c2
  c3 = c3
  Lease = {c1, c2, c3}
  OwnerToken = {a, b}
  Hostname = {h1}
  TokensOf <- Owners
  NoRoute = NoRoute
  Requests <- OwnershipRequests
  MaxFrames = 1
SPECIFICATION Spec
SYMMETRY Symmetric
INVARIANTS
  TypeOK
  NoOrphanRoute
  SubscriptionsMatch
PROPERTIES
  OnlyTheLeaseRemoves
  TakeoverIsTold
CHECK_DEADLOCK FALSE
