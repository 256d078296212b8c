CONSTANTS
  a = a
  b = b
  c1 = c1
  c2 = c2
  c3 = c3
  Lease = {c1, c3}
  OwnerToken = {a, b}
  Hostname = {h1}
  TokensOf <- Owners
  NoRoute = NoRoute
  Requests <- StopRequests
  MaxFrames = 1
SPECIFICATION Spec
PROPERTIES
  StopsOnlyWhenIdle
CHECK_DEADLOCK FALSE
