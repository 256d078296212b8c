CONSTANTS
  a = a
  b = b
  a1 = a1
  a2 = a2
  a3 = a3
  b1 = b1
  b2 = b2
  h1 = h1
  h2 = h2
  Lease = {a1, b1}
  OwnerToken = {a, b}
  Hostname = {h1}
  TokensOf <- SessionTokens
  Domains <- AllShared
  NoRoute = NoRoute
  NoClient = NoClient
  Requests = {}
  MaxFrames = 4
  MaxFaults = 0
SPECIFICATION FairSessionSpec
PROPERTIES
  ClosedServersLetGo
CHECK_DEADLOCK FALSE
