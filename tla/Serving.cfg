CONSTANTS
  h1 = h1
  h2 = h2
  Process = {p1, p2}
  MayExit = {p1, p2}
  Depth = 2
  Refused = {p1, p2}
  LocksAge = TRUE
  NoFile = NoFile
  Unparsable = Unparsable
  Host = {h1, h2}
  Automation = {h2}
  Command = {i1, i2}
  Duties <- MCDuties
  MaxRequests = 1
  None = None
  Exchange = {e1, e2}
  Upstream = {u1, u2}
  MaxAnswers = 2
  Unrouted = Unrouted
SPECIFICATION ServingSpec
INVARIANTS
  TypeOK
  OneAtATimeWhileAllRun
  CertificatesTypeOK
  ServesItsPolicy
  ImportIsAllOrNothing
  ExchangeTypeOK
  AnsweredOnce
  TornDownTogether
PROPERTIES
  ReleasesItsOwn
  DeadLocksAreCleared
CHECK_DEADLOCK FALSE
