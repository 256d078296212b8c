CONSTANTS
  p1 = p1
  p2 = p2
  p3 = p3
  Process = {p1, p2, p3}
  MayExit = {p1, p2}
  Depth = 1
  Refused = {}
  LocksAge = TRUE
  NoFile = NoFile
  Unparsable = Unparsable
  Nobody = Nobody
  Casts <- MCCasts
  Nothing = Nothing
  Legacy = Legacy
  ToolsFail = TRUE
  Jobs <- MCJobs
  Tools = {"anchors", "store"}
  c = c
  l1 = l1
  l2 = l2
  Canonical = c
  Legacies <- MCLegacies
  LegacyVersion <- MCLegacyVersion
  Versions = {1, 2, 3}
  Speaks <- MCSpeaks
  Other = Other
  None = None
  Mixed = Mixed
  Absent = Absent
  Beginnings <- MCBeginnings
  MaxTransactions = 2
  MaxFaults = 1
  Digits = {0, 1, 9}
  MaxSafe = 10
  Release = Release
  Incomparable = Incomparable
  Candidates <- MCCandidates
SPECIFICATION MachineSpec
INVARIANTS
  StartupTypeOK
  StartsAlone
  AuthorityTypeOK
  MigrationResumes
  InstallTypeOK
  RecordTellsTheRuntime
  AtMostOneRestored
  KeepsTheNewest
  OneOwnerAtBoot
  VersionOrder
PROPERTIES
  KeepsItsState
  ReturnsWhatAnswered
  NeverReplaced
  LeafCanBeUsed
  DeletedOnlyAfterReady
CHECK_DEADLOCK FALSE
