CONSTANTS
  c = c
  l1 = l1
  l2 = l2
  Canonical = c
  Legacies <- MCLegacies
  LegacyVersion <- MCLegacyVersion
  Versions = {1, 2, 3}
  Speaks <- OneProtocol
  Other = Other
  None = None
  Mixed = Mixed
  Absent = Absent
  Beginnings <- MCBeginnings
  MaxTransactions = 2
  MaxFaults = 1
SPECIFICATION InstallSpec
INVARIANT
  NeverDowngraded
CHECK_DEADLOCK FALSE
