CONSTANTS
  Process = {p1, p2, p3}
  MayExit = {p1, p2, p3}
  Depth = 2
  Refused = {}
  LocksAge = FALSE
  NoFile = NoFile
  Unparsable = Unparsable
SPECIFICATION Spec
SYMMETRY Symmetric
INVARIANTS
  OneAtATime
CHECK_DEADLOCK FALSE
