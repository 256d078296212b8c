CONSTANTS
  p1 = p1
  p2 = p2
  p3 = p3
  Process = {p1, p2, p3}
  MayExit = {}
  Depth = 1
  Refused = {}
  LocksAge = FALSE
  NoFile = NoFile
  Unparsable = Unparsable
  Nothing = Nothing
  Legacy = Legacy
  ToolsFail = TRUE
  Jobs <- TrustJobs
  Tools = {"anchors", "store"}
SPECIFICATION AuthoritySpec
PROPERTY
  RemovesOnlyUntrusted
CHECK_DEADLOCK FALSE
