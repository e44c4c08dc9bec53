CONSTANTS
  None = None
  async = async  sync = sync  cfg = cfg  rva = rva
  Requests = {async, sync, cfg}
  Rvas = {rva}
  Kind <- MCKind
  Rva <- MCRva
  MaxLifts = 2
  ExitChecked = TRUE
SPECIFICATION Spec
INVARIANTS RequestInOnePlace NoDetachedThread SupersededLiftEnds
  QuietCacheFresh QuietReadyMeansLifted
PROPERTIES ClientReturns LaunchedAnswered LiftCallsBack
\* The client may stop calling at any time.
CHECK_DEADLOCK FALSE
