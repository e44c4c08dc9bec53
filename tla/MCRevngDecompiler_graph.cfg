CONSTANTS
  None = None
  async = async  sync = sync  cfg = cfg  rva = rva
  Requests = {async, sync, cfg}
  Rvas = {rva}
  Kind <- MCKind
  Rva <- MCRva
  MaxLifts = 2
  ExitChecked = TRUE
SPECIFICATION SafeSpec
INVARIANT AcceptedGraphIsEmitted
CHECK_DEADLOCK FALSE
