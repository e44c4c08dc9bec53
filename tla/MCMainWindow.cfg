CONSTANTS
  None = None
  Files = {f1, f2}
  Fns = {g1}
  Paths = {p1, p2}
  SavedPath = p1
  MaxLoads = 2
  MaxRequests = 2
  MaxEdits = 1
  MaxCommands = 4
SPECIFICATION Spec
INVARIANTS SettledTextIsLastAsked LiftedWithPath
  DecompilesWhatItLifted
PROPERTY PlaceholderEnds
\* The user may stop at any time.
CHECK_DEADLOCK FALSE
