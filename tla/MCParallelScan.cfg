CONSTANTS
  Workers = {w1, w2}
  Size = 4
  Lookahead = 1
  MinScanChunk = 1
  ReportEvery = 2
SPECIFICATION SafeSpec
INVARIANTS ParallelEqualsSequential DiffDescribesChange ProgressEndsFull
\* A scan ends, and the program may go with its heap.
CHECK_DEADLOCK FALSE
