\* Outside calls, a nested call, and the destructor at any legal moment.
CONSTANTS
  a = a  b = b  n = n
  NoTask = NoTask
  Workers = {w1, w2}
  Callers = {a, b, n}
  Total <- MCTotal
  MinChunk <- MCMin
  Host <- MCHost
SPECIFICATION Spec
INVARIANTS TaskConservation NoLostWakeup ReturnCoversRange
PROPERTIES KeepsPromise EveryCallEnds
\* The system stops when every call has ended and the pool is gone or never destroyed.
CHECK_DEADLOCK FALSE
