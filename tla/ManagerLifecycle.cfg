CONSTANTS
  p1 = p1
  p2 = p2
  p3 = p3
  Proc = {p1, p2, p3}
  NoProc = NoProc
  MaxGen = 2
  MaxDeaths = 1
SPECIFICATION Spec
INVARIANTS
  FileNamesLiveSegment
  OneManager
  NoSegmentLeaked
PROPERTY
  KeyWrittenOnce
\* A process killed with the mutex locked leaves the others waiting, and the
\* files and segments of the model are limited.
CHECK_DEADLOCK FALSE
