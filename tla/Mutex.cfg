CONSTANTS
  p1 = p1
  p2 = p2
  p3 = p3
  p4 = p4
  Proc = {p1, p2, p3, p4}
  Mortal = {p1, p2, p3}
  Signalled = {p1, p2, p3}
SPECIFICATION FairSpec
INVARIANTS
  TypeOK
  MutualExclusion
  NeverCrit
  NoLostWakeup
  WordMatchesHolder
PROPERTIES
  LockSpec
  Progress
\* A dead holder leaves every other process asleep for ever.
CHECK_DEADLOCK FALSE
