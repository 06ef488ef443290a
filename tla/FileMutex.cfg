CONSTANTS
  p1 = p1
  p2 = p2
  p3 = p3
  Proc = {p1, p2, p3}
  NoProc = NoProc
  k1 = k1
  k2 = k2
  k3 = k3
  kf = kf
  Key = {k1, k2, k3, kf}
  NoKey = NoKey
  Foreign = {kf}
  Mortal = {p1, p2}
SPECIFICATION FairSpec
INVARIANTS
  TypeOK
  SameWord
  MutualExclusion
  NeverCrit
  PublishedIsInitialised
  ForeignUntouched
  LockerHasLock
PROPERTIES
  LockSpec
  InitNotBlocked
\* A dead holder leaves every other process waiting in lock() for ever.
CHECK_DEADLOCK FALSE
