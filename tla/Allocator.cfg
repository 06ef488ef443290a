CONSTANTS
  UnitBits = 6
  IntBits = 3
  Sizes = {1, 2, 3, 5, 6, 7}
  p1 = p1
  p2 = p2
  Proc = {p1, p2}
  NoProc = NoProc
  MaxLive = 3
SPECIFICATION AllocSpec
INVARIANTS
  FindMatchesInInt
  FindsFree
  RegionsDisjoint
  MapIsExact
