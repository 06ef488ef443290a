CONSTANTS
  m1 = m1
  Maker = {m1}
  Depth = 2
  MaxLen = 3
  MaxRoot = 1
SPECIFICATION DirSpec
INVARIANT MkdirLikeP
