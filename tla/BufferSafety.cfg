CONSTANTS
  p1 = p1
  p2 = p2
  a = a
  b = b
  c = c
  Proc = {p1, p2}
  Handle = {a, b, c}
  Owner <- TwoAndOne
  NoHandle = NoHandle
  x = x
  y = y
  Id = {x, y}
  NoId = NoId
  s1 = s1
  s2 = s2
  s3 = s3
  s4 = s4
  s5 = s5
  Seg = {s1, s2, s3, s4, s5}
  NoSeg = NoSeg
  Capacity = 3
SPECIFICATION Spec
INVARIANTS
  TypeOK
  
  
  
  ExplodeFreesAll
 
SYMMETRY Symmetry
\* Everybody exits, or m_mtx stays locked for ever.
CHECK_DEADLOCK FALSE
