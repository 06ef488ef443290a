CONSTANTS
  p1 = p1
  p2 = p2
  a = a
  b = b
  c = c
  Proc = {p1, p2}
  Handle = {a, b, c}
  Owner <- TwoAndOne
  NoHandle = NoHandle
  x = x
  y = y
  Id = {x, y}
  NoId = NoId
  s1 = s1
  s2 = s2
  s3 = s3
  s4 = s4
  s5 = s5
  Seg = {s1, s2, s3, s4, s5}
  NoSeg = NoSeg
  Capacity = 2
SPECIFICATION Spec
INVARIANT
  PointsToSegment
SYMMETRY Symmetry
CHECK_DEADLOCK FALSE
