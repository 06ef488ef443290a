CONSTANTS
  p1 = p1
  p2 = p2
  a = a
  b = b
  c = c
  Proc = {p1}
  Handle = {a, b, c}
  Owner <- AllOfOne
  NoHandle = NoHandle
  x = x
  y = y
  z = z
  Id = {x, y, z}
  NoId = NoId
  s1 = s1
  s2 = s2
  s3 = s3
  s4 = s4
  Seg = {s1, s2, s3, s4}
  NoSeg = NoSeg
  Capacity = 3
SPECIFICATION Spec
INVARIANT
  ExistingIsMapped
SYMMETRY Symmetry
CHECK_DEADLOCK FALSE
