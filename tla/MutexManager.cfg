CONSTANTS
  p1 = p1
  p2 = p2
  p3 = p3
  Proc = {p1, p2, p3}
  a = a
  b = b
  c = c
  x = x
  Text = {a, b, c, x}
  Id = {a, b, c}
  NoId = NoId
  Shorter <- MCShorter
  m_capacity = 2
  Mortal = {p1}
SYMMETRY Symmetry
SPECIFICATION Spec
INVARIANTS
  ThrowsOnlyWhenFull
  SameNameExcludes
  StrandedOnlyEarly
\* Everybody may end up asleep on a mutex whose creator was killed, or that was
\* initialised after they went to sleep.
CHECK_DEADLOCK FALSE
