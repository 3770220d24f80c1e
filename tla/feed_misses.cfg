SPECIFICATION Spec
CONSTANTS
  p1 = p1  p2 = p2  p3 = p3
  None = None
  Pack = {p1, p2}
  Limit = 1
  Window = 2
  Skew = 0
  MaxTime = 3
SYMMETRY Interchangeable
INVARIANT NothingMissed
