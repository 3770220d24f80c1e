SPECIFICATION Spec
CONSTANTS
  w1 = w1  w2 = w2
  None = None  Over = Over
  Row = {1, 2, 3}
  Writer = {w1, w2}
  Limit = 1
  MaxTime = 3
SYMMETRY Interchangeable
INVARIANTS UntouchedRowsListed OnlySunkRowsRepeat
CHECK_DEADLOCK FALSE
