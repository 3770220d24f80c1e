SPECIFICATION Spec
CONSTANTS
  q1 = q1  q2 = q2  q3 = q3  q4 = q4  d1 = d1  d2 = d2  w1 = w1  w2 = w2
  None = None
  Req = {q1, q2}
  Caller = {d1}
  Wallet = {w1}
  Limit = 1
  Ttl = 2
  Grace = 1
  SweepEvery = 2
  Width = 2
  MaxTime = 3
SYMMETRY Interchangeable
INVARIANT PendingWithinLimit
