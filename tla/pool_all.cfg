SPECIFICATION FairSpec
CONSTANTS
  r1 = r1  r2 = r2  r3 = r3  c1 = c1  c2 = c2  c3 = c3  c4 = c4
  None = None
  Req = {r1, r2, r3}
  Conn = {c1, c2, c3}
  MaxSize = 2
  Programs <- MCPrograms
  MaxFaults = 1
INVARIANTS TypeOK OnlyLostBeginsLeak OwnCommitsOnly IdleHoldsNothing
PROPERTY EveryRequestAnswered
