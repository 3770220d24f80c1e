SPECIFICATION FairSpec
CONSTANTS
  p1 = p1  p2 = p2  p3 = p3
  None = None
  Pack = {p1, p2, p3}
  Limit = 1
  Window = 2
  Skew = 1
  MaxTime = 4
INVARIANTS TypeOK OnlyRacesAreMissed CompleteMeansAll
PROPERTY FeedCatchesUp
