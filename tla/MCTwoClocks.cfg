SPECIFICATION BucketSpec
CONSTANTS
  c1 = c1
  c2 = c2
  Client = {c1, c2}
  Offset <- Skewed
  MaxSkew = 2
  Backends = {"redis"}
  Unit = 3
  Rate = 2
  Burst = 2
  Second = 2
  MaxCost = 1
  MaxDelay = 0
  MaxBack = 4
  MaxAge = 5
INVARIANT RateBounded
