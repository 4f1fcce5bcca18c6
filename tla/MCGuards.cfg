SPECIFICATION GuardSpec
CONSTANTS
  c1 = c1
  c2 = c2
  c3 = c3
  Caller = {c1, c2, c3}
  Threshold = 3
  Window = 2
  Cooldown = 2
  Ttl = 4
  AgeBound = 5
  Client = {c1, c2}
  Offset <- Skewed
  MaxSkew = 1
  Backends = {"memory", "redis"}
  Unit = 3
  Rate = 2
  Burst = 2
  Second = 2
  MaxCost = 3
  MaxDelay = 1
  MaxBack = 1
  MaxAge = 4
INVARIANTS ClosedIsHealthy OverdraftIsMovedBack HintSuffices
PROPERTIES TripIsRecent HalfOpenEnds NeverStuck
