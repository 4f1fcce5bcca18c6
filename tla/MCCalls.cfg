SPECIFICATION CallsSpec
CONSTANTS
  c1 = c1
  c2 = c2
  Caller = {c1, c2}
  Offset <- TwoHosts
  Threshold = 2
  Window = 1
  Cooldown = 1
  Ttl = 4
  MaxAge = 3
  Silent = TRUE
  Limit = 1
  CacheTtl = 2
  MaxRetries = 1
  MaxCalls = 3
  MaxFaults = 2
INVARIANTS MeteredWasPaid AttemptsBounded StateExpires PublishedIsOurs
PROPERTIES EnforcedAfterTtl RefusalsDoNotTrip
