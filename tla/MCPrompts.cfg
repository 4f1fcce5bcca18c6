SPECIFICATION Spec
CONSTANTS
  Workers = {"home", "other"}
  Home = "home"
  Releases = {"old", "new"}
  Ttl = 2
  NegativeTtl = 1
  ReadTime = 1
  MaxOverrides = 1
  MaxReviews = 2
  MaxDeliveries = 2
INVARIANTS SeedsEvolve Attributed
PROPERTY HotReload
