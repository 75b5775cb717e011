SPECIFICATION LimiterSpec
CONSTANTS
  Clients = {a, b}
  Proxy = Proxy
  TrustProxyHeader = TRUE
  Capacity = 2
  Unit = 2
  TTL = 6
  SweepEvery = 2
  MaxTime = 22
  NoBucket = NoBucket
  Never = Never
SYMMETRY ClientsAreAlike
INVARIANT OneTokenAtMost
PROPERTY IdleAreForgotten
