SPECIFICATION Spec
CONSTANTS
  i1 = i1
  i2 = i2
  Intent = {i1, i2}
  MaxStores = 2
  MaxCrashes = 1
  p1 = p1
  p2 = p2
  Provider = {p1, p2}
  g1 = g1
  Peer = {g1}
  NoMiner = NoMiner
  TTL = 1
  CacheTTL = 1
  negativeCacheTTL = 0
  Burst = 1
  Stale = 1
  MaxClock = 3
  MaxAnnounce = 2
  Miner = {1, 2, 3}
  Healthy = {1, 2}
  Primary = 2
  Registrations <- MCRegistrations
  providerFailureCooldown = 1
  providerFailureCooldownThresh = 2
  MaxTime = 2
  MaxFetches = 2
CHECK_DEADLOCK FALSE
INVARIANTS
  DiskFollowsDeals
  ServedAllowed
  DiscoveryFresh
  TriedEverything
  RankingSound
PROPERTY
  TasksCompleted
