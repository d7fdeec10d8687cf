SPECIFICATION KubeFairSpec
CONSTANTS
  k1 = k1
  k2 = k2
  k3 = k3
  h1 = h1
  h2 = h2
  Keys = {k1, k2, k3}
  None = None
  Torn = Torn
  Handlers = {h1, h2}
  Cores = 1
  Unit = 100
  Word = 1000
  MaxClock = 2
  MaxContainers = 2
INVARIANTS
  CertMatchesKey
  UsageWithinCores
  LoneUsageIsReal
PROPERTIES
  GivesUpForCause
  ComesToServe
