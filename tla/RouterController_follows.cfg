SPECIFICATION FairSpec
CONSTANTS
  t0 = t0
  t1 = t1
  t2 = t2
  Tables = {t0, t1, t2}
  NoPeers = t0
  None = None
  Torn = Torn
  MaxVersion = 4
PROPERTIES
  SkipIsSafe
  NeverGoesBack
  InterfaceFollows
