SPECIFICATION FairSpec
CONSTANTS
  g1 = g1
  g2 = g2
  None = None
  Services = {"web", "dns"}
  SpecOf <- Specs
  Backends <- OnePod
  Place <- Places
  NodeName = "pet"
  NodeIP = "node"
  VpnIface = "vpn"
  PodNets <- OneNet
  Elections = {"dns"}
  Syncs = {g1, g2}
  MaxChanges = 4
  Hash <- ShortHash
INVARIANTS
  SkipIsSafe
PROPERTIES
  KernelConverges
CHECK_DEADLOCK FALSE
