SPECIFICATION PathSpec
CONSTANTS
  None = None
  Services = {"web", "dns", "headless"}
  SpecOf <- Specs
  Backends <- AllBackends
  NodeName = "pet"
  NodeIP = "node"
  VpnIface = "vpn"
  PodNets <- OneNet
  Place <- Places
  Elections = {}
  Syncs = {}
  MaxChanges = 0
  Hash <- InjectiveHash
  Packets <- AllPackets
  Route <- Routes
  AddrOn <- Masquerades
  Answered <- Answers
INVARIANTS
  ServicesServed
  AnswersComeBack
  ClusterSeesPods
CHECK_DEADLOCK FALSE
