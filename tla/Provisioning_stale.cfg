SPECIFICATION Spec
CONSTANTS
  n1 = n1
  n2 = n2
  k1 = k1
  k2 = k2
  k3 = k3
  Nodes = {n1, n2}
  Keys = {k1, k2, k3}
  Routers = {1, 2}
  NodePool <- SmallNodePool
  PodPool <- SmallPodPool
  PodPrefixLen <- SmallPrefixLen
  Bits = 5
  MaxUid = 2
  None = None
INVARIANTS
  TypeOK
  NoSharedAddress
  RouterKnowsNode
PROPERTIES
  ImplementsBook
SYMMETRY Symmetry
