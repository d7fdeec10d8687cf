SPECIFICATION Spec
CONSTANTS
  c1 = c1
  c2 = c2
  u1 = u1
  u2 = u2
  app = app
  log = log
  None = None
  Torn = Torn
  Coords = {c1, c2}
  StaticPods = {}
  Uids = {u1, u2}
  Containers = {app, log}
  Policy <- PolicyOnDemand
  Faults = {"crash", "podman", "disk"}
SYMMETRY UidSymmetry
INVARIANTS
  WantedPodKeepsSpec
  RegistryMatchesStore
  ContainerIDsReal
PROPERTIES
  WantedPodNeverRemoved
  ImplementsLedger
