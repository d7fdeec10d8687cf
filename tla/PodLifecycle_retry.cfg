SPECIFICATION Spec
CONSTANTS
  c1 = c1
  c2 = c2
  u1 = u1
  u2 = u2
  app = app
  log = log
  None = None
  Torn = Torn
  Coords = {c1}
  StaticPods = {}
  Uids = {u1}
  Containers = {app, log}
  Policy <- PolicyPulled
  Faults = {}
CHECK_DEADLOCK FALSE
INVARIANTS
  ContainersInTheirPod
