SPECIFICATION Spec
CONSTANTS
  None = None
  TotalMemory = 8
  Pods <- AllPods
  Secrets = {"s1", "s2"}
  SecretStates <- States
  PublicImages = {"public"}
  MaxAttempts = 3
  MaxChanges = 1
  MaxFaults = 2
INVARIANTS
  TypeOK
  VolumesServed
  ResourcesInOrder
PROPERTIES
  NoVolumeRefused
  PullTellsTruth
  PullFindsCredentials
CHECK_DEADLOCK FALSE
