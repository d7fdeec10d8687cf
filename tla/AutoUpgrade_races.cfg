SPECIFICATION FairSpec
CONSTANTS
  Versions = {1, 2, 3}
  Unparsable = Unparsable
  Offers <- AllOffers
  ConfigMaps = {"kube-system/kube-pet-node", "kube-pets/kube-pet-config"}
  Watched = "kube-system/kube-pet-node"
  NoInfo = NoInfo
  Absent = Absent
  Nil = Nil
  MaxChanges = 4
INVARIANTS
  InstallsEligible
PROPERTIES
  VersionNeverFalls
  UpgradeHappens
CHECK_DEADLOCK FALSE
