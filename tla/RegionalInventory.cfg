SPECIFICATION Spec
CONSTANTS
  VpcIds = {"v"}
  SubnetIds = {"s"}
  GroupIds = {"g"}
  Ids = {"v", "s", "g"}
  RegionNames = {"r1", "r2"}
  Failed = "failed"
  Resources <- MCResources
  Regions <- MCRegions
  Profiles = {"p"}
  ProfileIds = {"i", "j"}
  NoId = "none"
  NoItem = noItem
INVARIANTS
  TypeOK
  ReferencesComplete
  OneAnswerPerRegion
  RoleOfAttachedProfile
PROPERTIES
  KeepsContract
