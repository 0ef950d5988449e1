SPECIFICATION Spec
CONSTANTS
  Ids = {"v", "s", "g"}
  RegionNames = {"r1", "r2", "us-east-1", "gov"}
  Failed = "failed"
  Worlds <- MCWorlds
  Markers = {"m1", "m2"}
  NoId = "none"
  NoItem = noItem
  GlobalRegion = "us-east-1"
  Commercial = {"r1", "r2", "us-east-1"}
INVARIANTS
  TypeOK
  RelationsHold
PROPERTIES
  KeepsContract
  Ends
