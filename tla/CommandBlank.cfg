SPECIFICATION Spec
CONSTANTS
  RegionNames <- MCRegionNames
  Partition <- MCPartition
  Partitions <- MCPartitions
  HomeRegion <- MCHomeRegion
  Fallback <- MCFallback
  NoRegion = "none"
  NoPartition = "malformed"
  Selections <- MCSelections
  Configurations <- MCConfigurations
  Accounts <- MCAccounts
INVARIANTS
  BlankSearchesAllRegions
