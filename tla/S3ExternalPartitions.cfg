SPECIFICATION Spec
CONSTANTS
  WebsiteLabel <- MCWebsiteLabel
  NoRegion = "none"
  NoName = noName
  Unrecognized = "unrecognized"
  Inputs <- MCInputs
  PermutationSuffixes <- MCPermutationSuffixes
  Join <- MCJoin
  ValidNames <- MCValidNames
  ReservedNames <- MCReservedNames
  Cap = 3
  Partition <- MCPartition
  NoPartition = "malformed"
  DefaultRegion = "us"
  Selections <- MCSelections
  Worlds <- MCWorlds
  Accesses <- MCAccesses
  None = none
INVARIANTS
  SelectedRegionsSearched
