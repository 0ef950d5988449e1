SPECIFICATION Spec
CONSTANTS
  Keys <- MCKeys
  BaseKey = "object"
  ScopeKey = "probe"
  Bucket = "b"
  Patterns <- MCPatterns
  Variables <- MCVariables
  Wholes <- MCWholes
  Wild <- MCWild
  Matches <- MCMatches
  Probe <- MCProbe
  Covers <- MCCovers
  None = "none"
  Policies <- MCPolicies
  Acls <- MCAcls
  Omissions <- MCOmissions
  Blocks <- MCBlocks
  Absent = absent
  Malformed = malformed
  Unavailable = unavailable
  NoReport = noReport
INVARIANTS
  TypeOK
  AccessSound
  EvidenceCounts
