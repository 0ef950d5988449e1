SPECIFICATION ScanSpec
CONSTANTS
  Keys <- MCKeys
  BaseKey = "object"
  ScopeKey = "probe"
  Bucket = "b"
  Patterns <- MCPatterns
  Variables <- MCVariables
  Wholes <- MCWholes
  Wild <- MCWild
  Matches <- MCMatches
  Probe <- MCProbe
  Covers <- MCCovers
  None = "none"
  Policies <- MCPolicies
INVARIANTS
  ScanTypeOK
  ScanComputesAnswer
  PublicVerdictSound
  DenyVerdictSound
  CertainPolicyIsDecided
