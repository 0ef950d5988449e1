SPECIFICATION Spec
CONSTANTS
  Malformed = Malformed
  Width <- MCWidth
  WideBelow <- MCWideBelow
  Conditions <- MCConditions
  Principals <- MCPrincipals
INVARIANTS
  TypeOK
  PrincipalVerdict
  AllowVerdict
  DenyVerdict
  CoverageExact
