SPECIFICATION FairSpec
CONSTANTS
  Buckets <- MCBuckets
  Nameless <- MCNameless
  Location <- MCLocation
  Constraint <- MCConstraint
  Regions <- MCRegions
  Tokens = {t1, t2}
  NoToken = none
  NoBucket = "no bucket"
INVARIANTS
  TypeOK
  LossesTold
  PlacedRight
PROPERTIES
  KeepsContract
  Terminates
