SPECIFICATION Spec
CONSTANTS
  Unresolved = "unresolved"
  NotGiven = NotGiven
  Invalid = Invalid
  NoBackend = NoBackend
  StageVariables = {"${stageVariables.link}"}
  OtherVariables = {"${other}"}
  Worlds <- MCWorlds
  Versions <- MCVersions
  Regions <- MCRegions
  Domains <- MCDomains
  Links <- MCLinks
  NoApi = NoApi
  NoStage = NoStage
INVARIANTS
  TypeOK
  AccessHonest
  NothingLost
PROPERTIES
  KeepsContract
  Terminates
