SPECIFICATION Spec
CONSTANTS
  Ids <- SomeIds
  Names <- SomeNames
  Secrets = {"s1", "s2"}
  CustomTargets = {"custom"}
  InitialConfigs <- SeparateTargets
  MaxProfiles = 2
  FaultBound = 2
  Crashes = TRUE
INVARIANT
  StoresAgree
PROPERTIES
  FailureRestores
  AcknowledgedIsStored
  OthersKeepTheirSecrets
