SPECIFICATION Spec
CONSTANTS
  Ids <- SomeIds
  Names <- SomeNames
  Secrets = {"s1", "s2"}
  CustomTargets = {"custom"}
  InitialConfigs <- SeparateTargets
  MaxProfiles = 2
  FaultBound = 0
  Crashes = FALSE
PROPERTIES
  DeletesWhatWasChosen
