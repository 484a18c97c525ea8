SPECIFICATION SensorsSpec
CONSTANTS
  Clients = {c1, c2}
  Nobody = Nobody
  InitErrors = {"pawnio_not_installed"}
  Measurements <- MCMeasurements
  Target = {c1}
  Attempts = 2
  MaxAge = 1
  IdleTimeout = 3
  SampleGap = 1
  Prompt = FALSE
  MaxFaults = 0
  MaxTimeouts = 0
  Machines <- MCMachines
  Uses = {1, 4, Absent}
  Absent = Absent
  NoCard = NoCard
  MaxReplugs = 2
INVARIANTS
  ReadingsAreTrue
  CardsAreTrue
PROPERTIES
  UsedStaysUp
  TemperaturesComeBack
CHECK_DEADLOCK FALSE
