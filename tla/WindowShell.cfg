SPECIFICATION UsersSpec
CONSTANTS
  MaxInt = 31
  CollapsedVisible = 2
  None = None
  Screens <- MCScreens
  Mascot <- MCMascot
  Panel <- MCPanel
  Places <- MCPlaces
  SavedPlaces <- MCSaved
  OpenedAt <- MCOpenedAt
  Flag = {"positionLocked"}
  Tabs = {0, 2}
  MaxTimers = 2
  Patient = FALSE
  Batched = TRUE
  ShowFails = FALSE
INVARIANTS
  SurfacesFollow
  RestsWhereStored
  MascotComesBackInTime
  ClampIsSound
CHECK_DEADLOCK FALSE
