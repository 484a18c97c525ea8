SPECIFICATION ProcessesSpec
CONSTANTS
  Process = {p}
  Changes = {a, b, c, old}
  Managed = managed
  Legacy = {old}
  Earlier = {Missing, Torn, {old}, {old, managed}}
  Faults = {"crash", "save"}
  UnreadableFaults = {"crash", "load", "backup"}
  Launched = {p1, p2, p3}
  LaunchFaults = {"start", "crash"}
  Missing = Missing
  Torn = Torn
  None = None
INVARIANTS
  SettingsAreKept
  OnePrimary
PROPERTIES
  FileSurvives
  NobodyWaitsForEver
  NotifiedIsShown
CHECK_DEADLOCK FALSE
