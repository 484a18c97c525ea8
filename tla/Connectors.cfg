SPECIFICATION ConnectorsSpec
CONSTANTS
  Format = "TextLines"
  Output <- TextOutput
  Items <- CodexItems
  PromptSize = 1
  PipeSize = 1
  ErrorLimit = 1
  PrintBound = 2
  Complaints = 2
  Helpers = FALSE
  CodexLines <- CodexOutput
  CodexPrintBound = 3
  Chunks <- SomeChunks
  Statuses <- SomeStatuses
  MaxStream = 4
  MaxResponse = 3
  WireSize = 2
  ServedBound = 4
INVARIANTS
  AnswersAreWhole
  NothingLeftBehind
PROPERTIES
  ImplementsRun
  HttpRunEnds
CHECK_DEADLOCK FALSE
