SPECIFICATION Spec
CONSTANTS
  Format = "TextLines"
  Output <- TextOutput
  Items <- CodexItems
  PromptSize = 1
  PipeSize = 1
  ErrorLimit = 1
  PrintBound = 1
  Complaints = 0
  Helpers = TRUE
PROPERTIES
  ThreadsEnd
CHECK_DEADLOCK FALSE
