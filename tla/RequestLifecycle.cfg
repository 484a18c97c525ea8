SPECIFICATION RuntimeSpec
CONSTANTS
  Connectors = {c1}
  None = None
  MaxRequestId = 2
  MaxHistoryMessages = 3
  MaxHistoryBytes = 3
  MaxPromptBytes = 1
  MaxResponseBytes = 1
  PlaceholderBytes = 1
  DeltaSizes = {2}
  DeltaBound = 1
  QueueBound = 1
  Catalogs = {{c1}}
  Errors <- MCErrors
PROPERTIES
  ImplementsLifecycle
  EndedWorkerClosesRequest
CHECK_DEADLOCK FALSE
