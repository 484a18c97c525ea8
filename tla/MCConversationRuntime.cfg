SPECIFICATION RuntimeSafety
CONSTANTS
  Connectors = {c1, c2}
  None = None
  MaxRequestId = 2
  MaxHistoryMessages = 3
  MaxHistoryBytes = 3
  MaxPromptBytes = 1
  MaxResponseBytes = 1
  PlaceholderBytes = 1
  DeltaSizes = {1, 2}
  DeltaBound = 1
  QueueBound = 2
  Catalogs <- MCCatalogs
  Errors <- MCErrors
INVARIANTS
  RuntimeTypeOK
  TokensReachWorkers
  ConsumerOwnsActive
  RetryGoesToCatalog
  WindowCatchesUp
CHECK_DEADLOCK FALSE
PROPERTY ImplementsLifecycleSafety
