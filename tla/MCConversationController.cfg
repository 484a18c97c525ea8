SPECIFICATION Spec
CONSTANTS
  Connectors = {c1, c2}
  None = None
  MaxRequestId = 2
  MaxHistoryMessages = 5
  MaxHistoryBytes = 7
  MaxPromptBytes = 2
  MaxResponseBytes = 2
  PlaceholderBytes = 1
  DeltaSizes = {1, 2}
  Errors <- MCErrors
  MaxLength = 2
  MessageSizes = {0, 2, 5, 8}
  Limits = {0, 2, 3, 4, 5}
INVARIANTS
  TypeOK
  HistoryBounded
  PendingIsActive
  RetryIsUsable
  IdleHistoryStartsWithUser
  TrimAgreesWithLoops
PROPERTIES
  SettledMessagesAreFrozen
