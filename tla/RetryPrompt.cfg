SPECIFICATION Spec
CONSTANTS
  Connectors = {c1}
  None = None
  MaxRequestId = 2
  MaxHistoryMessages = 24
  MaxHistoryBytes = 16
  MaxPromptBytes = 1
  MaxResponseBytes = 4
  PlaceholderBytes = 1
  DeltaSizes = {4}
  Errors <- RetryErrors
  MaxLength = 0
  MessageSizes = {1}
  Limits = {24}
INVARIANT RequestEndsWithPrompt
