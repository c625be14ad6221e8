CONSTANTS
  BLOCK_TOKEN_COUNT = 2
  NumColumns = 1
  Budget <- OneTruncate
  Paced = FALSE
  Truncates = "any"
SPECIFICATION Spec
PROPERTY StaleFlushRejected
CHECK_DEADLOCK FALSE
