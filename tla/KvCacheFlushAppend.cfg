CONSTANTS
  BLOCK_TOKEN_COUNT = 2
  NumColumns = 1
  Budget <- FlushThenAppend
  Paced = TRUE
  Truncates = "buffered"
SPECIFICATION Spec
INVARIANT ReadsCorrect
CHECK_DEADLOCK FALSE
