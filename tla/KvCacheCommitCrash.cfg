CONSTANTS
  BLOCK_TOKEN_COUNT = 2
  NumColumns = 1
  Budget <- CommitCrash
  Paced = TRUE
  Truncates = "buffered"
SPECIFICATION Spec
INVARIANT ClosedReadable
CHECK_DEADLOCK FALSE
