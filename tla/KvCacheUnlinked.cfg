CONSTANTS
  BLOCK_TOKEN_COUNT = 2
  NumColumns = 1
  Budget <- FramesOnly
  Paced = FALSE
  Truncates = "buffered"
SPECIFICATION Spec
PROPERTY NothingUnlinked
CHECK_DEADLOCK FALSE
