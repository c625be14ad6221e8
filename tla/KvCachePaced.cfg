CONSTANTS
  BLOCK_TOKEN_COUNT = 2
  NumColumns = 1
  Budget <- PacedBudget
  Paced = TRUE
  Truncates = "buffered"
SPECIFICATION Spec
INVARIANTS ReadsCorrect Reopenable CountsAgree
PROPERTIES NothingUnlinked CleanCloseCount ImplementsLog
CHECK_DEADLOCK FALSE
