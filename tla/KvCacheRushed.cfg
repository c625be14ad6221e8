CONSTANTS
  BLOCK_TOKEN_COUNT = 2
  NumColumns = 2
  Budget <- RushedBudget
  Paced = FALSE
  Truncates = "buffered"
  Opens = 1
SPECIFICATION FairReadersSpec
INVARIANTS ReadsNeverWrong SnapshotReads CountsAgree
PROPERTIES CleanCloseCount BlocksPublished
CHECK_DEADLOCK FALSE
