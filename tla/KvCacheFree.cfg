CONSTANTS
  BLOCK_TOKEN_COUNT = 2
  NumColumns = 1
  Budget <- FreeBudget
  Paced = FALSE
  Truncates = "any"
SPECIFICATION FairSpec
INVARIANTS TypeOK ChainSound ReaderOpens EntriesSound PendingSound ChunkIdsIncrease
PROPERTIES VisibleMonotone DropEnds BacklogDrains
CHECK_DEADLOCK FALSE
