CONSTANTS
  BLOCK_TOKEN_COUNT = 2
  NumColumns = 1
  Budget <- PartialBlocks
  Paced = TRUE
  Truncates = "buffered"
  Opens = 1
SPECIFICATION ReadersSpec
INVARIANT ReaderSeesPublished
PROPERTY RejectsOnlyByRace
CHECK_DEADLOCK FALSE
