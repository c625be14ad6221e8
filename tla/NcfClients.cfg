CONSTANTS
  Names = {"a", "b"}
  Payloads <- AllPayloads
  HeaderLen = 100
  SchemaLen = 90
  Found <- FoundContainers
  Offered <- SomeTensors
  MaxTensors = 2
  WriteBudget <- WriteAnew
  StreamingSafe = TRUE
  Cancels = 1
  Clients = 1
SPECIFICATION FairSpec
INVARIANTS OnlyWholeFilesOpen LookupsAgree VerifiedReads RefusesOnlyUnflagged SlicesAreStored FetchedIsRecorded FetchesAllFlagged
PROPERTIES ImplementsPublication StreamEnds
CHECK_DEADLOCK FALSE
