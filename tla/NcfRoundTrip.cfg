CONSTANTS
  Names = {"a", "b"}
  Payloads <- AllPayloads
  HeaderLen = 100
  SchemaLen = 90
  Found <- NoContainers
  Offered <- OneOfEach
  MaxTensors = 1
  WriteBudget <- WriteOnce
  StreamingSafe = TRUE
  Cancels = 0
  Clients = 1
SPECIFICATION Spec
INVARIANT ReadsBack
CHECK_DEADLOCK FALSE
