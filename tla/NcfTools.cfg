CONSTANTS
  Names = {"a", "b"}
  Payloads <- AllPayloads
  HeaderLen = 100
  SchemaLen = 90
  Found <- FoundContainers
  Offered = {}
  MaxTensors = 2
  WriteBudget <- WriteTwice
  Inputs <- AllInputs
  Commands = 1
SPECIFICATION Spec
INVARIANTS ConvertedFaithfully VerifyConfirms ArraysAreWhole
CHECK_DEADLOCK FALSE
