SPECIFICATION DbSpec
CONSTANTS
  NULL = NULL
  Codes = {0, 1, 5}
  ResultSets <- SmallResultSets
  MaxCommands = 4
  Processes = {"agent", "auth", "read_smoke", "param_smoke"}
INVARIANTS
  CallersTypeOK
  ProcedureGetsItsArguments
  RowsComplete
  OutputsAreTheAnswer
PROPERTIES
  DriverWritesLiveParams
