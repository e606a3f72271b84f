SPECIFICATION DriverSpec
CONSTANTS
  Boards <- DriverBoards
  MaxCalls = 3
  LoBoards <- DriverLoBoards
  LoFreqs = {800, 2437, 3900}
  AdiGt <- DriverAdiGt
  GainFiles <- DriverGainFiles
  MaxLo = 3
  Rates = {1920, 7680, 61440}
  Filters <- DriverFilters
  Tuning = {"none", "stub"}
  MaxRates = 4
INVARIANTS RadioAsAsked LosAgree ClocksHold SumsHold
PROPERTIES LoWriteReturns LoSteps
CHECK_DEADLOCK FALSE
