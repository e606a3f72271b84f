SPECIFICATION LiveSpec
CONSTANTS
 RxModes = {"tcp"}
 TxModes = {"tcp"}
 Drop = 2
 Prefill = 2
 Faults = {TRUE}
PROPERTIES SessionEnds
CHECK_DEADLOCK FALSE
