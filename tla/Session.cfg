SPECIFICATION LiveSpec
CONSTANTS
 RxModes = {"none", "tcp", "udp"}
 TxModes = {"none", "tcp"}
 Drop = 2
 Prefill = 2
 Faults = {FALSE, TRUE}
INVARIANTS OpensAgree
PROPERTIES EnableCoversBoth LeaverIsDropped HealthySessionEnds
CHECK_DEADLOCK FALSE
