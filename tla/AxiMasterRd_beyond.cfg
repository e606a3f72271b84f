SPECIFICATION Spec
CONSTANTS
 g_burst_len = 2
 Sizes = {3}
 Base = 4
 TxFifoDepth = 2
 FlagLag = 1
INVARIANT NeverBeyond
