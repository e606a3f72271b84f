SPECIFICATION LiveSpec
CONSTANTS
 g_burst_len = 2
 Sizes = {1, 2, 3}
 Base = 4
 TxFifoDepth = 2
 FlagLag = 1
INVARIANTS TypeOK BurstsFitRing
PROPERTIES IdleStartsPublished ImplementsReader BurstIsRead
