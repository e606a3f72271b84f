SPECIFICATION LiveSpec
CONSTANTS
 g_burst_len = 2
 Sizes = {1, 3}
 Base = 4
 RxFifoDepth = 3
 FlagLag = 1
 MaxOutstanding = 3
INVARIANTS TypeOK BurstsInRing StandbyIsQuiet
PROPERTIES ImplementsWriter DisableStops
