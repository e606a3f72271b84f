SPECIFICATION Spec
CONSTANTS
 B = 2
 Sizes = {6}
 Prefill = 1
 MaxOpens = 1
 MaxTotal = 14
INVARIANT AvailIsData
CHECK_DEADLOCK FALSE
