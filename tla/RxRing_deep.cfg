SPECIFICATION Spec
CONSTANTS
 B = 2
 Sizes = {4}
 MaxInflight = 1
 MaxOpens = 1
 EnablesPerOpen = 1
 MaxTotal = 16
INVARIANT OverrunIsReal
CHECK_DEADLOCK FALSE
