SPECIFICATION Spec
CONSTANTS
 B = 2
 Sizes = {6}
 MaxInflight = 1
 MaxOpens = 2
 EnablesPerOpen = 1
 MaxTotal = 5
INVARIANT OverrunIsReal
CHECK_DEADLOCK FALSE
