SPECIFICATION LiveSpec
CONSTANTS
 B = 2
 Sizes = {4, 6}
 MaxInflight = 1
 MaxOpens = 2
 EnablesPerOpen = 1
 MaxTotal = 9
INVARIANTS StateInBounds DeliveredIsWritten AccountExact OverrunIsRealUnlessUpset
PROPERTIES ReaderWakes EdgeRestartsWriter WriterAsPromised
CHECK_DEADLOCK FALSE
