SPECIFICATION LiveSpec
CONSTANTS
 B = 2
 Sizes = {4, 6, 8}
 Prefill = 2
 MaxOpens = 2
 MaxTotal = 14
INVARIANTS TypeOK TxIntact UnreadIsSafe PrefillNeverBlocks
PROPERTIES ReaderAsPromised WriterProceeds
CHECK_DEADLOCK FALSE
