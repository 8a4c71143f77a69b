\* A file whose length is a multiple of the block size.
SPECIFICATION Spec
CONSTANTS
    Numerals <- MCNumerals
    Transfers = {t1}
    Listener = Listener
    NoTID = NoTID
    Requests <- ExactRequests
    Size = 1000
    SeqMod = 65536
    NumRetries = 5
    Lifetime = 65535
    MaxLoss = 0
    Duplicates = TRUE
    SpuriousTimeouts = FALSE
    Faults = {}
INVARIANT BlobServed
CHECK_DEADLOCK FALSE
