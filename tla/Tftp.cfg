\* Two transfers to one client, block numbers that wrap, every fault; only the
\* server is fair.
SPECIFICATION FairSpec
CONSTANTS
    Numerals <- MCNumerals
    Transfers = {t1, t2}
    Listener = Listener
    NoTID = NoTID
    Requests <- AllRequests
    Size <- MCSize
    SeqMod = 3
    NumRetries = 3
    Lifetime = 2
    MaxLoss = 1
    Duplicates = TRUE
    SpuriousTimeouts = TRUE
    Faults = {"dial", "handler", "read", "conn", "abort"}
INVARIANTS TypeOK IndInv InOrder DoneMeansComplete SentMeansDelivered LockStep BlockSizeAgreed
PROPERTIES DeliversFile TransferEnds
CHECK_DEADLOCK FALSE
