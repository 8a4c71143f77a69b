\* Timely answers, NumRetries - 1 losses, no other fault: the file arrives.
SPECIFICATION TimelySpec
CONSTANTS
    Numerals <- MCNumerals
    Transfers = {t1, t2}
    Listener = Listener
    NoTID = NoTID
    Requests <- ValidRequests
    Size <- MCSize
    SeqMod = 3
    NumRetries = 3
    Lifetime = 2
    MaxLoss = 2
    Duplicates = FALSE
    SpuriousTimeouts = FALSE
    Faults = {}
PROPERTY SurvivesLosses
CHECK_DEADLOCK FALSE
