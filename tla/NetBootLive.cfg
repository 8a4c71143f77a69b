\* API mode: the API server may hang for one machine, or answer it once only, while
\* another boots.
SPECIFICATION FairSpec
CONSTANTS
    Static = FALSE
    AbsUrls <- MCAbsUrls
    KernelPath = "vmlinuz"
    InitrdPaths <- MCInitrds
    StaticCmdline = "quiet"
    Itoa <- MCItoa
    ExampleHost = "api:4242"
    Machines = {m1, m2}
    FirstAnswers <- LiveAnswers
    Answers <- OnlyA
    OneShot <- OnlyB
    Faults = {"restart", "lose", "refused"}
    MaxFaults = 2
INVARIANT OneShotNeverBoots
PROPERTIES DhcpLoopReturns ApprovedMachinesBoot
CHECK_DEADLOCK FALSE
