\* Static mode: two machines share the booter's one spec.
SPECIFICATION FairSpec
CONSTANTS
    Static = TRUE
    AbsUrls <- MCAbsUrls
    KernelPath = "vmlinuz"
    InitrdPaths <- MCInitrds
    StaticCmdline = "quiet"
    Itoa <- MCItoa
    ExampleHost = "api:4242"
    Machines = {m1, m2}
    FirstAnswers <- OnlyA
    Answers <- OnlyA
    OneShot = {}
    Faults = {"restart", "power", "refused", "cut"}
    MaxFaults = 2
INVARIANT BootInv
PROPERTY ApprovedMachinesBoot
CHECK_DEADLOCK FALSE
