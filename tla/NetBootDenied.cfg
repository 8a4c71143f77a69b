\* The API server withdraws its approval between ShouldBoot and BootSpec.
SPECIFICATION Spec
CONSTANTS
    Static = FALSE
    AbsUrls <- MCAbsUrls
    KernelPath = "vmlinuz"
    InitrdPaths <- MCInitrds
    StaticCmdline = "quiet"
    Itoa <- MCItoa
    ExampleHost = "api:4242"
    Machines = {m1}
    FirstAnswers <- OnlyA
    Answers <- ManyAnswers
    OneShot = {}
    Faults = {"api"}
    MaxFaults = 1
PROPERTY BootSpecErrorReboots
CHECK_DEADLOCK FALSE
