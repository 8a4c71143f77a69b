\* An image server answers with another status than 200.
SPECIFICATION Spec
CONSTANTS
    Static = FALSE
    AbsUrls <- MCAbsUrls
    KernelPath = "vmlinuz"
    InitrdPaths <- MCInitrds
    StaticCmdline = "quiet"
    Itoa <- MCItoa
    ExampleHost = "api:4242"
    Machines = {m1}
    FirstAnswers <- OnlyA
    Answers <- OnlyA
    OneShot = {}
    Faults = {"status"}
    MaxFaults = 1
INVARIANT BootsBlobs
CHECK_DEADLOCK FALSE
