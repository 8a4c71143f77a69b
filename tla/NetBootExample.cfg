\* The relative URLs of the second example in README.api.md.
SPECIFICATION FairSpec
CONSTANTS
    Static = FALSE
    AbsUrls <- MCAbsUrls
    KernelPath = "vmlinuz"
    InitrdPaths <- MCInitrds
    StaticCmdline = "quiet"
    Itoa <- MCItoa
    ExampleHost = "api:4242"
    Machines = {m1}
    FirstAnswers <- OnlyRelative
    Answers <- OnlyRelative
    OneShot = {}
    Faults = {}
    MaxFaults = 0
PROPERTY ExampleBoots
CHECK_DEADLOCK FALSE
