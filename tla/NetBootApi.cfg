\* API mode, two machines, every kind of answer and of fault.
SPECIFICATION Spec
CONSTANTS
    Static = FALSE
    AbsUrls <- MCAbsUrls
    KernelPath = "vmlinuz"
    InitrdPaths <- MCInitrds
    StaticCmdline = "quiet"
    Itoa <- MCItoa
    ExampleHost = "api:4242"
    Machines = {m1, m2}
    FirstAnswers <- FewAnswers
    Answers <- ApiAnswers
    OneShot = {}
    Faults = {"restart", "api", "power", "lose", "resend", "tftp", "iface", "refused", "status", "cut"}
    MaxFaults = 2
SYMMETRY MachineSymmetry
PROPERTY KeepsPromise
INVARIANTS BootInv IgnoredStaysInRom BootsOneAnswer ConfigServable ProxiesOnlyApiUrls SameAsStatic
CHECK_DEADLOCK FALSE
