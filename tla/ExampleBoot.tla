---------------------------- MODULE ExampleBoot -----------------------------
(***************************************************************************)
(* Pixiecore in API mode in front of the example API server, which was     *)
(* started with files that static mode could have been given: the kernel,  *)
(* one initrd and the command line.                                        *)
(***************************************************************************)
EXTENDS NetBoot

CONSTANT ExampleHost  \* where the example API server listens

Example == INSTANCE ExampleApi WITH
    Host <- ExampleHost,
    KernelFile <- KernelPath,
    InitrdFile <- InitrdPaths[1],
    Cmdline <- StaticCmdline

\* What its handler API makes of r.Host are two absolute URLs.
ASSUME ExampleAssumption ==
    /\ Example!url("/kernel") \in AbsUrls /\ Example!url("/initrd") \in AbsUrls
    /\ Example!url("/kernel") # Example!url("/initrd")

\* src/example/main.go: "effectively the same as Pixiecore in static mode".  What
\* its handler API answers is good enough to boot, and a machine that it alone
\* has answered for runs the files and the command line that static mode would
\* have given it, after they passed through that answer, Pixiecore's signed URLs
\* and the example's file handlers.
SameAsStatic ==
    \/ Static
    \/ /\ \A g \in given : g.r = Example!API => Approves(g.r)
       /\ \A m \in Machines :
             (pc[m] = "linux" /\ \A g \in given : g.mac = m => g.r = Example!API) =>
                 /\ [i \in DOMAIN loaded[m] |-> Example!serves(loaded[m][i].ref)]
                       = <<KernelPath, InitrdPaths[1]>>
                 /\ config[m].cmdline = StaticCmdline
=============================================================================
