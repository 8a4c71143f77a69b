---------------------------- MODULE ExampleProof ----------------------------
(***************************************************************************)
(* The example API server gives every machine what static mode would: from *)
(* BootsOneAnswer, which NetBootProof proves.                              *)
(***************************************************************************)
EXTENDS ExampleBoot, NetBootProof

USE SMTT(30), Z3T(30), ZenonT(30)

\* The two URLs of the answer, and what the example's handlers serve for them.
LEMMA ExampleServes ==
  /\ Example!serves(Example!url("/kernel")) = KernelPath
  /\ Example!serves(Example!url("/initrd")) = InitrdPaths[1]
  BY ExampleAssumption DEF Example!serves

LEMMA ExampleUrls ==
  /\ urls(Example!API) = <<Example!url("/kernel"), Example!url("/initrd")>>
  /\ Example!API.cmdline = StaticCmdline
  <1> DEFINE k == Example!url("/kernel")
             i == Example!url("/initrd")
  <1>1. /\ Example!API.kernel = k /\ Example!API.initrd = <<i>>
        /\ Example!API.cmdline = StaticCmdline
    BY DEF Example!API
  <1> HIDE DEF k, i
  <1>2. <<k>> \o <<i>> = <<k, i>>
    <2> DEFINE c == <<k>> \o <<i>>
    <2>1. k \in {k, i} /\ <<i>> \in Seq({k, i}) /\ Len(<<i>>) = 1
      OBVIOUS
    <2>2. /\ c \in Seq({k, i}) /\ Len(c) = Len(<<i>>) + 1
          /\ c[1] = k
          /\ \A n \in 2 .. Len(<<i>>) + 1 : n - 1 \in 1 .. Len(<<i>>) /\ c[n] = <<i>>[n - 1]
      BY <2>1, KernelFirst
    <2> HIDE DEF c
    <2>3. Len(c) = 2 /\ c[2] = i
      BY <2>1, <2>2
    <2>4. c = <<k, i>>
      BY <2>2, <2>3
    <2> QED
      BY <2>4 DEF c
  <1> QED
    BY <1>1, <1>2 DEF urls, k, i

\* getSpec accepts the answer of the handler API: its URLs are absolute.
LEMMA ExampleApproves == Approves(Example!API)
  BY ExampleAssumption DEF Approves, Example!API

\* Pixiecore with the example API server is "effectively the same as Pixiecore in
\* static mode": a machine that only it has answered for runs the same files and
\* command line, for any files, host, number of machines, other answers and
\* faults (getSpec, signURL, PxelinuxConfig, File and the example's handlers).
THEOREM ExampleIsStatic == Spec => []SameAsStatic
  <1>1. ASSUME BootsOneAnswer, ~Static, NEW m \in Machines, pc[m] = "linux",
               \A g \in given : g.mac = m => g.r = Example!API
        PROVE  /\ [i \in DOMAIN loaded[m] |-> Example!serves(loaded[m][i].ref)]
                     = <<KernelPath, InitrdPaths[1]>>
               /\ config[m].cmdline = StaticCmdline
    <2> DEFINE refs == [i \in DOMAIN loaded[m] |-> loaded[m][i].ref]
               files == [i \in DOMAIN loaded[m] |-> Example!serves(loaded[m][i].ref)]
    <2>1. refs = urls(Example!API) /\ config[m].cmdline = Example!API.cmdline
      BY <1>1, ZenonT(30) DEF BootsOneAnswer
    <2>2. refs = <<Example!url("/kernel"), Example!url("/initrd")>>
      BY <2>1, ExampleUrls
    <2>3. /\ DOMAIN loaded[m] = 1 .. 2
          /\ loaded[m][1].ref = Example!url("/kernel") /\ loaded[m][2].ref = Example!url("/initrd")
      <3>1. DOMAIN refs = 1 .. 2 /\ refs[1] = Example!url("/kernel") /\ refs[2] = Example!url("/initrd")
        BY <2>2
      <3> QED
        BY <3>1
    <2>4. files = [i \in 1 .. 2 |-> Example!serves(loaded[m][i].ref)]
      BY <2>3
    <2>5. files = <<KernelPath, InitrdPaths[1]>>
      BY <2>3, <2>4, ExampleServes
    <2> QED
      BY <2>1, <2>5, ExampleUrls
  <1>2. BootsOneAnswer => SameAsStatic
    BY <1>1, ExampleApproves DEF SameAsStatic
  <1> QED
    BY <1>2, BootsAreWhole, PTL
=============================================================================
