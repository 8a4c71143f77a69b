---------------------------- MODULE NetBootProof ----------------------------
(***************************************************************************)
(* What NetBoot.tla says of every number of machines, every set of answers *)
(* the API server may give, every kind of fault and any number of them,    *)
(* proved from the one invariant BootInv.                                  *)
(***************************************************************************)
EXTENDS NetBoot, SequenceTheorems, TLAPS

USE SMTT(30), Z3T(30), ZenonT(30)

-----------------------------------------------------------------------------
(* The operators the model is built from.                                  *)

\* The list of a kernel and its initrds: what is where.
LEMMA KernelFirst ==
  ASSUME NEW S, NEW k \in S, NEW s \in Seq(S)
  PROVE  /\ <<k>> \o s \in Seq(S)
         /\ Len(<<k>> \o s) = Len(s) + 1
         /\ DOMAIN (<<k>> \o s) = 1 .. Len(s) + 1
         /\ (<<k>> \o s)[1] = k
         /\ \A i \in 2 .. Len(s) + 1 : i - 1 \in 1 .. Len(s) /\ (<<k>> \o s)[i] = s[i - 1]
  <1>1. <<k>> \in Seq(S) /\ Len(<<k>>) = 1 /\ <<k>>[1] = k
    OBVIOUS
  <1> QED
    BY <1>1, ConcatProperties, LenProperties

\* getSpec accepts exactly the answers that README.api.md calls good.
LEMMA GoodAnswer == ASSUME NEW r PROVE Approves(r) <=> getSpec(r)
  BY DEF Approves, getSpec

\* No URL of a good answer is mistaken for an error of File.
LEMMA GoodUrls ==
  ASSUME NEW r \in Answer
  PROVE  /\ urls(r) \in Seq(Text)
         /\ Approves(r) => \A i \in 1 .. Len(urls(r)) : urls(r)[i] # NoFile
  <1>1. r.kernel \in Text /\ r.initrd \in Seq(Text)
    BY DEF Answer
  <1>2. urls(r) \in Seq(Text)
    BY <1>1, KernelFirst DEF urls
  <1>3. ASSUME Approves(r), NEW i \in 1 .. Len(urls(r)) PROVE urls(r)[i] # NoFile
    <2>1. CASE i = 1
      <3>1. urls(r)[i] = r.kernel
        BY <1>1, <2>1, KernelFirst DEF urls
      <3> QED
        BY <1>3, <3>1, BooterAssumption, ZenonT(30) DEF Approves
    <2>2. CASE i # 1
      <3>1. i \in 2 .. Len(r.initrd) + 1 /\ Len(r.initrd) \in Nat
        BY <1>1, <1>3, <2>2, KernelFirst DEF urls
      <3>2. i - 1 \in DOMAIN r.initrd /\ urls(r)[i] = r.initrd[i - 1]
        BY <1>1, <3>1, KernelFirst, LenProperties DEF urls
      <3> QED
        BY <1>3, <3>2, BooterAssumption, ZenonT(30) DEF Approves
    <2> QED
      BY <2>1, <2>2
  <1> QED
    BY <1>2, <1>3

\* The same of the paths in static mode.
LEMMA GoodPaths ==
  /\ <<KernelPath>> \o InitrdPaths \in Seq(STRING)
  /\ \A i \in 1 .. Len(<<KernelPath>> \o InitrdPaths) : (<<KernelPath>> \o InitrdPaths)[i] # NoFile
  <1> DEFINE paths == <<KernelPath>> \o InitrdPaths
  <1>1. paths \in Seq(STRING \ {NoFile})
    BY BooterAssumption, KernelFirst
  <1>2. \A i \in 1 .. Len(paths) : paths[i] \in STRING \ {NoFile}
    BY <1>1, ElementOfSeq
  <1>3. paths \in Seq(STRING)
    BY <1>1, SeqMonotonic
  <1> QED
    BY <1>2, <1>3

\* Every answer http.Client.Get returns is an answer; a good one is the server's own.
LEMMA GetReturns ==
  ASSUME NEW a \in Answer, NEW r \in clientGet(a)
  PROVE  r \in Answer /\ (Approves(r) => r = a)
  BY DEF clientGet, Answer, Approves

LEMMA PacketsOK ==
  ASSUME NEW m \in Machines, NEW t \in Nat
  PROVE  /\ \A kind \in {"DISCOVER", "OFFER", "PXEREQ"} : packetOK(Packet(kind, m, t))
  BY DEF packetOK, Packet

LEMMA DeniedIsNotGood == Denied \in Answer /\ ~Approves(Denied) /\ ~getSpec(Denied)
  BY DEF Denied, Answer, Text, Approves, getSpec

\* Decoding undoes one encoding.
LEMMA EncodeOnce ==
  ASSUME NEW id \in Id
  PROVE  /\ EncodeToString(id) \in Id
         /\ canDecode(EncodeToString(id))
         /\ DecodeString(EncodeToString(id)) = id
         /\ EncodeToString(id).key = id.key
  <1> DEFINE e == EncodeToString(id)
  <1>1. e = [enc |-> id.enc + 1, key |-> id.key, ref |-> id.ref]
    BY DEF Id, EncodeToString
  <1>2. e \in Id /\ e.enc = id.enc + 1 /\ e.key = id.key /\ id.enc \in Nat
    BY <1>1 DEF Id
  <1>3. DecodeString(e) = [enc |-> id.enc, key |-> id.key, ref |-> id.ref]
    BY <1>1, <1>2 DEF DecodeString
  <1>4. id = [enc |-> id.enc, key |-> id.key, ref |-> id.ref]
    BY DEF Id
  <1> QED
    BY <1>2, <1>3, <1>4 DEF canDecode

\* The key that signed a URL gets it back, and no other key does.
LEMMA SignedUrl ==
  ASSUME NEW key \in Nat, NEW u \in Text
  PROVE  /\ signURL(key, u) \in Id /\ signURL(key, u).key = key
         /\ getURL(key, signURL(key, u)) = u
  BY DEF signURL, getURL, Id

LEMMA OtherKey ==
  ASSUME NEW key, NEW id, getURL(key, id) # NoFile PROVE id.key = key
  BY DEF getURL

\* StaticBooter and File agree on the number of every initrd.
LEMMA StaticIds ==
  /\ StaticBooter.kernel \in Id /\ staticFile(StaticBooter.kernel) = KernelPath
  /\ StaticBooter.initrd \in Seq(Id) /\ Len(StaticBooter.initrd) = Len(InitrdPaths)
  /\ \A i \in 1 .. Len(InitrdPaths) : staticFile(StaticBooter.initrd[i]) = InitrdPaths[i]
  /\ StaticBooter.cmdline = StaticCmdline
  <1>1. StaticBooter.kernel \in Id /\ staticFile(StaticBooter.kernel) = KernelPath
    <2>1. StaticBooter.kernel = [enc |-> 0, key |-> 0, ref |-> "kernel"]
      BY DEF StaticBooter
    <2>2. StaticBooter.kernel \in Id
      BY <2>1 DEF Id, Text
    <2>3. ASSUME NEW id, id.enc = 0, id.ref = "kernel" PROVE staticFile(id) = KernelPath
      <3>1. ~(id.enc = 0 /\ \E i \in DOMAIN Itoa : Itoa[i] = id.ref)
        BY <2>3, BooterAssumption
      <3> QED
        BY <2>3, <3>1 DEF staticFile
    <2> QED
      BY <2>1, <2>2, <2>3
  <1>2. Len(InitrdPaths) \in Nat /\ DOMAIN InitrdPaths = 1 .. Len(InitrdPaths)
    BY BooterAssumption, LenProperties
  <1>3. ASSUME NEW i \in 1 .. Len(InitrdPaths)
        PROVE  /\ StaticBooter.initrd[i] = [enc |-> 0, key |-> 0, ref |-> Itoa[i]]
               /\ StaticBooter.initrd[i] \in Id
               /\ staticFile(StaticBooter.initrd[i]) = InitrdPaths[i]
    <2>1. StaticBooter.initrd[i] = [enc |-> 0, key |-> 0, ref |-> Itoa[i]]
      BY <1>2 DEF StaticBooter
    <2>2. Itoa[i] \in STRING /\ Itoa[i] # "kernel" /\ DOMAIN Itoa = 1 .. Len(InitrdPaths)
      BY BooterAssumption
    <2>3. \A j \in DOMAIN Itoa : Itoa[j] = Itoa[i] => j = i
      BY <2>2, BooterAssumption
    <2>4. (CHOOSE j \in DOMAIN Itoa : Itoa[j] = Itoa[i]) = i
      BY <2>2, <2>3
    <2>5. staticFile(StaticBooter.initrd[i]) = InitrdPaths[i]
      <3> DEFINE id == StaticBooter.initrd[i]
      <3>1. id.enc = 0 /\ id.ref = Itoa[i]
        BY <2>1
      <3>2. ~(id.enc = 0 /\ id.ref = "kernel")
        BY <2>2, <3>1
      <3>3. id.enc = 0 /\ \E j \in DOMAIN Itoa : Itoa[j] = id.ref
        BY <2>2, <3>1
      <3>4. (CHOOSE j \in DOMAIN Itoa : Itoa[j] = id.ref) = i
        BY <2>4, <3>1
      <3> HIDE DEF id
      <3>5. staticFile(id) = InitrdPaths[CHOOSE j \in DOMAIN Itoa : Itoa[j] = id.ref]
        BY <3>2, <3>3 DEF staticFile
      <3> QED
        BY <3>4, <3>5, ZenonT(30) DEF id
    <2>6. StaticBooter.initrd[i] \in Id
      <3>1. Itoa[i] \in Text
        BY <2>2, ZenonT(30) DEF Text
      <3> QED
        BY <2>1, <3>1 DEF Id
    <2> QED
      BY <2>1, <2>5, <2>6
  <1>4. StaticBooter.initrd \in Seq(Id) /\ Len(StaticBooter.initrd) = Len(InitrdPaths)
    <2>1. StaticBooter.initrd \in [1 .. Len(InitrdPaths) -> Id]
      BY <1>2, <1>3 DEF StaticBooter
    <2> QED
      BY <1>2, <2>1, IsASeq, LenProperties
  <1> QED
    BY <1>1, <1>3, <1>4, ZenonT(30) DEF StaticBooter

-----------------------------------------------------------------------------
(* The invariant, action by action.                                        *)

LEMMA InitBoot == Init => BootInv
  <1> SUFFICES ASSUME Init PROVE BootInv
    OBVIOUS
  <1>1. NoConfig \in Config
    BY DEF NoConfig, Config, Text
  <1>2. TypeOK
    <2>1. Len(<<>>) <= Len(NoConfig.files)
      BY DEF NoConfig
    <2>2. api \in [Machines -> FirstAnswers \cup Answers \cup {Denied}]
      BY DEF Init
    <2>3. <<>> \in Seq(Loaded)
      OBVIOUS
    <2> QED
      BY <1>1, <2>1, <2>2, <2>3, NetBootAssumption DEF Init, TypeOK, Stage
  <1>3. \A m \in Machines : MachineInv(m)
    BY DEF Init, MachineInv
  <1> QED
    BY <1>2, <1>3 DEF Init, BootInv, ProxiesOnlyApiUrls

\* What the API server has said stays said.
LEMMA StaysApproved ==
  ASSUME NEW m, given \subseteq given', approved(m) PROVE approved(m)'
  BY DEF approved

\* A machine that keeps its configuration and what it loaded, and only goes on.
LEMMA MachineGoesOn ==
  ASSUME NEW m \in Machines, MachineInv(m), given \subseteq given',
         config'[m] = config[m], loaded'[m] = loaded[m],
         pc'[m] # "rom" /\ pc[m] = "rom" => approved(m),
         pc'[m] = "linux" /\ pc[m] # "linux" => Len(loaded[m]) = Len(config[m].files),
         pc'[m] \in {"load", "linux"} => pc[m] \in {"load", "linux"},
         pc[m] \in {"load", "linux", "failed"} => pc'[m] \in {"load", "linux", "failed"}
  PROVE  MachineInv(m)'
  <1>1. pc'[m] # "rom" => approved(m)'
    BY StaysApproved DEF MachineInv
  <1>2. pc'[m] = "linux" => Len(loaded'[m]) = Len(config'[m].files)
    BY DEF MachineInv
  <1>3. ASSUME loadsOneAnswer(m) PROVE loadsOneAnswer(m)'
    BY <1>3, ZenonT(30) DEF loadsOneAnswer, loads
  <1> QED
    BY <1>1, <1>2, <1>3 DEF MachineInv

\* m goes on to its next step, or stays where it is.
goesOn(m) ==
    /\ pc'[m] # "rom" /\ pc[m] = "rom" => approved(m)
    /\ pc'[m] = "linux" /\ pc[m] # "linux" => Len(loaded[m]) = Len(config[m].files)
    /\ pc'[m] \in {"load", "linux"} => pc[m] \in {"load", "linux"}
    /\ pc[m] \in {"load", "linux", "failed"} => pc'[m] \in {"load", "linux", "failed"}

\* What is enough for a step that gives no machine a configuration or a file.
LEMMA NothingLoaded ==
  ASSUME BootInv, TypeOK', spec' = StaticBooter,
         given \subseteq given', fetched' = fetched, config' = config, loaded' = loaded,
         \A p \in net' : p.kind = "OFFER" => p \in net \/ approved(p.mac)',
         \A m \in Machines : goesOn(m)
  PROVE  BootInv'
  <1>1. \A m \in Machines : MachineInv(m)'
    BY MachineGoesOn DEF BootInv, goesOn
  <1>2. ASSUME NEW p \in net', p.kind = "OFFER" PROVE approved(p.mac)'
    BY <1>2, StaysApproved DEF BootInv
  <1>3. ProxiesOnlyApiUrls'
    BY DEF BootInv, ProxiesOnlyApiUrls
  <1> QED
    BY <1>1, <1>2, <1>3 DEF BootInv

\* The Booter is asked: the answer is on record, and nothing else is forgotten.
LEMMA AskRecords ==
  ASSUME TypeOK, NEW m \in Machines, NEW r \in Responses(m), Ask(m, r)
  PROVE  /\ r \in Answer
         /\ api' \in [Machines -> FirstAnswers \cup Answers \cup {Denied}]
         /\ given \subseteq given'
         /\ given' \subseteq Response
         /\ ~Static => [mac |-> m, by |-> inc, r |-> r] \in given'
         /\ ShouldBoot(r) => approved(m)'
         /\ ShouldBoot(r) => Static \/ Approves(r)
  <1>1. api[m] \in Answer /\ api[m] \in FirstAnswers \cup Answers \cup {Denied}
    BY NetBootAssumption, DeniedIsNotGood DEF TypeOK
  <1>2. r \in Answer
    BY <1>1, GetReturns, DeniedIsNotGood DEF Responses
  <1>3. ShouldBoot(r) => Static \/ Approves(r)
    BY GoodAnswer DEF ShouldBoot
  <1>4. CASE Static
    BY <1>2, <1>3, <1>4 DEF Ask, TypeOK, approved
  <1>5. CASE ~Static
    <2>1. /\ api' = [api EXCEPT ![m] = IF @ \in OneShot THEN Denied ELSE @]
          /\ given' = given \cup {[mac |-> m, by |-> inc, r |-> r]}
      BY <1>5 DEF Ask
    <2>2. api' \in [Machines -> FirstAnswers \cup Answers \cup {Denied}]
      BY <1>1, <2>1 DEF TypeOK
    <2>3. [mac |-> m, by |-> inc, r |-> r] \in Response
      BY <1>2 DEF TypeOK, Response
    <2>4. given' \subseteq Response
      BY <2>1, <2>3 DEF TypeOK
    <2>5. ShouldBoot(r) => approved(m)'
      <3>1. ASSUME Approves(r) PROVE \E g \in given' : g.mac = m /\ Approves(g.r)
        <4> DEFINE h == [mac |-> m, by |-> inc, r |-> r]
        <4>1. h \in given' /\ h.mac = m /\ h.r = r
          BY <2>1
        <4> HIDE DEF h
        <4> QED
          BY <3>1, <4>1
      <3> QED
        BY <1>3, <1>5, <3>1 DEF approved
    <2> QED
      BY <1>2, <1>3, <2>1, <2>2, <2>4, <2>5
  <1> QED
    BY <1>4, <1>5

\* The two packet loops and the network.
LEMMA StepDhcpRead ==
  ASSUME BootInv, NEW p \in net, DhcpRead(p) PROVE BootInv'
  <1>1. TypeOK'
    BY DEF BootInv, TypeOK, packetOK, DhcpRead, machineVars
  <1> QED
    BY <1>1, NothingLoaded DEF BootInv, DhcpRead, machineVars, goesOn

LEMMA StepDhcpAnswer ==
  ASSUME BootInv, DhcpAnswer PROVE BootInv'
  <1>1. TypeOK /\ dhcp.mac \in Machines /\ dhcp.tid \in Nat
    BY DEF BootInv, TypeOK, DhcpAnswer
  <1>2. PICK m \in Machines, t \in Nat : m = dhcp.mac /\ t = dhcp.tid
    BY <1>1
  <1>3. PICK r \in Responses(m) :
          /\ Ask(m, r)
          /\ \/ ~ShouldBoot(r) /\ net' = net /\ faults' = faults
             \/ ShouldBoot(r) /\ fault("iface") /\ net' = net
             \/ ShouldBoot(r) /\ net' = net \cup {Packet("OFFER", m, t)} /\ faults' = faults
    BY <1>2 DEF DhcpAnswer
  <1>4. /\ api' \in [Machines -> FirstAnswers \cup Answers \cup {Denied}]
        /\ given \subseteq given'
        /\ given' \subseteq Response
        /\ ShouldBoot(r) => approved(m)'
    BY <1>1, <1>3, AskRecords, ZenonT(30)
  <1>5. net' = net \/ (net' = net \cup {Packet("OFFER", m, t)} /\ ShouldBoot(r))
    BY <1>3
  <1>6. faults' \in 0 .. MaxFaults
    BY <1>3, NetBootAssumption DEF BootInv, TypeOK, fault
  <1>7. \A p \in net' : p \in net \/ (ShouldBoot(r) /\ p = Packet("OFFER", m, t))
    BY <1>5
  <1>8. TypeOK'
    <2>1. \A p \in net' : packetOK(p)
      BY <1>1, <1>7, PacketsOK DEF TypeOK
    <2> QED
      BY <1>1, <1>4, <1>6, <2>1 DEF TypeOK, DhcpAnswer, machineVars
  <1>9. \A p \in net' : p.kind = "OFFER" => p \in net \/ approved(p.mac)'
    BY <1>4, <1>7 DEF Packet
  <1> QED
    BY <1>4, <1>8, <1>9, NothingLoaded DEF BootInv, DhcpAnswer, machineVars, goesOn

LEMMA StepServePXE ==
  ASSUME BootInv, NEW p \in net, ServePXE(p) PROVE BootInv'
  <1>1. faults' \in 0 .. MaxFaults
    BY NetBootAssumption DEF BootInv, TypeOK, ServePXE, fault
  <1>2. \A q \in net' : q \in net \/ q = ReplyPXE(p)
    BY DEF ServePXE
  <1>3. TypeOK'
    <2>1. \A q \in net' : packetOK(q)
      <3>1. packetOK(p)
        BY DEF BootInv, TypeOK
      <3>2. packetOK(ReplyPXE(p))
        BY <3>1 DEF packetOK, ReplyPXE
      <3> QED
        BY <1>2, <3>2 DEF BootInv, TypeOK
    <2> QED
      BY <1>1, <2>1 DEF BootInv, TypeOK, ServePXE, machineVars
  <1>4. \A q \in net' : q.kind = "OFFER" => q \in net
    BY <1>2 DEF ReplyPXE
  <1> QED
    BY <1>3, <1>4, NothingLoaded DEF BootInv, ServePXE, machineVars, goesOn

LEMMA StepLose ==
  ASSUME BootInv, Lose PROVE BootInv'
  <1>1. faults' \in 0 .. MaxFaults /\ net' \subseteq net
    BY NetBootAssumption DEF BootInv, TypeOK, Lose, fault
  <1>2. TypeOK'
    BY <1>1 DEF BootInv, TypeOK, Lose, machineVars
  <1> QED
    BY <1>1, <1>2, NothingLoaded DEF BootInv, Lose, machineVars, goesOn

LEMMA StepApiChanges ==
  ASSUME BootInv, NEW m \in Machines, ApiChanges(m) PROVE BootInv'
  <1>1. faults' \in 0 .. MaxFaults
    BY NetBootAssumption DEF BootInv, TypeOK, ApiChanges, fault
  <1>2. TypeOK'
    <2>1. api' \in [Machines -> FirstAnswers \cup Answers \cup {Denied}]
      BY DEF BootInv, TypeOK, ApiChanges
    <2> QED
      BY <1>1, <2>1 DEF BootInv, TypeOK, ApiChanges, machineVars
  <1> QED
    BY <1>2, NothingLoaded DEF BootInv, ApiChanges, machineVars, goesOn

\* The machine's steps from its ROM to the configuration.
LEMMA StepRomSends ==
  ASSUME BootInv, NEW m \in Machines, RomSends(m) PROVE BootInv'
  <1>1. faults' \in 0 .. MaxFaults
    BY NetBootAssumption DEF BootInv, TypeOK, RomSends, fault
  <1>2. \A q \in net' : q \in net \/ q = Packet("DISCOVER", m, tid[m]) \/ q = Packet("PXEREQ", m, tid[m])
    BY DEF RomSends
  <1>3. TypeOK'
    <2>1. \A q \in net' : packetOK(q)
      BY <1>2, PacketsOK, ZenonT(30) DEF BootInv, TypeOK
    <2> QED
      BY <1>1, <2>1 DEF BootInv, TypeOK, RomSends, machineVars
  <1>4. \A q \in net' : q.kind = "OFFER" => q \in net
    BY <1>2 DEF Packet
  <1> QED
    BY <1>3, <1>4, NothingLoaded DEF BootInv, RomSends, machineVars, goesOn

LEMMA StepRomReceives ==
  ASSUME BootInv, NEW m \in Machines, NEW p \in net, RomReceives(m, p) PROVE BootInv'
  <1>1. TypeOK'
    BY ZenonT(30) DEF BootInv, TypeOK, packetOK, Stage, RomReceives, advance
  <1>2. pc[m] = "rom" => approved(m)
    BY DEF BootInv, RomReceives, advance
  <1>3. \A n \in Machines : goesOn(n)
    BY <1>2 DEF BootInv, TypeOK, RomReceives, advance, goesOn
  <1> QED
    BY <1>1, <1>3, NothingLoaded, ZenonT(30) DEF BootInv, RomReceives

\* Steps that only move one machine on, before it has a configuration ...
LEMMA StepPcOnly ==
  ASSUME BootInv, NEW m \in Machines,
         Ldlinux(m) \/ ConfigRequest(m) \/ Tftp(m) \/ StartLinux(m)
  PROVE  BootInv'
  <1>1. /\ spec' = spec /\ given' = given /\ fetched' = fetched /\ net' = net
        /\ config' = config /\ loaded' = loaded
    BY DEF Ldlinux, ConfigRequest, Tftp, StartLinux
  <1>2. PICK from, to \in {"tftp", "ldlinux", "uuid", "config", "asking", "load", "linux"} :
          /\ advance(m, from, to)
          /\ from = "load" <=> to = "linux"
          /\ to # "load" /\ from # "linux"
          /\ to = "linux" => Len(loaded[m]) = Len(config[m].files)
    BY DEF Ldlinux, ConfigRequest, Tftp, StartLinux
  <1>3. TypeOK'
    BY <1>2 DEF BootInv, TypeOK, Stage, Ldlinux, ConfigRequest, Tftp, StartLinux, advance
  <1>4. \A n \in Machines : goesOn(n)
    BY <1>2 DEF BootInv, TypeOK, advance, goesOn
  <1> QED
    BY <1>1, <1>3, <1>4, NothingLoaded DEF BootInv

\* ... and a restart, which moves many.
LEMMA StepRestart ==
  ASSUME BootInv, Restart PROVE BootInv'
  <1>1. faults' \in 0 .. MaxFaults
    BY NetBootAssumption DEF BootInv, TypeOK, Restart, fault
  <1>2. PICK cut \in SUBSET {m \in Machines : pc[m] \in {"ldlinux", "uuid", "config", "load"}} :
          pc' = [m \in Machines |-> IF m \in cut \/ pc[m] = "asking" THEN "failed" ELSE pc[m]]
    BY DEF Restart
  <1>3. TypeOK'
    <2>1. pc' \in [Machines -> Stage]
      BY <1>2 DEF BootInv, TypeOK, Stage
    <2> QED
      BY <1>1, <2>1 DEF BootInv, TypeOK, Restart
  <1>4. \A n \in Machines : goesOn(n)
    BY <1>2, ZenonT(30) DEF BootInv, TypeOK, goesOn
  <1> QED
    BY <1>3, <1>4, NothingLoaded DEF BootInv, Restart

\* The other machines when one of them changes.
LEMMA OthersStay ==
  ASSUME BootInv, NEW m \in Machines, given \subseteq given',
         \A n \in Machines \ {m} :
            pc'[n] = pc[n] /\ config'[n] = config[n] /\ loaded'[n] = loaded[n]
  PROVE  \A n \in Machines \ {m} : MachineInv(n)'
  BY MachineGoesOn DEF BootInv

\* A machine starts over, with nothing left of the boot before.
LEMMA StepBootAgain ==
  ASSUME BootInv, NEW m \in Machines, TftpFails(m) \/ Reboot(m) \/ PowerCycle(m)
  PROVE  BootInv'
  <1>1. faults' \in 0 .. MaxFaults
    BY NetBootAssumption DEF BootInv, TypeOK, TftpFails, Reboot, PowerCycle, fault
  <1>2. /\ pc' = [pc EXCEPT ![m] = "rom"]
        /\ tid' = [tid EXCEPT ![m] = @ + 1]
        /\ reboots' = [reboots EXCEPT ![m] = FALSE]
        /\ config' = [config EXCEPT ![m] = NoConfig]
        /\ loaded' = [loaded EXCEPT ![m] = <<>>]
        /\ inc' = inc /\ spec' = spec /\ dhcp' = dhcp /\ net' = net /\ api' = api
        /\ given' = given /\ fetched' = fetched
    BY DEF TftpFails, Reboot, PowerCycle, bootAgain
  <1>3. NoConfig \in Config /\ Len(<<>>) <= Len(NoConfig.files)
    BY DEF NoConfig, Config, Text
  <1>4. TypeOK'
    <2>1. /\ config' \in [Machines -> Config]
          /\ loaded' \in [Machines -> Seq(Loaded)]
      BY <1>2, <1>3 DEF BootInv, TypeOK
    <2>2. \A n \in Machines : Len(loaded'[n]) <= Len(config'[n].files)
      BY <1>2, <1>3 DEF BootInv, TypeOK
    <2> QED
      BY <1>1, <1>2, <2>1, <2>2 DEF BootInv, TypeOK, Stage
  <1>5. MachineInv(m)'
    BY <1>2 DEF BootInv, TypeOK, MachineInv
  <1>6. \A n \in Machines : MachineInv(n)'
    BY <1>2, <1>5, OthersStay DEF BootInv, TypeOK
  <1>7. \A p \in net' : p.kind = "OFFER" => approved(p.mac)'
    BY <1>2 DEF BootInv, approved
  <1> QED
    BY <1>2, <1>4, <1>6, <1>7 DEF BootInv, ProxiesOnlyApiUrls

\* PxelinuxConfig encodes every ID of a boot spec once, in its place.
encoded(s) ==
    <<EncodeToString(s.kernel)>> \o [i \in DOMAIN s.initrd |-> EncodeToString(s.initrd[i])]

\* The IDs of the boot spec s stand for these files.
standFor(key, s, kernel, initrd) ==
    /\ s.kernel \in Id /\ File(key, s.kernel) = kernel /\ (Static \/ s.kernel.key = key)
    /\ s.initrd \in Seq(Id) /\ Len(s.initrd) = Len(initrd)
    /\ \A i \in 1 .. Len(initrd) :
          File(key, s.initrd[i]) = initrd[i] /\ (Static \/ s.initrd[i].key = key)

LEMMA EncodedInPlace ==
  ASSUME NEW key, NEW s, NEW kernel \in Text, NEW initrd \in Seq(Text),
         standFor(key, s, kernel, initrd)
  PROVE  served(key, encoded(s), <<kernel>> \o initrd)
  <1> USE DEF standFor
  <1> DEFINE k == EncodeToString(s.kernel)
             is == [i \in DOMAIN s.initrd |-> EncodeToString(s.initrd[i])]
             N == Len(initrd)
  <1>1. N \in Nat /\ DOMAIN s.initrd = 1 .. N /\ \A i \in 1 .. N : s.initrd[i] \in Id
    BY LenProperties, ElementOfSeq
  <1>2. k \in Id /\ canDecode(k) /\ DecodeString(k) = s.kernel /\ k.key = s.kernel.key
    BY EncodeOnce
  <1>3. \A i \in 1 .. N : /\ is[i] \in Id /\ canDecode(is[i])
                          /\ DecodeString(is[i]) = s.initrd[i] /\ is[i].key = s.initrd[i].key
    BY <1>1, EncodeOnce
  <1>4. is \in [1 .. N -> Id]
    BY <1>1, <1>3
  <1>5. is \in Seq(Id) /\ Len(is) = N
    BY <1>1, <1>4, IsASeq, LenProperties
  <1>6. encoded(s) = <<k>> \o is
    BY DEF encoded
  <1> HIDE DEF k, is, N
  <1>7. /\ <<k>> \o is \in Seq(Id) /\ Len(<<k>> \o is) = N + 1
        /\ (<<k>> \o is)[1] = k
        /\ \A i \in 2 .. N + 1 : i - 1 \in 1 .. N /\ (<<k>> \o is)[i] = is[i - 1]
    BY <1>2, <1>5, KernelFirst
  <1>8. /\ Len(<<kernel>> \o initrd) = N + 1
        /\ (<<kernel>> \o initrd)[1] = kernel
        /\ \A i \in 2 .. N + 1 : (<<kernel>> \o initrd)[i] = initrd[i - 1]
    BY KernelFirst DEF N
  <1>9. ASSUME NEW i \in 1 .. N + 1
        PROVE  /\ canDecode(encoded(s)[i])
               /\ File(key, DecodeString(encoded(s)[i])) = (<<kernel>> \o initrd)[i]
               /\ Static \/ encoded(s)[i].key = key
    <2>1. CASE i = 1
      BY <1>2, <1>6, <1>7, <1>8, <2>1
    <2>2. CASE i # 1
      <3>1. i \in 2 .. N + 1 /\ i - 1 \in 1 .. N
        BY <1>1, <2>2
      <3>2. encoded(s)[i] = is[i - 1] /\ (<<kernel>> \o initrd)[i] = initrd[i - 1]
        BY <1>6, <1>7, <1>8, <3>1
      <3> QED
        BY <1>3, <3>1, <3>2 DEF N
    <2> QED
      BY <2>1, <2>2, ZenonT(30)
  <1> QED
    BY <1>6, <1>7, <1>8, <1>9 DEF served

\* What BootSpec returns can be served: in static mode ...
LEMMA StaticSpecServed ==
  ASSUME NEW key, NEW r, Static
  PROVE  LET s == BootSpec(key, StaticBooter, r)
         IN  served(key, encoded(s), <<KernelPath>> \o InitrdPaths) /\ s.cmdline = StaticCmdline
  <1>1. BootSpec(key, StaticBooter, r) = StaticBooter
    BY DEF BootSpec
  <1>2. /\ File(key, StaticBooter.kernel) = KernelPath
        /\ \A i \in 1 .. Len(InitrdPaths) : File(key, StaticBooter.initrd[i]) = InitrdPaths[i]
    BY StaticIds DEF File
  <1>3. KernelPath \in Text /\ InitrdPaths \in Seq(Text)
    BY BooterAssumption, SeqMonotonic, ZenonT(30) DEF Text
  <1>4. standFor(key, StaticBooter, KernelPath, InitrdPaths)
    BY <1>2, StaticIds DEF standFor
  <1> QED
    BY <1>1, <1>3, <1>4, StaticIds, EncodedInPlace

\* ... and in API mode.
LEMMA RemoteSpecServed ==
  ASSUME NEW key \in Nat, NEW r \in Answer, ~Static
  PROVE  LET s == BootSpec(key, StaticBooter, r)
         IN  served(key, encoded(s), urls(r)) /\ s.cmdline = r.cmdline
  <1> DEFINE s == BootSpec(key, StaticBooter, r)
  <1>1. r.kernel \in Text /\ r.initrd \in Seq(Text)
    BY DEF Answer
  <1>2. /\ Len(r.initrd) \in Nat /\ DOMAIN r.initrd = 1 .. Len(r.initrd)
        /\ \A i \in 1 .. Len(r.initrd) : r.initrd[i] \in Text
    BY <1>1, LenProperties, ElementOfSeq
  <1>3. /\ s.kernel = signURL(key, r.kernel)
        /\ s.initrd = [i \in 1 .. Len(r.initrd) |-> signURL(key, r.initrd[i])]
        /\ s.cmdline = r.cmdline
    BY <1>2 DEF BootSpec
  <1> HIDE DEF s
  <1>4. s.kernel \in Id /\ s.kernel.key = key /\ File(key, s.kernel) = r.kernel
    BY <1>1, <1>3, SignedUrl DEF File
  <1>5. \A i \in 1 .. Len(r.initrd) :
           s.initrd[i] \in Id /\ s.initrd[i].key = key /\ File(key, s.initrd[i]) = r.initrd[i]
    BY <1>2, <1>3, SignedUrl DEF File
  <1>6. s.initrd \in [1 .. Len(r.initrd) -> Id]
    BY <1>3, <1>5, ZenonT(30)
  <1>7. s.initrd \in Seq(Id) /\ Len(s.initrd) = Len(r.initrd)
    BY <1>2, <1>6, IsASeq, LenProperties
  <1>8. standFor(key, s, r.kernel, r.initrd)
    BY <1>4, <1>5, <1>7 DEF standFor
  <1> QED
    BY <1>1, <1>3, <1>8, EncodedInPlace DEF urls, s

\* PxelinuxConfig sends the machine to its disk, or gives it a configuration.
LEMMA StepPxelinuxConfig ==
  ASSUME BootInv, NEW m \in Machines, PxelinuxConfig(m) PROVE BootInv'
  <1> USE DEF specCopied
  <1>1. /\ inc' = inc /\ dhcp' = dhcp /\ net' = net /\ tid' = tid /\ reboots' = reboots
        /\ loaded' = loaded /\ fetched' = fetched /\ faults' = faults
        /\ pc[m] = "asking" /\ TypeOK /\ spec = StaticBooter
    BY DEF PxelinuxConfig, BootInv
  <1>2. PICK r \in Responses(m) :
          /\ Ask(m, r)
          /\ \/ /\ ~ShouldBoot(r)
                /\ pc' = [pc EXCEPT ![m] = "local"]
                /\ config' = config /\ spec' = spec
             \/ /\ ShouldBoot(r)
                /\ config' = [config EXCEPT ![m] =
                      [by |-> inc, files |-> encoded(BootSpec(inc, spec, r)),
                       cmdline |-> BootSpec(inc, spec, r).cmdline]]
                /\ spec' = spec
                /\ pc' = [pc EXCEPT ![m] = "load"]
    BY DEF PxelinuxConfig, encoded
  <1>3. /\ r \in Answer
        /\ api' \in [Machines -> FirstAnswers \cup Answers \cup {Denied}]
        /\ given \subseteq given' /\ given' \subseteq Response
        /\ ~Static => [mac |-> m, by |-> inc, r |-> r] \in given'
        /\ ShouldBoot(r) => Static \/ Approves(r)
    BY <1>1, <1>2, AskRecords
  <1>4. CASE ~ShouldBoot(r)
    <2>1. pc' = [pc EXCEPT ![m] = "local"] /\ config' = config /\ spec' = spec
      BY <1>2, <1>4
    <2>2. TypeOK'
      BY <1>1, <1>3, <2>1 DEF TypeOK, Stage
    <2>3. \A n \in Machines : goesOn(n)
      BY <1>1, <2>1 DEF TypeOK, goesOn
    <2> QED
      BY <1>1, <1>3, <2>1, <2>2, <2>3, NothingLoaded
  <1>5. CASE ShouldBoot(r)
    <2> DEFINE s == BootSpec(inc, StaticBooter, r)
               c == [by |-> inc, files |-> encoded(s), cmdline |-> s.cmdline]
    <2>1. config' = [config EXCEPT ![m] = c] /\ pc' = [pc EXCEPT ![m] = "load"] /\ spec' = spec
      BY <1>1, <1>2, <1>5
    <2>2. inc \in Nat
      BY <1>1 DEF TypeOK
    <2>3. /\ Static => served(inc, encoded(s), <<KernelPath>> \o InitrdPaths) /\ s.cmdline = StaticCmdline
          /\ ~Static => served(inc, encoded(s), urls(r)) /\ s.cmdline = r.cmdline
      BY <1>3, <2>2, StaticSpecServed, RemoteSpecServed, ZenonT(30)
    <2> HIDE DEF s
    <2>4. encoded(s) \in Seq(Id)
      BY <2>3 DEF served
    <2>5. s.cmdline \in Text
      BY <1>3, <2>3, BooterAssumption, ZenonT(30) DEF Answer, Text
    <2>6. c \in Config
      BY <2>2, <2>4, <2>5 DEF Config
    <2>7. loaded[m] = <<>>
      BY <1>1, ZenonT(30) DEF BootInv, MachineInv
    <2>8. TypeOK'
      <3>1. config' \in [Machines -> Config] /\ pc' \in [Machines -> Stage]
        BY <1>1, <2>1, <2>6 DEF TypeOK, Stage
      <3>2. \A n \in Machines : Len(loaded'[n]) <= Len(config'[n].files)
        <4>1. Len(encoded(s)) \in Nat /\ Len(<<>>) = 0
          BY <2>4, LenProperties
        <4> HIDE DEF c
        <4>2. c.files = encoded(s)
          BY DEF c
        <4> QED
          BY <1>1, <2>1, <2>7, <4>1, <4>2 DEF TypeOK
      <3> QED
        BY <1>1, <1>3, <3>1, <3>2 DEF TypeOK
    <2>9. loadsOneAnswer(m)'
      <3>1. config'[m] = c /\ loaded'[m] = <<>>
        BY <1>1, <2>1, <2>7 DEF TypeOK
      <3>2. ASSUME NEW files, NEW cmdline, served(inc, encoded(s), files), s.cmdline = cmdline
            PROVE  loads(m, files, cmdline)'
        BY <3>1, <3>2 DEF loads
      <3>3. CASE Static
        BY <2>3, <3>2, <3>3 DEF loadsOneAnswer
      <3>4. CASE ~Static
        <4>1. PICK h \in given' : h = [mac |-> m, by |-> inc, r |-> r]
          BY <1>3, <3>4
        <4>2. h.mac = m /\ h.by = config'[m].by /\ h.r = r /\ Approves(r)
          <5>1. h.mac = m /\ h.by = inc /\ h.r = r
            BY ONLY <4>1, SMTT(30), Z3T(30), ZenonT(30)
          <5>2. config'[m].by = inc
            BY <3>1
          <5>3. Approves(r)
            BY <1>3, <1>5, <3>4
          <5> QED
            BY ONLY <5>1, <5>2, <5>3, SMTT(30), Z3T(30), ZenonT(30)
        <4>3. loads(m, urls(h.r), h.r.cmdline)'
          BY <2>3, <3>2, <3>4, <4>2
        <4> QED
          BY <3>4, <4>1, <4>2, <4>3 DEF loadsOneAnswer
      <3> QED
        BY <3>3, <3>4
    <2>10. MachineInv(m)'
      <3>1. approved(m)' /\ pc'[m] = "load"
        BY <1>1, <2>1, <1>3, StaysApproved, ZenonT(30) DEF BootInv, MachineInv, TypeOK
      <3> QED
        BY <2>9, <3>1 DEF MachineInv
    <2>11. \A n \in Machines : MachineInv(n)'
      <3>1. \A n \in Machines \ {m} : pc'[n] = pc[n] /\ config'[n] = config[n] /\ loaded'[n] = loaded[n]
        BY <1>1, <2>1 DEF TypeOK
      <3> QED
        BY <1>3, <2>10, <3>1, OthersStay, ZenonT(30)
    <2>12. \A p \in net' : p.kind = "OFFER" => approved(p.mac)'
      BY <1>1, <1>3, StaysApproved DEF BootInv
    <2>13. ProxiesOnlyApiUrls'
      BY <1>1, <1>3, ZenonT(30) DEF BootInv, ProxiesOnlyApiUrls
    <2> QED
      BY <1>1, <2>1, <2>8, <2>11, <2>12, <2>13 DEF BootInv
  <1> QED
    BY <1>4, <1>5

\* The file that ServeFile(m) opens.
nextRef(m) ==
    LET id == config[m].files[Len(loaded[m]) + 1]
    IN  IF canDecode(id) THEN File(inc, DecodeString(id)) ELSE NoFile

\* If it is one, it is the next file of the answer the configuration was made
\* from, and (with the API) that answer was given to the running process.
LEMMA NextFile ==
  ASSUME NEW m \in Machines, NEW files, NEW cmdline, loads(m, files, cmdline),
         loaded[m] \in Seq(Loaded), Len(loaded[m]) < Len(config[m].files), nextRef(m) # NoFile
  PROVE  /\ Len(loaded[m]) + 1 \in 1 .. Len(files)
         /\ nextRef(m) = files[Len(loaded[m]) + 1]
         /\ Static \/ config[m].by = inc
  <1> DEFINE i == Len(loaded[m]) + 1
             id == config[m].files[i]
  <1>1. config[m].files \in Seq(Id) /\ Len(config[m].files) = Len(files)
    BY DEF loads, served
  <1>2. i \in 1 .. Len(files) /\ i \in 1 .. Len(config[m].files)
    BY <1>1, LenProperties
  <1>3. id \in Id
    BY <1>1, <1>2, ElementOfSeq
  <1>4. /\ canDecode(id) /\ File(config[m].by, DecodeString(id)) = files[i]
        /\ Static \/ id.key = config[m].by
    BY <1>2 DEF loads, served
  <1>5. nextRef(m) = File(inc, DecodeString(id))
    BY <1>4 DEF nextRef
  <1>6. CASE Static
    BY <1>2, <1>4, <1>5, <1>6 DEF File
  <1>7. CASE ~Static
    <2>1. DecodeString(id).key = id.key
      BY <1>3 DEF DecodeString, Id
    <2>2. DecodeString(id).key = inc
      BY <1>5, <1>7, OtherKey DEF File
    <2> QED
      BY <1>2, <1>4, <1>5, <1>7, <2>1, <2>2, ZenonT(30)
  <1> QED
    BY <1>6, <1>7

\* The machine loads it.
LEMMA OneMoreLoaded ==
  ASSUME NEW m \in Machines, NEW files, NEW cmdline, loads(m, files, cmdline),
         loaded[m] \in Seq(Loaded), Len(loaded[m]) + 1 \in 1 .. Len(files),
         NEW b \in Loaded, b.ref = files[Len(loaded[m]) + 1],
         loaded'[m] = Append(loaded[m], b), config'[m] = config[m]
  PROVE  loads(m, files, cmdline)'
  <1>1. /\ DOMAIN loaded'[m] = 1 .. Len(loaded[m]) + 1
        /\ \A i \in 1 .. Len(loaded[m]) : loaded'[m][i] = loaded[m][i]
        /\ loaded'[m][Len(loaded[m]) + 1] = b
        /\ DOMAIN loaded[m] = 1 .. Len(loaded[m]) /\ Len(loaded[m]) \in Nat
    BY AppendProperties, LenProperties
  <1>2. ASSUME NEW i \in DOMAIN loaded'[m] PROVE loaded'[m][i].ref = files[i]
    <2>1. CASE i = Len(loaded[m]) + 1
      BY <1>1, <2>1
    <2>2. CASE i # Len(loaded[m]) + 1
      BY <1>1, <2>2 DEF loads
    <2> QED
      BY <2>1, <2>2
  <1> QED
    BY <1>2 DEF loads

\* The handler File.
LEMMA StepServeFile ==
  ASSUME BootInv, NEW m \in Machines, ServeFile(m) PROVE BootInv'
  <1> DEFINE ref == nextRef(m)
             got(body) == loaded' = [loaded EXCEPT ![m] = Append(@, [ref |-> ref, body |-> body])]
  <1>1. /\ inc' = inc /\ spec' = spec /\ dhcp' = dhcp /\ net' = net /\ api' = api
        /\ tid' = tid /\ reboots' = reboots /\ config' = config /\ given' = given
        /\ pc[m] = "load" /\ Len(loaded[m]) < Len(config[m].files) /\ TypeOK /\ spec = StaticBooter
    BY ZenonT(30) DEF ServeFile, BootInv
  <1>2. fetched' = IF ref = NoFile THEN fetched ELSE fetched \cup {[by |-> inc, ref |-> ref]}
    BY ZenonT(30) DEF ServeFile, nextRef
  <1>3. \/ pc' = [pc EXCEPT ![m] = "failed"] /\ loaded' = loaded
        \/ ref # NoFile /\ pc' = pc /\ \E body \in {"blob", "status", "cut"} : got(body)
    <2>1. \/ pc' = [pc EXCEPT ![m] = "failed"] /\ loaded' = loaded
          \/ ref # NoFile /\ pc' = pc /\ got("blob")
          \/ ref # NoFile /\ pc' = pc /\ \E f \in bodyFaults : got(f)
      BY ZenonT(30) DEF ServeFile, nextRef, advance
    <2> HIDE DEF ref, got
    <2>2. bodyFaults \subseteq {"blob", "status", "cut"}
      BY DEF bodyFaults
    <2> QED
      BY <2>1, <2>2
  <1>4. faults' \in 0 .. MaxFaults
    <2>1. faults' = faults \/ (faults < MaxFaults /\ faults' = faults + 1)
      BY ZenonT(30) DEF ServeFile, fault
    <2> QED
      BY <1>1, <2>1, NetBootAssumption DEF TypeOK
  <1> HIDE DEF ref
  <1>5. loaded[m] \in Seq(Loaded) /\ loadsOneAnswer(m)
    BY <1>1, ZenonT(30) DEF BootInv, MachineInv, TypeOK
  <1>6. ASSUME ref # NoFile
        PROVE  \E files, cmdline :
                  /\ files \in Seq(Text) /\ loads(m, files, cmdline)
                  /\ Static => files = <<KernelPath>> \o InitrdPaths /\ cmdline = StaticCmdline
                  /\ ~Static => \E g \in given : /\ g.mac = m /\ g.by = inc /\ g.by = config[m].by
                                                /\ Approves(g.r)
                                                /\ files = urls(g.r) /\ cmdline = g.r.cmdline
                  /\ Len(loaded[m]) + 1 \in 1 .. Len(files)
                  /\ ref = files[Len(loaded[m]) + 1]
    <2>1. CASE Static
      <3>1. loads(m, <<KernelPath>> \o InitrdPaths, StaticCmdline)
        BY <1>5, <2>1 DEF loadsOneAnswer
      <3>2. <<KernelPath>> \o InitrdPaths \in Seq(Text)
        BY GoodPaths, SeqMonotonic, ZenonT(30) DEF Text
      <3> QED
        BY <1>1, <1>5, <1>6, <2>1, <3>1, <3>2, NextFile, ZenonT(30) DEF ref
    <2>2. CASE ~Static
      <3>1. PICK g \in given : /\ g.mac = m /\ g.by = config[m].by /\ Approves(g.r)
                               /\ loads(m, urls(g.r), g.r.cmdline)
        BY <1>5, <2>2 DEF loadsOneAnswer
      <3>2. urls(g.r) \in Seq(Text)
        BY <1>1, GoodUrls DEF TypeOK, Response
      <3>3. /\ Len(loaded[m]) + 1 \in 1 .. Len(urls(g.r))
            /\ ref = urls(g.r)[Len(loaded[m]) + 1]
            /\ config[m].by = inc
        BY <1>1, <1>5, <1>6, <2>2, <3>1, NextFile DEF ref
      <3> QED
        BY <2>2, <3>1, <3>2, <3>3
    <2> QED
      BY <2>1, <2>2, ZenonT(30)
  <1>7. ProxiesOnlyApiUrls'
    <2>1. CASE ref = NoFile \/ Static
      BY <1>1, <1>2, <2>1 DEF BootInv, ProxiesOnlyApiUrls
    <2>2. CASE ref # NoFile /\ ~Static
      <3>1. PICK g \in given : g.by = inc /\ Len(loaded[m]) + 1 \in DOMAIN urls(g.r)
                              /\ urls(g.r)[Len(loaded[m]) + 1] = ref
        BY <1>6, <2>2, LenProperties
      <3>2. ASSUME NEW f \in fetched'
            PROVE  \E h \in given : h.by = f.by /\ \E i \in DOMAIN urls(h.r) : urls(h.r)[i] = f.ref
        <4>1. CASE f \in fetched
          BY <2>2, <4>1 DEF BootInv, ProxiesOnlyApiUrls
        <4>2. CASE f \notin fetched
          <5>1. f.by = inc /\ f.ref = ref
            BY <1>2, <3>2, <4>2
          <5> QED
            BY <3>1, <5>1
        <4> QED
          BY <4>1, <4>2
      <3> QED
        BY <1>1, <3>2, ZenonT(30) DEF ProxiesOnlyApiUrls
    <2> QED
      BY <2>1, <2>2
  <1>8. \A p \in net' : p.kind = "OFFER" => approved(p.mac)'
    BY <1>1 DEF BootInv, approved
  <1>9. fetched' \subseteq [by : Nat \ {0}, ref : Text]
    <2>1. ref # NoFile => ref \in Text
      BY <1>6, ElementOfSeq
    <2> QED
      BY <1>1, <1>2, <2>1 DEF TypeOK
  <1>10. CASE pc' = [pc EXCEPT ![m] = "failed"] /\ loaded' = loaded
    <2>1. TypeOK'
      BY <1>1, <1>4, <1>9, <1>10 DEF TypeOK, Stage
    <2>2. \A n \in Machines : MachineInv(n)'
      <3>1. \A n \in Machines : goesOn(n)
        BY <1>1, <1>10 DEF TypeOK, goesOn
      <3> QED
        BY <1>1, <1>10, <3>1, MachineGoesOn DEF BootInv, goesOn
    <2> QED
      BY <1>1, <1>7, <1>8, <2>1, <2>2 DEF BootInv
  <1>11. CASE ref # NoFile /\ pc' = pc /\ \E body \in {"blob", "status", "cut"} : got(body)
    <2>1. PICK body, b : /\ body \in {"blob", "status", "cut"} /\ b = [ref |-> ref, body |-> body]
                         /\ loaded' = [loaded EXCEPT ![m] = Append(@, b)]
      BY <1>11, ZenonT(30)
    <2>2. PICK files, cmdline :
                  /\ files \in Seq(Text) /\ loads(m, files, cmdline)
                  /\ Static => files = <<KernelPath>> \o InitrdPaths /\ cmdline = StaticCmdline
                  /\ ~Static => \E g \in given : /\ g.mac = m /\ g.by = inc /\ g.by = config[m].by
                                                /\ Approves(g.r)
                                                /\ files = urls(g.r) /\ cmdline = g.r.cmdline
                  /\ Len(loaded[m]) + 1 \in 1 .. Len(files)
                  /\ ref = files[Len(loaded[m]) + 1]
      BY <1>6, <1>11, ZenonT(30)
    <2>3. b \in Loaded /\ b.ref = ref
      <3>1. ref \in Text
        BY <2>2, ElementOfSeq
      <3> QED
        BY <2>1, <3>1 DEF Loaded
    <2>4. loaded'[m] = Append(loaded[m], b) /\ \A n \in Machines \ {m} : loaded'[n] = loaded[n]
      BY <1>1, <2>1 DEF TypeOK
    <2>5. Append(loaded[m], b) \in Seq(Loaded) /\ Len(Append(loaded[m], b)) = Len(loaded[m]) + 1
      BY <1>5, <2>3, AppendProperties
    <2>6. TypeOK'
      <3>1. loaded' \in [Machines -> Seq(Loaded)]
        BY <1>1, <2>1, <2>5 DEF TypeOK
      <3>2. ASSUME NEW n \in Machines PROVE Len(loaded'[n]) <= Len(config'[n].files)
        <4>1. Len(loaded[m]) \in Nat /\ Len(config[m].files) \in Nat
          BY <1>1, LenProperties DEF TypeOK, Config
        <4>2. CASE n = m
          <5>1. Len(loaded'[n]) = Len(loaded[m]) + 1 /\ config'[n] = config[m]
            BY <1>1, <2>4, <2>5, <4>2, ZenonT(30)
          <5>2. Len(loaded[m]) < Len(config[m].files)
            BY <1>1
          <5> QED
            BY ONLY <4>1, <5>1, <5>2, SMTT(30), Z3T(30), ZenonT(30)
        <4>3. CASE n # m
          BY <1>1, <2>4, <4>3 DEF TypeOK
        <4> QED
          BY <4>2, <4>3
      <3> QED
        BY <1>1, <1>4, <1>9, <1>11, <3>1, <3>2 DEF TypeOK
    <2>7. MachineInv(m)'
      <3>1. loads(m, files, cmdline)'
        BY <1>1, <1>5, <2>2, <2>3, <2>4, OneMoreLoaded, ZenonT(30)
      <3>2. loadsOneAnswer(m)'
        BY <1>1, <2>2, <3>1, ZenonT(30) DEF loadsOneAnswer
      <3>3. approved(m)'
        BY <1>1 DEF BootInv, MachineInv, approved
      <3> QED
        BY <1>1, <1>11, <3>2, <3>3, ZenonT(30) DEF MachineInv
    <2>8. \A n \in Machines : MachineInv(n)'
      BY <1>1, <1>11, <2>4, <2>7, OthersStay
    <2> QED
      BY <1>1, <1>7, <1>8, <2>6, <2>8 DEF BootInv
  <1> QED
    BY <1>3, <1>10, <1>11

LEMMA StepBoot == BootInv /\ [Next]_vars => BootInv'
  <1> SUFFICES ASSUME BootInv, [Next]_vars PROVE BootInv'
    OBVIOUS
  <1>1. ASSUME NEW p \in net, DhcpRead(p) \/ ServePXE(p) PROVE BootInv'
    BY <1>1, StepDhcpRead, StepServePXE
  <1>2. CASE DhcpAnswer
    BY <1>2, StepDhcpAnswer
  <1>3. ASSUME NEW m \in Machines, HTTP(m) PROVE BootInv'
    BY <1>3, StepPcOnly, StepPxelinuxConfig, StepServeFile DEF HTTP
  <1>4. ASSUME NEW m \in Machines, Machine(m) PROVE BootInv'
    BY <1>4, StepPcOnly, StepRomSends, StepBootAgain DEF Machine
  <1>5. ASSUME NEW m \in Machines, TftpFails(m) \/ PowerCycle(m) PROVE BootInv'
    BY <1>5, StepBootAgain
  <1>6. ASSUME NEW m \in Machines, ApiChanges(m) PROVE BootInv'
    BY <1>6, StepApiChanges
  <1>7. ASSUME NEW m \in Machines, NEW p \in net, RomReceives(m, p) PROVE BootInv'
    BY <1>7, StepRomReceives
  <1>8. CASE Restart
    BY <1>8, StepRestart
  <1>9. CASE Lose
    BY <1>9, StepLose
  <1>10. CASE UNCHANGED vars
    <2>1. /\ UNCHANGED <<inc, spec, dhcp, net, api, given, fetched, faults>>
          /\ UNCHANGED <<pc, tid, reboots, config, loaded>>
      BY <1>10 DEF vars, machineVars
    <2>2. TypeOK'
      BY <2>1 DEF BootInv, TypeOK
    <2> QED
      BY <2>1, <2>2, NothingLoaded DEF BootInv, goesOn
  <1> QED
    BY <1>1, <1>2, <1>3, <1>4, <1>5, <1>6, <1>7, <1>8, <1>9, <1>10 DEF Next

-----------------------------------------------------------------------------
(* The theorems.                                                           *)

\* BootInv holds in every state of every behaviour: no packet, request, answer,
\* restart or power cycle takes a machine out of it.
THEOREM BootInvariance == Spec => []BootInv
  BY InitBoot, StepBoot, PTL DEF Spec

\* Every variable keeps its type, and no machine loads more files than its
\* configuration names.
THEOREM TypeCorrect == Spec => []TypeOK
  <1>1. BootInv => TypeOK
    BY DEF BootInv
  <1> QED
    BY <1>1, BootInvariance, PTL

\* ServeProxyDHCP ignores every machine that the API server has not given one
\* good answer for: such a machine never leaves its ROM.
THEOREM IgnoredStay == Spec => []IgnoredStaysInRom
  <1>1. BootInv => IgnoredStaysInRom
    BY DEF BootInv, MachineInv, approved, IgnoredStaysInRom
  <1> QED
    BY <1>1, BootInvariance, PTL

\* remoteBooter.File fetches only what the API server gave the same process.
THEOREM ProxyIsClosed == Spec => []ProxiesOnlyApiUrls
  <1>1. BootInv => ProxiesOnlyApiUrls
    BY DEF BootInv
  <1> QED
    BY <1>1, BootInvariance, PTL

\* Every ID PxelinuxConfig writes down can be decoded and opened by the process
\* that wrote it, whatever other machines ask for in between.
THEOREM ConfigsAreServable == Spec => []ConfigServable
  <1>1. ASSUME BootInv PROVE ConfigServable
    <2> SUFFICES ASSUME NEW m \in Machines, config[m].by = inc,
                        NEW i \in DOMAIN config[m].files
                 PROVE  /\ canDecode(config[m].files[i])
                        /\ File(inc, DecodeString(config[m].files[i])) # NoFile
      BY DEF ConfigServable
    <2>1. config[m] # NoConfig
      <3>1. inc # 0 /\ NoConfig.by = 0
        BY <1>1 DEF BootInv, TypeOK, NoConfig
      <3> QED
        BY <3>1
    <2>2. loadsOneAnswer(m)
      BY <1>1, <2>1 DEF BootInv, MachineInv
    <2>3. ASSUME NEW files, NEW cmdline, loads(m, files, cmdline),
                 \A j \in 1 .. Len(files) : files[j] # NoFile
          PROVE  /\ canDecode(config[m].files[i])
                 /\ File(inc, DecodeString(config[m].files[i])) # NoFile
      <3>1. config[m].files \in Seq(Id) /\ Len(config[m].files) = Len(files)
        BY <2>3 DEF loads, served
      <3>2. i \in 1 .. Len(files)
        BY <3>1, LenProperties
      <3> QED
        BY <2>3, <3>2 DEF loads, served
    <2>4. CASE Static
      BY <2>2, <2>3, <2>4, GoodPaths, ZenonT(30) DEF loadsOneAnswer
    <2>5. CASE ~Static
      <3>1. PICK g \in given : Approves(g.r) /\ loads(m, urls(g.r), g.r.cmdline)
        BY <2>2, <2>5 DEF loadsOneAnswer
      <3>2. g.r \in Answer
        BY <1>1 DEF BootInv, TypeOK, Response
      <3> QED
        BY <2>3, <3>1, <3>2, GoodUrls
    <2> QED
      BY <2>4, <2>5
  <1> QED
    BY <1>1, BootInvariance, PTL

\* The files and the command line of a machine that runs Linux are those of one
\* answer for it, or in static mode those of Pixiecore's command line.
LEMMA RunsOneAnswer ==
  ASSUME BootInv, NEW m \in Machines, loadsOneAnswer(m), Len(loaded[m]) = Len(config[m].files)
  PROVE  LET refs == [i \in DOMAIN loaded[m] |-> loaded[m][i].ref]
         IN  IF Static THEN /\ refs = <<KernelPath>> \o InitrdPaths
                            /\ config[m].cmdline = StaticCmdline
             ELSE \E g \in given : /\ g.mac = m /\ Approves(g.r)
                                   /\ refs = urls(g.r) /\ config[m].cmdline = g.r.cmdline
  <1> DEFINE refs == [i \in DOMAIN loaded[m] |-> loaded[m][i].ref]
  <1>1. loaded[m] \in Seq(Loaded)
    BY DEF BootInv, TypeOK
  <1>2. ASSUME NEW files \in Seq(Text), NEW cmdline, loads(m, files, cmdline)
        PROVE  refs = files /\ config[m].cmdline = cmdline
    <2>1. Len(files) = Len(loaded[m])
      BY <1>2, ZenonT(30) DEF loads, served
    <2>2. DOMAIN loaded[m] = 1 .. Len(files) /\ DOMAIN files = 1 .. Len(files)
      BY <1>1, <2>1, LenProperties, ZenonT(30)
    <2>3. \A i \in DOMAIN files : refs[i] = files[i]
      BY <1>2, <2>2, ZenonT(30) DEF loads
    <2>4. files = [i \in DOMAIN files |-> files[i]]
      BY <2>2
    <2> QED
      BY <1>2, <2>2, <2>3, <2>4 DEF loads
  <1> HIDE DEF refs
  <1>3. CASE Static
    <2>1. <<KernelPath>> \o InitrdPaths \in Seq(Text)
      BY GoodPaths, SeqMonotonic, ZenonT(30) DEF Text
    <2> QED
      BY <1>2, <1>3, <2>1, ZenonT(30) DEF loadsOneAnswer, refs
  <1>4. CASE ~Static
    <2>1. PICK g \in given : g.mac = m /\ Approves(g.r) /\ loads(m, urls(g.r), g.r.cmdline)
      BY <1>4, ZenonT(30) DEF loadsOneAnswer
    <2>2. urls(g.r) \in Seq(Text)
      BY GoodUrls DEF BootInv, TypeOK, Response
    <2> QED
      BY <1>2, <1>4, <2>1, <2>2, ZenonT(30) DEF refs
  <1> QED
    BY <1>3, <1>4, ZenonT(30)

\* A machine runs exactly what one answer gave for it, whole and in order: what
\* PxelinuxConfig encoded and File decoded is never mixed with another answer.
THEOREM BootsAreWhole == Spec => []BootsOneAnswer
  <1>1. ASSUME BootInv, NEW m \in Machines, pc[m] = "linux"
        PROVE  loadsOneAnswer(m) /\ Len(loaded[m]) = Len(config[m].files)
    BY <1>1 DEF BootInv, MachineInv
  <1>2. BootInv => BootsOneAnswer
    BY <1>1, RunsOneAnswer, ZenonT(30) DEF BootsOneAnswer
  <1> QED
    BY <1>2, BootInvariance, PTL

-----------------------------------------------------------------------------
(* NetBoot implements BootPromise, step by step.                           *)

LEMMA RunsImage ==
  ASSUME NEW m \in Machines
  PROVE  /\ pc[m] = "linux" =>
               runsImage(m) = [from  |-> "net",
                               image |-> image([i \in DOMAIN loaded[m] |-> loaded[m][i].ref],
                                               config[m].cmdline)]
         /\ pc[m] = "local" => runsImage(m) = [from |-> "disk"]
         /\ pc[m] \notin {"linux", "local"} => runsImage(m) = [from |-> "nothing"]
  BY DEF runsImage

\* A machine that does not reach or leave Linux or its disk runs what it ran.
LEMMA RunsTheSame ==
  ASSUME NEW m \in Machines,
         pc'[m] = pc[m] \/ (pc[m] \notin {"linux", "local"} /\ pc'[m] \notin {"linux", "local"}),
         pc[m] = "linux" => loaded'[m] = loaded[m] /\ config'[m] = config[m]
  PROVE  runsImage(m)' = runsImage(m)
  BY DEF runsImage

\* Only a good answer for m changes what is allowed, and only for m.
LEMMA AllowedStays == ASSUME NEW m, given' = given PROVE allowedImages(m)' = allowedImages(m)
  BY DEF allowedImages

LEMMA AskAllows ==
  ASSUME TypeOK, NEW m \in Machines, NEW r \in Responses(m), Ask(m, r)
  PROVE  /\ allowedImages(m) \subseteq allowedImages(m)'
         /\ \A n \in Machines \ {m} : allowedImages(n)' = allowedImages(n)
         /\ ~ShouldBoot(r) => allowedImages(m)' = allowedImages(m)
  <1>1. CASE Static
    <2>1. given' = given
      BY <1>1 DEF Ask
    <2> QED
      BY <2>1, AllowedStays
  <1>2. CASE ~Static
    <2> DEFINE good(n, G) == {h \in G : h.mac = n /\ Approves(h.r)}
    <2>1. given' = given \cup {[mac |-> m, by |-> inc, r |-> r]}
      BY <1>2, ZenonT(30) DEF Ask
    <2>2. /\ good(m, given) \subseteq good(m, given')
          /\ \A n \in Machines \ {m} : good(n, given') = good(n, given)
      BY <2>1
    <2>3. ~ShouldBoot(r) => good(m, given') = good(m, given)
      BY <1>2, <2>1, GoodAnswer DEF ShouldBoot
    <2>4. \A n : allowedImages(n) = {image(urls(g.r), g.r.cmdline) : g \in good(n, given)}
      BY <1>2 DEF allowedImages
    <2>5. \A n : allowedImages(n)' = {image(urls(g.r), g.r.cmdline) : g \in good(n, given')}
      BY <1>2 DEF allowedImages
    <2> HIDE DEF good
    <2> QED
      BY <2>2, <2>3, <2>4, <2>5, ZenonT(30)
  <1> QED
    BY <1>1, <1>2

\* An approved machine has an image it is allowed to run.
LEMMA ApprovedHasImage == ASSUME NEW m \in Machines, approved(m) PROVE allowedImages(m) # {}
  BY DEF approved, allowedImages

\* What is enough for a step that the promise does not see, ...
LEMMA PromiseStutters ==
  ASSUME \A m \in Machines : allowedImages(m)' = allowedImages(m) /\ runsImage(m)' = runsImage(m)
  PROVE  UNCHANGED Promise!vars
  BY DEF Promise!vars

\* ... and for one that approves of an image.
LEMMA PromiseApproves ==
  ASSUME NEW m \in Machines, allowedImages(m) \subseteq allowedImages(m)',
         \A n \in Machines \ {m} : allowedImages(n)' = allowedImages(n),
         \A n \in Machines : runsImage(n)' = runsImage(n)
  PROVE  Promise!Next
  BY ZenonT(30) DEF Promise!Next, Promise!Approve

LEMMA PromiseInit == Init => Promise!Init
  <1> SUFFICES ASSUME Init PROVE Promise!Init
    OBVIOUS
  <1>1. \A m \in Machines : runsImage(m) = [from |-> "nothing"]
    BY RunsImage DEF Init
  <1> QED
    BY <1>1 DEF Promise!Init, Promise!nothing

\* pxelinux starts the kernel: the image is one that was allowed, as a whole.
LEMMA PromiseStartLinux ==
  ASSUME BootInv, NEW m \in Machines, StartLinux(m) PROVE Promise!Next
  <1> DEFINE refs == [i \in DOMAIN loaded[m] |-> loaded[m][i].ref]
             linux == image(refs, config[m].cmdline)
  <1>1. /\ pc[m] = "load" /\ pc' = [pc EXCEPT ![m] = "linux"] /\ pc \in [Machines -> Stage]
        /\ config' = config /\ loaded' = loaded /\ given' = given
        /\ Len(loaded[m]) = Len(config[m].files)
    BY DEF StartLinux, advance, BootInv, TypeOK
  <1>2. loadsOneAnswer(m)
    BY <1>1 DEF BootInv, MachineInv
  <1>3. linux \in allowedImages(m)
    <2>1. CASE Static
      BY <1>1, <1>2, <2>1, RunsOneAnswer, ZenonT(30) DEF allowedImages
    <2>2. CASE ~Static
      <3>1. PICK g \in given : /\ g.mac = m /\ Approves(g.r)
                               /\ refs = urls(g.r) /\ config[m].cmdline = g.r.cmdline
        BY <1>1, <1>2, <2>2, RunsOneAnswer, ZenonT(30)
      <3> QED
        BY <2>2, <3>1, ZenonT(30) DEF allowedImages
    <2> QED
      BY <2>1, <2>2
  <1>4. /\ runsImage(m) = [from |-> "nothing"]
        /\ runsImage(m)' = [from |-> "net", image |-> linux]
    <2>1. pc'[m] = "linux" /\ loaded'[m] = loaded[m] /\ config'[m] = config[m]
      BY <1>1
    <2> QED
      BY <1>1, <2>1 DEF runsImage
  <1>5. \A n \in Machines \ {m} : runsImage(n)' = runsImage(n)
    BY <1>1, RunsTheSame
  <1>6. \A n \in Machines : allowedImages(n)' = allowedImages(n)
    BY <1>1, AllowedStays
  <1> HIDE DEF linux
  <1>7. Promise!Boot(m)
    BY <1>3, <1>4, <1>5, <1>6, ZenonT(30) DEF Promise!Boot, Promise!nothing, Promise!net
  <1> QED
    BY <1>7 DEF Promise!Next

\* A machine starts over.
LEMMA PromiseBootAgain ==
  ASSUME BootInv, NEW m \in Machines, TftpFails(m) \/ Reboot(m) \/ PowerCycle(m)
  PROVE  Promise!Next
  <1>1. /\ pc' = [pc EXCEPT ![m] = "rom"] /\ pc \in [Machines -> Stage]
        /\ config' = [config EXCEPT ![m] = NoConfig] /\ config \in [Machines -> Config]
        /\ loaded' = [loaded EXCEPT ![m] = <<>>] /\ loaded \in [Machines -> Seq(Loaded)]
        /\ given' = given
    BY DEF TftpFails, Reboot, PowerCycle, bootAgain, BootInv, TypeOK
  <1>2. runsImage(m)' = [from |-> "nothing"]
    <2>1. pc'[m] = "rom"
      BY <1>1
    <2> QED
      BY <2>1 DEF runsImage
  <1>3. \A n \in Machines \ {m} : runsImage(n)' = runsImage(n)
    BY <1>1, RunsTheSame
  <1>4. \A n \in Machines : allowedImages(n)' = allowedImages(n)
    BY <1>1, AllowedStays
  <1>5. Promise!StartOver(m)
    BY <1>2, <1>3, <1>4, ZenonT(30) DEF Promise!StartOver, Promise!nothing
  <1> QED
    BY <1>5 DEF Promise!Next

\* PxelinuxConfig approves of an image, or sends the machine to its disk.
LEMMA PromisePxelinuxConfig ==
  ASSUME BootInv, NEW m \in Machines, PxelinuxConfig(m) PROVE Promise!Next
  <1>1. /\ pc[m] = "asking" /\ loaded' = loaded
        /\ TypeOK /\ pc \in [Machines -> Stage] /\ config \in [Machines -> Config]
    BY DEF PxelinuxConfig, BootInv, TypeOK
  <1>2. PICK r, c :
          /\ r \in Responses(m) /\ Ask(m, r)
          /\ \/ ~ShouldBoot(r) /\ pc' = [pc EXCEPT ![m] = "local"] /\ config' = config
             \/ /\ ShouldBoot(r) /\ pc' = [pc EXCEPT ![m] = "load"]
                /\ config' = [config EXCEPT ![m] = c]
    BY DEF PxelinuxConfig
  <1>3. /\ allowedImages(m) \subseteq allowedImages(m)'
        /\ \A n \in Machines \ {m} : allowedImages(n)' = allowedImages(n)
        /\ ~ShouldBoot(r) => allowedImages(m)' = allowedImages(m)
    BY <1>1, <1>2, AskAllows
  <1>4. \A n \in Machines \ {m} : runsImage(n)' = runsImage(n)
    BY <1>1, <1>2, RunsTheSame
  <1>5. runsImage(m) = [from |-> "nothing"]
    BY <1>1, RunsImage, ZenonT(30)
  <1>6. CASE ShouldBoot(r)
    <2>1. pc'[m] = "load"
      BY <1>1, <1>2, <1>6
    <2>2. runsImage(m)' = runsImage(m)
      BY <1>1, <2>1, RunsTheSame
    <2> QED
      BY <1>3, <1>4, <2>2, PromiseApproves
  <1>7. CASE ~ShouldBoot(r)
    <2>1. pc'[m] = "local"
      BY <1>1, <1>2, <1>7
    <2>2. runsImage(m)' = [from |-> "disk"]
      BY <2>1 DEF runsImage
    <2>3. allowedImages(m) # {}
      BY <1>1, ApprovedHasImage DEF BootInv, MachineInv
    <2>4. Promise!BootFromDisk(m)
      BY <1>3, <1>4, <1>5, <1>7, <2>2, <2>3, ZenonT(30) DEF Promise!BootFromDisk, Promise!nothing, Promise!disk
    <2> QED
      BY <2>4 DEF Promise!Next
  <1> QED
    BY <1>6, <1>7

\* So does ServeProxyDHCP when it asks the Booter.
LEMMA PromiseDhcpAnswer ==
  ASSUME BootInv, DhcpAnswer PROVE Promise!Next
  <1>1. TypeOK /\ dhcp.mac \in Machines
    BY DEF BootInv, TypeOK, DhcpAnswer
  <1>2. PICK m \in Machines : m = dhcp.mac
    BY <1>1
  <1>3. PICK r \in Responses(m) : Ask(m, r)
    BY <1>2 DEF DhcpAnswer
  <1>4. \A n \in Machines : runsImage(n)' = runsImage(n)
    BY RunsTheSame, ZenonT(30) DEF DhcpAnswer, machineVars
  <1> QED
    BY <1>1, <1>3, <1>4, AskAllows, PromiseApproves

\* No other step shows.
LEMMA PromiseUnseen ==
  ASSUME TypeOK, given' = given,
         \A m \in Machines :
            \/ pc'[m] = pc[m] /\ (pc[m] = "linux" => loaded'[m] = loaded[m] /\ config'[m] = config[m])
            \/ pc[m] \notin {"linux", "local"} /\ pc'[m] \notin {"linux", "local"}
  PROVE  UNCHANGED Promise!vars
  BY AllowedStays, RunsTheSame, PromiseStutters, ZenonT(30)

LEMMA PromiseStep == BootInv /\ [Next]_vars => [Promise!Next]_(Promise!vars)
  <1> SUFFICES ASSUME BootInv, [Next]_vars PROVE Promise!Next \/ UNCHANGED Promise!vars
    OBVIOUS
  <1>1. TypeOK /\ pc \in [Machines -> Stage] /\ loaded \in [Machines -> Seq(Loaded)]
    BY DEF BootInv, TypeOK
  <1>2. CASE UNCHANGED vars
    BY <1>1, <1>2, PromiseUnseen DEF vars, machineVars
  <1>3. ASSUME NEW p \in net, DhcpRead(p) \/ ServePXE(p) PROVE UNCHANGED Promise!vars
    BY <1>1, <1>3, PromiseUnseen, ZenonT(30) DEF DhcpRead, ServePXE, machineVars
  <1>4. CASE Lose \/ \E m \in Machines : ApiChanges(m) \/ RomSends(m)
    BY <1>1, <1>4, PromiseUnseen, ZenonT(30) DEF Lose, ApiChanges, RomSends, machineVars
  <1>5. ASSUME NEW m \in Machines, Ldlinux(m) \/ ConfigRequest(m) \/ Tftp(m)
        PROVE  UNCHANGED Promise!vars
    BY <1>1, <1>5, PromiseUnseen, ZenonT(30) DEF Ldlinux, ConfigRequest, Tftp, advance
  <1>6. ASSUME NEW m \in Machines, NEW p \in net, RomReceives(m, p) PROVE UNCHANGED Promise!vars
    BY <1>1, <1>6, PromiseUnseen DEF RomReceives, advance
  <1>7. ASSUME NEW m \in Machines, ServeFile(m) PROVE UNCHANGED Promise!vars
    <2>1. given' = given /\ config' = config /\ pc[m] = "load"
      BY <1>7, ZenonT(30) DEF ServeFile
    <2>2. pc' = pc \/ pc' = [pc EXCEPT ![m] = "failed"]
      BY <1>7, ZenonT(30) DEF ServeFile, advance
    <2>3. loaded' = loaded \/ \E b : loaded' = [loaded EXCEPT ![m] = b]
      BY <1>7, ZenonT(30) DEF ServeFile
    <2>4. \A n \in Machines \ {m} : pc'[n] = pc[n] /\ loaded'[n] = loaded[n]
      BY <1>1, <2>2, <2>3
    <2>5. pc'[m] \in {"load", "failed"}
      BY <1>1, <2>1, <2>2
    <2> QED
      BY <1>1, <2>1, <2>4, <2>5, PromiseUnseen
  <1>8. CASE Restart
    <2>1. given' = given /\ loaded' = loaded /\ config' = config
      BY <1>8 DEF Restart
    <2>2. PICK cut \in SUBSET {m \in Machines : pc[m] \in {"ldlinux", "uuid", "config", "load"}} :
            pc' = [m \in Machines |-> IF m \in cut \/ pc[m] = "asking" THEN "failed" ELSE pc[m]]
      BY <1>8 DEF Restart
    <2>3. \A m \in Machines : \/ pc'[m] = pc[m]
                              \/ pc[m] \notin {"linux", "local"} /\ pc'[m] \notin {"linux", "local"}
      BY <2>2
    <2> QED
      BY <1>1, <2>1, <2>3, PromiseUnseen
  <1> QED
    BY <1>2, <1>3, <1>4, <1>5, <1>6, <1>7, <1>8, PromiseDhcpAnswer, PromisePxelinuxConfig,
       PromiseStartLinux, PromiseBootAgain
    DEF Next, HTTP, Machine

\* From power-on to power-on a machine runs one approved image as a whole, or its
\* disk after it was approved, or nothing: every step of the DHCP, PXE and HTTP
\* servers, of the machines and of the faults is a step of that promise or none.
THEOREM PromiseIsKept == Spec => KeepsPromise
  BY PromiseInit, PromiseStep, BootInvariance, PTL DEF Spec, KeepsPromise, Promise!Spec

-----------------------------------------------------------------------------
(* Answers that are given once.                                            *)

\* Machine m is denied from its one-shot answer on.
usedUp(m) ==
    \A g \in given : (g.mac = m /\ Approves(g.r) /\ g.r \in OneShot) => api[m] = Denied

\* Who has only been approved of in such answers boots nothing.
OneShotInv ==
    \A m \in Machines : usedUp(m) /\ (onlyOnce(m) => pc[m] \notin {"load", "linux"})

LEMMA OneShotInit == Init => OneShotInv
  BY DEF Init, OneShotInv, usedUp, onlyOnce

\* An answer that approves of the machine is the API server's own, so Ask uses up
\* a one-shot answer when it is given.
LEMMA OneShotAsk ==
  ASSUME ~Static, TypeOK, OneShotInv, NEW m \in Machines, NEW r, Ask(m, r)
  PROVE  /\ \A n \in Machines : usedUp(n)'
         /\ \A n \in Machines : onlyOnce(n)' => onlyOnce(n)
  <1> DEFINE new == [mac |-> m, by |-> inc, r |-> r]
  <1>1. /\ api' = [api EXCEPT ![m] = IF @ \in OneShot THEN Denied ELSE @]
        /\ given' = given \cup {new}
        /\ r \in clientGet(api[m])
    BY DEF Ask
  <1>2. api \in [Machines -> FirstAnswers \cup Answers \cup {Denied}] /\ api[m] \in Answer
    BY NetBootAssumption, DeniedIsNotGood DEF TypeOK
  <1>3. Approves(r) => r = api[m]
    BY <1>1, <1>2, GetReturns
  <1>4. new.mac = m /\ new.r = r
    OBVIOUS
  <1> HIDE DEF new
  <1>5. ASSUME NEW n \in Machines, NEW g \in given', g.mac = n, Approves(g.r), g.r \in OneShot
        PROVE  api'[n] = Denied
    <2>1. CASE g = new
      <3>1. n = m /\ api[m] \in OneShot
        BY <1>3, <1>4, <1>5, <2>1
      <3> QED
        BY <1>1, <1>2, <3>1
    <2>2. CASE g \in given
      <3>1. api[n] = Denied
        BY <1>5, <2>2 DEF OneShotInv, usedUp
      <3> QED
        BY <1>1, <1>2, <3>1
    <2> QED
      BY <1>1, <2>1, <2>2
  <1>6. ASSUME NEW n \in Machines PROVE usedUp(n)'
    BY <1>5 DEF usedUp
  <1>7. ASSUME NEW n \in Machines, onlyOnce(n)' PROVE onlyOnce(n)
    BY <1>1, <1>7 DEF onlyOnce
  <1> QED
    BY <1>6, <1>7

LEMMA OneShotStep ==
  ASSUME ~Static, "api" \notin Faults
  PROVE  BootInv /\ OneShotInv /\ [Next]_vars => OneShotInv'
  <1> SUFFICES ASSUME BootInv, OneShotInv, [Next]_vars PROVE OneShotInv'
    OBVIOUS
  <1>1. TypeOK /\ pc \in [Machines -> Stage]
    BY DEF BootInv, TypeOK
  <1>2. ASSUME api' = api, given' = given,
               \A m \in Machines : pc'[m] \in {"load", "linux"} => pc[m] \in {"load", "linux"}
        PROVE  OneShotInv'
    BY <1>2, ZenonT(30) DEF OneShotInv, usedUp, onlyOnce
  <1>3. ASSUME NEW p \in net, DhcpRead(p) \/ ServePXE(p) PROVE OneShotInv'
    BY <1>2, <1>3 DEF DhcpRead, ServePXE, machineVars
  <1>4. CASE DhcpAnswer
    <2>1. PICK m \in Machines : m = dhcp.mac
      BY <1>1, <1>4 DEF TypeOK, DhcpAnswer
    <2>2. PICK r \in Responses(m) : Ask(m, r)
      BY <1>4, <2>1 DEF DhcpAnswer
    <2>3. \A n \in Machines : usedUp(n)' /\ (onlyOnce(n)' => onlyOnce(n))
      BY <1>1, <2>2, OneShotAsk
    <2>4. pc' = pc
      BY <1>4 DEF DhcpAnswer, machineVars
    <2> QED
      BY <2>3, <2>4 DEF OneShotInv
  <1>5. ASSUME NEW m \in Machines, PxelinuxConfig(m) PROVE OneShotInv'
    <2>1. PICK r \in Responses(m) :
            /\ Ask(m, r)
            /\ \/ pc' = [pc EXCEPT ![m] = "local"]
               \/ ShouldBoot(r) /\ pc' = [pc EXCEPT ![m] = "load"]
      BY <1>5 DEF PxelinuxConfig
    <2>2. \A n \in Machines : usedUp(n)' /\ (onlyOnce(n)' => onlyOnce(n))
      BY <1>1, <2>1, OneShotAsk
    <2>3. ASSUME onlyOnce(m) PROVE pc' = [pc EXCEPT ![m] = "local"]
      <3>1. approved(m)
        BY <1>5 DEF PxelinuxConfig, BootInv, MachineInv
      <3>2. api[m] = Denied
        BY <2>3, <3>1 DEF approved, onlyOnce, OneShotInv, usedUp
      <3>3. clientGet(Denied) = {Denied}
        BY DEF clientGet, Denied
      <3>4. r = Denied
        BY <3>2, <3>3 DEF Responses
      <3> QED
        BY <2>1, <3>4, DeniedIsNotGood DEF ShouldBoot
    <2>4. ASSUME NEW n \in Machines, onlyOnce(n)' PROVE pc'[n] \notin {"load", "linux"}
      <3>1. onlyOnce(n) /\ pc[n] \notin {"load", "linux"}
        BY <2>2, <2>4 DEF OneShotInv
      <3> QED
        BY <1>1, <2>1, <2>3, <3>1
    <2> QED
      BY <2>2, <2>4 DEF OneShotInv
  <1>6. ASSUME NEW m \in Machines, Ldlinux(m) \/ ConfigRequest(m) \/ Tftp(m) \/ RomSends(m)
        PROVE  OneShotInv'
    BY <1>1, <1>2, <1>6, ZenonT(30) DEF Ldlinux, ConfigRequest, Tftp, RomSends, advance, machineVars
  <1>7. ASSUME NEW m \in Machines, ServeFile(m) \/ StartLinux(m) PROVE OneShotInv'
    <2>1. api' = api /\ given' = given /\ pc[m] = "load"
      BY <1>7, ZenonT(30) DEF ServeFile, StartLinux, advance
    <2>2. \A n \in Machines : n # m => pc'[n] = pc[n]
      BY <1>1, <1>7, ZenonT(30) DEF ServeFile, StartLinux, advance
    <2> QED
      BY <1>2, <2>1, <2>2, ZenonT(30)
  <1>8. ASSUME NEW m \in Machines, TftpFails(m) \/ Reboot(m) \/ PowerCycle(m) PROVE OneShotInv'
    BY <1>1, <1>2, <1>8 DEF TftpFails, Reboot, PowerCycle, bootAgain
  <1>9. ASSUME NEW m \in Machines, NEW p \in net, RomReceives(m, p) PROVE OneShotInv'
    BY <1>1, <1>2, <1>9, ZenonT(30) DEF RomReceives, advance
  <1>10. ASSUME NEW m \in Machines, ApiChanges(m) PROVE FALSE
    BY <1>10 DEF ApiChanges, fault
  <1>11. CASE Restart
    BY <1>1, <1>2, <1>11 DEF Restart
  <1>12. CASE Lose
    BY <1>2, <1>12 DEF Lose, machineVars
  <1>13. CASE UNCHANGED vars
    BY <1>2, <1>13 DEF vars, machineVars
  <1> QED
    BY <1>3, <1>4, <1>5, <1>6, <1>7, <1>8, <1>9, <1>10, <1>11, <1>12, <1>13 DEF Next, HTTP, Machine

\* With an API server that does not change its mind, a machine that it approves of
\* only in answers it gives once never netboots, whatever goes on around it:
\* ShouldBoot used up the answer that BootSpec would need.
THEOREM OneShotBootsNothing ==
  ASSUME ~Static, "api" \notin Faults
  PROVE  Spec => []OneShotNeverBoots
  <1>1. OneShotInv => OneShotNeverBoots
    BY DEF OneShotInv, OneShotNeverBoots
  <1>2. BootInv /\ OneShotInv /\ [Next]_vars => OneShotInv'
    BY OneShotStep
  <1> QED
    BY <1>1, <1>2, OneShotInit, BootInvariance, PTL DEF Spec
=============================================================================
