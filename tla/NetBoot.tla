------------------------------ MODULE NetBoot -------------------------------
(***************************************************************************)
(* Booting machines over the network with Pixiecore, end to end: the       *)
(* ProxyDHCP loop (src/dhcp/dhcp.go), the PXE loop (src/pxe/pxe.go) and    *)
(* the HTTP handlers (src/http/http.go) of one Pixiecore process, in front *)
(* of a Booter; around them the machines (PXE ROM, then pxelinux), the API *)
(* server, the servers the images come from, and a lossy network.          *)
(*                                                                         *)
(* DHCP and PXE packets are the fields ParseDHCP and ParsePXE take from    *)
(* them; a packet these reject leaves no trace, so there are none here.    *)
(* The TFTP transfer of pxelinux is one step, which succeeds or fails:     *)
(* module Tftp is about what happens inside it.  HTTP runs over TCP, so a  *)
(* request whose machine or server is gone is simply answered by nobody.   *)
(***************************************************************************)
EXTENDS Booter, FiniteSets

CONSTANTS
    Machines,       \* MAC addresses
    FirstAnswers,   \* what the API server may answer from the start,
    Answers,        \* and what it may change its mind to
    OneShot,        \* the answers it gives only to the first request for a MAC
    Faults,         \* what may go wrong, of the set FaultKinds
    MaxFaults       \* bound: how often something goes wrong

FaultKinds ==
    {"restart", "api", "power", "lose", "resend", "tftp", "iface", "refused",
     "status", "cut"}

Denied == [status |-> "error", json |-> FALSE, kernel |-> "", initrd |-> <<>>, cmdline |-> ""]

ASSUME NetBootAssumption ==
    /\ FirstAnswers \subseteq Answer /\ Answers \subseteq Answer
    /\ OneShot \subseteq Answer
    /\ Faults \subseteq FaultKinds
    /\ MaxFaults \in Nat

VARIABLES
    inc,        \* the running Pixiecore process; also its secretbox key
    spec,       \* its staticBooter.spec
    dhcp,       \* where ServeProxyDHCP is: the request it asks the Booter about
    net,        \* DHCP and PXE packets in the network
    api,        \* what the API server answers for each MAC
    pc,         \* how far each machine's boot has come
    tid,        \* the machine's DHCP transaction: a new one for every boot
    reboots,    \* pxelinux was told to reboot when the boot fails (option 211)
    config,     \* the pxelinux configuration the machine loads
    loaded,     \* the files it has loaded so far
    given,      \* history: the API server's responses
    fetched,    \* history: what File fetched, and which process did
    faults      \* how often something has gone wrong

machineVars == <<pc, tid, reboots, config, loaded>>
vars == <<inc, spec, dhcp, net, api, machineVars, given, fetched, faults>>

Idle == [at |-> "read"]
NoConfig == [by |-> 0, files |-> <<>>, cmdline |-> ""]

Packet(kind, m, t) == [kind |-> kind, mac |-> m, tid |-> t]

Init ==
    /\ inc = 1
    /\ spec = StaticBooter
    /\ dhcp = Idle
    /\ net = {}
    /\ api \in [Machines -> FirstAnswers]
    /\ pc = [m \in Machines |-> "rom"]
    /\ tid = [m \in Machines |-> 0]
    /\ reboots = [m \in Machines |-> FALSE]
    /\ config = [m \in Machines |-> NoConfig]
    /\ loaded = [m \in Machines |-> <<>>]
    /\ given = {}
    /\ fetched = {}
    /\ faults = 0

fault(f) ==
    /\ f \in Faults
    /\ faults < MaxFaults
    /\ faults' = faults + 1

-----------------------------------------------------------------------------
(* The Booter is asked about machine m and sees the response r.            *)

Ask(m, r) ==
    \/ /\ Static
       /\ r = Denied            \* no API server is asked
       /\ UNCHANGED <<api, given>>
    \/ /\ ~Static
       /\ r \in clientGet(api[m])
       /\ api' = [api EXCEPT ![m] = IF @ \in OneShot THEN Denied ELSE @]
       /\ given' = given \cup {[mac |-> m, by |-> inc, r |-> r]}

Responses(m) == {Denied} \cup clientGet(api[m])

-----------------------------------------------------------------------------
(* ProxyDHCP.                                                              *)

\* ServeProxyDHCP reads a DISCOVER; the Booter is asked next.
DhcpRead(p) ==
    /\ dhcp = Idle
    /\ p \in net /\ p.kind = "DISCOVER"
    /\ net' = net \ {p}
    /\ dhcp' = [at |-> "ask", mac |-> p.mac, tid |-> p.tid]
    /\ UNCHANGED <<inc, spec, api, machineVars, given, fetched, faults>>

\* Mutant: every machine gets an OFFER, without a call of ShouldBoot.
DhcpAnswer_unasked ==
    /\ dhcp # Idle
    /\ dhcp' = Idle
    /\ net' = net \cup {Packet("OFFER", dhcp.mac, dhcp.tid)}
    /\ UNCHANGED <<inc, spec, machineVars, fetched, api, given, faults>>

\* The Booter answers: the machine is ignored, or gets an OFFER that mirrors its
\* transaction ID and MAC (OfferDHCP); InterfaceIP may find no address to offer.
DhcpAnswer ==
    /\ dhcp # Idle
    /\ dhcp' = Idle
    /\ \E r \in Responses(dhcp.mac) :
          /\ Ask(dhcp.mac, r)
          /\ \/ ~ShouldBoot(r) /\ UNCHANGED <<net, faults>>
             \/ ShouldBoot(r) /\ fault("iface") /\ UNCHANGED net
             \/ /\ ShouldBoot(r)
                /\ net' = net \cup {Packet("OFFER", dhcp.mac, dhcp.tid)}
                /\ UNCHANGED faults
    /\ UNCHANGED <<inc, spec, machineVars, fetched>>

-----------------------------------------------------------------------------
(* PXE.                                                                    *)

\* Mutant: option 211 is left out of the reply.
ReplyPXE_noReboot(p) == [kind |-> "PXEACK", mac |-> p.mac, tid |-> p.tid, reboot |-> FALSE]

\* "If boot fails, make pxelinux reboot after 5 seconds to try again."
ReplyPXE(p) == [kind |-> "PXEACK", mac |-> p.mac, tid |-> p.tid, reboot |-> TRUE]

ServePXE(p) ==
    /\ p \in net /\ p.kind = "PXEREQ"
    /\ \/ net' = (net \ {p}) \cup {ReplyPXE(p)} /\ UNCHANGED faults
       \/ fault("iface") /\ net' = net \ {p}
    /\ UNCHANGED <<inc, spec, dhcp, api, machineVars, given, fetched>>

-----------------------------------------------------------------------------
(* HTTP.                                                                   *)

advance(m, from, to) ==
    /\ pc[m] = from
    /\ pc' = [pc EXCEPT ![m] = to]

\* The handler Ldlinux.
Ldlinux(m) ==
    /\ advance(m, "ldlinux", "uuid")
    /\ UNCHANGED <<inc, spec, dhcp, net, api, tid, reboots, config, loaded, given, fetched, faults>>

\* PxelinuxConfig up to its call of BootSpec.  pxelinux asks for a configuration
\* named after its UUID first: no "01-" prefix, so 400, and it goes on to the one
\* named after its MAC.
ConfigRequest(m) ==
    /\ advance(m, "uuid", "config") \/ advance(m, "config", "asking")
    /\ UNCHANGED <<inc, spec, dhcp, net, api, tid, reboots, config, loaded, given, fetched, faults>>

\* The rest of PxelinuxConfig: boot from disk if the Booter has an error, else
\* the configuration.  Encoding spec.Initrd in place writes through to the
\* booter's own slice unless BootSpec returned a copy of it.
PxelinuxConfig(m) ==
    /\ pc[m] = "asking"
    /\ \E r \in Responses(m) :
          /\ Ask(m, r)
          /\ \/ /\ ~ShouldBoot(r)
                /\ pc' = [pc EXCEPT ![m] = "local"]
                /\ UNCHANGED <<config, spec>>
             \/ /\ ShouldBoot(r)
                /\ LET s      == BootSpec(inc, spec, r)
                       kernel == EncodeToString(s.kernel)
                       initrd == [i \in DOMAIN s.initrd |-> EncodeToString(s.initrd[i])]
                   IN  /\ config' = [config EXCEPT ![m] =
                              [by |-> inc, files |-> <<kernel>> \o initrd, cmdline |-> s.cmdline]]
                       /\ spec' = IF Static /\ ~specCopied THEN [spec EXCEPT !.initrd = initrd]
                                                           ELSE spec
                /\ pc' = [pc EXCEPT ![m] = "load"]
    /\ UNCHANGED <<inc, dhcp, net, tid, reboots, loaded, fetched, faults>>

\* What can be wrong with a body File copies: a local file has no HTTP status.
bodyFaults == IF Static THEN {"cut"} ELSE {"status", "cut"}

\* The handler File, for the next file of the machine's configuration: an ID it
\* cannot decode or open, or a source that cannot be reached, is an HTTP error.
\* A response with another status than 200 and a body that ends early both reach
\* the machine as if they were the file.
ServeFile(m) ==
    LET id  == config[m].files[Len(loaded[m]) + 1]
        ref == IF canDecode(id) THEN File(inc, DecodeString(id)) ELSE NoFile
        got(body) == loaded' = [loaded EXCEPT ![m] = Append(@, [ref |-> ref, body |-> body])]
    IN  /\ pc[m] = "load"
        /\ Len(loaded[m]) < Len(config[m].files)
        /\ fetched' = IF ref = NoFile THEN fetched ELSE fetched \cup {[by |-> inc, ref |-> ref]}
        /\ \/ ref = NoFile /\ advance(m, "load", "failed") /\ UNCHANGED <<loaded, faults>>
           \/ ref # NoFile /\ fault("refused") /\ advance(m, "load", "failed") /\ UNCHANGED loaded
           \/ ref # NoFile /\ got("blob") /\ UNCHANGED <<pc, faults>>
           \/ ref # NoFile /\ \E f \in bodyFaults : fault(f) /\ got(f) /\ UNCHANGED pc
        /\ UNCHANGED <<inc, spec, dhcp, net, api, tid, reboots, config, given>>

-----------------------------------------------------------------------------
(* The process ends and is started again, with a new secretbox key.  Every *)
(* HTTP request it was serving fails, and so do those it is too late for.  *)

Restart ==
    /\ fault("restart")
    /\ inc' = inc + 1
    /\ spec' = StaticBooter
    /\ dhcp' = Idle
    /\ \E cut \in SUBSET {m \in Machines : pc[m] \in {"ldlinux", "uuid", "config", "load"}} :
          pc' = [m \in Machines |-> IF m \in cut \/ pc[m] = "asking" THEN "failed" ELSE pc[m]]
    /\ UNCHANGED <<net, api, tid, reboots, config, loaded, given, fetched>>

-----------------------------------------------------------------------------
(* The machines, the API server and the network: not in this repository,   *)
(* modelled from how its code uses them.                                   *)

\* The machine's current request, or the answer to it, is still under way.
underWay(m) ==
    \/ dhcp # Idle /\ dhcp.mac = m /\ dhcp.tid = tid[m] /\ pc[m] = "rom"
    \/ \E p \in net :
          /\ p.mac = m /\ p.tid = tid[m]
          /\ p.kind \in IF pc[m] = "rom" THEN {"DISCOVER", "OFFER"} ELSE {"PXEREQ", "PXEACK"}

\* The ROM sends its DISCOVER, or its request to the PXE server, and sends it
\* again when no answer comes, or ("resend") when the answer is only late.
RomSends(m) ==
    /\ (~underWay(m) /\ UNCHANGED faults) \/ fault("resend")
    /\ \/ pc[m] = "rom" /\ net' = net \cup {Packet("DISCOVER", m, tid[m])}
       \/ pc[m] = "pxe" /\ net' = net \cup {Packet("PXEREQ", m, tid[m])}
    /\ UNCHANGED <<inc, spec, dhcp, api, machineVars, given, fetched>>

\* It accepts only answers to its current transaction.
RomReceives(m, p) ==
    /\ p \in net /\ p.mac = m /\ p.tid = tid[m]
    /\ net' = net \ {p}
    /\ \/ /\ p.kind = "OFFER" /\ advance(m, "rom", "pxe")
          /\ UNCHANGED reboots
       \/ /\ p.kind = "PXEACK" /\ advance(m, "pxe", "tftp")
          /\ reboots' = [reboots EXCEPT ![m] = p.reboot]
    /\ UNCHANGED <<inc, spec, dhcp, api, tid, config, loaded, given, fetched, faults>>

\* pxelinux arrives over TFTP.
Tftp(m) ==
    /\ advance(m, "tftp", "ldlinux")
    /\ UNCHANGED <<inc, spec, dhcp, net, api, tid, reboots, config, loaded, given, fetched, faults>>

\* Everything is loaded: pxelinux starts the kernel.
StartLinux(m) ==
    /\ Len(loaded[m]) = Len(config[m].files)
    /\ advance(m, "load", "linux")
    /\ UNCHANGED <<inc, spec, dhcp, net, api, tid, reboots, config, loaded, given, fetched, faults>>

bootAgain(m) ==
    /\ pc' = [pc EXCEPT ![m] = "rom"]
    /\ tid' = [tid EXCEPT ![m] = @ + 1]
    /\ reboots' = [reboots EXCEPT ![m] = FALSE]
    /\ config' = [config EXCEPT ![m] = NoConfig]
    /\ loaded' = [loaded EXCEPT ![m] = <<>>]
    /\ UNCHANGED <<inc, spec, dhcp, net, api, given, fetched>>

\* pxelinux does not arrive: the ROM starts over.
TftpFails(m) ==
    /\ pc[m] = "tftp"
    /\ fault("tftp")
    /\ bootAgain(m)

\* The boot fails in pxelinux, which does as option 211 says.
Reboot(m) ==
    /\ pc[m] = "failed" /\ reboots[m]
    /\ bootAgain(m)
    /\ UNCHANGED faults

PowerCycle(m) ==
    /\ pc[m] # "rom"
    /\ fault("power")
    /\ bootAgain(m)

ApiChanges(m) ==
    /\ fault("api")
    /\ \E a \in Answers : api' = [api EXCEPT ![m] = a]
    /\ UNCHANGED <<inc, spec, dhcp, net, machineVars, given, fetched>>

Lose ==
    /\ fault("lose")
    /\ \E p \in net : net' = net \ {p}
    /\ UNCHANGED <<inc, spec, dhcp, api, machineVars, given, fetched>>

-----------------------------------------------------------------------------
HTTP(m) == Ldlinux(m) \/ ConfigRequest(m) \/ PxelinuxConfig(m) \/ ServeFile(m)

Machine(m) == RomSends(m) \/ Tftp(m) \/ StartLinux(m) \/ Reboot(m)

Next ==
    \/ \E p \in net : DhcpRead(p) \/ ServePXE(p)
    \/ DhcpAnswer
    \/ \E m \in Machines : HTTP(m) \/ Machine(m) \/ TftpFails(m) \/ PowerCycle(m) \/ ApiChanges(m)
    \/ \E m \in Machines : \E p \in net : RomReceives(m, p)
    \/ Restart
    \/ Lose

Spec == Init /\ [][Next]_vars

\* http.Client's Timeout ends every call of the API server; the kernel queues
\* packets for the two loops, so no machine's packet is passed over forever;
\* net/http runs a goroutine for every request.
ServerFairness ==
    /\ WF_vars(DhcpAnswer)
    /\ \A m \in Machines :
          /\ SF_vars(\E p \in net : p.mac = m /\ p.tid = tid[m] /\ DhcpRead(p))
          /\ WF_vars(\E p \in net : p.mac = m /\ ServePXE(p))
          /\ WF_vars(HTTP(m))

\* The machines go on by themselves, too.
FairSpec ==
    /\ Spec
    /\ ServerFairness
    /\ \A m \in Machines :
          /\ WF_vars(Machine(m))
          /\ WF_vars(\E p \in net : RomReceives(m, p))
-----------------------------------------------------------------------------
(* Properties.                                                             *)

\* What README.api.md asks of an answer that boots a machine, and the URLs in it.
Approves(a) ==
    /\ a.status = "ok" /\ a.json
    /\ \A u \in {a.kernel} \cup {a.initrd[i] : i \in DOMAIN a.initrd} : u \in AbsUrls
urls(a) == <<a.kernel>> \o a.initrd

packetOK(p) ==
    /\ p.kind \in {"DISCOVER", "OFFER", "PXEREQ", "PXEACK"}
    /\ p.mac \in Machines /\ p.tid \in Nat
    /\ p.kind = "PXEACK" => p.reboot \in BOOLEAN

Stage == {"rom", "pxe", "tftp", "ldlinux", "uuid", "config", "asking", "load", "failed",
          "linux", "local"}
Config == [by : Nat, files : Seq(Id), cmdline : Text]
Loaded == [ref : Text, body : {"blob", "status", "cut"}]
Response == [mac : Machines, by : Nat \ {0}, r : Answer]

TypeOK ==
    /\ inc \in Nat \ {0} /\ faults \in 0 .. MaxFaults
    /\ dhcp = Idle \/ dhcp \in [at : {"ask"}, mac : Machines, tid : Nat]
    /\ \A p \in net : packetOK(p)
    /\ api \in [Machines -> FirstAnswers \cup Answers \cup {Denied}]
    /\ pc \in [Machines -> Stage]
    /\ tid \in [Machines -> Nat]
    /\ reboots \in [Machines -> BOOLEAN]
    /\ config \in [Machines -> Config]
    /\ loaded \in [Machines -> Seq(Loaded)]
    /\ \A m \in Machines : Len(loaded[m]) <= Len(config[m].files)
    /\ given \subseteq Response
    /\ fetched \subseteq [by : Nat \ {0}, ref : Text]

\* "Any non-200 response [...] will cause Pixieboot to ignore the requesting
\* machine", and so will a malformed one: a machine for which the API server has
\* not given one good answer is still in its ROM, however often either of them
\* or Pixiecore starts over.
IgnoredStaysInRom ==
    Static \/ \A m \in Machines :
        pc[m] # "rom" => \E g \in given : g.mac = m /\ Approves(g.r)

\* A machine runs exactly what one answer for its own MAC said (in static mode:
\* the command line): that kernel, those initrds in that order, that cmdline,
\* although the API server changes its answers while the machine boots.
BootsOneAnswer ==
    \A m \in Machines : pc[m] = "linux" =>
        LET is(files, cmdline) == /\ config[m].cmdline = cmdline
                                  /\ [i \in DOMAIN loaded[m] |-> loaded[m][i].ref] = files
        IN  IF Static THEN is(<<KernelPath>> \o InitrdPaths, StaticCmdline)
            ELSE \E g \in given : g.mac = m /\ Approves(g.r) /\ is(urls(g.r), g.r.cmdline)

\* A configuration names only files that the process it came from serves: no
\* request of another machine, and no second encoding, spoils an ID.
ConfigServable ==
    \A m \in Machines : config[m].by = inc =>
        \A i \in DOMAIN config[m].files :
            LET id == config[m].files[i] IN canDecode(id) /\ File(inc, DecodeString(id)) # NoFile

\* Pixiecore verifies "that it's only proxying for URLs that the API server gave
\* it": File fetches a URL only in the process that got it from the API server,
\* so never for a configuration from before a restart.
ProxiesOnlyApiUrls ==
    Static \/ \A f \in fetched : \E g \in given :
        g.by = f.by /\ \E i \in DOMAIN urls(g.r) : urls(g.r)[i] = f.ref

onlyOnce(m) == \A g \in given : g.mac = m /\ Approves(g.r) => g.r \in OneShot

\* "Responding only to the first request for a MAC address will not have the
\* desired effect": a machine that the API server approved of only in one-shot
\* answers does not netboot, because ShouldBoot uses up the one good answer that
\* BootSpec would need; machines with other answers may boot next to it.
OneShotNeverBoots ==
    Static \/ \A m \in Machines : onlyOnce(m) => pc[m] \notin {"load", "linux"}

\* Why all of these hold, as one invariant that every step preserves.  A machine
\* is offered a boot, and leaves its ROM, only once it is approved of; it has no
\* configuration before PxelinuxConfig gives it one; from then on every ID in the
\* configuration stands, for the process it came from and (with the API) no other,
\* for one file of a single answer, and what is loaded are those files in order.
approved(m) == Static \/ \E g \in given : g.mac = m /\ Approves(g.r)

served(key, ids, files) ==
    /\ ids \in Seq(Id) /\ Len(ids) = Len(files)
    /\ \A i \in 1 .. Len(files) :
          /\ canDecode(ids[i]) /\ File(key, DecodeString(ids[i])) = files[i]
          /\ Static \/ ids[i].key = key

loads(m, files, cmdline) ==
    /\ config[m].cmdline = cmdline
    /\ served(config[m].by, config[m].files, files)
    /\ \A i \in DOMAIN loaded[m] : loaded[m][i].ref = files[i]

loadsOneAnswer(m) ==
    IF Static THEN loads(m, <<KernelPath>> \o InitrdPaths, StaticCmdline)
    ELSE \E g \in given : /\ g.mac = m /\ g.by = config[m].by /\ Approves(g.r)
                          /\ loads(m, urls(g.r), g.r.cmdline)

MachineInv(m) ==
    /\ pc[m] # "rom" => approved(m)
    /\ pc[m] = "linux" => Len(loaded[m]) = Len(config[m].files)
    /\ \/ pc[m] \notin {"load", "linux"} /\ config[m] = NoConfig /\ loaded[m] = <<>>
       \/ pc[m] \in {"load", "linux", "failed"} /\ loadsOneAnswer(m)

BootInv ==
    /\ TypeOK
    /\ spec = StaticBooter
    /\ \A p \in net : p.kind = "OFFER" => approved(p.mac)
    /\ \A m \in Machines : MachineInv(m)
    /\ ProxiesOnlyApiUrls

\* A hanging API server delays ServeProxyDHCP, it does not stop it.
DhcpLoopReturns == dhcp # Idle ~> dhcp = Idle

\* A machine the API server approves of (every machine, in static mode) netboots
\* in the end: restarts, lost packets, failed transfers and downloads are retried
\* from the start, and machines the API server hangs on do not get in the way.
ApprovedMachinesBoot ==
    \A m \in Machines : [](Static \/ Approves(api[m])) => <>(pc[m] = "linux")

\* Booter's comment on BootSpec: "Returning an error here will cause the PXE boot
\* process to abort (i.e. the machine will reboot and start again at ShouldBoot)".
BootSpecErrorReboots ==
    [][\A m \in Machines : pc[m] = "asking" /\ pc'[m] # "asking" => pc'[m] \in {"load", "failed", "rom"}]_vars

\* README.api.md: "A 200 response will cause Pixiecore to boot the requesting
\* machine", with the example answer whose URLs are relative.
ExampleBoots == \A m \in Machines : <>(pc[m] = "linux")

\* Booter's comment on File: "Get the contents of a blob mentioned in a previously
\* issued BootSpec": whatever is booted is such a blob.
BootsBlobs ==
    \A m \in Machines : pc[m] = "linux" =>
        \A i \in DOMAIN loaded[m] : loaded[m][i].body = "blob"

-----------------------------------------------------------------------------
(* NetBoot implements BootPromise.                                         *)

image(files, cmdline) == [files |-> files, cmdline |-> cmdline]

allowedImages(m) ==
    IF Static THEN {image(<<KernelPath>> \o InitrdPaths, StaticCmdline)}
    ELSE {image(urls(g.r), g.r.cmdline) : g \in {h \in given : h.mac = m /\ Approves(h.r)}}

runsImage(m) ==
    CASE pc[m] = "linux" -> [from  |-> "net",
                             image |-> image([i \in DOMAIN loaded[m] |-> loaded[m][i].ref],
                                             config[m].cmdline)]
      [] pc[m] = "local" -> [from |-> "disk"]
      [] OTHER           -> [from |-> "nothing"]

Promise == INSTANCE BootPromise WITH
    allowed <- [m \in Machines |-> allowedImages(m)],
    runs <- [m \in Machines |-> runsImage(m)]

\* Through all its packets, requests, restarts and retries Pixiecore keeps that
\* promise: from power-on to power-on a machine runs one approved image as a
\* whole, or is sent to its disk after it was approved, or runs nothing.
KeepsPromise == Promise!Spec
=============================================================================
