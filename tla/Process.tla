------------------------------- MODULE Process -------------------------------
(***************************************************************************)
(* The process: main and pickBooter (src/pixiecore/pixiecore.go), the four *)
(* servers from their start to their service loop, the goroutines that     *)
(* serve requests, and the log channel all of them write to                *)
(* (src/log/logging.go).  A flag is given or not; what is said in a log    *)
(* entry matters only for the entries "Listening on port ...".             *)
(***************************************************************************)
EXTENDS Integers, Sequences

CONSTANTS
    CommandLines,  \* the sets of flags the process may be started with
    Ports,         \* the choices of a port for each of the UDP servers
    Broken,        \* what may be out of order: sets of faults
    Workers        \* goroutines that serve a TFTP transfer or an HTTP request

UDP == {"dhcp", "pxe", "tftp"}
Servers == UDP \cup {"http"}

ASSUME WorkersAssumption == Workers \cap Servers = {}

Faults == {"randomness", "asset", "accept"} \cup Servers

VARIABLES
    flags,   \* the flags given
    port,    \* -port-dhcp, -port-pxe, -port-tftp
    broken,  \* the faults of this execution
    main,    \* where main is: "flags", "assets", the server its next go statement
             \* starts, or "record"
    pc,      \* where each goroutine is
    bound,   \* the servers that have their socket
    logCh,   \* the goroutines blocked in a send on logCh, in their order
    told,    \* the servers whose "Listening" line was printed
    exit     \* "no", or what ended the process

env == <<flags, port, broken>>
vars == <<env, main, pc, bound, logCh, told, exit>>

Init ==
    /\ flags \in CommandLines /\ port \in Ports /\ broken \in Broken
    /\ main = "flags"
    /\ pc = [g \in Servers \cup Workers |-> IF g \in Servers THEN "none" ELSE "idle"]
    /\ bound = {} /\ logCh = <<>> /\ told = {}
    /\ exit = "no"

running == exit = "no"

-----------------------------------------------------------------------------
(* main                                                                    *)

\* Whether pickBooter returns a Booter and not an error.
pickBooter(fs) ==
    IF "api" \in fs
    THEN fs \cap {"kernel", "initrd", "cmdline"} = {} /\ "randomness" \notin broken
    ELSE "kernel" \in fs /\ "initrd" \in fs

\* Mutant: the servers are started before the assets are loaded.
PickBooter_spawns ==
    /\ running /\ main = "flags"
    /\ IF pickBooter(flags)
       THEN /\ main' = "assets" /\ UNCHANGED exit
            /\ pc' = [g \in DOMAIN pc |-> IF g \in Servers THEN "start" ELSE pc[g]]
       ELSE exit' = "usage" /\ UNCHANGED <<main, pc>>
    /\ UNCHANGED <<env, bound, logCh, told>>

PickBooter ==
    /\ running /\ main = "flags"
    /\ IF pickBooter(flags)
       THEN main' = "assets" /\ UNCHANGED exit
       ELSE exit' = "usage" /\ UNCHANGED main
    /\ UNCHANGED <<env, pc, bound, logCh, told>>

bindata == {"ldlinux.c32", "lpxelinux.0"}

\* Whether Asset finds and unpacks what is embedded under a name.
Asset(name) == name \in bindata /\ "asset" \notin broken

LoadAssets ==
    /\ running /\ main = "assets"
    /\ IF Asset("lpxelinux.0") /\ Asset("ldlinux.c32")
       THEN main' = "dhcp" /\ UNCHANGED exit
       ELSE exit' = "asset" /\ UNCHANGED main
    /\ UNCHANGED <<env, pc, bound, logCh, told>>

nextGo == [dhcp |-> "pxe", pxe |-> "tftp", tftp |-> "http", http |-> "record"]

\* The next go statement; after the last one main calls RecordLogs.
Spawn ==
    /\ running /\ main \in Servers
    /\ pc' = [pc EXCEPT ![main] = "start"]
    /\ main' = nextGo[main]
    /\ UNCHANGED <<env, bound, logCh, told, exit>>

-----------------------------------------------------------------------------
(* The log package.  A send on the unbuffered channel blocks the goroutine *)
(* until RecordLogs takes the entry; blocked senders are served in order.  *)

\* Goroutine g sends an entry and goes on at then once it is taken.
Send(g, says, then) ==
    /\ pc' = [pc EXCEPT ![g] = "send"]
    /\ logCh' = Append(logCh, [from |-> g, says |-> says, then |-> then])

filtered(l) == l.says = "debug" /\ "debug" \notin flags
printed(l) == IF l.says = "listening" THEN {l.from} ELSE {}

\* Mutant: the newest entry is taken first.
RecordLogs_newest ==
    LET l == logCh[Len(logCh)]
    IN  /\ running /\ main = "record" /\ logCh # <<>>
        /\ pc' = [pc EXCEPT ![l.from] = l.then]
        /\ told' = IF filtered(l) THEN told ELSE told \cup printed(l)
        /\ logCh' = SubSeq(logCh, 1, Len(logCh) - 1)
        /\ UNCHANGED <<env, main, bound, exit>>

\* One turn of the loop of RecordLogs.
RecordLogs ==
    LET l == Head(logCh)
    IN  /\ running /\ main = "record" /\ logCh # <<>>
        /\ pc' = [pc EXCEPT ![l.from] = l.then]
        /\ told' = IF filtered(l) THEN told ELSE told \cup printed(l)
        /\ logCh' = Tail(logCh)
        /\ UNCHANGED <<env, main, bound, exit>>

-----------------------------------------------------------------------------
(* The servers, up to their loops.                                         *)

canBind(s) == s \notin broken /\ \A r \in bound \cap UDP : port[r] # port[s]

\* Mutant: the log entry comes before the socket.
ListenUDP_early(s) ==
    /\ running /\ pc[s] = "start"
    /\ bound' = IF canBind(s) THEN bound \cup {s} ELSE bound
    /\ Send(s, "listening", IF canBind(s) THEN "serve" ELSE "failed")
    /\ UNCHANGED <<env, main, told, exit>>

\* ServeProxyDHCP, ServePXE and tftp.ListenAndServe up to their loops: the
\* socket, its control messages, then the log entry.
ListenUDP(s) ==
    /\ running /\ pc[s] = "start"
    /\ IF canBind(s)
       THEN bound' = bound \cup {s} /\ Send(s, "listening", "serve")
       ELSE pc' = [pc EXCEPT ![s] = "failed"] /\ UNCHANGED <<bound, logCh>>
    /\ UNCHANGED <<env, main, told, exit>>

\* ServeHTTP: the signing key, then the log entry, before it listens.
StartHTTP ==
    /\ running /\ pc["http"] = "start"
    /\ IF "randomness" \in broken
       THEN pc' = [pc EXCEPT !["http"] = "failed"] /\ UNCHANGED logCh
       ELSE Send("http", "listening", "bind")
    /\ UNCHANGED <<env, main, bound, told, exit>>

\* http.ListenAndServe: listen, and later perhaps fail to accept.
ListenHTTP ==
    /\ running
    /\ \/ /\ pc["http"] = "bind"
          /\ pc' = [pc EXCEPT !["http"] = IF "http" \in broken THEN "failed" ELSE "serve"]
          /\ bound' = IF "http" \in broken THEN bound ELSE bound \cup {"http"}
       \/ /\ pc["http"] = "serve" /\ "accept" \in broken
          /\ pc' = [pc EXCEPT !["http"] = "failed"] /\ bound' = bound \ {"http"}
    /\ UNCHANGED <<env, main, logCh, told, exit>>

\* Mutant: log.Println of what the server returned.
Fatal_println(s) ==
    /\ running /\ pc[s] = "failed"
    /\ pc' = [pc EXCEPT ![s] = "gone"]
    /\ UNCHANGED <<env, main, bound, logCh, told, exit>>

\* log.Fatalln of what the server returned.
Fatal(s) ==
    /\ running /\ pc[s] = "failed"
    /\ exit' = "fatal"
    /\ UNCHANGED <<env, main, pc, bound, logCh, told>>

\* A turn of a UDP server's loop that logs: a packet, or an error of the socket.
Loop(s) ==
    /\ running /\ pc[s] = "serve"
    /\ \E says \in {"debug", "info"} : Send(s, says, "serve")
    /\ UNCHANGED <<env, main, bound, told, exit>>

\* A goroutine of the TFTP or the HTTP server logs something about its request.
Work(w) ==
    /\ running /\ pc[w] = "idle"
    /\ {"tftp", "http"} \cap bound \cap told # {}
    /\ \E says \in {"debug", "info"} : Send(w, says, "idle")
    /\ UNCHANGED <<env, main, bound, told, exit>>

-----------------------------------------------------------------------------
Main == PickBooter \/ LoadAssets \/ Spawn
HTTP == StartHTTP \/ ListenHTTP

Next ==
    \/ Main
    \/ RecordLogs
    \/ \E s \in UDP : ListenUDP(s) \/ Loop(s)
    \/ HTTP
    \/ \E s \in Servers : Fatal(s)
    \/ \E w \in Workers : Work(w)

Spec == Init /\ [][Next]_vars

\* The goroutines run side by side, and the Go runtime lets each of them go on.
\* That accept fails is never certain, nor is that there is anything to log.
Fairness ==
    /\ WF_vars(Main) /\ WF_vars(RecordLogs)
    /\ \A s \in UDP : WF_vars(ListenUDP(s))
    /\ WF_vars(StartHTTP) /\ WF_vars(pc["http"] = "bind" /\ ListenHTTP)
    /\ \A s \in Servers : WF_vars(Fatal(s))

-----------------------------------------------------------------------------
\* When the log says that a UDP server listens, its socket exists.  The HTTP
\* server writes its entry before it listens, so all that can be said is that it
\* has its socket, is about to get it, or has failed and is about to end the
\* process.
ListeningIsTrue ==
    /\ told \cap UDP \subseteq bound
    /\ "http" \in told => "http" \in bound \/ pc["http"] \in {"bind", "failed"}

\* Whoever is blocked on the unbuffered channel has a reader: main is in
\* RecordLogs, or past everything that could keep it from getting there (it logs
\* nothing itself).  And it waits with exactly one entry, so a turn of RecordLogs
\* frees the goroutine it should.
BlockedHaveReader ==
    \A g \in DOMAIN pc : pc[g] = "send" =>
        /\ main \notin {"flags", "assets"}
        /\ \E i \in DOMAIN logCh : \A j \in DOMAIN logCh : logCh[j].from = g <=> j = i

\* Nobody waits for the log forever, however much the others have to say.
LogsAreTaken == \A g \in Servers \cup Workers : pc[g] = "send" ~> (pc[g] # "send" \/ ~running)

\* The process does not stay up with some of its servers: once main starts the
\* first of them, all four get their sockets or the process ends, also when one
\* of them fails later.
AllOrNothing == main \notin {"flags", "assets"} ~> (bound = Servers \/ ~running)
=============================================================================
