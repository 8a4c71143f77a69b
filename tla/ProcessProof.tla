---------------------------- MODULE ProcessProof -----------------------------
(***************************************************************************)
(* Start-up and logging, for every command line, choice of ports, set of   *)
(* faults and set of request goroutines.                                   *)
(***************************************************************************)
EXTENDS Process, TLAPS

USE SMTT(30), Z3T(30), ZenonT(30)

Says == {"debug", "info", "listening"}
Then == {"serve", "idle", "bind"}
Entry == [from : Servers \cup Workers, says : Says, then : Then]

Goroutines == Servers \cup Workers

\* The goroutines that are blocked in a send are those with an entry in the
\* channel, and each of them has one.
LogQueue ==
    /\ \A i \in DOMAIN logCh : pc[logCh[i].from] = "send"
    /\ \A i, j \in DOMAIN logCh : logCh[i].from = logCh[j].from => i = j
    /\ \A g \in Goroutines : pc[g] = "send" => \E i \in DOMAIN logCh : logCh[i].from = g

\* The servers whose go statements main has not got to.
unspawned ==
    [flags |-> Servers, assets |-> Servers, dhcp |-> Servers,
     pxe |-> {"pxe", "tftp", "http"}, tftp |-> {"tftp", "http"}, http |-> {"http"}, record |-> {}]

\* A server does nothing before its go statement, and a worker nothing before a
\* server listens, so nobody can be waiting until main is on its way to
\* RecordLogs.
Started ==
    /\ main \in DOMAIN unspawned
    /\ \A s \in unspawned[main] : pc[s] = "none"
    /\ \A w \in Workers : pc[w] \in {"idle", "send"}
    /\ main \in {"flags", "assets"} => told = {} /\ \A g \in Goroutines : pc[g] # "send"

\* An entry that says a UDP server listens is sent after its socket was made; the
\* HTTP server sends its only entry before it listens.
TrueEntries ==
    \A i \in DOMAIN logCh :
        /\ (logCh[i].says = "listening" /\ logCh[i].from \in UDP) => logCh[i].from \in bound
        /\ logCh[i].from = "http" => logCh[i].then = "bind"
        /\ logCh[i].from \in Workers => logCh[i].then = "idle"

ProcessInv ==
    /\ logCh \in Seq(Entry)
    /\ DOMAIN pc = Goroutines
    /\ Started
    /\ TrueEntries
    /\ ListeningIsTrue
    /\ LogQueue

LEMMA InitProcess == Init => ProcessInv
  <1> SUFFICES ASSUME Init PROVE ProcessInv
    OBVIOUS
  <1>1. logCh = <<>> /\ told = {} /\ main = "flags"
    BY DEF Init
  <1>2. DOMAIN pc = Goroutines /\ \A g \in Goroutines : pc[g] = IF g \in Servers THEN "none" ELSE "idle"
    BY DEF Init, Goroutines
  <1>3. Started
    BY <1>1, <1>2, WorkersAssumption DEF Started, unspawned, Goroutines
  <1> QED BY <1>1, <1>2, <1>3 DEF ProcessInv, TrueEntries, ListeningIsTrue, LogQueue

LEMMA Senders ==
  ASSUME NEW STATE q, q \in Seq(Entry)
  PROVE  \A i \in DOMAIN q : q[i].from \in Goroutines
  <1>1. \A i \in DOMAIN q : q[i] \in Entry
    OBVIOUS
  <1>2. \A e \in Entry : e.from \in Goroutines
    BY DEF Entry, Goroutines
  <1> QED BY <1>1, <1>2

\* A goroutine that is not waiting starts to.
LEMMA SendQueue ==
  ASSUME LogQueue, logCh \in Seq(Entry), DOMAIN pc = Goroutines,
         NEW g \in Goroutines, pc[g] # "send", NEW e \in Entry, e.from = g,
         pc' = [pc EXCEPT ![g] = "send"], logCh' = Append(logCh, e)
  PROVE  LogQueue'
  <1> DEFINE n == Len(logCh) + 1
  <1>1. /\ DOMAIN logCh = 1 .. Len(logCh) /\ Len(logCh) \in Nat /\ DOMAIN logCh' = 1 .. n
        /\ logCh'[n] = e /\ \A i \in 1 .. Len(logCh) : logCh'[i] = logCh[i]
    OBVIOUS
  <1>2. \A i \in DOMAIN logCh : logCh[i].from \in Goroutines /\ logCh[i].from # g
    BY Senders DEF LogQueue
  <1>3. pc'[g] = "send" /\ \A h \in Goroutines : h # g => pc'[h] = pc[h]
    OBVIOUS
  <1>4. \A i \in DOMAIN logCh' : i = n \/ (i \in DOMAIN logCh /\ i # n)
    BY <1>1
  <1>5. \A i \in DOMAIN logCh' : pc'[logCh'[i].from] = "send"
    BY <1>1, <1>2, <1>3, <1>4 DEF LogQueue
  <1>6. \A i, j \in DOMAIN logCh' : logCh'[i].from = logCh'[j].from => i = j
    BY <1>1, <1>2, <1>4 DEF LogQueue
  <1>7. ASSUME NEW h \in Goroutines, pc'[h] = "send"
        PROVE  \E i \in DOMAIN logCh' : logCh'[i].from = h
    <2>1. CASE h = g
      BY <1>1, <2>1
    <2>2. CASE h # g
      BY <1>1, <1>3, <1>7, <2>2 DEF LogQueue
    <2> QED BY <2>1, <2>2
  <1> QED BY <1>5, <1>6, <1>7 DEF LogQueue

\* RecordLogs takes the first entry and lets its goroutine go on.
LEMMA RecordQueue ==
  ASSUME LogQueue, logCh \in Seq(Entry), logCh # <<>>, DOMAIN pc = Goroutines,
         pc' = [pc EXCEPT ![Head(logCh).from] = Head(logCh).then], logCh' = Tail(logCh)
  PROVE  LogQueue'
  <1> DEFINE l == logCh[1]
  <1>1. /\ DOMAIN logCh = 1 .. Len(logCh) /\ Len(logCh) \in Nat /\ 1 \in DOMAIN logCh
        /\ Head(logCh) = l /\ l \in Entry
        /\ DOMAIN logCh' = 1 .. Len(logCh) - 1
        /\ \A i \in DOMAIN logCh' : logCh'[i] = logCh[i + 1]
    OBVIOUS
  <1>2. l.from \in Goroutines /\ l.then # "send"
    BY <1>1 DEF Entry, Then, Goroutines
  <1>3. /\ \A h \in Goroutines : h # l.from => pc'[h] = pc[h]
        /\ pc'[l.from] = l.then
    BY <1>1, <1>2
  <1>4. \A i \in DOMAIN logCh : logCh[i].from \in Goroutines /\ (i # 1 => logCh[i].from # l.from)
    BY <1>1, Senders DEF LogQueue
  <1> HIDE DEF l
  <1>5. \A i \in DOMAIN logCh' : i + 1 \in DOMAIN logCh /\ i + 1 # 1
    BY <1>1
  <1>6. \A i \in DOMAIN logCh' : pc'[logCh'[i].from] = "send"
    BY <1>1, <1>3, <1>4, <1>5 DEF LogQueue
  <1>7. \A i, j \in DOMAIN logCh' : logCh'[i].from = logCh'[j].from => i = j
    <2> SUFFICES ASSUME NEW i \in DOMAIN logCh', NEW j \in DOMAIN logCh',
                        logCh'[i].from = logCh'[j].from
                 PROVE  i = j
      OBVIOUS
    <2>1. i + 1 = j + 1
      BY <1>1, <1>5 DEF LogQueue
    <2> QED BY <1>1, <2>1
  <1>8. ASSUME NEW h \in Goroutines, pc'[h] = "send"
        PROVE  \E i \in DOMAIN logCh' : logCh'[i].from = h
    <2>1. h # l.from /\ pc[h] = "send"
      BY <1>2, <1>3, <1>8
    <2>2. PICK i \in DOMAIN logCh : logCh[i].from = h
      BY <2>1 DEF LogQueue
    <2>3. i # 1
      BY <2>1, <2>2 DEF l
    <2>4. i - 1 \in DOMAIN logCh' /\ (i - 1) + 1 = i
      BY <1>1, <2>3
    <2> QED BY <1>1, <2>2, <2>4
  <1> QED BY <1>6, <1>7, <1>8 DEF LogQueue

\* Nobody starts or ends a send.
LEMMA SameQueue ==
  ASSUME LogQueue, logCh \in Seq(Entry), logCh' = logCh,
         \A g \in Goroutines : pc'[g] = "send" <=> pc[g] = "send"
  PROVE  LogQueue'
  <1>1. \A i \in DOMAIN logCh : logCh[i].from \in Goroutines
    BY Senders
  <1> QED BY <1>1 DEF LogQueue

\* A goroutine that has started goes on, and main does not.
LEMMA GoesOn ==
  ASSUME Started, DOMAIN pc = Goroutines, main' = main, told' = told,
         NEW g \in Goroutines, g \in Servers => pc[g] # "none", main \notin {"flags", "assets"},
         NEW p, pc' = [pc EXCEPT ![g] = p], g \in Workers => p \in {"idle", "send"}
  PROVE  Started'
  <1>1. \A h \in Goroutines : pc'[h] = IF h = g THEN p ELSE pc[h]
    OBVIOUS
  <1>2. \A s \in unspawned[main] : s \in Servers
    BY DEF Started, unspawned, Servers, UDP
  <1>3. \A s \in unspawned[main] : s \in Goroutines /\ s # g /\ pc[s] = "none"
    BY <1>2 DEF Started, Goroutines
  <1>4. \A w \in Workers : w \in Goroutines /\ pc[w] \in {"idle", "send"}
    BY DEF Started, Goroutines
  <1>5. \A s \in unspawned[main'] : pc'[s] = "none"
    BY <1>1, <1>3
  <1>6. \A w \in Workers : pc'[w] \in {"idle", "send"}
    BY <1>1, <1>4
  <1> QED BY <1>5, <1>6 DEF Started

\* A server that has got anywhere was started by main.
LEMMA Spawned ==
  ASSUME Started, NEW s \in Servers, pc[s] # "none"
  PROVE  main \notin {"flags", "assets"}
  BY DEF Started, unspawned

\* Goroutine g sends an entry that is true.
LEMMA SendProcess ==
  ASSUME ProcessInv, main \notin {"flags", "assets"}, main' = main, told' = told,
         NEW g \in Servers \cup Workers, pc[g] \notin {"send", "none"},
         NEW says \in Says, NEW then \in Then,
         pc' = [pc EXCEPT ![g] = "send"],
         logCh' = Append(logCh, [from |-> g, says |-> says, then |-> then]), bound \subseteq bound',
         (says = "listening" /\ g \in UDP) => g \in bound',
         g = "http" => then = "bind" /\ pc[g] = "start",
         g \in Workers => then = "idle"
  PROVE  ProcessInv'
  <1> DEFINE e == [from |-> g, says |-> says, then |-> then]
  <1>1. e \in Entry
    BY DEF Entry
  <1>2. logCh \in Seq(Entry) /\ logCh' = Append(logCh, e)
    BY DEF ProcessInv
  <1> HIDE DEF e
  <1>3. logCh' \in Seq(Entry)
    BY <1>1, <1>2
  <1>4. DOMAIN pc = Goroutines /\ DOMAIN pc' = Goroutines /\ g \in Goroutines
    BY DEF ProcessInv, Goroutines
  <1>5. TrueEntries'
    <2> SUFFICES ASSUME NEW i \in DOMAIN logCh'
                 PROVE  /\ (logCh'[i].says = "listening" /\ logCh'[i].from \in UDP) => logCh'[i].from \in bound'
                        /\ logCh'[i].from = "http" => logCh'[i].then = "bind"
                        /\ logCh'[i].from \in Workers => logCh'[i].then = "idle"
      BY DEF TrueEntries
    <2>1. CASE i \in DOMAIN logCh
      <3>1. logCh'[i] = logCh[i]
        BY <1>2, <2>1
      <3> QED BY <2>1, <3>1 DEF ProcessInv, TrueEntries
    <2>2. CASE i \notin DOMAIN logCh
      <3>1. logCh'[i] = e
        BY <1>1, <1>2, <2>2
      <3>2. e.from = g /\ e.says = says /\ e.then = then
        BY DEF e
      <3> QED BY <3>1, <3>2
    <2> QED BY <2>1, <2>2
  <1>6. ListeningIsTrue'
    <2>1. "http" \in Goroutines /\ (g # "http" => pc'["http"] = pc["http"])
      BY <1>4 DEF Goroutines, Servers
    <2> QED BY <2>1 DEF ProcessInv, ListeningIsTrue
  <1>7. LogQueue'
    <2>1. e.from = g
      BY DEF e
    <2> QED BY <1>1, <1>2, <1>4, <2>1, SendQueue, ZenonT(30) DEF ProcessInv
  <1>8. Started'
    BY <1>4, GoesOn, ZenonT(30) DEF ProcessInv
  <1> QED BY <1>3, <1>4, <1>5, <1>6, <1>7, <1>8 DEF ProcessInv

LEMMA RecordProcess ==
  ASSUME ProcessInv, RecordLogs
  PROVE  ProcessInv'
  <1>1. logCh \in Seq(Entry) /\ logCh # <<>> /\ logCh' = Tail(logCh) /\ DOMAIN pc = Goroutines
    BY DEF ProcessInv, RecordLogs
  <1>2. logCh' \in Seq(Entry)
    BY <1>1
  <1>3. \A i \in DOMAIN logCh' : i + 1 \in DOMAIN logCh /\ logCh'[i] = logCh[i + 1]
    BY <1>1
  <1> DEFINE l == logCh[1]
  <1>4. Head(logCh) = l /\ 1 \in DOMAIN logCh
    BY <1>1
  <1>5. l \in Entry
    BY <1>1, <1>4
  <1>6. /\ l.from \in Goroutines /\ pc[l.from] = "send"
        /\ (l.says = "listening" /\ l.from \in UDP) => l.from \in bound
        /\ l.from = "http" => l.then = "bind"
        /\ l.from \in Workers => l.then = "idle"
    BY <1>4, <1>5 DEF ProcessInv, LogQueue, TrueEntries, Entry, Goroutines
  <1> HIDE DEF l
  <1>7. /\ main = "record" /\ main' = main /\ bound' = bound
        /\ pc' = [pc EXCEPT ![l.from] = l.then]
        /\ told' = told \/ (told' = told \cup {l.from} /\ l.says = "listening")
    BY <1>4, ZenonT(30) DEF RecordLogs, printed
  <1>8. ListeningIsTrue'
    <2>1. /\ "http" \in Goroutines
          /\ pc'["http"] = IF l.from = "http" THEN "bind" ELSE pc["http"]
      BY <1>1, <1>6, <1>7 DEF Goroutines, Servers
    <2> QED BY <1>6, <1>7, <2>1 DEF ProcessInv, ListeningIsTrue
  <1>9. DOMAIN pc' = Goroutines
    BY <1>1, <1>7
  <1>10. TrueEntries'
    BY <1>3, <1>7 DEF ProcessInv, TrueEntries
  <1>11. LogQueue'
    <2>1. pc' = [pc EXCEPT ![Head(logCh).from] = Head(logCh).then]
      BY DEF RecordLogs
    <2> QED BY <1>1, <2>1, RecordQueue DEF ProcessInv
  <1>12. Started'
    <2>1. \A h \in Goroutines : pc'[h] = IF h = l.from THEN l.then ELSE pc[h]
      BY <1>1, <1>7
    <2>2. \A w \in Workers : w \in Goroutines /\ pc[w] \in {"idle", "send"}
      BY DEF ProcessInv, Started, Goroutines
    <2>3. \A w \in Workers : pc'[w] \in {"idle", "send"}
      BY <1>6, <2>1, <2>2
    <2>4. unspawned["record"] = {} /\ "record" \in DOMAIN unspawned
      BY DEF unspawned
    <2> QED BY <1>7, <2>3, <2>4 DEF Started
  <1> QED BY <1>2, <1>8, <1>9, <1>10, <1>11, <1>12 DEF ProcessInv

LEMMA SpawnProcess ==
  ASSUME ProcessInv, Spawn
  PROVE  ProcessInv'
  <1>1. /\ main \in Servers /\ pc' = [pc EXCEPT ![main] = "start"] /\ main' = nextGo[main]
        /\ bound' = bound /\ logCh' = logCh /\ told' = told
    BY DEF Spawn
  <1>2. /\ DOMAIN pc = Goroutines /\ main \in Goroutines /\ pc[main] = "none"
    BY <1>1 DEF ProcessInv, Started, unspawned, Goroutines, Servers, UDP
  <1>3. \A h \in Goroutines : pc'[h] = IF h = main THEN "start" ELSE pc[h]
    BY <1>1, <1>2
  <1>4. LogQueue'
    <2>1. \A h \in Goroutines : pc'[h] = "send" <=> pc[h] = "send"
      BY <1>2, <1>3
    <2> QED BY <1>1, <2>1, SameQueue DEF ProcessInv
  <1>5. Started'
    <2>1. /\ main' \in DOMAIN unspawned /\ main' \notin {"flags", "assets"}
          /\ unspawned[main'] \subseteq unspawned[main] \ {main}
          /\ unspawned[main] \subseteq Servers
      BY <1>1 DEF unspawned, nextGo, Servers, UDP
    <2>2. \A s \in unspawned[main] : s \in Goroutines /\ pc[s] = "none"
      BY <2>1 DEF ProcessInv, Started, Goroutines
    <2>3. \A s \in unspawned[main'] : pc'[s] = "none"
      BY <1>3, <2>1, <2>2
    <2>4. \A w \in Workers : w \in Goroutines /\ w # main /\ pc[w] \in {"idle", "send"}
      BY <1>1, WorkersAssumption DEF ProcessInv, Started, Goroutines
    <2>5. \A w \in Workers : pc'[w] \in {"idle", "send"}
      BY <1>3, <2>4
    <2> QED BY <2>1, <2>3, <2>5 DEF Started
  <1>6. ListeningIsTrue'
    <2>1. "http" \in Goroutines
      BY DEF Goroutines, Servers
    <2>2. main = "http" \/ pc'["http"] = pc["http"]
      BY <1>3, <2>1
    <2> QED BY <1>1, <1>2, <2>2 DEF ProcessInv, ListeningIsTrue
  <1>7. TrueEntries'
    BY <1>1 DEF ProcessInv, TrueEntries
  <1> QED BY <1>1, <1>2, <1>4, <1>5, <1>6, <1>7 DEF ProcessInv

\* Server s goes on without a log entry.
LEMMA MoveProcess ==
  ASSUME ProcessInv, main' = main, told' = told, logCh' = logCh,
         NEW s \in Servers, pc[s] \notin {"none", "send"},
         NEW p, p # "send", pc' = [pc EXCEPT ![s] = p],
         bound' \cap UDP = bound \cap UDP, s # "http" => bound' = bound,
         s = "http" => "http" \in bound' \/ p \in {"bind", "failed"}
  PROVE  ProcessInv'
  <1>1. DOMAIN pc = Goroutines /\ s \in Goroutines /\ s \notin Workers
    BY WorkersAssumption DEF ProcessInv, Goroutines
  <1>2. \A h \in Goroutines : pc'[h] = IF h = s THEN p ELSE pc[h]
    BY <1>1
  <1>3. LogQueue'
    <2>1. \A h \in Goroutines : pc'[h] = "send" <=> pc[h] = "send"
      BY <1>1, <1>2
    <2> QED BY <2>1, SameQueue DEF ProcessInv
  <1>4. main \notin {"flags", "assets"}
    BY Spawned DEF ProcessInv
  <1>5. Started'
    BY <1>1, <1>4, GoesOn, ZenonT(30) DEF ProcessInv
  <1>6. ListeningIsTrue'
    <2>1. "http" \in Goroutines
      BY DEF Goroutines, Servers
    <2>2. s = "http" \/ pc'["http"] = pc["http"]
      BY <1>2, <2>1
    <2>3. s = "http" => pc'["http"] = p
      BY <1>2, <2>1
    <2> QED BY <2>2, <2>3 DEF ProcessInv, ListeningIsTrue
  <1>7. TrueEntries'
    BY DEF ProcessInv, TrueEntries
  <1> QED BY <1>1, <1>3, <1>5, <1>6, <1>7 DEF ProcessInv

LEMMA StepProcess == ProcessInv /\ [Next]_vars => ProcessInv'
  <1> SUFFICES ASSUME ProcessInv, [Next]_vars PROVE ProcessInv'
    OBVIOUS
  <1>0. Started /\ \A s \in UDP : s \in Servers /\ s # "http" /\ s \notin Workers
    BY WorkersAssumption DEF ProcessInv, Servers, UDP
  <1>00. "http" \in Servers /\ "http" \notin UDP /\ "http" \notin Workers
    BY WorkersAssumption DEF Servers, UDP
  <1>1. CASE PickBooter \/ LoadAssets
    <2>1. /\ pc' = pc /\ bound' = bound /\ logCh' = logCh /\ told' = told
          /\ main \in {"flags", "assets"} /\ main' \in {"flags", "assets", "dhcp"}
      BY <1>1 DEF PickBooter, LoadAssets
    <2>2. LogQueue'
      BY <2>1 DEF ProcessInv, LogQueue
    <2>3. main' \in DOMAIN unspawned /\ unspawned[main'] = unspawned[main]
      BY <2>1 DEF unspawned
    <2>4. Started'
      BY <2>1, <2>3 DEF ProcessInv, Started
    <2> QED BY <2>1, <2>2, <2>4 DEF ProcessInv, TrueEntries, ListeningIsTrue
  <1>2. CASE Spawn
    BY <1>2, SpawnProcess
  <1>3. CASE RecordLogs
    BY <1>3, RecordProcess
  <1>4. ASSUME NEW s \in UDP, ListenUDP(s) PROVE ProcessInv'
    <2>1. pc[s] = "start" /\ main' = main /\ told' = told
      BY <1>4 DEF ListenUDP
    <2>2. main \notin {"flags", "assets"}
      BY <1>0, <2>1, Spawned
    <2>3. CASE canBind(s)
      <3>1. Send(s, "listening", "serve") /\ bound \subseteq bound' /\ s \in bound'
        BY <1>4, <2>3 DEF ListenUDP
      <3>2. pc[s] \notin {"send", "none"}
        BY <2>1
      <3> QED BY <1>0, <2>1, <2>2, <3>1, <3>2, SendProcess, ZenonT(30) DEF Send, Says, Then
    <2>4. CASE ~canBind(s)
      <3>1. pc' = [pc EXCEPT ![s] = "failed"] /\ logCh' = logCh /\ bound' = bound
        BY <1>4, <2>4 DEF ListenUDP
      <3> QED BY <1>0, <2>1, <3>1, MoveProcess, ZenonT(30)
    <2> QED BY <2>3, <2>4
  <1>5. ASSUME NEW s \in UDP, Loop(s) PROVE ProcessInv'
    <2>1. pc[s] = "serve" /\ main' = main /\ told' = told /\ bound' = bound
      BY <1>5 DEF Loop
    <2>2. PICK says \in {"debug", "info"} : Send(s, says, "serve")
      BY <1>5 DEF Loop
    <2>3. main \notin {"flags", "assets"} /\ pc[s] \notin {"send", "none"}
      BY <1>0, <2>1, Spawned
    <2>4. says # "listening" /\ says \in Says
      BY DEF Says
    <2> QED BY <1>0, <2>1, <2>2, <2>3, <2>4, SendProcess, ZenonT(30) DEF Send, Then
  <1>6. CASE StartHTTP
    <2>1. pc["http"] = "start" /\ main' = main /\ told' = told /\ bound' = bound
      BY <1>6 DEF StartHTTP
    <2>2. CASE "randomness" \in broken
      <3>1. pc' = [pc EXCEPT !["http"] = "failed"] /\ logCh' = logCh
        BY <1>6, <2>2 DEF StartHTTP
      <3> QED BY <1>00, <2>1, <3>1, MoveProcess, ZenonT(30)
    <2>3. CASE "randomness" \notin broken
      <3>1. Send("http", "listening", "bind")
        BY <1>6, <2>3 DEF StartHTTP
      <3>2. main \notin {"flags", "assets"} /\ pc["http"] \notin {"send", "none"}
        BY <1>0, <1>00, <2>1, Spawned
      <3> QED BY <1>00, <2>1, <3>1, <3>2, SendProcess, ZenonT(30) DEF Send, Says, Then
    <2> QED BY <2>2, <2>3
  <1>7. CASE ListenHTTP
    <2>1. /\ pc["http"] \notin {"none", "send"} /\ main' = main /\ told' = told /\ logCh' = logCh
          /\ \E p \in {"failed", "serve"} : /\ pc' = [pc EXCEPT !["http"] = p]
                                            /\ p = "serve" => "http" \in bound'
          /\ bound' \cap UDP = bound \cap UDP
      BY <1>00, <1>7 DEF ListenHTTP
    <2>2. PICK p \in {"failed", "serve"} : /\ pc' = [pc EXCEPT !["http"] = p]
                                           /\ p = "serve" => "http" \in bound'
      BY <2>1, ZenonT(30)
    <2>3. p # "send" /\ ("http" \in bound' \/ p \in {"bind", "failed"})
      BY <2>2
    <2> QED BY <1>00, <2>1, <2>2, <2>3, MoveProcess, ZenonT(30)
  <1>8. ASSUME NEW s \in Servers, Fatal(s) PROVE ProcessInv'
    <2>1. UNCHANGED <<main, pc, bound, logCh, told>>
      BY <1>8 DEF Fatal
    <2> QED BY <2>1 DEF ProcessInv, Started, TrueEntries, ListeningIsTrue, LogQueue
  <1>9. ASSUME NEW w \in Workers, Work(w) PROVE ProcessInv'
    <2>1. pc[w] = "idle" /\ told # {} /\ main' = main /\ told' = told /\ bound' = bound
      BY <1>9 DEF Work
    <2>2. PICK says \in {"debug", "info"} : Send(w, says, "idle")
      BY <1>9 DEF Work
    <2>3. main \notin {"flags", "assets"} /\ pc[w] \notin {"send", "none"}
      BY <1>0, <2>1 DEF Started
    <2>4. says # "listening" /\ says \in Says
      BY DEF Says
    <2>5. w # "http"
      BY <1>00
    <2> QED BY <2>1, <2>2, <2>3, <2>4, <2>5, SendProcess, ZenonT(30) DEF Send, Then
  <1>10. CASE UNCHANGED vars
    BY <1>10 DEF vars, ProcessInv, Started, TrueEntries, ListeningIsTrue, LogQueue
  <1> QED BY <1>1, <1>2, <1>3, <1>4, <1>5, <1>6, <1>7, <1>8, <1>9, <1>10 DEF Next, Main, HTTP

\* Whoever is blocked in a send on the unbuffered logCh has a reader, since main
\* gets to RecordLogs without logging, and one entry that RecordLogs will take.
THEOREM LogsAreRead == Spec => []BlockedHaveReader
  <1>1. ASSUME ProcessInv, NEW g \in DOMAIN pc, pc[g] = "send"
        PROVE  /\ main \notin {"flags", "assets"}
               /\ \E i \in DOMAIN logCh : \A j \in DOMAIN logCh : logCh[j].from = g <=> j = i
    <2>1. g \in Goroutines /\ LogQueue
      BY <1>1 DEF ProcessInv
    <2>2. main \notin {"flags", "assets"}
      BY <1>1, <2>1 DEF ProcessInv, Started
    <2>3. PICK i \in DOMAIN logCh : logCh[i].from = g
      BY <1>1, <2>1 DEF LogQueue
    <2> QED BY <2>1, <2>2, <2>3 DEF LogQueue
  <1>2. ProcessInv => BlockedHaveReader
    BY <1>1 DEF BlockedHaveReader
  <1> QED BY InitProcess, StepProcess, <1>2, PTL DEF Spec

\* What the log says about the sockets of the UDP servers is true, and an HTTP
\* server that was announced without one is about to listen or has failed.
THEOREM LogsAreTrue == Spec => []ListeningIsTrue
  <1>1. ProcessInv => ListeningIsTrue
    BY DEF ProcessInv
  <1> QED BY InitProcess, StepProcess, <1>1, PTL DEF Spec
=============================================================================
