-------------------------------- MODULE Tftp --------------------------------
(***************************************************************************)
(* The TFTP server of src/tftp/tftp.go with one client address and the     *)
(* network between them.  Serve starts a goroutine (a "transfer", with its *)
(* own UDP socket) for every read request; transfer and sendPacket send    *)
(* the file in lock step, one block per acknowledgement.                   *)
(*                                                                         *)
(* A goroutine is observable only where it blocks in conn.Read, so what it *)
(* does from one conn.Read to the next is one step.  Transfers to other    *)
(* client addresses share no state with these.                             *)
(*                                                                         *)
(* A payload is the range of the file it carries (from, len).  A packet    *)
(* also has the true number blk of the block it is about; only its low 16  *)
(* bits, wire(blk), are on the wire, and only they are compared.           *)
(***************************************************************************)
EXTENDS TftpRequest

CONSTANTS
    Transfers,          \* goroutines Serve may start for this client
    Listener,           \* the port-69 socket, as the source of a packet
    NoTID,              \* the client has not heard from a transfer yet
    Requests,           \* datagrams the client may send to port 69
    Size,               \* length of the file the Handler serves
    SeqMod,             \* 2^16: number of values of the uint16 seq
    NumRetries,         \* numRetries
    Lifetime,           \* a packet about block b is gone from the network once
                        \* its transfer has reached block b + Lifetime
    MaxLoss,            \* bound: how many packets the network loses
    Duplicates,         \* the network may deliver a packet more than once
    SpuriousTimeouts,   \* the read deadline may pass while an answer is on its way
    Faults              \* what else may fail, of the set FaultKinds

defaultBlockSize == 512

FaultKinds == {"dial", "handler", "read", "conn", "abort"}

ASSUME TftpAssumption ==
    /\ Listener \notin Transfers
    /\ NoTID \notin Transfers
    /\ NoTID # Listener
    /\ Requests \subseteq Datagram
    /\ Size \in Nat
    /\ SeqMod \in Nat
    /\ NumRetries \in Nat \ {0}
    /\ Lifetime \in Nat \ {0}
    /\ Lifetime < SeqMod
    /\ MaxLoss \in Nat
    /\ Duplicates \in BOOLEAN
    /\ SpuriousTimeouts \in BOOLEAN
    /\ Faults \subseteq FaultKinds

VARIABLES
    pc,         \* where each transfer is
    bsize,      \* its block size (req.BlockSize until the transfer starts)
    blk,        \* blocks sent so far, the current one included; seq = wire(blk)
    off,        \* bytes read from the file
    n,          \* bytes in the current block
    try,        \* sendPacket's retry counter
    rrqs,       \* requests in the network
    down,       \* packets to the client in the network
    up,         \* packets to the transfers in the network
    losses,     \* packets lost so far
    cpc,        \* the client's state
    ctid,       \* the transfer the client is bound to
    cbsize,     \* the block size the client expects
    cblk,       \* blocks the client accepted
    got,        \* bytes the client accepted
    cpos        \* where in the file the last accepted payload ends

transferVars == <<pc, bsize, blk, off, n, try>>
clientVars   == <<cpc, ctid, cbsize, cblk, got, cpos>>
vars == <<transferVars, rrqs, down, up, losses, clientVars>>

Packet ==
    [t : Transfers \cup {Listener}, op : {"OACK", "DATA", "ERROR"},
     blk : Nat, from : Nat, len : Nat]
Reply == [t : Transfers, op : {"ACK", "ERROR"}, blk : Nat]

TypeOK ==
    /\ pc \in [Transfers -> {"idle", "start", "oack", "data", "sent", "failed"}]
    /\ bsize \in [Transfers -> Nat]
    /\ blk \in [Transfers -> Nat]
    /\ off \in [Transfers -> 0 .. Size]
    /\ n \in [Transfers -> Nat]
    /\ try \in [Transfers -> 0 .. NumRetries - 1]
    /\ rrqs \subseteq Requests
    /\ down \subseteq Packet
    /\ up \subseteq Reply
    /\ losses \in 0 .. MaxLoss
    /\ cpc \in {"init", "wait", "recv", "done", "aborted"}
    /\ ctid \in Transfers \cup {NoTID}
    /\ cbsize \in Nat
    /\ cblk \in Nat
    /\ got \in Nat
    /\ cpos \in Nat

Init ==
    /\ pc = [t \in Transfers |-> "idle"]
    /\ bsize = [t \in Transfers |-> 0]
    /\ blk = [t \in Transfers |-> 0]
    /\ off = [t \in Transfers |-> 0]
    /\ n = [t \in Transfers |-> 0]
    /\ try = [t \in Transfers |-> 0]
    /\ rrqs = {}
    /\ down = {}
    /\ up = {}
    /\ losses = 0
    /\ cpc = "init"
    /\ ctid = NoTID
    /\ cbsize = 0
    /\ cblk = 0
    /\ got = 0
    /\ cpos = 0

-----------------------------------------------------------------------------
(* Packets.                                                                *)

wire(k) == k % SeqMod           \* the uint16 on the wire

oackPkt(t, b) == [t |-> t, op |-> "OACK", blk |-> 0, from |-> 0, len |-> b]
dataPkt(t, k, from, len) == [t |-> t, op |-> "DATA", blk |-> k, from |-> from, len |-> len]
mkError(t, k) == [t |-> t, op |-> "ERROR", blk |-> k, from |-> 0, len |-> 0]
reply(t, op, k) == [t |-> t, op |-> op, blk |-> k]

\* The network still holds m: it is not older than Lifetime blocks.
fresh(m) == m.t \in Transfers => m.blk + Lifetime > blk[m.t]

\* What is left of the packets s once m has been delivered.
after(s, m) == IF Duplicates THEN s ELSE s \ {m}

-----------------------------------------------------------------------------
(* The server.                                                             *)

\* Serve: an unparsable datagram is answered with an ERROR, any other one
\* starts a transfer.  The request stays in rrqs: the client retransmits it
\* and the network may duplicate it.
Serve(p) ==
    /\ p \in rrqs
    /\ \/ /\ ~validRRQ(p)
          /\ down' = down \cup {mkError(Listener, 0)}
          /\ UNCHANGED transferVars
       \/ /\ validRRQ(p)
          /\ \E t \in Transfers :
                /\ pc[t] = "idle"
                /\ pc' = [pc EXCEPT ![t] = "start"]
                /\ bsize' = [bsize EXCEPT ![t] = rrqBlockSize(p)]
          /\ UNCHANGED <<blk, off, n, try, down>>
    /\ UNCHANGED <<rrqs, up, losses, clientVars>>

\* A transfer returns early; said: the ERROR packet it leaves, if any.
fail(t, said) ==
    /\ pc' = [pc EXCEPT ![t] = "failed"]
    /\ down' = down \cup said
    /\ UNCHANGED <<bsize, blk, off, n, try>>

\* Mutant: f.Read instead of io.ReadFull, which may return less than asked for.
readFull_short(o, b) == IF Size - o < b THEN Size - o ELSE b - 1

\* Bytes io.ReadFull gets for a block of b bytes, o bytes into the file.
readFull(o, b) == IF Size - o < b THEN Size - o ELSE b

\* One iteration of transfer's loop up to the first conn.Read of sendPacket,
\* for block k of b bytes.  io.ReadFull's error is io.EOF when nothing is left.
sendBlock(t, k, b) ==
    LET len == readFull(off[t], b)
    IN  \/ /\ len > 0
           /\ pc' = [pc EXCEPT ![t] = "data"]
           /\ bsize' = [bsize EXCEPT ![t] = b]
           /\ blk' = [blk EXCEPT ![t] = k]
           /\ off' = [off EXCEPT ![t] = @ + len]
           /\ n' = [n EXCEPT ![t] = len]
           /\ try' = [try EXCEPT ![t] = 0]
           /\ down' = down \cup {dataPkt(t, k, off[t], len)}
        \/ /\ len = 0 \/ "read" \in Faults
           /\ fail(t, {mkError(t, blk[t])})

\* The goroutine up to its first conn.Read: dial, call the handler, then send
\* the OACK if a block size was negotiated, else the first block.
Start(t) ==
    /\ pc[t] = "start"
    /\ \/ "dial" \in Faults /\ fail(t, {})
       \/ "handler" \in Faults /\ fail(t, {mkError(t, 0)})
       \/ /\ bsize[t] > 0
          /\ pc' = [pc EXCEPT ![t] = "oack"]
          /\ try' = [try EXCEPT ![t] = 0]
          /\ down' = down \cup {oackPkt(t, bsize[t])}
          /\ UNCHANGED <<bsize, blk, off, n>>
       \/ bsize[t] = 0 /\ sendBlock(t, 1, defaultBlockSize)
    /\ UNCHANGED <<rrqs, up, losses, clientVars>>

\* The transfer is blocked in sendPacket's conn.Read.
waiting(t) == pc[t] \in {"oack", "data"}

\* Mutant: any acknowledgement will do.
acksCurrent_any(t, k) == TRUE

\* sendPacket's test on an acknowledgement of block k.
acksCurrent(t, k) == wire(k) = wire(blk[t])

\* sendPacket reads the acknowledgement it waits for and returns nil: the
\* transfer is over after a block shorter than bsize, else it goes on.  Other
\* acknowledgements, short and unknown packets leave it in the same conn.Read.
RecvAck(t) ==
    /\ waiting(t)
    /\ \E m \in up :
          /\ m.t = t /\ m.op = "ACK" /\ fresh(m) /\ acksCurrent(t, m.blk)
          /\ up' = after(up, m)
    /\ \/ /\ pc[t] = "data" /\ n[t] < bsize[t]
          /\ pc' = [pc EXCEPT ![t] = "sent"]
          /\ UNCHANGED <<bsize, blk, off, n, try, down>>
       \/ /\ pc[t] = "oack" \/ n[t] = bsize[t]
          /\ sendBlock(t, blk[t] + 1, bsize[t])
    /\ UNCHANGED <<rrqs, losses, clientVars>>

\* sendPacket reads an ERROR packet: the transfer is given up silently.
RecvError(t) ==
    /\ waiting(t)
    /\ \E m \in up : m.t = t /\ m.op = "ERROR" /\ fresh(m) /\ up' = after(up, m)
    /\ fail(t, {})
    /\ UNCHANGED <<rrqs, losses, clientVars>>

\* Mutant: a retry reads the next bytes of the file into the buffer it resends.
currentPkt_reread(t) ==
    IF pc[t] = "oack" THEN oackPkt(t, bsize[t])
                      ELSE dataPkt(t, blk[t], off[t], n[t])

\* The packet sendPacket is trying to get acknowledged.
currentPkt(t) ==
    IF pc[t] = "oack" THEN oackPkt(t, bsize[t])
                      ELSE dataPkt(t, blk[t], off[t] - n[t], n[t])

\* The answer to the current packet is on its way, or the packet is on its way
\* to a client that will answer it.
answerComing(t) ==
    \/ reply(t, "ACK", blk[t]) \in up
    \/ currentPkt(t) \in down /\ cpc # "aborted" /\ ctid \in {NoTID, t}

\* Mutants: one try too many (try <= numRetries), one too few.
lastTry_more(t) == try[t] = NumRetries
lastTry_fewer(t) == try[t] + 2 >= NumRetries

\* sendPacket's retry budget: after this many tries the loop is left.
lastTry(t) == try[t] + 1 = NumRetries

\* Mutant: a timeout retries without counting the try.
Timeout_forever(t) ==
    /\ waiting(t)
    /\ SpuriousTimeouts \/ ~answerComing(t)
    /\ down' = down \cup {currentPkt(t)}
    /\ UNCHANGED <<pc, bsize, blk, off, n, try>>
    /\ UNCHANGED <<rrqs, up, losses, clientVars>>

\* The read deadline of this try passes: send the packet again, or give up.
Timeout(t) ==
    /\ waiting(t)
    /\ SpuriousTimeouts \/ ~answerComing(t)
    /\ \/ /\ ~lastTry(t)
          /\ try' = [try EXCEPT ![t] = @ + 1]
          /\ down' = down \cup {currentPkt(t)}
          /\ UNCHANGED <<pc, bsize, blk, off, n>>
       \/ lastTry(t) /\ fail(t, {})
    /\ UNCHANGED <<rrqs, up, losses, clientVars>>

\* conn.Read fails with anything but a timeout (an ICMP error, say).
ConnError(t) ==
    /\ waiting(t)
    /\ "conn" \in Faults
    /\ fail(t, {})
    /\ UNCHANGED <<rrqs, up, losses, clientVars>>

-----------------------------------------------------------------------------
(* The client, a PXE ROM's TFTP: not in this repository, modelled from     *)
(* what the server sends it and expects of it.                             *)

Request(p) ==
    /\ cpc = "init"
    /\ rrqs' = rrqs \cup {p}
    /\ cpc' = "wait"
    /\ UNCHANGED <<transferVars, down, up, losses, ctid, cbsize, cblk, got, cpos>>

\* The client hears from the transfer it is bound to, or from its first one.
hears(m) ==
    /\ m \in down
    /\ fresh(m)
    /\ ctid \in {NoTID, m.t}

ClientOack(m) ==
    /\ cpc \in {"wait", "recv"} /\ hears(m)
    /\ m.op = "OACK"
    /\ cblk = 0
    /\ cpc' = "recv"
    /\ ctid' = m.t
    /\ cbsize' = m.len
    /\ up' = up \cup {reply(m.t, "ACK", 0)}
    /\ down' = after(down, m)
    /\ UNCHANGED <<transferVars, rrqs, losses, cblk, got, cpos>>

\* The next block: keep it and acknowledge it.  A block shorter than the block
\* size is the last one.
ClientData(m) ==
    LET b == IF ctid = NoTID THEN defaultBlockSize ELSE cbsize
    IN  /\ cpc \in {"wait", "recv"} /\ hears(m)
        /\ m.op = "DATA"
        /\ wire(m.blk) = wire(cblk + 1)
        /\ cpc' = IF m.len < b THEN "done" ELSE "recv"
        /\ ctid' = m.t
        /\ cbsize' = b
        /\ cblk' = cblk + 1
        /\ got' = got + m.len
        /\ cpos' = m.from + m.len
        /\ up' = up \cup {reply(m.t, "ACK", cblk + 1)}
        /\ down' = after(down, m)
        /\ UNCHANGED <<transferVars, rrqs, losses>>

\* A block the client has already: only acknowledge it again.
ClientDup(m) ==
    /\ cpc \in {"recv", "done"} /\ hears(m)
    /\ m.op = "DATA"
    /\ cblk > 0
    /\ wire(m.blk) = wire(cblk)
    /\ up' = up \cup {reply(m.t, "ACK", cblk)}
    /\ down' = after(down, m)
    /\ UNCHANGED <<transferVars, rrqs, losses, clientVars>>

ClientError(m) ==
    /\ cpc \in {"wait", "recv"} /\ hears(m)
    /\ m.op = "ERROR"
    /\ cpc' = "aborted"
    /\ down' = after(down, m)
    /\ UNCHANGED <<transferVars, rrqs, up, losses, ctid, cbsize, cblk, got, cpos>>

\* A packet from another transfer than the one the client is bound to.
ClientStray(m) ==
    /\ m \in down /\ fresh(m)
    /\ ctid # NoTID /\ m.t # ctid /\ m.t \in Transfers
    /\ m.op # "ERROR"
    /\ up' = up \cup {reply(m.t, "ERROR", m.blk)}
    /\ down' = after(down, m)
    /\ UNCHANGED <<transferVars, rrqs, losses, clientVars>>

\* "Some PXE ROMs seem to request a transfer [...] and immediately abort it on
\* OACK": the client gives up on a transfer it is bound to.
ClientAbort ==
    /\ "abort" \in Faults
    /\ cpc \in {"wait", "recv"} /\ ctid # NoTID
    /\ cpc' = "aborted"
    /\ up' = up \cup {reply(ctid, "ERROR", cblk)}
    /\ UNCHANGED <<transferVars, rrqs, down, losses, ctid, cbsize, cblk, got, cpos>>

Lose ==
    /\ losses < MaxLoss
    /\ losses' = losses + 1
    /\ \/ \E m \in down : down' = down \ {m} /\ UNCHANGED up
       \/ \E m \in up : up' = up \ {m} /\ UNCHANGED down
    /\ UNCHANGED <<transferVars, rrqs, clientVars>>

-----------------------------------------------------------------------------
Transfer(t) ==
    Start(t) \/ RecvAck(t) \/ RecvError(t) \/ Timeout(t) \/ ConnError(t)

ClientRecv(m) ==
    ClientOack(m) \/ ClientData(m) \/ ClientDup(m) \/ ClientError(m) \/ ClientStray(m)

Next ==
    \/ \E p \in Requests : Request(p) \/ Serve(p)
    \/ \E t \in Transfers : Transfer(t)
    \/ \E m \in down : ClientRecv(m)
    \/ ClientAbort
    \/ Lose

Spec == Init /\ [][Next]_vars

\* The Go scheduler runs every runnable goroutine and conn.Read returns once
\* its deadline has passed; nothing is assumed of client and network, and no read
\* has to fail.
ServerFairness ==
    \A t \in Transfers : WF_vars(Start(t) \/ RecvAck(t) \/ RecvError(t) \/ Timeout(t))

FairSpec == Spec /\ ServerFairness

\* Client and network also do their part: Serve gets the request, the client
\* answers a packet it can use.
TimelySpec ==
    /\ FairSpec
    /\ WF_vars(\E p \in Requests : Request(p))
    /\ WF_vars(\E p \in Requests : Serve(p))
    /\ WF_vars(\E m \in down : ClientOack(m) \/ ClientData(m))
    /\ WF_vars(\E m \in down : ClientDup(m))

-----------------------------------------------------------------------------
(* Properties.                                                             *)

\* What the client holds is a prefix of the file: every payload it kept starts
\* where the one before ended, whatever the network repeats, reorders or loses,
\* and although the 16-bit block number wraps around.
InOrder == got = cpos

\* The client never takes a part of the file for all of it: transfer sends a
\* block shorter than the block size only at the end of the file.
DoneMeansComplete == cpc = "done" => got = Size

\* transfer's "Sent" is never logged for a client that does not have the whole
\* file, not even when duplicated requests run several transfers at once.
SentMeansDelivered ==
    \A t \in Transfers : pc[t] = "sent" => ctid = t /\ cpc = "done" /\ got = Size

\* Lock step: a transfer is at most one block ahead of what its client has kept,
\* and one the client is not bound to never gets past its first block.
LockStep ==
    \A t \in Transfers :
        IF ctid = t THEN blk[t] \in {cblk, cblk + 1} ELSE blk[t] <= 1

\* Server and client mean the same by a short block: they use the same block
\* size, at most what fits an Ethernet frame, however the request spelled it.
BlockSizeAgreed ==
    \A t \in Transfers : ctid = t => cbsize = bsize[t] /\ cbsize \in 1 .. ethernetBlockSize

\* The server implements FileDelivery.
Promise ==
    INSTANCE FileDelivery WITH
        finished <- cpc = "done",
        reported <- {t \in Transfers : pc[t] = "sent"}

DeliversFile == Promise!Spec

\* Every transfer ends, also when the client falls silent or keeps sending
\* acknowledgements sendPacket does not want.
TransferEnds ==
    \A t \in Transfers : pc[t] = "start" ~> pc[t] \in {"sent", "failed"}

\* With timely answers, a transfer outlives any NumRetries - 1 lost packets: the
\* client ends up with the file.
SurvivesLosses == <>(cpc = "done")

\* "Blob returns a handler that serves b for all paths and clients" (Blob's
\* comment): as long as nothing fails, no transfer is cut off by an ERROR.
BlobServed == \A m \in down : m.op = "ERROR" => m.t = Listener
-----------------------------------------------------------------------------
(* The inductive invariant behind the safety properties.                   *)

started(t) == pc[t] \notin {"idle", "start"}

\* A transfer's own bookkeeping: the current block ends at off, and only the
\* last block of the file is short.
ServerInv ==
    \A t \in Transfers :
        /\ bsize[t] <= ethernetBlockSize
        /\ pc[t] \in {"idle", "start", "oack"} => blk[t] = 0
        /\ pc[t] = "oack" => bsize[t] > 0
        /\ pc[t] \in {"data", "sent"} => blk[t] > 0
        /\ blk[t] = 0 => off[t] = 0 /\ n[t] = 0
        /\ blk[t] = 1 => off[t] = n[t]
        /\ blk[t] > 0 => n[t] \in 1 .. bsize[t] /\ n[t] <= off[t]
        /\ blk[t] > 0 /\ n[t] < bsize[t] => off[t] = Size

\* Packets in flight tell the truth about their transfer.
DownInv ==
    \A m \in down :
        /\ m.t = Listener => m.op = "ERROR"
        /\ m.t \in Transfers =>
              /\ started(m.t)
              /\ m.blk <= blk[m.t]
              /\ m.op = "OACK" => m.blk = 0 /\ m.len = bsize[m.t] /\ m.len > 0
              /\ m.op = "DATA" => m.blk > 0
              /\ m.op = "DATA" /\ m.blk = blk[m.t] =>
                    m.from = off[m.t] - n[m.t] /\ m.len = n[m.t]

\* Only the transfer the client is bound to is ever acknowledged.
UpInv == \A m \in up : m.op = "ACK" => m.t = ctid /\ m.blk <= cblk

UnboundInv ==
    /\ ctid = NoTID => cblk = 0 /\ got = 0 /\ cpc \in {"init", "wait", "aborted"}
    /\ \A t \in Transfers :
          ctid # t =>
             /\ blk[t] <= 1
             /\ blk[t] = 1 => bsize[t] = defaultBlockSize
             /\ blk[t] = 1 => \A m \in down : m.t = t => m.op # "OACK"

\* The client has either kept the current block of its transfer or not yet.
BoundInv ==
    \A t \in Transfers :
        ctid = t =>
           /\ started(t)
           /\ cbsize = bsize[t] /\ cbsize > 0
           /\ \/ blk[t] = cblk /\ got = off[t]
              \/ blk[t] = cblk + 1 /\ got = off[t] - n[t]
           /\ cpc = "done" <=> blk[t] = cblk /\ cblk > 0 /\ n[t] < bsize[t]

SentInv == \A t \in Transfers : pc[t] = "sent" => ctid = t /\ cpc = "done"

\* All of it; implies InOrder, DoneMeansComplete, SentMeansDelivered, LockStep
\* and BlockSizeAgreed.
IndInv ==
    /\ TypeOK
    /\ InOrder
    /\ ServerInv
    /\ DownInv
    /\ UpInv
    /\ UnboundInv
    /\ BoundInv
    /\ SentInv
=============================================================================
