----------------------------- MODULE TftpProof -----------------------------
(* Proofs that Tftp's safety properties hold for every value of its constants. *)
EXTENDS Tftp, WellFoundedInduction, TLAPS

USE SMTT(30), Z3T(30), ZenonT(30)

(***************************************************************************)
(* Facts about the operators.                                              *)
(***************************************************************************)

\* Block numbers closer than SeqMod are told apart by their low 16 bits: what
\* sendPacket's comparison of 16-bit numbers rests on.
LEMMA WireInjective ==
    \A i, j \in Nat : wire(i) = wire(j) /\ i - j < SeqMod /\ j - i < SeqMod => i = j
<1> SUFFICES ASSUME NEW i \in Nat, NEW j \in Nat,
                    wire(i) = wire(j), i - j < SeqMod, j - i < SeqMod
             PROVE  i = j
    OBVIOUS
<1> DEFINE p == i \div SeqMod
           q == j \div SeqMod
<1>0. SeqMod \in Nat /\ SeqMod > 1
    BY TftpAssumption
<1>1. /\ p \in Int /\ q \in Int
      /\ i = (SeqMod * p) + (i % SeqMod)
      /\ j = (SeqMod * q) + (j % SeqMod)
    BY <1>0
<1>2. i - j = SeqMod * (p - q)
    BY <1>0, <1>1 DEF wire
<1> HIDE DEF p, q
<1>3. p - q < 1 /\ q - p < 1
    BY <1>0, <1>1, <1>2
<1> QED BY <1>0, <1>1, <1>2, <1>3

\* A non-empty set of positions has a last one.
LEMMA LastPosition ==
    ASSUME NEW len \in Nat, NEW T, T \subseteq 1 .. len, T # {}
    PROVE  \E i \in T : \A j \in T : j <= i
<1> DEFINE U == {len - i : i \in T}
<1>1. U \subseteq Nat
    OBVIOUS
<1>2. U # {}
  <2> PICK i \in T : TRUE
      BY ZenonT(30)
  <2>1. len - i \in U
      OBVIOUS
  <2> QED BY <2>1
<1> DEFINE R == OpToRel(<, Nat)
<1>3. IsWellFoundedOn(R, Nat)
    BY NatLessThanWellFounded, ZenonT(30)
<1>4. \A y, z \in Nat : y < z => <<y, z>> \in R
    BY DEF OpToRel
<1> HIDE DEF R, U
<1>5. PICK x \in U : \A y \in U : ~ (<<y, x>> \in R)
    BY <1>1, <1>2, <1>3, WFMin, ZenonT(30)
<1>6. \A y \in U : x <= y
  <2> TAKE y \in U
  <2>1. x \in Nat /\ y \in Nat
      BY <1>1, <1>5
  <2>2. ~ (y < x)
      BY <1>4, <1>5, <2>1, ZenonT(30)
  <2> QED BY <2>1, <2>2
<1> USE DEF U
<1>7. PICK i \in T : x = len - i
    OBVIOUS
<1>8. \A j \in T : j <= i
  <2> TAKE j \in T
  <2>1. len - j \in U
      OBVIOUS
  <2> QED BY <1>6, <1>7, <2>1
<1> QED BY <1>8

\* parseRRQ's range check and clamp leave a block size that fits an Ethernet frame.
LEMMA ClampBound ==
    \A v \in minBlockSize .. maxBlockSize : clamp(v) \in 0 .. ethernetBlockSize
<1>1. minBlockSize \in Nat /\ maxBlockSize \in Nat /\ ethernetBlockSize \in Nat
    BY DEF minBlockSize, maxBlockSize, ethernetBlockSize
<1> QED BY <1>1 DEF clamp

\* A request parseRRQ accepts asks for no block size, or for one that fits an
\* Ethernet frame.
LEMMA BlockSizeBound ==
    ASSUME NEW p \in Requests, validRRQ(p)
    PROVE  rrqBlockSize(p) \in 0 .. ethernetBlockSize
<1>1. CASE blksizes(p) = {}
    BY <1>1 DEF rrqBlockSize, ethernetBlockSize
<1>2. CASE blksizes(p) # {}
  <2> DEFINE last == CHOOSE i \in blksizes(p) : \A j \in blksizes(p) : j <= i
  <2>1. p.strs \in Seq(STRING)
      BY TftpAssumption DEF Datagram
  <2>2. Len(p.strs) \in Nat
      BY <2>1
  <2>3. blksizes(p) \subseteq 1 .. Len(p.strs)
      BY <2>2 DEF blksizes, optionNames
  <2>4. \E i \in blksizes(p) : \A j \in blksizes(p) : j <= i
      BY <1>2, <2>2, <2>3, LastPosition, ZenonT(30)
  <2>5. last \in blksizes(p)
      BY <2>4
  <2>6. optionValue(p, last) \in minBlockSize .. maxBlockSize
      BY <2>5 DEF validRRQ
  <2>7. rrqBlockSize(p) = clamp(optionValue(p, last))
      BY <1>2 DEF rrqBlockSize
  <2> QED BY <2>6, <2>7, ClampBound
<1> QED BY <1>1, <1>2

(***************************************************************************)
(* The inductive invariant.                                                *)
(***************************************************************************)

\* The numbers of the code, without their values.
LEMMA BlockSizes ==
    /\ defaultBlockSize \in 1 .. ethernetBlockSize
    /\ ethernetBlockSize \in Nat
BY DEF defaultBlockSize, ethernetBlockSize

LEMMA InitInv == Init => IndInv
<1> SUFFICES ASSUME Init PROVE IndInv
    OBVIOUS
<1>1. TypeOK
    BY TftpAssumption DEF Init, TypeOK
<1>2. InOrder /\ DownInv /\ UpInv
    BY DEF Init, InOrder, DownInv, UpInv
<1>3. ServerInv
    BY BlockSizes DEF Init, ServerInv
<1>4. UnboundInv /\ BoundInv /\ SentInv
    BY TftpAssumption DEF Init, UnboundInv, BoundInv, SentInv
<1> QED BY <1>1, <1>2, <1>3, <1>4 DEF IndInv

\* A transfer that gives up disturbs nothing, whatever it tells the client.
LEMMA FailInv ==
    ASSUME IndInv, NEW t \in Transfers, pc[t] \in {"start", "oack", "data"},
           NEW said, said \subseteq {mkError(t, blk[t])}, fail(t, said),
           up' \subseteq up, UNCHANGED <<rrqs, losses, clientVars>>
    PROVE  IndInv'
<1> USE DEF IndInv, fail, clientVars
<1>0. TypeOK
    OBVIOUS
<1>1. TypeOK'
    BY DEF TypeOK, mkError, Packet
<1>2. InOrder'
    BY DEF InOrder
<1>3. ServerInv'
    BY DEF ServerInv, TypeOK
<1>4. DownInv'
    BY TftpAssumption DEF DownInv, mkError, started, TypeOK
<1>5. UpInv'
    BY DEF UpInv
<1>6. UnboundInv'
    BY DEF UnboundInv, mkError, TypeOK
<1>7. BoundInv'
    BY DEF BoundInv, started, TypeOK
<1>8. SentInv'
    BY DEF SentInv, TypeOK
<1> QED BY <1>1, <1>2, <1>3, <1>4, <1>5, <1>6, <1>7, <1>8

\* One more block: the transfer starts with it, unbound and without a negotiated
\* size, or the client has kept all that was sent before.
LEMMA SendBlockInv ==
    ASSUME IndInv, NEW t \in Transfers, NEW k \in Nat, NEW b \in Nat,
           \/ pc[t] = "start" /\ k = 1 /\ b = defaultBlockSize
           \/ /\ waiting(t) /\ k = blk[t] + 1 /\ b = bsize[t]
              /\ ctid = t /\ cblk = blk[t]
              /\ pc[t] = "oack" \/ n[t] = bsize[t],
           sendBlock(t, k, b), up' \subseteq up, UNCHANGED <<rrqs, losses, clientVars>>
    PROVE  IndInv'
<1> DEFINE len == readFull(off[t], b)
<1>0. /\ TypeOK /\ InOrder /\ ServerInv /\ DownInv /\ UpInv /\ UnboundInv /\ BoundInv /\ SentInv
      /\ pc[t] \in {"start", "oack", "data"}
      /\ k = blk[t] + 1
      /\ b \in 1 .. ethernetBlockSize /\ ethernetBlockSize \in Nat
    BY BlockSizes DEF IndInv, waiting, TypeOK, ServerInv
<1>1. CASE fail(t, {mkError(t, blk[t])})
    BY <1>0, <1>1, FailInv
<1>2. CASE /\ len > 0
           /\ pc' = [pc EXCEPT ![t] = "data"]
           /\ bsize' = [bsize EXCEPT ![t] = b]
           /\ blk' = [blk EXCEPT ![t] = k]
           /\ off' = [off EXCEPT ![t] = @ + len]
           /\ n' = [n EXCEPT ![t] = len]
           /\ try' = [try EXCEPT ![t] = 0]
           /\ down' = down \cup {dataPkt(t, k, off[t], len)}
  <2>0. len \in 1 .. b /\ off[t] + len <= Size /\ (len < b => off[t] + len = Size)
      BY <1>0, <1>2, TftpAssumption DEF readFull, TypeOK
  <2> HIDE DEF len
  <2>1. TypeOK'
      BY <1>0, <1>2, <2>0, TftpAssumption DEF TypeOK, dataPkt, Packet, clientVars
  <2>2. InOrder'
      BY <1>0 DEF InOrder, clientVars
  <2>3. ServerInv'
      BY <1>0, <1>2, <2>0 DEF ServerInv, TypeOK
  <2>4. DownInv'
      BY <1>0, <1>2, <2>0, TftpAssumption DEF DownInv, dataPkt, started, TypeOK, Packet
  <2>5. UpInv'
      BY <1>0 DEF UpInv, clientVars
  <2>6. UnboundInv'
      BY <1>0, <1>2, <2>0 DEF UnboundInv, DownInv, ServerInv, started, dataPkt, TypeOK, Packet, clientVars
  <2>7. BoundInv'
      BY <1>0, <1>2, <2>0 DEF BoundInv, ServerInv, started, TypeOK, clientVars
  <2>8. SentInv'
      BY <1>0, <1>2 DEF SentInv, TypeOK, clientVars
  <2> QED BY <2>1, <2>2, <2>3, <2>4, <2>5, <2>6, <2>7, <2>8 DEF IndInv
<1> QED BY <1>1, <1>2 DEF sendBlock

LEMMA ServeInv == ASSUME IndInv, NEW p \in Requests, Serve(p) PROVE IndInv'
<1>0. TypeOK /\ InOrder /\ ServerInv /\ DownInv /\ UpInv /\ UnboundInv /\ BoundInv /\ SentInv
    BY DEF IndInv
<1>1. CASE ~validRRQ(p)
  <2>1. TypeOK'
      BY <1>0, <1>1 DEF Serve, TypeOK, mkError, Packet, transferVars, clientVars
  <2>2. DownInv'
      BY <1>0, <1>1, TftpAssumption DEF Serve, DownInv, mkError, started, transferVars
  <2>3. UnboundInv'
      BY <1>0, <1>1, TftpAssumption DEF Serve, UnboundInv, mkError, transferVars, clientVars
  <2>4. (InOrder /\ ServerInv /\ UpInv /\ BoundInv /\ SentInv)'
      BY <1>0, <1>1 DEF Serve, InOrder, ServerInv, UpInv, BoundInv, SentInv, started,
                        transferVars, clientVars
  <2> QED BY <2>1, <2>2, <2>3, <2>4 DEF IndInv
<1>2. CASE validRRQ(p)
  <2>0. PICK t \in Transfers :
           /\ pc[t] = "idle"
           /\ pc' = [pc EXCEPT ![t] = "start"]
           /\ bsize' = [bsize EXCEPT ![t] = rrqBlockSize(p)]
           /\ UNCHANGED <<blk, off, n, try, down>>
           /\ UNCHANGED <<rrqs, up, losses, clientVars>>
      BY <1>2 DEF Serve
  <2>1. rrqBlockSize(p) \in 0 .. ethernetBlockSize /\ ethernetBlockSize \in Nat
      BY <1>2, BlockSizeBound, BlockSizes
  <2>2. TypeOK'
      BY <1>0, <2>0, <2>1 DEF TypeOK, clientVars
  <2>3. ServerInv'
      BY <1>0, <2>0, <2>1 DEF TypeOK, ServerInv
  <2>4. DownInv'
      BY <1>0, <2>0 DEF TypeOK, DownInv, started
  <2>5. UnboundInv'
      BY <1>0, <2>0 DEF TypeOK, UnboundInv, ServerInv, clientVars
  <2>6. BoundInv'
      BY <1>0, <2>0 DEF TypeOK, BoundInv, started, clientVars
  <2>7. (InOrder /\ UpInv /\ SentInv)'
      BY <1>0, <2>0 DEF TypeOK, InOrder, UpInv, SentInv, clientVars
  <2> QED BY <2>2, <2>3, <2>4, <2>5, <2>6, <2>7 DEF IndInv
<1> QED BY <1>1, <1>2

LEMMA StartInv == ASSUME IndInv, NEW t \in Transfers, Start(t) PROVE IndInv'
<1>0. /\ TypeOK /\ InOrder /\ ServerInv /\ DownInv /\ UpInv /\ UnboundInv /\ BoundInv /\ SentInv
      /\ pc[t] = "start" /\ up' \subseteq up /\ UNCHANGED <<rrqs, up, losses, clientVars>>
      /\ blk[t] = 0
    BY DEF IndInv, Start, ServerInv
<1>1. CASE fail(t, {}) \/ fail(t, {mkError(t, 0)})
    BY <1>0, <1>1, FailInv
<1>2. CASE bsize[t] = 0 /\ sendBlock(t, 1, defaultBlockSize)
    BY <1>0, <1>2, SendBlockInv, BlockSizes
<1>3. CASE /\ bsize[t] > 0
           /\ pc' = [pc EXCEPT ![t] = "oack"]
           /\ try' = [try EXCEPT ![t] = 0]
           /\ down' = down \cup {oackPkt(t, bsize[t])}
           /\ UNCHANGED <<bsize, blk, off, n>>
  <2>1. TypeOK'
      BY <1>0, <1>3, TftpAssumption DEF TypeOK, oackPkt, Packet, clientVars
  <2>2. ServerInv'
      BY <1>0, <1>3 DEF ServerInv, TypeOK
  <2>3. DownInv'
      BY <1>0, <1>3, TftpAssumption DEF DownInv, oackPkt, started, TypeOK
  <2>4. UnboundInv'
      BY <1>0, <1>3 DEF UnboundInv, oackPkt, TypeOK, clientVars
  <2>5. BoundInv'
      BY <1>0, <1>3 DEF BoundInv, started, TypeOK, clientVars
  <2>6. (InOrder /\ UpInv /\ SentInv)'
      BY <1>0, <1>3 DEF InOrder, UpInv, SentInv, TypeOK, clientVars
  <2> QED BY <2>1, <2>2, <2>3, <2>4, <2>5, <2>6 DEF IndInv
<1> QED BY <1>0, <1>1, <1>2, <1>3 DEF Start

\* The heart of the lock step: the acknowledgement sendPacket accepts is of the
\* block it just sent, so the client has that block.
LEMMA AckMeansKept ==
    ASSUME IndInv, NEW t \in Transfers, NEW m \in up,
           m.t = t, m.op = "ACK", fresh(m), acksCurrent(t, m.blk)
    PROVE  ctid = t /\ cblk = blk[t]
<1>1. TypeOK /\ UpInv /\ BoundInv
    BY DEF IndInv
<1>2. ctid = t /\ m.blk <= cblk /\ m.blk \in Nat /\ blk[t] \in Nat /\ cblk \in Nat
    BY <1>1 DEF UpInv, TypeOK, Reply
<1>3. cblk <= blk[t]
    BY <1>1, <1>2 DEF BoundInv
<1>4. blk[t] - m.blk < SeqMod /\ m.blk - blk[t] < SeqMod
    BY <1>2, <1>3, TftpAssumption DEF fresh
<1>5. m.blk = blk[t]
    BY <1>2, <1>4, WireInjective DEF acksCurrent
<1> QED BY <1>2, <1>3, <1>5

LEMMA RecvAckInv == ASSUME IndInv, NEW t \in Transfers, RecvAck(t) PROVE IndInv'
<1>0. TypeOK /\ InOrder /\ ServerInv /\ DownInv /\ UpInv /\ UnboundInv /\ BoundInv /\ SentInv
    BY DEF IndInv
<1>1. /\ waiting(t) /\ ctid = t /\ cblk = blk[t]
      /\ up' \subseteq up /\ UNCHANGED <<rrqs, losses, clientVars>>
    BY AckMeansKept DEF RecvAck, after
<1>2. CASE /\ pc[t] = "data" /\ n[t] < bsize[t]
           /\ pc' = [pc EXCEPT ![t] = "sent"]
           /\ UNCHANGED <<bsize, blk, off, n, try, down>>
  <2>1. TypeOK'
      BY <1>0, <1>1, <1>2 DEF TypeOK, clientVars
  <2>2. ServerInv'
      BY <1>0, <1>2 DEF ServerInv, TypeOK
  <2>3. DownInv'
      BY <1>0, <1>2 DEF DownInv, started, TypeOK
  <2>4. BoundInv'
      BY <1>0, <1>1, <1>2 DEF BoundInv, started, TypeOK, clientVars
  <2>5. SentInv'
      BY <1>0, <1>1, <1>2 DEF SentInv, BoundInv, ServerInv, TypeOK, clientVars
  <2>6. (InOrder /\ UpInv /\ UnboundInv)'
      BY <1>0, <1>1, <1>2 DEF InOrder, UpInv, UnboundInv, TypeOK, clientVars
  <2> QED BY <2>1, <2>2, <2>3, <2>4, <2>5, <2>6 DEF IndInv
<1>3. CASE /\ pc[t] = "oack" \/ n[t] = bsize[t]
           /\ sendBlock(t, blk[t] + 1, bsize[t])
  <2>1. blk[t] + 1 \in Nat /\ bsize[t] \in Nat
      BY <1>0 DEF TypeOK
  <2> QED BY <1>1, <1>3, <2>1, SendBlockInv
<1> QED BY <1>2, <1>3 DEF RecvAck

LEMMA RecvErrorInv == ASSUME IndInv, NEW t \in Transfers, RecvError(t) PROVE IndInv'
BY FailInv DEF RecvError, waiting, after

LEMMA ConnErrorInv == ASSUME IndInv, NEW t \in Transfers, ConnError(t) PROVE IndInv'
BY FailInv DEF ConnError, waiting

LEMMA TimeoutInv == ASSUME IndInv, NEW t \in Transfers, Timeout(t) PROVE IndInv'
<1>0. /\ TypeOK /\ InOrder /\ ServerInv /\ DownInv /\ UpInv /\ UnboundInv /\ BoundInv /\ SentInv
      /\ waiting(t) /\ UNCHANGED <<rrqs, up, losses, clientVars>>
    BY DEF IndInv, Timeout
<1>1. CASE fail(t, {})
    BY <1>0, <1>1, FailInv DEF waiting
<1>2. CASE /\ ~lastTry(t)
           /\ try' = [try EXCEPT ![t] = @ + 1]
           /\ down' = down \cup {currentPkt(t)}
           /\ UNCHANGED <<pc, bsize, blk, off, n>>
  <2>1. TypeOK'
    <3>1. currentPkt(t) \in Packet
        BY <1>0 DEF TypeOK, ServerInv, waiting, currentPkt, oackPkt, dataPkt, Packet
    <3>2. try[t] + 1 \in 0 .. NumRetries - 1
        BY <1>0, <1>2, TftpAssumption DEF TypeOK, lastTry
    <3> QED BY <1>0, <1>2, <3>1, <3>2 DEF TypeOK, clientVars
  <2>2. DownInv'
      BY <1>0, <1>2, TftpAssumption
      DEF DownInv, ServerInv, TypeOK, waiting, started, currentPkt, oackPkt, dataPkt
  <2>3. UnboundInv'
      BY <1>0, <1>2 DEF UnboundInv, ServerInv, waiting, currentPkt, oackPkt, dataPkt, clientVars
  <2>4. (InOrder /\ ServerInv /\ UpInv /\ BoundInv /\ SentInv)'
      BY <1>0, <1>2, ZenonT(30) DEF InOrder, ServerInv, UpInv, BoundInv, SentInv, started, clientVars
  <2> QED BY <2>1, <2>2, <2>3, <2>4 DEF IndInv
<1> QED BY <1>1, <1>2 DEF Timeout

\* The client's side of the lock step: what it hears from its transfer is about
\* a block it can tell apart from its neighbours.
LEMMA HeardData ==
    ASSUME IndInv, NEW m \in down, hears(m), m.op = "DATA"
    PROVE  /\ m.t \in Transfers /\ m.blk \in Nat \ {0} /\ m.blk <= blk[m.t]
           /\ blk[m.t] \in {cblk, cblk + 1}
           /\ wire(m.blk) = wire(cblk + 1) => m.blk = cblk + 1 /\ blk[m.t] = cblk + 1
           /\ wire(m.blk) = wire(cblk) => m.blk = cblk
<1>0. TypeOK /\ DownInv /\ UnboundInv /\ BoundInv
    BY DEF IndInv
<1>1. m.t \in Transfers /\ m.blk \in Nat \ {0} /\ blk[m.t] \in Nat /\ m.blk <= blk[m.t]
    BY <1>0 DEF TypeOK, DownInv, Packet
<1>2. cblk \in Nat /\ blk[m.t] \in {cblk, cblk + 1}
  <2>1. CASE ctid = m.t
      BY <1>0, <1>1, <2>1 DEF BoundInv, TypeOK
  <2>2. CASE ctid = NoTID
    <3>1. cblk = 0 /\ blk[m.t] <= 1
        BY <1>0, <1>1, <2>2, TftpAssumption DEF UnboundInv
    <3> QED BY <1>1, <3>1
  <2> QED BY <2>1, <2>2 DEF hears
<1>3. m.blk + Lifetime > blk[m.t]
    BY <1>1 DEF hears, fresh
<1>4. /\ cblk + 1 - m.blk < SeqMod /\ m.blk - (cblk + 1) < SeqMod
      /\ cblk - m.blk < SeqMod /\ m.blk - cblk < SeqMod
    BY <1>1, <1>2, <1>3, TftpAssumption
<1>5. wire(m.blk) = wire(cblk + 1) => m.blk = cblk + 1
    BY <1>1, <1>2, <1>4, WireInjective
<1>6. wire(m.blk) = wire(cblk) => m.blk = cblk
    BY <1>1, <1>2, <1>4, WireInjective
<1> QED BY <1>1, <1>2, <1>5, <1>6

LEMMA ClientDataInv == ASSUME IndInv, NEW m \in down, ClientData(m) PROVE IndInv'
<1> DEFINE t == m.t
           b == IF ctid = NoTID THEN defaultBlockSize ELSE cbsize
<1>0. TypeOK /\ InOrder /\ ServerInv /\ DownInv /\ UpInv /\ UnboundInv /\ BoundInv /\ SentInv
    BY DEF IndInv
<1>1. /\ cpc \in {"wait", "recv"} /\ ctid \in {NoTID, t}
      /\ cpc' = IF m.len < b THEN "done" ELSE "recv"
      /\ ctid' = t
      /\ cbsize' = b
      /\ cblk' = cblk + 1
      /\ got' = got + m.len
      /\ cpos' = m.from + m.len
      /\ up' = up \cup {reply(t, "ACK", cblk + 1)}
      /\ down' \subseteq down
      /\ UNCHANGED <<pc, bsize, blk, off, n, try, rrqs, losses>>
    BY DEF ClientData, hears, after, transferVars
<1>2. t \in Transfers /\ m.blk = cblk + 1 /\ blk[t] = cblk + 1
    BY HeardData DEF ClientData
<1>3. m.from = off[t] - n[t] /\ m.len = n[t] /\ started(t)
    BY <1>0, <1>2 DEF DownInv, ClientData
<1>4. got = off[t] - n[t] /\ b = bsize[t] /\ b \in Nat /\ b > 0
  <2>1. CASE ctid = t
      BY <1>0, <1>2, <2>1, TftpAssumption DEF BoundInv, TypeOK
  <2>2. CASE ctid = NoTID
    <3>1. cblk = 0 /\ got = 0 /\ bsize[t] = defaultBlockSize /\ blk[t] = 1
        BY <1>0, <1>2, <2>2, TftpAssumption DEF UnboundInv
    <3> QED BY <1>0, <1>2, <2>2, <3>1, BlockSizes DEF ServerInv, TypeOK
  <2> QED BY <1>1, <2>1, <2>2
<1> HIDE DEF b
<1>5. /\ n[t] \in Nat /\ off[t] \in Nat /\ cblk \in Nat /\ got \in Nat
      /\ n[t] \in 1 .. bsize[t] /\ n[t] <= off[t]
    BY <1>0, <1>2, TftpAssumption DEF TypeOK, ServerInv
<1>6. TypeOK'
    BY <1>0, <1>1, <1>2, <1>3, <1>4, <1>5 DEF TypeOK, reply, Reply
<1>7. InOrder'
    BY <1>1, <1>3, <1>4, <1>5, ZenonT(30) DEF InOrder
<1>8. (ServerInv /\ DownInv)'
    BY <1>0, <1>1, ZenonT(30) DEF ServerInv, DownInv, started
<1>9. UpInv'
    BY <1>0, <1>1, <1>5, TftpAssumption DEF UpInv, reply, TypeOK, Reply
<1>10. UnboundInv'
    BY <1>0, <1>1, <1>2, TftpAssumption DEF UnboundInv
<1>11. BoundInv'
    BY <1>1, <1>2, <1>3, <1>4, <1>5 DEF BoundInv, started
<1>12. SentInv'
    BY <1>0, <1>1 DEF SentInv
<1> QED BY <1>6, <1>7, <1>8, <1>9, <1>10, <1>11, <1>12 DEF IndInv

LEMMA ClientOackInv == ASSUME IndInv, NEW m \in down, ClientOack(m) PROVE IndInv'
<1>0. TypeOK /\ InOrder /\ ServerInv /\ DownInv /\ UpInv /\ UnboundInv /\ BoundInv /\ SentInv
    BY DEF IndInv
<1>1. /\ cpc \in {"wait", "recv"} /\ ctid \in {NoTID, m.t} /\ cblk = 0
      /\ cpc' = "recv" /\ ctid' = m.t /\ cbsize' = m.len
      /\ up' = up \cup {reply(m.t, "ACK", 0)} /\ down' \subseteq down
      /\ UNCHANGED <<pc, bsize, blk, off, n, try, rrqs, losses, cblk, got, cpos>>
    BY DEF ClientOack, hears, after, transferVars
<1>2. m.t \in Transfers /\ started(m.t) /\ m.len = bsize[m.t] /\ m.len > 0
    BY <1>0 DEF DownInv, ClientOack, TypeOK, Packet
<1>3. TypeOK'
    BY <1>0, <1>1, <1>2 DEF TypeOK, reply, Reply
<1>4. (InOrder /\ ServerInv /\ DownInv)'
    BY <1>0, <1>1 DEF InOrder, ServerInv, DownInv, started
<1>5. UpInv'
    BY <1>0, <1>1, TftpAssumption DEF UpInv, reply, TypeOK, Reply
<1>6. UnboundInv'
    BY <1>0, <1>1, <1>2, TftpAssumption DEF UnboundInv
<1>7. BoundInv'
  <2>1. CASE ctid = m.t
      BY <1>0, <1>1, <1>2, <2>1 DEF BoundInv, started, TypeOK
  <2>2. CASE ctid = NoTID
    <3>1. cblk = 0 /\ got = 0 /\ blk[m.t] = 0 /\ off[m.t] = 0
        BY <1>0, <1>1, <1>2, <2>2, TftpAssumption DEF UnboundInv, ServerInv, TypeOK, ClientOack
    <3>2. SUFFICES ASSUME NEW t \in Transfers, ctid' = t
                   PROVE  /\ started(t)' /\ cbsize' = bsize'[t] /\ cbsize' > 0
                          /\ blk'[t] = cblk' /\ got' = off'[t]
                          /\ cpc' # "done" /\ ~(cblk' > 0)
        BY ZenonT(30) DEF BoundInv
    <3>3. t = m.t
        BY <1>1, <3>2
    <3>4. started(t)'
        BY <1>1, <1>2, <3>3 DEF started
    <3>5. cbsize' = bsize'[t] /\ cbsize' > 0
        BY <1>1, <1>2, <3>3
    <3>6. blk'[t] = cblk' /\ got' = off'[t] /\ cblk' = 0
        BY <1>1, <3>1, <3>3
    <3>7. cpc' # "done" /\ ~(cblk' > 0)
        BY <1>1, <3>6
    <3> QED BY <3>4, <3>5, <3>6, <3>7
  <2> QED BY <1>1, <2>1, <2>2
<1>8. SentInv'
    BY <1>0, <1>1 DEF SentInv
<1> QED BY <1>3, <1>4, <1>5, <1>6, <1>7, <1>8 DEF IndInv

LEMMA ClientDupInv == ASSUME IndInv, NEW m \in down, ClientDup(m) PROVE IndInv'
<1>0. TypeOK /\ InOrder /\ ServerInv /\ DownInv /\ UpInv /\ UnboundInv /\ BoundInv /\ SentInv
    BY DEF IndInv
<1>1. /\ m.t \in Transfers /\ ctid = m.t
      /\ up' = up \cup {reply(m.t, "ACK", cblk)} /\ down' \subseteq down
      /\ UNCHANGED <<pc, bsize, blk, off, n, try, rrqs, losses, cpc, ctid, cbsize, cblk, got, cpos>>
    BY <1>0, HeardData, ZenonT(30) DEF ClientDup, hears, after, transferVars, clientVars, UnboundInv
<1>2. TypeOK'
    BY <1>0, <1>1 DEF TypeOK, reply, Reply
<1>3. UpInv'
    BY <1>0, <1>1 DEF UpInv, reply, TypeOK
<1>4. (InOrder /\ ServerInv /\ SentInv)'
    BY <1>0, <1>1, ZenonT(30) DEF InOrder, ServerInv, SentInv
<1>5. DownInv'
    BY <1>0, <1>1 DEF DownInv, started
<1>6. UnboundInv'
    BY <1>0, <1>1 DEF UnboundInv
<1>7. BoundInv'
    BY <1>0, <1>1 DEF BoundInv, started
<1> QED BY <1>2, <1>3, <1>4, <1>5, <1>6, <1>7 DEF IndInv

\* Steps that only move the client off, drop packets or send an ERROR.
LEMMA ClientGivesUpInv ==
    ASSUME IndInv, cpc' = cpc \/ (cpc \in {"wait", "recv"} /\ cpc' = "aborted"),
           down' \subseteq down, up' \subseteq Reply,
           \A m \in up' : m \in up \/ m.op = "ERROR",
           losses' \in 0 .. MaxLoss,
           UNCHANGED <<transferVars, rrqs, ctid, cbsize, cblk, got, cpos>>
    PROVE  IndInv'
<1> USE DEF IndInv, transferVars
<1>1. TypeOK'
    BY DEF TypeOK
<1>2. (InOrder /\ ServerInv /\ DownInv)'
    BY DEF InOrder, ServerInv, DownInv, started
<1>3. UpInv'
    BY DEF UpInv
<1>4. (UnboundInv /\ BoundInv)'
    BY DEF UnboundInv, BoundInv, started
<1>5. SentInv'
    BY DEF SentInv
<1> QED BY <1>1, <1>2, <1>3, <1>4, <1>5

LEMMA ClientErrorInv == ASSUME IndInv, NEW m \in down, ClientError(m) PROVE IndInv'
BY ClientGivesUpInv DEF IndInv, TypeOK, ClientError, after

LEMMA ClientStrayInv == ASSUME IndInv, NEW m \in down, ClientStray(m) PROVE IndInv'
<1>1. TypeOK /\ reply(m.t, "ERROR", m.blk) \in Reply
    BY DEF IndInv, TypeOK, ClientStray, reply, Reply, Packet
<1> QED BY <1>1, ClientGivesUpInv DEF TypeOK, ClientStray, after, reply, clientVars

LEMMA ClientAbortInv == ASSUME IndInv, ClientAbort PROVE IndInv'
<1>1. TypeOK /\ reply(ctid, "ERROR", cblk) \in Reply
    BY DEF IndInv, TypeOK, ClientAbort, reply, Reply
<1> QED BY <1>1, ClientGivesUpInv DEF TypeOK, ClientAbort, reply

LEMMA LoseInv == ASSUME IndInv, Lose PROVE IndInv'
<1>1. TypeOK
    BY DEF IndInv
<1>2. losses' \in 0 .. MaxLoss
    BY <1>1, TftpAssumption DEF TypeOK, Lose
<1> QED BY <1>1, <1>2, ClientGivesUpInv DEF TypeOK, Lose, clientVars

LEMMA RequestInv == ASSUME IndInv, NEW p \in Requests, Request(p) PROVE IndInv'
<1> USE DEF IndInv, Request, transferVars
<1>1. TypeOK'
    BY DEF TypeOK
<1>2. (InOrder /\ ServerInv /\ DownInv /\ UpInv)'
    BY ZenonT(30) DEF InOrder, ServerInv, DownInv, UpInv, started
<1>3. (UnboundInv /\ BoundInv /\ SentInv)'
    BY ZenonT(30) DEF UnboundInv, BoundInv, SentInv, started
<1> QED BY <1>1, <1>2, <1>3

LEMMA StutterInv == ASSUME IndInv, UNCHANGED vars PROVE IndInv'
<1> USE DEF IndInv, vars, transferVars, clientVars
<1>1. TypeOK'
    BY DEF TypeOK
<1>2. (InOrder /\ ServerInv /\ SentInv)'
    BY DEF InOrder, ServerInv, SentInv
<1>3. (DownInv /\ UpInv)'
    BY DEF DownInv, UpInv, started
<1>4. (UnboundInv /\ BoundInv)'
    BY DEF UnboundInv, BoundInv, started
<1> QED BY <1>1, <1>2, <1>3, <1>4

LEMMA NextInv == IndInv /\ [Next]_vars => IndInv'
<1> SUFFICES ASSUME IndInv, [Next]_vars PROVE IndInv'
    OBVIOUS
<1>1. ASSUME NEW p \in Requests, Request(p) \/ Serve(p) PROVE IndInv'
    BY <1>1, RequestInv, ServeInv
<1>2. ASSUME NEW t \in Transfers, Transfer(t) PROVE IndInv'
    BY <1>2, StartInv, RecvAckInv, RecvErrorInv, TimeoutInv, ConnErrorInv DEF Transfer
<1>3. ASSUME NEW m \in down, ClientRecv(m) PROVE IndInv'
    BY <1>3, ClientOackInv, ClientDataInv, ClientDupInv, ClientErrorInv, ClientStrayInv
    DEF ClientRecv
<1> QED BY <1>1, <1>2, <1>3, ClientAbortInv, LoseInv, StutterInv DEF Next

(***************************************************************************)
(* The theorems.                                                           *)
(***************************************************************************)

\* IndInv is an invariant of the server with its client and its network.
THEOREM Invariance == Spec => []IndInv
BY InitInv, NextInv, PTL DEF Spec

\* Every variable keeps its type; in particular sendPacket's retry counter
\* stays below numRetries and transfer never reads past the end of the file.
THEOREM TypeCorrect == Spec => []TypeOK
<1>1. IndInv => TypeOK
    BY DEF IndInv
<1> QED BY <1>1, Invariance, PTL

\* The client's bytes are a prefix of the file, for files of any length (so
\* also when seq wraps around) and any number of concurrent transfers.
THEOREM PrefixDelivered == Spec => []InOrder
<1>1. IndInv => InOrder
    BY DEF IndInv
<1> QED BY <1>1, Invariance, PTL

\* A client that saw transfer's short block has the whole file.
THEOREM CompleteWhenDone == Spec => []DoneMeansComplete
<1>1. IndInv => DoneMeansComplete
  <2> SUFFICES ASSUME IndInv, cpc = "done" PROVE got = Size
      BY DEF DoneMeansComplete
  <2>1. ctid \in Transfers
      BY DEF IndInv, TypeOK, UnboundInv
  <2>2. blk[ctid] = cblk /\ cblk > 0 /\ n[ctid] < bsize[ctid]
      BY <2>1 DEF IndInv, BoundInv
  <2>3. got = off[ctid] /\ off[ctid] = Size
      BY <2>1, <2>2 DEF IndInv, TypeOK, BoundInv, ServerInv
  <2> QED BY <2>3
<1> QED BY <1>1, Invariance, PTL

\* transfer logs "Sent" only for a client that has the whole file.
THEOREM DeliveredWhenSent == Spec => []SentMeansDelivered
<1>1. IndInv /\ DoneMeansComplete => SentMeansDelivered
    BY DEF IndInv, SentInv, DoneMeansComplete, SentMeansDelivered
<1> QED BY <1>1, Invariance, CompleteWhenDone, PTL

\* A transfer is never more than one block ahead of its client.
THEOREM InLockStep == Spec => []LockStep
<1>1. IndInv => LockStep
    BY DEF IndInv, LockStep, BoundInv, UnboundInv
<1> QED BY <1>1, Invariance, PTL

\* parseRRQ's block size is the one both sides use.
THEOREM SameBlockSize == Spec => []BlockSizeAgreed
<1>1. IndInv => BlockSizeAgreed
    BY BlockSizes DEF IndInv, TypeOK, BlockSizeAgreed, BoundInv, ServerInv
<1> QED BY <1>1, Invariance, PTL

\* Every step of the server, its client and the network is a step FileDelivery
\* allows, or leaves what FileDelivery sees alone.
LEMMA StepImplements ==
    ASSUME IndInv, [Next]_vars PROVE [Promise!Next]_(Promise!vars)
<1>0. TypeOK /\ ServerInv /\ UnboundInv /\ BoundInv /\ SentInv
    BY DEF IndInv
<1> DEFINE stutters == UNCHANGED got /\ (cpc' = "done" <=> cpc = "done")
                       /\ \A t \in Transfers : pc'[t] = "sent" <=> pc[t] = "sent"
<1>1. ASSUME stutters PROVE [Promise!Next]_(Promise!vars)
  <2>1. (cpc = "done")' = (cpc = "done")
      BY <1>1
  <2>2. {t \in Transfers : pc'[t] = "sent"} = {t \in Transfers : pc[t] = "sent"}
      BY <1>1
  <2> QED BY <1>1, <2>1, <2>2 DEF Promise!vars
<1>2. ASSUME NEW t \in Transfers, RecvAck(t) PROVE [Promise!Next]_(Promise!vars)
  <2>1. CASE /\ pc[t] = "data" /\ n[t] < bsize[t]
             /\ pc' = [pc EXCEPT ![t] = "sent"]
    <3>1. ctid = t /\ cblk = blk[t]
        BY <1>2, AckMeansKept, ZenonT(30) DEF RecvAck
    <3>2. cpc = "done"
        BY <1>0, <2>1, <3>1 DEF BoundInv, ServerInv, TypeOK
    <3>3. {s \in Transfers : pc[s] = "sent"} = {}
        BY <1>0, <2>1, <3>1 DEF SentInv
    <3>4. {s \in Transfers : pc'[s] = "sent"} = {t}
        BY <1>0, <2>1, <3>3 DEF TypeOK
    <3>5. UNCHANGED <<got, cpc>>
        BY <1>2 DEF RecvAck, clientVars
    <3>6. Promise!Report(t)
        BY <3>2, <3>3, <3>4, <3>5 DEF Promise!Report
    <3> QED BY <3>6 DEF Promise!Next
  <2>2. CASE sendBlock(t, blk[t] + 1, bsize[t])
      BY <1>0, <1>1, <1>2, <2>2 DEF RecvAck, sendBlock, fail, waiting, clientVars, TypeOK
  <2> QED BY <1>2, <2>1, <2>2 DEF RecvAck
<1>3. ASSUME NEW m \in down, ClientData(m) PROVE [Promise!Next]_(Promise!vars)
  <2> DEFINE t == m.t
  <2>1. IndInv'
      BY <1>3, ClientDataInv
  <2>2. /\ t \in Transfers /\ m.blk = cblk + 1 /\ blk[t] = cblk + 1 /\ ctid' = t
        /\ cblk' = cblk + 1 /\ cpc \in {"wait", "recv"} /\ UNCHANGED <<pc, bsize, blk, off, n>>
      BY <1>3, HeardData, ZenonT(30) DEF ClientData, transferVars
  <2>3. cblk \in Nat /\ off[t] \in 0 .. Size /\ n[t] \in Nat /\ n[t] > 0 /\ Size \in Nat
      BY <1>0, <2>2, TftpAssumption DEF TypeOK, ServerInv
  <2>4. got' = off[t]
      BY <2>1, <2>2, <2>3 DEF IndInv, BoundInv
  <2>5. got' = got + n[t] /\ got \in Nat
    <3>1. m.len = n[t]
        BY <1>0, <1>3, <2>2 DEF IndInv, DownInv, ClientData
    <3>2. got' = got + m.len
        BY <1>3 DEF ClientData
    <3> QED BY <1>0, <3>1, <3>2 DEF IndInv, TypeOK
  <2>6. cpc' = "done" => off[t] = Size
    <3>1. cpc' = "done" => n'[t] < bsize'[t]
        BY <2>1, <2>2 DEF IndInv, BoundInv
    <3>2. n[t] > 0 /\ n[t] < bsize[t] => off[t] = Size
      <4>1. blk[t] > 0
          BY <2>2, <2>3
      <4>2. blk[t] > 0 /\ n[t] < bsize[t] => off[t] = Size
          BY <1>0, <2>2 DEF ServerInv
      <4> QED BY <4>1, <4>2
    <3> QED BY <2>2, <2>3, <3>1, <3>2
  <2>7. Promise!Deliver
    <3>1. cpc # "done" /\ (cpc' = "done") \in BOOLEAN
        BY <2>2, ZenonT(30)
    <3>2. got' \in (got + 1) .. Size
        BY <2>3, <2>4, <2>5
    <3>3. cpc' = "done" => got' = Size
        BY <2>4, <2>6
    <3>4. {s \in Transfers : pc'[s] = "sent"} = {s \in Transfers : pc[s] = "sent"}
        BY <2>2
    <3> QED BY <3>1, <3>2, <3>3, <3>4 DEF Promise!Deliver
  <2> QED BY <2>7 DEF Promise!Next
<1>4. ASSUME NEW t \in Transfers, Transfer(t), ~RecvAck(t)
      PROVE  stutters
  <2> USE <1>0 DEF TypeOK, fail, clientVars, waiting
  <2>1. CASE Start(t)
      BY <2>1 DEF Start, sendBlock
  <2>2. CASE RecvError(t) \/ Timeout(t) \/ ConnError(t)
      BY <2>2 DEF RecvError, Timeout, ConnError
  <2> QED BY <1>4, <2>1, <2>2 DEF Transfer
<1>5. ASSUME NEW p \in Requests, Request(p) \/ Serve(p) PROVE stutters
    BY <1>0, <1>5 DEF TypeOK, Request, Serve, transferVars, clientVars
<1>6. ASSUME NEW m \in down, ClientRecv(m), ~ClientData(m) PROVE stutters
    BY <1>6, ZenonT(30) DEF ClientRecv, ClientOack, ClientDup, ClientError, ClientStray, transferVars, clientVars
<1>7. CASE ClientAbort \/ Lose
  <2>1. stutters
      BY <1>7 DEF ClientAbort, Lose, transferVars, clientVars
  <2> QED BY <1>1, <2>1
<1>8. CASE UNCHANGED vars
  <2>1. stutters
      BY <1>8 DEF vars, transferVars, clientVars
  <2> QED BY <1>1, <2>1
<1> HIDE DEF stutters
<1> QED BY <1>1, <1>2, <1>3, <1>4, <1>5, <1>6, <1>7, <1>8 DEF Next

\* The server implements FileDelivery: the abstract specification of a file
\* handed over in order, completely, and reported only then.
THEOREM Implements == Spec => DeliversFile
<1>1. Init => Promise!Init
  <2> SUFFICES ASSUME Init PROVE Promise!Init
      OBVIOUS
  <2>1. {t \in Transfers : pc[t] = "sent"} = {}
      BY DEF Init
  <2> QED BY <2>1 DEF Init, Promise!Init
<1>2. IndInv /\ [Next]_vars => [Promise!Next]_(Promise!vars)
    BY StepImplements
<1> QED BY <1>1, <1>2, Invariance, PTL DEF Spec, DeliversFile, Promise!Spec
=============================================================================
