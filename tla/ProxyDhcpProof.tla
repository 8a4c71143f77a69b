--------------------------- MODULE ProxyDhcpProof ----------------------------
(***************************************************************************)
(* The ProxyDHCP loop, for every packet, every buffer size and every       *)
(* history of the buffer.  ProxyInv: it keeps to the packet it has just    *)
(* read, and each turn of its option loop consumes bytes.  ScanInv: where  *)
(* it is, it has found what the options behind it mean, so it accepts the  *)
(* right requests, and a ROM that reads the offer by its lengths finds in  *)
(* it what OfferDHCP meant, with the best address of the interface.        *)
(***************************************************************************)
EXTENDS ProxyDhcp, DhcpPacketProof

USE SMTT(30), Z3T(30), ZenonT(30)

ProxyInv == ProxyTypeOK /\ InBounds

LEMMA InitProxy == Init => ProxyInv
  BY DhcpAssumption DEF DhcpAssumption, Init, ProxyInv, ProxyTypeOK, InBounds, Byte, Slice, nil

\* Once the loop turns, it holds on to nothing.
LEMMA TurnProxy ==
  ASSUME ProxyInv, turn, UNCHANGED <<buf, cur>>
  PROVE  ProxyInv'
  BY DEF ProxyInv, ProxyTypeOK, InBounds, turn, Slice, nil

LEMMA ReadProxy ==
  ASSUME ProxyInv, NEW p \in Packets, Read(p)
  PROVE  ProxyInv'
  <1>1. buf' \in Seq(Byte) /\ Len(buf') = BufLen
    BY OverwrittenIsBuffer DEF ProxyInv, ProxyTypeOK, Read
  <1>2. received(p) \in Nat
    BY ReceivedFits
  <1>3. opts' = [lo |-> 0, hi |-> received(p)] /\ guid' = nil /\ cur' = p /\ at' = "header"
    BY DEF Read
  <1>4. ProxyTypeOK'
    BY <1>1, <1>2, <1>3 DEF ProxyTypeOK, Slice, nil
  <1>5. InBounds'
    <2>1. \A s \in {opts', guid'} : s.lo <= s.hi /\ s.hi <= received(p)
      BY <1>2, <1>3 DEF nil
    <2> QED BY <2>1, <1>3 DEF InBounds
  <1> QED BY <1>4, <1>5 DEF ProxyInv

\* What the option loop knows of the option it is at.
LEMMA AtOption ==
  ASSUME ProxyInv, at = "scan"
  PROVE  LET o == DhcpOption(buf, opts)
         IN  /\ o.val \in Slice /\ o.next \in Slice
             /\ o.val.lo <= o.val.hi /\ o.val.hi <= received(cur)
             /\ o.next.lo <= o.next.hi /\ o.next.hi <= received(cur)
             /\ o.typ # 255 => o.next.lo >= opts.lo + 2
             /\ Len(bytes(buf, o.val)) = o.val.hi - o.val.lo
  <1> DEFINE o == DhcpOption(buf, opts)
  <1>1. /\ buf \in Seq(Byte) /\ Len(buf) = BufLen
        /\ opts \in Slice /\ opts.lo <= opts.hi /\ opts.hi <= received(cur)
    BY DEF ProxyInv, ProxyTypeOK, InBounds
  <1>2. received(cur) \in Nat /\ received(cur) <= BufLen
    BY ReceivedFits DEF ProxyInv, ProxyTypeOK
  <1>3. opts.lo \in Nat /\ opts.hi \in Nat /\ BufLen \in Nat
    BY <1>1, DhcpAssumption DEF Slice, DhcpAssumption
  <1>4. opts.hi <= Len(buf)
    BY <1>1, <1>2, <1>3
  <1>5. /\ o.val \in Slice /\ o.next \in Slice
        /\ o.val.lo <= o.val.hi /\ o.val.hi <= opts.hi
        /\ o.next.lo <= o.next.hi /\ o.next.hi <= opts.hi
        /\ o.typ # 255 => o.val.lo >= opts.lo + 2 /\ o.val.hi = o.next.lo
    BY <1>1, <1>4, OptionInSlice
  <1> HIDE DEF o
  <1>6. o.val.lo \in Nat /\ o.val.hi \in Nat /\ o.next.lo \in Nat /\ o.next.hi \in Nat
    BY <1>5 DEF Slice
  <1>7. o.val.hi <= Len(buf)
    BY <1>1, <1>3, <1>4, <1>5, <1>6
  <1>8. Len(bytes(buf, o.val)) = o.val.hi - o.val.lo
    BY <1>1, <1>5, <1>7, BytesLength
  <1>9. o.val.hi <= received(cur) /\ o.next.hi <= received(cur)
    BY <1>1, <1>2, <1>3, <1>5, <1>6
  <1>10. o.typ # 255 => o.next.lo >= opts.lo + 2
    BY <1>3, <1>5, <1>6
  <1> QED BY <1>5, <1>8, <1>9, <1>10 DEF o

LEMMA ScanProxy ==
  ASSUME ProxyInv, ScanOption
  PROVE  ProxyInv'
  <1> DEFINE o == DhcpOption(buf, opts)
  <1>0. at = "scan" /\ UNCHANGED <<buf, cur>>
    BY DEF ScanOption
  <1>1. /\ o.val \in Slice /\ o.next \in Slice
        /\ o.val.lo <= o.val.hi /\ o.val.hi <= received(cur)
        /\ o.next.lo <= o.next.hi /\ o.next.hi <= received(cur)
        /\ Len(bytes(buf, o.val)) = o.val.hi - o.val.lo
    BY <1>0, AtOption
  <1>2. guid.lo <= guid.hi /\ guid.hi <= received(cur)
    BY <1>0 DEF ProxyInv, InBounds
  <1>3. \/ turn
        \/ at' = "answer" /\ opts' = o.next /\ guid' = guid
        \/ at' = "scan" /\ opts' = o.next /\ guid' = guid
        \/ /\ at' = "scan" /\ opts' = o.next
           /\ guid' = [lo |-> o.val.lo + 1, hi |-> o.val.hi]
           /\ Len(bytes(buf, o.val)) = 17
    BY DEF ScanOption, rejects
  <1> HIDE DEF o
  <1>4. CASE turn
    BY <1>0, <1>4, TurnProxy
  <1>5. CASE at' \in {"answer", "scan"} /\ opts' = o.next /\ guid' = guid
    <2>1. ProxyTypeOK'
      BY <1>0, <1>1, <1>5 DEF ProxyInv, ProxyTypeOK
    <2>2. \A s \in {opts', guid'} : s.lo <= s.hi /\ s.hi <= received(cur)
      BY <1>1, <1>2, <1>5
    <2> QED BY <2>1, <2>2, <1>0 DEF ProxyInv, InBounds
  <1>6. CASE /\ at' = "scan" /\ opts' = o.next
             /\ guid' = [lo |-> o.val.lo + 1, hi |-> o.val.hi]
             /\ Len(bytes(buf, o.val)) = 17
    <2>1. /\ o.val.lo \in Nat /\ o.val.hi \in Nat
          /\ o.val.hi - o.val.lo = 17
      BY <1>1, <1>6, ZenonT(30) DEF Slice
    <2>2. guid'.lo = o.val.lo + 1 /\ guid'.hi = o.val.hi /\ guid' \in Slice
      BY <2>1, <1>6 DEF Slice
    <2>3. guid'.lo <= guid'.hi /\ guid'.hi - guid'.lo = 16
      BY <2>1, <2>2
    <2>4. ProxyTypeOK'
      BY <1>0, <1>1, <1>6, <2>2, <2>3 DEF ProxyInv, ProxyTypeOK
    <2>5. \A s \in {opts', guid'} : s.lo <= s.hi /\ s.hi <= received(cur)
      BY <1>1, <1>6, <2>2, <2>3
    <2> QED BY <2>4, <2>5, <1>0 DEF ProxyInv, InBounds
  <1> QED BY <1>3, <1>4, <1>5, <1>6

LEMMA StepProxy == ProxyInv /\ [Next]_vars => ProxyInv'
  <1> SUFFICES ASSUME ProxyInv, [Next]_vars PROVE ProxyInv'
    OBVIOUS
  <1>1. ASSUME NEW p \in Packets, Read(p) PROVE ProxyInv'
    BY <1>1, ReadProxy
  <1>2. ASSUME ParseHeader PROVE ProxyInv'
    <2>1. CASE turn
      BY <1>2, <2>1, TurnProxy DEF ParseHeader
    <2>2. CASE at' = "scan" /\ UNCHANGED <<opts, guid>>
      BY <1>2, <2>2 DEF ParseHeader, ProxyInv, ProxyTypeOK, InBounds
    <2> QED BY <1>2, <2>1, <2>2 DEF ParseHeader
  <1>3. ASSUME ScanOption PROVE ProxyInv'
    BY <1>3, ScanProxy
  <1>4. ASSUME NEW shouldBoot \in BOOLEAN, NEW written \in BOOLEAN, Answer(shouldBoot, written)
        PROVE  ProxyInv'
    BY <1>4, TurnProxy DEF Answer
  <1>5. CASE UNCHANGED vars
    BY <1>5 DEF vars, ProxyInv, ProxyTypeOK, InBounds
  <1> QED BY <1>1, <1>2, <1>3, <1>4, <1>5 DEF Next, Handle

\* ServeProxyDHCP's buffer keeps its size from packet to packet, and a GUID the
\* loop holds on to is the 16 bytes ParseDHCP checked for.
THEOREM TypeCorrect == Spec => []ProxyTypeOK
  <1>1. ProxyInv => ProxyTypeOK
    BY DEF ProxyInv
  <1> QED BY InitProxy, StepProxy, <1>1, PTL DEF Spec

\* ParseDHCP never holds on to a byte beyond the packet just read: for every
\* packet, whatever the buffer held before it.
THEOREM StaysInPacket == Spec => []InBounds
  <1>1. ProxyInv => InBounds
    BY DEF ProxyInv
  <1> QED BY InitProxy, StepProxy, <1>1, PTL DEF Spec

-----------------------------------------------------------------------------
(* What ParseDHCP has found so far, told from the options the packet means. *)

acceptedHeader(p) ==
    p.hdr.whole /\ p.hdr.op = 1 /\ p.hdr.magic /\ (p.hdr.htype = 1 \/ p.hdr.hlen = 6)

\* The first k options are behind the loop: none of them was rejected, and
\* guid is the last GUID among them.
scanned(k) ==
    /\ ends(cur.means, k) <= received(cur)
    /\ opts = [lo |-> ends(cur.means, k), hi |-> received(cur)]
    /\ \A i \in 1 .. k : ~rejects(cur.means[i].typ, cur.means[i].val)
    /\ guid = nil => \A i \in 1 .. k : cur.means[i].typ # 97
    /\ guid # nil => lastGuid(cur.means, k, bytes(buf, guid))

\* An offer with options o answers packet p.
answers(p, o) ==
    LET ip == InterfaceIP(Interfaces[p.iface])
    IN  ip # NoIP /\ Acceptable(p) /\ o = offerOptions(ip, SubSeq(lastVal(p, 97), 2, 17))

ScanInv ==
    /\ ProxyInv
    /\ at # "read" => hdr = cur.hdr /\ holds(buf, 0, received(cur), cur.means, cur.wire)
    /\ at = "header" => opts = [lo |-> 0, hi |-> received(cur)] /\ guid = nil
    /\ at \in {"scan", "answer"} => acceptedHeader(cur)
    /\ at = "scan" => \E k \in 0 .. Len(cur.means) : scanned(k)
    /\ at = "answer" => /\ guid # nil /\ Acceptable(cur)
                        /\ bytes(buf, guid) = SubSeq(lastVal(cur, 97), 2, 17)
    /\ sent # None => /\ sent.mac = cur.hdr.mac /\ sent.tid = cur.hdr.tid
                      /\ answers(cur, sent.options)

LEMMA InitScan == Init => ScanInv
  BY InitProxy DEF Init, ScanInv

LEMMA TurnScan ==
  ASSUME ScanInv, ProxyInv', turn, UNCHANGED <<cur, sent>>
  PROVE  ScanInv'
  <1>1. at' = "read" /\ sent' = sent /\ cur' = cur
    BY DEF turn
  <1>2. sent' # None => /\ sent'.mac = cur'.hdr.mac /\ sent'.tid = cur'.hdr.tid
                        /\ answers(cur', sent'.options)
    BY <1>1 DEF ScanInv
  <1> QED BY <1>1, <1>2 DEF ScanInv

LEMMA ReadScan ==
  ASSUME ScanInv, ProxyInv', NEW p \in Packets, Read(p)
  PROVE  ScanInv'
  <1>1. /\ at' = "header" /\ buf' = overwritten(buf, p) /\ hdr' = p.hdr
        /\ opts' = [lo |-> 0, hi |-> received(p)] /\ guid' = nil
        /\ cur' = p /\ sent' = None
    BY DEF Read
  <1>2. holds(buf', 0, received(p), p.means, p.wire)
    BY <1>1, PacketInBuffer DEF ScanInv, ProxyInv, ProxyTypeOK
  <1> QED BY <1>1, <1>2 DEF ScanInv

LEMMA HeaderScan ==
  ASSUME ScanInv, ProxyInv', ParseHeader
  PROVE  ScanInv'
  <1>1. CASE turn
    BY <1>1, TurnScan DEF ParseHeader
  <1>2. CASE ~turn
    <2>1. /\ at = "header" /\ at' = "scan" /\ opts' = opts /\ guid' = guid
          /\ buf' = buf /\ hdr' = hdr /\ cur' = cur /\ sent' = sent
          /\ hdr.whole /\ hdr.op = 1 /\ hdr.magic /\ (hdr.htype = 1 \/ hdr.hlen = 6)
      BY <1>2 DEF ParseHeader
    <2>2. /\ hdr = cur.hdr /\ holds(buf, 0, received(cur), cur.means, cur.wire)
          /\ opts = [lo |-> 0, hi |-> received(cur)] /\ guid = nil /\ cur \in Packets
      BY <2>1 DEF ScanInv, ProxyInv, ProxyTypeOK
    <2>3. acceptedHeader(cur')
      BY <2>1, <2>2 DEF acceptedHeader
    <2>4. ends(cur.means, 0) = 0 /\ Len(cur.means) \in Nat /\ received(cur) \in Nat
      <3>1. cur.means \in Seq(AnyOption) /\ Len(cur.means) \in Nat /\ received(cur) \in Nat
        BY <2>2, PacketIs, ReceivedFits
      <3>2. encoded(cur.means)[0] = <<>>
        BY <3>1, EncodedDefined, ZenonT(30)
      <3> QED BY <3>1, <3>2 DEF ends
    <2>5. scanned(0)'
      BY <2>1, <2>2, <2>4 DEF scanned
    <2>6. \E k \in 0 .. Len(cur'.means) : scanned(k)'
      BY <2>1, <2>4, <2>5
    <2>7. sent' # None => /\ sent'.mac = cur'.hdr.mac /\ sent'.tid = cur'.hdr.tid
                          /\ answers(cur', sent'.options)
      BY <2>1 DEF ScanInv
    <2>8. hdr' = cur'.hdr /\ holds(buf', 0, received(cur'), cur'.means, cur'.wire)
      BY <2>1, <2>2
    <2> QED BY <2>1, <2>3, <2>6, <2>7, <2>8 DEF ScanInv
  <1> QED BY <1>1, <1>2

\* Where the option loop is, and what DhcpOption gives it.
LEMMA ScanView ==
  ASSUME ScanInv, at = "scan"
  PROVE  \E k \in 0 .. Len(cur.means) : scanned(k) /\ finds(cur, buf, k, DhcpOption(buf, opts))
  <1>1. PICK k \in 0 .. Len(cur.means) : scanned(k)
    BY DEF ScanInv
  <1>2. cur \in Packets /\ holds(buf, 0, received(cur), cur.means, cur.wire)
    BY DEF ScanInv, ProxyInv, ProxyTypeOK
  <1>3. /\ ends(cur.means, k) <= received(cur)
        /\ opts = [lo |-> ends(cur.means, k), hi |-> received(cur)]
    BY <1>1 DEF scanned
  <1> QED BY <1>1, <1>2, <1>3, NextOption

\* Acceptable, for a packet of which the first k options are in the buffer.
LEMMA AcceptableIs ==
  ASSUME NEW p \in Packets, NEW k \in Nat, fitting(p) = 1 .. k
  PROVE  Acceptable(p) <=> /\ acceptedHeader(p)
                           /\ \A i \in 1 .. k : ~rejects(p.means[i].typ, p.means[i].val)
                           /\ \E i \in 1 .. k : p.means[i].typ = 97
  <1>1. \A t : withTyp(p, t) = {i \in 1 .. k : p.means[i].typ = t}
    BY DEF withTyp
  <1>2. \A i : rejects(p.means[i].typ, p.means[i].val) <=>
            \/ p.means[i].typ = 53 /\ p.means[i].val # <<1>>
            \/ p.means[i].typ = 93 /\ p.means[i].val # <<0, 0>>
            \/ p.means[i].typ = 97 /\ ~isGuid(p.means[i].val)
    BY DEF rejects, isGuid
  <1>3. Acceptable(p) <=>
            /\ acceptedHeader(p)
            /\ \A i \in 1 .. k : p.means[i].typ = 53 => p.means[i].val = <<1>>
            /\ \A i \in 1 .. k : p.means[i].typ = 93 => p.means[i].val = <<0, 0>>
            /\ \A i \in 1 .. k : p.means[i].typ = 97 => isGuid(p.means[i].val)
            /\ \E i \in 1 .. k : p.means[i].typ = 97
    <2>1. (\A i \in withTyp(p, 53) : p.means[i].val = <<1>>)
              <=> \A i \in 1 .. k : p.means[i].typ = 53 => p.means[i].val = <<1>>
      BY <1>1
    <2>2. (\A i \in withTyp(p, 93) : p.means[i].val = <<0, 0>>)
              <=> \A i \in 1 .. k : p.means[i].typ = 93 => p.means[i].val = <<0, 0>>
      BY <1>1
    <2>3. (\A i \in withTyp(p, 97) : isGuid(p.means[i].val))
              <=> \A i \in 1 .. k : p.means[i].typ = 97 => isGuid(p.means[i].val)
      BY <1>1
    <2>4. withTyp(p, 97) # {} <=> \E i \in 1 .. k : p.means[i].typ = 97
      <3>1. withTyp(p, 97) = {i \in 1 .. k : p.means[i].typ = 97}
        BY <1>1
      <3> QED BY <3>1
    <2> QED BY <2>1, <2>2, <2>3, <2>4, Zenon DEF Acceptable, acceptedHeader
  <1> QED BY <1>2, <1>3

LEMMA ScanScan ==
  ASSUME ScanInv, ProxyInv', ScanOption
  PROVE  ScanInv'
  <1> DEFINE o == DhcpOption(buf, opts)
             os == cur.means
             n == Len(cur.means)
  <1>1. /\ at = "scan" /\ UNCHANGED <<buf, hdr, cur, sent>>
        /\ \/ /\ o.typ = 255 /\ guid # nil
              /\ at' = "answer" /\ guid' = guid
           \/ turn
           \/ /\ o.typ # 255 /\ ~rejects(o.typ, bytes(buf, o.val))
              /\ at' = "scan" /\ opts' = o.next
              /\ guid' = IF o.typ = 97 THEN [lo |-> o.val.lo + 1, hi |-> o.val.hi] ELSE guid
    BY DEF ScanOption
  <1>2. PICK k \in 0 .. n : scanned(k) /\ finds(cur, buf, k, o)
    BY <1>1, ScanView
  <1>3. /\ cur \in Packets /\ hdr = cur.hdr /\ acceptedHeader(cur)
        /\ holds(buf, 0, received(cur), os, cur.wire)
        /\ sent # None => /\ sent.mac = cur.hdr.mac /\ sent.tid = cur.hdr.tid
                          /\ answers(cur, sent.options)
    BY <1>1 DEF ScanInv, ProxyInv, ProxyTypeOK
  <1>4. /\ \A i \in 1 .. k : ~rejects(os[i].typ, os[i].val)
        /\ guid = nil => \A i \in 1 .. k : os[i].typ # 97
        /\ guid # nil => lastGuid(os, k, bytes(buf, guid))
    BY <1>2 DEF scanned
  <1>5. os \in Seq(AnyOption) /\ n \in Nat
    BY <1>3, PacketIs
  <1> HIDE DEF o, os, n
  <1>6. CASE turn
    BY <1>1, <1>6, TurnScan
  <1>7. CASE o.typ = 255 /\ guid # nil /\ at' = "answer" /\ guid' = guid
    <2>1. fitting(cur) = 1 .. k /\ k \in Nat
      BY <1>2, <1>5, <1>7 DEF finds
    <2>2. /\ bytes(buf, guid) = SubSeq(lastVal(cur, 97), 2, 17)
          /\ \E i \in 1 .. k : os[i].typ = 97
      <3>1. lastGuid(cur.means, k, bytes(buf, guid))
        BY <1>4, <1>7 DEF os
      <3>2. keeps(cur, k, bytes(buf, guid))
        BY <1>3, <2>1, <3>1 DEF keeps, os
      <3> QED BY ONLY <3>2, LastGuidIs, SMTT(30), Z3T(30) DEF os
    <2>4. Acceptable(cur)
      BY <1>3, <1>4, <2>1, <2>2, AcceptableIs DEF os
    <2>5. bytes(buf', guid') = SubSeq(lastVal(cur', 97), 2, 17) /\ guid' # nil /\ Acceptable(cur')
      BY <1>1, <1>7, <2>2, <2>4
    <2> QED BY <1>1, <1>3, <1>7, <2>5 DEF ScanInv, os
  <1>8. CASE /\ o.typ # 255 /\ ~rejects(o.typ, bytes(buf, o.val))
             /\ at' = "scan" /\ opts' = o.next
             /\ guid' = IF o.typ = 97 THEN [lo |-> o.val.lo + 1, hi |-> o.val.hi] ELSE guid
    <2>1. /\ k + 1 \in 1 .. n /\ o.typ = os[k + 1].typ /\ bytes(buf, o.val) = os[k + 1].val
          /\ o.next = [lo |-> ends(os, k + 1), hi |-> received(cur)]
          /\ ends(os, k + 1) <= received(cur)
      BY <1>2, <1>8 DEF finds, n, os
    <2>0. k \in Nat
      BY <1>5
    <2>2. \A i \in 1 .. k + 1 : ~rejects(os[i].typ, os[i].val)
      BY <1>4, <1>8, <2>1
    <2>3. CASE o.typ # 97
      <3>1. guid' = guid /\ os[k + 1].typ # 97
        BY <1>8, <2>1, <2>3
      <3>2. guid = nil => \A i \in 1 .. k + 1 : os[i].typ # 97
        BY <1>4, <3>1
      <3>3. ASSUME guid # nil PROVE lastGuid(os, k + 1, bytes(buf, guid))
        BY <1>4, <2>0, <3>1, <3>3, LastGuidKept
      <3>4. scanned(k + 1)'
        BY <1>1, <1>8, <2>1, <2>2, <3>1, <3>2, <3>3 DEF scanned, os
      <3>5. k + 1 \in 0 .. Len(cur'.means)
        BY <1>1, <1>5, <2>1 DEF n
      <3> QED BY <1>1, <1>3, <1>8, <3>4, <3>5 DEF ScanInv, os
    <2>4. CASE o.typ = 97
      <3>1. guid' = [lo |-> o.val.lo + 1, hi |-> o.val.hi]
        BY <1>8, <2>4
      <3>2. Len(bytes(buf, o.val)) = 17
        BY <1>8, <2>4 DEF rejects
      <3>3. /\ cur \in Packets /\ holds(buf, 0, received(cur), cur.means, cur.wire)
            /\ k \in 0 .. Len(cur.means) /\ finds(cur, buf, k, o) /\ o.typ # 255
        BY <1>2, <1>3, <1>8 DEF os, n
      <3> DEFINE g == [lo |-> o.val.lo + 1, hi |-> o.val.hi]
      <3>4. guid' = g /\ g = [lo |-> o.val.lo + 1, hi |-> o.val.hi]
        BY <3>1
      <3>5. guid' # nil /\ bytes(buf, guid') = SubSeq(os[k + 1].val, 2, 17)
        <4> HIDE DEF g
        <4>1. g # nil /\ bytes(buf, g) = SubSeq(cur.means[k + 1].val, 2, 17)
          <5>1. takes(cur, buf, k, o, g)
            BY ONLY <3>2, <3>3, <3>4, ZenonT(30) DEF takes
          <5> QED BY ONLY <5>1, GuidFound, ZenonT(30)
        <4> QED BY <3>4, <4>1, ZenonT(30) DEF os
      <3>7. lastGuid(os, k + 1, bytes(buf, guid'))
        <4>1. os[k + 1].typ = 97
          BY <2>1, <2>4
        <4> QED BY <2>0, <3>5, <4>1, LastGuidNew
      <3>8. scanned(k + 1)'
        BY <1>1, <1>8, <2>1, <2>2, <3>5, <3>7, ZenonT(30) DEF scanned, os
      <3>9. k + 1 \in 0 .. Len(cur'.means)
        BY <1>1, <1>5, <2>1 DEF n
      <3> QED BY <1>1, <1>3, <1>8, <3>8, <3>9 DEF ScanInv, os
    <2> QED BY <2>3, <2>4
  <1> QED BY <1>1, <1>6, <1>7, <1>8

LEMMA AnswerScan ==
  ASSUME ScanInv, ProxyInv', NEW shouldBoot \in BOOLEAN, NEW written \in BOOLEAN,
         Answer(shouldBoot, written)
  PROVE  ScanInv'
  <1> DEFINE ip == InterfaceIP(Interfaces[cur.iface])
  <1>1. /\ at = "answer" /\ turn /\ UNCHANGED <<buf, hdr, cur>>
        /\ sent' = sent \/ (ip # NoIP /\ sent' = OfferDHCP(ip))
    BY DEF Answer
  <1>2. CASE sent' = sent
    BY <1>1, <1>2, TurnScan
  <1>3. CASE ip # NoIP /\ sent' = OfferDHCP(ip)
    <2>1. /\ hdr = cur.hdr /\ Acceptable(cur)
          /\ bytes(buf, guid) = SubSeq(lastVal(cur, 97), 2, 17)
      BY <1>1 DEF ScanInv
    <2>2. /\ sent'.mac = hdr.mac /\ sent'.tid = hdr.tid
          /\ sent'.options = offerOptions(ip, bytes(buf, guid))
      BY <1>3 DEF OfferDHCP
    <2>3. answers(cur, sent'.options)
      BY <1>3, <2>1, <2>2 DEF answers
    <2>4. cur' = cur /\ at' = "read"
      BY <1>1 DEF turn
    <2> QED BY <2>1, <2>2, <2>3, <2>4 DEF ScanInv
  <1> QED BY <1>1, <1>2, <1>3

LEMMA StepScan == ScanInv /\ [Next]_vars => ScanInv'
  <1> SUFFICES ASSUME ScanInv, [Next]_vars PROVE ScanInv'
    OBVIOUS
  <1>0. ProxyInv'
    BY StepProxy DEF ScanInv
  <1>1. ASSUME NEW p \in Packets, Read(p) PROVE ScanInv'
    BY <1>0, <1>1, ReadScan
  <1>2. ASSUME ParseHeader PROVE ScanInv'
    BY <1>0, <1>2, HeaderScan
  <1>3. ASSUME ScanOption PROVE ScanInv'
    BY <1>0, <1>3, ScanScan
  <1>4. ASSUME NEW shouldBoot \in BOOLEAN, NEW written \in BOOLEAN, Answer(shouldBoot, written)
        PROVE  ScanInv'
    BY <1>0, <1>4, AnswerScan
  <1>5. CASE UNCHANGED vars
    <2>1. /\ at' = at /\ buf' = buf /\ hdr' = hdr /\ opts' = opts /\ guid' = guid
          /\ cur' = cur /\ sent' = sent
      BY <1>5 DEF vars
    <2>2. \A k : scanned(k)' <=> scanned(k)
      BY <2>1 DEF scanned
    <2> QED BY <1>0, <2>1, <2>2 DEF ScanInv
  <1> QED BY <1>1, <1>2, <1>3, <1>4, <1>5 DEF Next, Handle

\* ParseDHCP accepts exactly the packets that are Acceptable, told from what they
\* mean: for every packet, any order and number of options, wherever the buffer
\* cuts it off, and whatever the buffer held before.
THEOREM DecidesEveryPacket == Spec => DecidesRight
  <1> DEFINE D == (at \in {"header", "scan"} /\ at' \in {"read", "answer"})
                  => (at' = "answer" <=> Acceptable(cur))
  <1>1. ASSUME ScanInv, [Next]_vars PROVE [D]_vars
    <2> SUFFICES ASSUME Next, at \in {"header", "scan"}, at' \in {"read", "answer"}
                 PROVE  at' = "answer" <=> Acceptable(cur)
      BY <1>1
    <2>1. ParseHeader \/ ScanOption
      BY DEF Next, Handle, Read, Answer
    <2>2. CASE ParseHeader
      <3>1. at' = "read" /\ (~hdr.whole \/ hdr.op # 1 \/ (hdr.htype # 1 /\ hdr.hlen # 6) \/ ~hdr.magic)
        BY <2>2 DEF ParseHeader, turn
      <3>2. hdr = cur.hdr
        BY <1>1, <2>2 DEF ScanInv, ParseHeader
      <3>3. ~Acceptable(cur)
        BY <3>1, <3>2 DEF Acceptable
      <3> QED BY <3>1, <3>3
    <2>3. CASE ScanOption
      <3> DEFINE o == DhcpOption(buf, opts)
      <3>1. /\ at = "scan"
            /\ \/ o.typ = 255 /\ guid # nil /\ at' = "answer"
               \/ o.typ = 255 /\ guid = nil /\ at' = "read"
               \/ o.typ # 255 /\ rejects(o.typ, bytes(buf, o.val)) /\ at' = "read"
        BY <2>3 DEF ScanOption, turn
      <3>2. acceptedHeader(cur) /\ cur \in Packets /\ Len(cur.means) \in Nat
        BY <1>1, <3>1, PacketIs DEF ScanInv, ProxyInv, ProxyTypeOK
      <3>3. PICK k \in 0 .. Len(cur.means) : scanned(k) /\ finds(cur, buf, k, o)
        BY <1>1, <3>1, ScanView
      <3> HIDE DEF o
      <3>4. CASE o.typ = 255
        <4>1. fitting(cur) = 1 .. k /\ k \in Nat
          BY <3>2, <3>3, <3>4 DEF finds
        <4>2. Acceptable(cur) <=> \E i \in 1 .. k : cur.means[i].typ = 97
          <5>1. \A i \in 1 .. k : ~rejects(cur.means[i].typ, cur.means[i].val)
            BY <3>3, ZenonT(30) DEF scanned
          <5> QED BY <3>2, <4>1, <5>1, AcceptableIs, ZenonT(30)
        <4>3. guid # nil <=> \E i \in 1 .. k : cur.means[i].typ = 97
          BY <3>3 DEF scanned, lastGuid
        <4> QED BY <3>1, <3>4, <4>2, <4>3
      <3>5. CASE o.typ # 255
        <4>1. /\ at' = "read" /\ k + 1 \in fitting(cur)
              /\ rejects(cur.means[k + 1].typ, cur.means[k + 1].val)
          BY <3>1, <3>3, <3>5 DEF finds
        <4>2. ~Acceptable(cur)
          BY <4>1 DEF Acceptable, rejects, isGuid, withTyp
        <4> QED BY <4>1, <4>2
      <3> QED BY <3>4, <3>5
    <2> QED BY <2>1, <2>2, <2>3
  <1> QED BY InitScan, StepScan, <1>1, PTL DEF Spec, DecidesRight

\* A turn of the option loop leaves it or consumes at least two bytes of the
\* packet: with StaysInPacket, why the loop ends for every packet.
Consumes == at = "scan" /\ at' = "scan" => opts'.lo >= opts.lo + 2

THEOREM OptionsAreConsumed == Spec => [][Consumes]_vars
  <1>1. ASSUME ProxyInv, [Next]_vars PROVE [Consumes]_vars
    <2> SUFFICES ASSUME Next, at = "scan", at' = "scan" PROVE opts'.lo >= opts.lo + 2
      BY <1>1 DEF Consumes
    <2>1. ScanOption
      BY DEF Next, Handle, Read, ParseHeader, Answer
    <2>2. opts' = DhcpOption(buf, opts).next /\ DhcpOption(buf, opts).typ # 255
      BY <2>1 DEF ScanOption, turn
    <2> QED BY <1>1, <2>2, AtOption
  <1> QED BY InitProxy, StepProxy, <1>1, PTL DEF Spec

-----------------------------------------------------------------------------
(* The offer, read by its lengths.                                         *)

LEMMA VendorReads ==
  ASSUME NEW ip \in Seq(Byte), Len(ip) = 4
  PROVE  /\ pxeVendor(ip) \in Seq(Byte) /\ Len(pxeVendor(ip)) = 39
         /\ \E F : /\ reads(decode(pxeVendor(ip)), {6, 8, 9, 10}, F)
                   /\ F[8] = <<128, 0, 1>> \o ip /\ F[9] = <<128, 0, 9>> \o Pixiecore
  <1> DEFINE h6 == <<6, 1, 3>>
             h8 == <<8, 7, 128, 0, 1>>
             h9 == <<9, 12, 128, 0, 9>>
             h10 == <<10, 10, 0>>
             e == <<255>>
             n == Pixiecore
             v2 == h6 \o h8
             v3 == v2 \o ip
             v4 == v3 \o h9
             v5 == v4 \o n
             v6 == v5 \o h10
             v7 == v6 \o n
             v == v7 \o e
             x6 == <<3>> \o <<>>
             x8 == <<128, 0, 1>> \o ip
             x9 == <<128, 0, 9>> \o n
             x10 == <<0>> \o n
             F == [t \in Int |-> IF t = 6 THEN x6 ELSE IF t = 8 THEN x8 ELSE IF t = 9 THEN x9 ELSE x10]
             T0 == {}
             T1 == {10}
             T2 == {9, 10}
             T3 == {8, 9, 10}
             T4 == {6, 8, 9, 10}
  <1>1. pxeVendor(ip) = v
    BY DEF pxeVendor
  <1>t. adds(T0, 10, T1) /\ adds(T1, 9, T2) /\ adds(T2, 8, T3) /\ adds(T3, 6, T4)
    BY DEF adds
  <1>s. spans(26, 10, 27, 39) /\ spans(12, 12, 13, 27) /\ spans(3, 7, 4, 13) /\ spans(0, 1, 1, 4)
    BY DEF spans
  <1>2. gives(F, 6, x6) /\ gives(F, 8, x8) /\ gives(F, 9, x9) /\ gives(F, 10, x10)
    BY DEF gives
  <1>3. v2 = h6 \o h8 /\ v3 = v2 \o ip /\ v4 = v3 \o h9 /\ v5 = v4 \o n
    OBVIOUS
  <1>4. v6 = v5 \o h10 /\ v7 = v6 \o n /\ v = v7 \o e
    OBVIOUS
  <1>5. /\ sized(h6, 3) /\ sized(h8, 5)
        /\ sized(h9, 5) /\ sized(h10, 3)
        /\ sized(e, 1) /\ e[1] = 255
    BY DEF Byte, sized
  <1>6. sized(n, 9)
    BY DEF Pixiecore, Byte, sized
  <1> HIDE DEF e, n, v2, v3, v4, v5, v6, v7, v, F, x6, x8, x9, x10, T0, T1, T2, T3, T4
  <1>i. sized(ip, 4)
    BY DEF sized
  <1>7. writes(v, 0, h6, 6, 1, <<3>>, <<>>) <=> piece(v, 0, h6) /\ piece(v, 3, <<>>)
    BY DEF writes, Byte, sized
  <1>8. writes(v, 3, h8, 8, 7, <<128, 0, 1>>, ip) <=> piece(v, 3, h8) /\ piece(v, 8, ip)
    BY DEF writes, Byte, sized
  <1>9. writes(v, 12, h9, 9, 12, <<128, 0, 9>>, n) <=> piece(v, 12, h9) /\ piece(v, 17, n)
    BY <1>6 DEF writes, Byte, sized
  <1>10. writes(v, 26, h10, 10, 10, <<0>>, n) <=> piece(v, 26, h10) /\ piece(v, 29, n)
    BY <1>6 DEF writes, Byte, sized
  <1> HIDE DEF h6, h8, h9, h10
  <1>11. sized(v2, 8)
    BY <1>3, <1>5, CatSized
  <1>12. sized(v3, 12)
    BY <1>3, <1>i, <1>11, CatSized
  <1>13. sized(v4, 17)
    BY <1>3, <1>5, <1>12, CatSized
  <1>14. sized(v5, 26)
    BY <1>3, <1>6, <1>13, CatSized
  <1>15. sized(v6, 29)
    BY <1>4, <1>5, <1>14, CatSized
  <1>16. sized(v7, 38)
    BY <1>4, <1>6, <1>15, CatSized
  <1>17. sized(v, 39)
    BY <1>4, <1>5, <1>16, CatSized
  <1>18. piece(v, 0, v7) /\ piece(v, 38, e)
    BY <1>4, <1>5, <1>16, <1>17, WholeSized, CutSized
  <1>19. piece(v, 0, v6) /\ piece(v, 29, n)
    BY <1>4, <1>6, <1>15, <1>18, CutSized
  <1>20. piece(v, 0, v5) /\ piece(v, 26, h10)
    BY <1>4, <1>5, <1>14, <1>19, CutSized
  <1>21. piece(v, 0, v4) /\ piece(v, 17, n)
    BY <1>3, <1>6, <1>13, <1>20, CutSized
  <1>22. piece(v, 0, v3) /\ piece(v, 12, h9)
    BY <1>3, <1>5, <1>12, <1>21, CutSized
  <1>23. piece(v, 0, v2) /\ piece(v, 8, ip)
    BY <1>3, <1>i, <1>11, <1>22, CutSized
  <1>24. piece(v, 0, h6) /\ piece(v, 3, h8)
    BY <1>3, <1>5, <1>23, CutSized
  <1>25. piece(v, 3, <<>>)
    BY <1>17 DEF piece, sized
  <1>26. optionIn(v, 0, 6, 1, x6)
    BY <1>7, <1>24, <1>25, OptionIn, ZenonT(30) DEF x6
  <1>27. optionIn(v, 3, 8, 7, x8)
    BY <1>8, <1>23, <1>24, OptionIn DEF x8
  <1>28. optionIn(v, 12, 9, 12, x9)
    BY <1>9, <1>21, <1>22, OptionIn DEF x9
  <1>29. optionIn(v, 26, 10, 10, x10)
    BY <1>10, <1>19, <1>20, OptionIn DEF x10
  <1>30. readsFrom(v, 39, T0, F)
    <2>1. ending(e)
      BY DEF e, ending
    <2>2. readsFrom(v, 38 + 1, {}, F)
      BY <1>18, <2>1, ReadsLast, ZenonT(30)
    <2> QED BY <2>2 DEF T0
  <1>31. readsFrom(v, 27, T1, F)
    BY <1>2, <1>t, <1>s, <1>29, <1>30, ReadsNext, Zenon
  <1>32. readsFrom(v, 13, T2, F)
    BY <1>2, <1>t, <1>s, <1>28, <1>31, ReadsNext, Zenon
  <1>33. readsFrom(v, 4, T3, F)
    BY <1>2, <1>t, <1>s, <1>27, <1>32, ReadsNext, Zenon
  <1>34. readsFrom(v, 1, T4, F)
    BY <1>2, <1>t, <1>s, <1>26, <1>33, ReadsNext, Zenon
  <1> QED BY <1>1, <1>2, <1>17, <1>34, ZenonT(30) DEF decode, n, sized, readsFrom, x8, x9, T4, gives

LEMMA OfferReads ==
  ASSUME NEW ip \in Seq(Byte), Len(ip) = 4, NEW g \in Seq(Byte), Len(g) = 16
  PROVE  \E F : /\ reads(decode(offerOptions(ip, g)), {53, 54, 60, 97, 43}, F)
                /\ F[54] = ip /\ F[97] = <<0>> \o g /\ F[43] = pxeVendor(ip)
  <1> DEFINE h53 == <<53, 1, 2>>
             h54 == <<54, 4>>
             h60 == <<60, 9>>
             h97 == <<97, 17, 0>>
             h43 == <<43, 39>>
             e == <<255>>
             n == PXEClient
             v == pxeVendor(ip)
             b2 == h53 \o h54
             b3 == b2 \o ip
             b4 == b3 \o h60
             b5 == b4 \o n
             b6 == b5 \o h97
             b7 == b6 \o g
             b8 == b7 \o h43
             b9 == b8 \o v
             b == b9 \o e
             x53 == <<2>> \o <<>>
             x54 == <<>> \o ip
             x60 == <<>> \o n
             x97 == <<0>> \o g
             x43 == <<>> \o v
             F == [t \in Int |-> IF t = 53 THEN x53 ELSE IF t = 54 THEN x54 ELSE IF t = 60 THEN x60
                                 ELSE IF t = 97 THEN x97 ELSE x43]
             T0 == {}
             T1 == {43}
             T2 == {97, 43}
             T3 == {60, 97, 43}
             T4 == {54, 60, 97, 43}
             T5 == {53, 54, 60, 97, 43}
  <1>0. v \in Seq(Byte) /\ Len(v) = 39
    BY VendorReads
  <1>1. offerOptions(ip, g) = b
    <2>1. Len(pxeVendor(ip)) % 256 = 39
      BY <1>0
    <2> QED BY <2>1, ZenonT(30) DEF offerOptions
  <1>2. /\ gives(F, 53, x53) /\ gives(F, 54, x54) /\ gives(F, 60, x60)
        /\ gives(F, 97, x97) /\ gives(F, 43, x43)
    BY DEF gives
  <1>t. /\ adds(T0, 43, T1) /\ adds(T1, 97, T2) /\ adds(T2, 60, T3) /\ adds(T3, 54, T4)
        /\ adds(T4, 53, T5)
    BY DEF adds
  <1>s. /\ spans(39, 39, 40, 81) /\ spans(20, 17, 21, 40) /\ spans(9, 9, 10, 21)
        /\ spans(3, 4, 4, 10) /\ spans(0, 1, 1, 4)
    BY DEF spans
  <1>3. b2 = h53 \o h54 /\ b3 = b2 \o ip /\ b4 = b3 \o h60 /\ b5 = b4 \o n
    OBVIOUS
  <1>4. b6 = b5 \o h97 /\ b7 = b6 \o g /\ b8 = b7 \o h43 /\ b9 = b8 \o v /\ b = b9 \o e
    OBVIOUS
  <1>5. /\ sized(h53, 3) /\ sized(h54, 2) /\ sized(h60, 2) /\ sized(h97, 3) /\ sized(h43, 2)
        /\ sized(e, 1)
    BY DEF Byte, sized
  <1>6. sized(n, 9) /\ sized(ip, 4) /\ sized(g, 16)
    BY DEF PXEClient, Byte, sized
  <1>v. sized(v, 39)
    BY <1>0 DEF sized
  <1> HIDE DEF e, n, v, b2, b3, b4, b5, b6, b7, b8, b9, b, F, x53, x54, x60, x97, x43
  <1> HIDE DEF T0, T1, T2, T3, T4, T5
  <1>7. writes(b, 0, h53, 53, 1, <<2>>, <<>>) <=> piece(b, 0, h53) /\ piece(b, 3, <<>>)
    BY DEF writes, Byte, sized
  <1>8. writes(b, 3, h54, 54, 4, <<>>, ip) <=> piece(b, 3, h54) /\ piece(b, 5, ip)
    BY DEF writes, Byte, sized
  <1>9. writes(b, 9, h60, 60, 9, <<>>, n) <=> piece(b, 9, h60) /\ piece(b, 11, n)
    BY <1>6 DEF writes, Byte, sized
  <1>10. writes(b, 20, h97, 97, 17, <<0>>, g) <=> piece(b, 20, h97) /\ piece(b, 23, g)
    BY <1>6 DEF writes, Byte, sized
  <1>11. writes(b, 39, h43, 43, 39, <<>>, v) <=> piece(b, 39, h43) /\ piece(b, 41, v)
    BY <1>v DEF writes, Byte, sized
  <1> HIDE DEF h53, h54, h60, h97, h43
  <1>12. sized(b2, 5)
    BY <1>3, <1>5, CatSized
  <1>13. sized(b3, 9)
    BY <1>3, <1>6, <1>12, CatSized
  <1>14. sized(b4, 11)
    BY <1>3, <1>5, <1>13, CatSized
  <1>15. sized(b5, 20)
    BY <1>3, <1>6, <1>14, CatSized
  <1>16. sized(b6, 23)
    BY <1>4, <1>5, <1>15, CatSized
  <1>17. sized(b7, 39)
    BY <1>4, <1>6, <1>16, CatSized
  <1>18. sized(b8, 41)
    BY <1>4, <1>5, <1>17, CatSized
  <1>19. sized(b9, 80)
    BY <1>4, <1>v, <1>18, CatSized
  <1>20. sized(b, 81)
    BY <1>4, <1>5, <1>19, CatSized
  <1>21. piece(b, 0, b9) /\ piece(b, 80, e)
    BY <1>4, <1>5, <1>19, <1>20, WholeSized, CutSized
  <1>22. piece(b, 0, b8) /\ piece(b, 41, v)
    BY <1>4, <1>v, <1>18, <1>21, CutSized
  <1>23. piece(b, 0, b7) /\ piece(b, 39, h43)
    BY <1>4, <1>5, <1>17, <1>22, CutSized
  <1>24. piece(b, 0, b6) /\ piece(b, 23, g)
    BY <1>4, <1>6, <1>16, <1>23, CutSized
  <1>25. piece(b, 0, b5) /\ piece(b, 20, h97)
    BY <1>4, <1>5, <1>15, <1>24, CutSized
  <1>26. piece(b, 0, b4) /\ piece(b, 11, n)
    BY <1>3, <1>6, <1>14, <1>25, CutSized
  <1>27. piece(b, 0, b3) /\ piece(b, 9, h60)
    BY <1>3, <1>5, <1>13, <1>26, CutSized
  <1>28. piece(b, 0, b2) /\ piece(b, 5, ip)
    BY <1>3, <1>6, <1>12, <1>27, CutSized
  <1>29. piece(b, 0, h53) /\ piece(b, 3, h54)
    BY <1>3, <1>5, <1>28, CutSized
  <1>30. piece(b, 3, <<>>)
    BY <1>20 DEF piece, sized
  <1>31. optionIn(b, 0, 53, 1, x53)
    BY <1>7, <1>29, <1>30, OptionIn, ZenonT(30) DEF x53
  <1>32. optionIn(b, 3, 54, 4, x54)
    BY <1>8, <1>28, <1>29, OptionIn, ZenonT(30) DEF x54
  <1>33. optionIn(b, 9, 60, 9, x60)
    BY <1>9, <1>26, <1>27, OptionIn, ZenonT(30) DEF x60
  <1>34. optionIn(b, 20, 97, 17, x97)
    BY <1>10, <1>24, <1>25, OptionIn DEF x97
  <1>35. optionIn(b, 39, 43, 39, x43)
    BY <1>11, <1>22, <1>23, OptionIn, ZenonT(30) DEF x43
  <1>36. readsFrom(b, 81, T0, F)
    <2>1. ending(e)
      BY DEF e, ending
    <2>2. readsFrom(b, 80 + 1, {}, F)
      BY <1>21, <2>1, ReadsLast, ZenonT(30)
    <2> QED BY <2>2 DEF T0
  <1>37. readsFrom(b, 40, T1, F)
    <2>1. gives(F, 43, x43) /\ adds(T0, 43, T1) /\ spans(39, 39, 40, 81)
      BY <1>2, <1>t, <1>s
    <2> QED BY <1>35, <1>36, <2>1, ReadsNext, Zenon
  <1>38. readsFrom(b, 21, T2, F)
    <2>1. gives(F, 97, x97) /\ adds(T1, 97, T2) /\ spans(20, 17, 21, 40)
      BY <1>2, <1>t, <1>s
    <2> QED BY <1>34, <1>37, <2>1, ReadsNext, Zenon
  <1>39. readsFrom(b, 10, T3, F)
    <2>1. gives(F, 60, x60) /\ adds(T2, 60, T3) /\ spans(9, 9, 10, 21)
      BY <1>2, <1>t, <1>s
    <2> QED BY <1>33, <1>38, <2>1, ReadsNext, Zenon
  <1>40. readsFrom(b, 4, T4, F)
    <2>1. gives(F, 54, x54) /\ adds(T3, 54, T4) /\ spans(3, 4, 4, 10)
      BY <1>2, <1>t, <1>s
    <2> QED BY <1>32, <1>39, <2>1, ReadsNext, Zenon
  <1>41. readsFrom(b, 1, T5, F)
    <2>1. gives(F, 53, x53) /\ adds(T4, 53, T5) /\ spans(0, 1, 1, 4)
      BY <1>2, <1>t, <1>s
    <2> QED BY <1>31, <1>40, <2>1, ReadsNext, Zenon
  <1>42. x54 = ip /\ x43 = v
    BY <1>0 DEF x54, x43
  <1>43. reads(decode(b), T5, F)
    BY <1>41 DEF decode, readsFrom
  <1>44. F[54] = ip /\ F[97] = <<0>> \o g /\ F[43] = v
    BY <1>2, <1>42 DEF gives, x97
  <1> QED BY <1>1, <1>43, <1>44, ZenonT(30) DEF T5, v

\* The options o, read by their lengths, have the values F, and the vendor
\* options in them the values G; a is the address they give.
says(p, o, F, G, a) ==
    LET addrs == {c \in Range(Interfaces[p.iface]) : usable(c)}
    IN  /\ reads(decode(o), {53, 54, 60, 97, 43}, F)
        /\ reads(decode(F[43]), {6, 8, 9, 10}, G)
        /\ F[97] = lastVal(p, 97)
        /\ G[8] = <<128, 0, 1>> \o F[54] /\ G[9] = <<128, 0, 9>> \o Pixiecore
        /\ a \in addrs /\ a.ip = F[54] /\ bestOf(a.scope, {c.scope : c \in addrs})

\* What the options of an offer say to the machine that reads them.
LEMMA AnswerReads ==
  ASSUME NEW p \in Packets, NEW o, answers(p, o)
  PROVE  \E F, G, a : says(p, o, F, G, a)
  <1> DEFINE ip == InterfaceIP(Interfaces[p.iface])
             u == lastVal(p, 97)
             g == SubSeq(u, 2, 17)
  <1>1. ip # NoIP /\ Acceptable(p) /\ o = offerOptions(ip, g)
    BY DEF answers
  <1>2. Interfaces[p.iface] \in Seq(Address)
    BY PacketIs, DhcpAssumption DEF DhcpAssumption
  <1>3. PICK a \in {c \in Range(Interfaces[p.iface]) : usable(c)} :
            /\ a.ip = ip /\ a.ip \in Seq(Byte) /\ Len(a.ip) = 4
            /\ bestOf(a.scope, {c.scope : c \in {c \in Range(Interfaces[p.iface]) : usable(c)}})
    BY <1>1, <1>2, BestAddress, ZenonT(30)
  <1>4. u \in Seq(Byte) /\ isGuid(u)
    BY <1>1, LastValIn DEF Acceptable
  <1> HIDE DEF ip, u
  <1>5. g \in Seq(Byte) /\ Len(g) = 16 /\ <<0>> \o g = u
    <2>1. u \in Seq(Byte) /\ Len(u) = 17 /\ u[1] = 0
      BY <1>4 DEF isGuid
    <2>2. g \in Seq(Byte) /\ Len(g) = 16
      BY ONLY <2>1, GuidIn, SMTT(30), Z3T(30)
    <2>3. <<0>> \o g = u
      BY ONLY <2>1, GuidWhole, SMTT(30), Z3T(30)
    <2> QED BY <2>2, <2>3
  <1> HIDE DEF g
  <1>6. ip \in Seq(Byte) /\ Len(ip) = 4
    BY <1>3
  <1>7. PICK F : /\ reads(decode(offerOptions(ip, g)), {53, 54, 60, 97, 43}, F)
                 /\ F[54] = ip /\ F[97] = <<0>> \o g /\ F[43] = pxeVendor(ip)
    BY <1>5, <1>6, OfferReads, ZenonT(30)
  <1>8. PICK G : /\ reads(decode(pxeVendor(ip)), {6, 8, 9, 10}, G)
                 /\ G[8] = <<128, 0, 1>> \o ip /\ G[9] = <<128, 0, 9>> \o Pixiecore
    BY <1>6, VendorReads, ZenonT(30)
  <1>9. /\ reads(decode(o), {53, 54, 60, 97, 43}, F) /\ reads(decode(F[43]), {6, 8, 9, 10}, G)
        /\ F[97] = lastVal(p, 97)
        /\ G[8] = <<128, 0, 1>> \o F[54] /\ G[9] = <<128, 0, 9>> \o Pixiecore /\ a.ip = F[54]
    BY <1>1, <1>3, <1>5, <1>7, <1>8 DEF u
  <1>10. says(p, o, F, G, a)
    BY <1>3, <1>9, Zenon DEF says
  <1> QED BY <1>10

\* The menu has the type of the boot server, and the length of its text.
LEMMA MenuIs ==
  LET w == <<128, 0, 9>> \o Pixiecore
  IN  w[3] = Len(w) - 3 /\ SubSeq(w, 1, 2) \o <<1>> = <<128, 0, 1>>
  <1> DEFINE h == <<128, 0, 9>>
             n == Pixiecore
             w == h \o n
             q == SubSeq(w, 0 + 1, 0 + 2)
             y == <<1>>
             r == q \o y
             m == <<128, 0, 1>>
  <1>1. /\ h \in Seq(Byte) /\ Len(h) = 3 /\ h[1] = 128 /\ h[2] = 0 /\ h[3] = 9
        /\ y \in Seq(Byte) /\ Len(y) = 1 /\ y[1] = 1
        /\ m \in Seq(Byte) /\ Len(m) = 3 /\ m[1] = 128 /\ m[2] = 0 /\ m[3] = 1
    BY DEF Byte
  <1>2. n \in Seq(Byte) /\ Len(n) = 9
    BY DEF Pixiecore, Byte
  <1> HIDE DEF h, n, y, m
  <1>3. w \in Seq(Byte) /\ Len(w) = Len(h) + Len(n) /\ \A x \in 1 .. Len(h) : w[x] = h[x]
    <2>1. h \in Seq(Byte) /\ n \in Seq(Byte)
      BY <1>1, <1>2
    <2> QED BY <2>1, CatIs
  <1> HIDE DEF w
  <1>4. Len(w) = 12 /\ w[1] = 128 /\ w[2] = 0 /\ w[3] = 9
    BY <1>1, <1>2, <1>3
  <1>5. q \in Seq(Byte) /\ Len(q) = 2 /\ \A x \in 1 .. 2 : q[x] = w[0 + x]
    <2>1. PICK l \in Nat : l = 2
      OBVIOUS
    <2>2. PICK i \in Nat : i = 0
      OBVIOUS
    <2>3. i + l <= Len(w)
      BY <1>4, <2>1, <2>2
    <2>4. /\ SubSeq(w, i + 1, i + l) \in Seq(Byte) /\ Len(SubSeq(w, i + 1, i + l)) = l
          /\ \A x \in 1 .. l : SubSeq(w, i + 1, i + l)[x] = w[i + x]
      BY <1>3, <2>3, SubSeqIs
    <2> QED BY <2>1, <2>2, <2>4
  <1>6. q = SubSeq(w, 1, 2)
    OBVIOUS
  <1> HIDE DEF q
  <1>7. /\ r \in Seq(Byte) /\ Len(r) = Len(q) + Len(y)
        /\ \A x \in 1 .. Len(q) : r[x] = q[x]
        /\ \A x \in 1 .. Len(y) : r[Len(q) + x] = y[x]
    <2>1. q \in Seq(Byte) /\ y \in Seq(Byte)
      BY <1>1, <1>5
    <2> QED BY <2>1, CatIs
  <1> HIDE DEF r
  <1>8. Len(r) = 3 /\ r[1] = 128 /\ r[2] = 0 /\ r[3] = 1
    <2>1. q[1] = 128 /\ q[2] = 0
      BY <1>4, <1>5
    <2> QED BY <1>1, <1>5, <1>7, <2>1
  <1>9. \A x \in 1 .. Len(r) : r[x] = m[x]
    BY <1>1, <1>8
  <1>10. r = m
    <2>1. r \in Seq(Byte) /\ m \in Seq(Byte) /\ Len(r) = Len(m)
      BY <1>1, <1>7, <1>8, ZenonT(30)
    <2> QED BY <1>9, <2>1, SameSeq
  <1> QED BY <1>4, <1>6, <1>10 DEF r, y, m, w, h, n

\* A ROM that reads an offer by its lengths finds its own transaction and GUID,
\* the server's address, and vendor options in which the menu leads to the boot
\* server the offer lists, for every packet, every earlier content of the
\* buffer and every address: the lengths in OfferDHCP agree with what it writes.
THEOREM OffersReadBack == Spec => []OfferReadsBack
  <1>1. ScanInv => OfferReadsBack
    <2> SUFFICES ASSUME ScanInv, sent # None PROVE OfferReadsBack
      BY DEF OfferReadsBack
    <2> DEFINE os == decode(sent.options)
               vs == decode(valueOf(os, 43))
               w == <<128, 0, 9>> \o Pixiecore
    <2>1. cur \in Packets /\ sent.mac = cur.hdr.mac /\ sent.tid = cur.hdr.tid /\ answers(cur, sent.options)
      BY DEF ScanInv, ProxyInv, ProxyTypeOK
    <2>0. PICK F, G, a : says(cur, sent.options, F, G, a)
      BY <2>1, AnswerReads
    <2>2. /\ reads(os, {53, 54, 60, 97, 43}, F)
          /\ reads(decode(F[43]), {6, 8, 9, 10}, G)
          /\ F[97] = lastVal(cur, 97)
          /\ G[8] = <<128, 0, 1>> \o F[54] /\ G[9] = w
      BY <2>0, Zenon DEF says
    <2> HIDE DEF os
    <2>3. valueOf(os, 97) = F[97] /\ valueOf(os, 54) = F[54] /\ valueOf(os, 43) = F[43]
      BY <2>2, ReadsValue
    <2>4. reads(vs, {6, 8, 9, 10}, G)
      BY <2>2, <2>3
    <2> HIDE DEF vs
    <2>5. valueOf(vs, 8) = G[8] /\ valueOf(vs, 9) = G[9]
      BY <2>4, ReadsValue
    <2>6. codes(os) = {53, 54, 60, 97, 43} /\ codes(vs) = {6, 8, 9, 10}
      BY <2>2, <2>4 DEF reads
    <2>7. w[3] = Len(w) - 3 /\ SubSeq(w, 1, 2) \o <<1>> = <<128, 0, 1>>
      BY MenuIs
    <2> HIDE DEF w
    <2>8. /\ valueOf(vs, 8) = SubSeq(valueOf(vs, 9), 1, 2) \o <<1>> \o valueOf(os, 54)
          /\ valueOf(vs, 9)[3] = Len(valueOf(vs, 9)) - 3
      BY <2>2, <2>3, <2>5, <2>7, ZenonT(30)
    <2> QED BY <2>1, <2>2, <2>3, <2>6, <2>8 DEF OfferReadsBack, os, vs
  <1> QED BY InitScan, StepScan, <1>1, PTL DEF Spec

\* The address in an offer is one of the interface the request came by, and the
\* interface has none of a kind that InterfaceIP prefers, wherever it stands
\* among the addresses of the interface.
THEOREM OffersBestAddress == Spec => []ServesBestAddress
  <1>1. ScanInv => ServesBestAddress
    <2> SUFFICES ASSUME ScanInv, sent # None PROVE ServesBestAddress
      BY DEF ServesBestAddress
    <2> DEFINE addrs == {c \in Range(Interfaces[cur.iface]) : usable(c)}
               scopes == {c.scope : c \in addrs}
               os == decode(sent.options)
    <2>1. cur \in Packets /\ answers(cur, sent.options)
      BY DEF ScanInv, ProxyInv, ProxyTypeOK
    <2>0. PICK F, G, a : says(cur, sent.options, F, G, a)
      BY <2>1, AnswerReads
    <2>2. /\ reads(os, {53, 54, 60, 97, 43}, F)
          /\ a \in addrs /\ a.ip = F[54] /\ bestOf(a.scope, scopes)
      BY <2>0, Zenon DEF says
    <2> HIDE DEF os
    <2>3. valueOf(os, 54) = F[54]
      BY <2>2, ReadsValue
    <2>4. \E c \in addrs :
              /\ c.ip = valueOf(os, 54)
              /\ \/ c.scope = "global"
                 \/ c.scope = "link-local" /\ "global" \notin scopes
                 \/ c.scope = "loopback" /\ scopes \subseteq {"loopback", "other"}
      <3> HIDE DEF addrs, scopes
      <3> QED BY <2>2, <2>3, Zenon DEF bestOf
    <2> QED BY <2>4, Zenon DEF ServesBestAddress, os
  <1> QED BY InitScan, StepScan, <1>1, PTL DEF Spec
=============================================================================
