------------------------------ MODULE PxeProof -------------------------------
(***************************************************************************)
(* The PXE loop, for every packet, every buffer size and every history of *)
(* the buffer.  PxeInv: it keeps to the packet it has just read, and its   *)
(* inner loop to the option it is in; each turn of either option loop      *)
(* consumes bytes.  PxeScanInv: where it is, it has found what the options *)
(* behind it mean, so it accepts the right requests, and a ROM that reads  *)
(* the reply by its lengths finds in it what ReplyPXE meant.               *)
(***************************************************************************)
EXTENDS Pxe, DhcpPacketProof

USE SMTT(30), Z3T(30), ZenonT(30)

PxeInv == PxeTypeOK /\ PxeInBounds

\* The slice s holds bytes of the packet read last only.
Inside(s) == s \in Slice /\ s.lo <= s.hi /\ s.hi <= received(cur)

LEMMA InitPxe == Init => PxeInv
  <1> SUFFICES ASSUME Init PROVE PxeInv
    OBVIOUS
  <1>1. PxeTypeOK
    BY DhcpAssumption DEF DhcpAssumption, Init, PxeTypeOK, Byte, Slice, nil
  <1> QED BY <1>1 DEF PxeInv, PxeInBounds, Init

\* Once the loop turns, it holds on to nothing.
LEMMA TurnPxe ==
  ASSUME PxeInv, turn, UNCHANGED <<buf, cur>>
  PROVE  PxeInv'
  BY DEF PxeInv, PxeTypeOK, PxeInBounds, turn, Slice, nil

LEMMA ReadPxe ==
  ASSUME PxeInv, NEW p \in Packets, Read(p)
  PROVE  PxeInv'
  <1>1. buf' \in Seq(Byte) /\ Len(buf') = BufLen
    BY OverwrittenIsBuffer DEF PxeInv, PxeTypeOK, Read
  <1>2. received(p) \in Nat
    BY ReceivedFits
  <1>3. /\ opts' = [lo |-> 0, hi |-> received(p)] /\ cur' = p /\ at' = "header"
        /\ vendor' = nil /\ guid' = nil /\ bootType' = nil
    BY DEF Read, PxeInv, PxeTypeOK
  <1>4. PxeTypeOK'
    BY <1>1, <1>2, <1>3 DEF PxeTypeOK, Slice, nil
  <1>5. \A s \in {opts', vendor', guid', bootType'} : s.lo <= s.hi /\ s.hi <= received(p)
    BY <1>2, <1>3 DEF nil
  <1> QED BY <1>3, <1>4, <1>5 DEF PxeInv, PxeInBounds

\* What a loop knows of the option at the start of its slice s.
LEMMA OptionInside ==
  ASSUME PxeInv, NEW s, Inside(s)
  PROVE  LET o == DhcpOption(buf, s)
         IN  /\ Inside(o.val) /\ Inside(o.next)
             /\ o.typ # 255 => /\ o.val.hi = o.next.lo /\ o.next.lo >= s.lo + 2
                               /\ o.next.hi = s.hi
             /\ o.typ = 255 => o.next = nil
             /\ Len(bytes(buf, o.val)) = o.val.hi - o.val.lo
  <1> DEFINE o == DhcpOption(buf, s)
  <1>1. buf \in Seq(Byte) /\ Len(buf) = BufLen /\ BufLen \in Nat /\ cur \in Packets
    BY DhcpAssumption DEF PxeInv, PxeTypeOK, DhcpAssumption
  <1>2. received(cur) \in Nat /\ received(cur) <= BufLen
    BY <1>1, ReceivedFits
  <1>3. s \in Slice /\ s.lo \in Nat /\ s.hi \in Nat /\ s.lo <= s.hi /\ s.hi <= received(cur)
    BY DEF Inside, Slice
  <1>4. s.hi <= Len(buf)
    BY <1>1, <1>2, <1>3
  <1>5. /\ o.val \in Slice /\ o.next \in Slice
        /\ o.val.lo <= o.val.hi /\ o.val.hi <= s.hi
        /\ o.next.lo <= o.next.hi /\ o.next.hi <= s.hi
        /\ o.typ # 255 => o.val.lo >= s.lo + 2 /\ o.val.hi = o.next.lo /\ o.next.hi = s.hi
        /\ o.typ = 255 => o.next = nil
    BY <1>1, <1>3, <1>4, OptionInSlice
  <1> HIDE DEF o
  <1>6. o.val.lo \in Nat /\ o.val.hi \in Nat /\ o.next.lo \in Nat /\ o.next.hi \in Nat
    BY <1>5 DEF Slice
  <1>7. o.val.hi <= Len(buf)
    BY <1>1, <1>3, <1>4, <1>5, <1>6
  <1>8. Len(bytes(buf, o.val)) = o.val.hi - o.val.lo
    BY <1>1, <1>5, <1>7, BytesLength
  <1>9. Inside(o.val) /\ Inside(o.next)
    BY <1>2, <1>3, <1>5, <1>6 DEF Inside
  <1>10. o.typ # 255 => o.next.lo >= s.lo + 2
    BY <1>3, <1>5, <1>6
  <1> QED BY <1>5, <1>8, <1>9, <1>10 DEF o

\* In the parser, all four slices are inside.
LEMMA AllInside ==
  ASSUME PxeInv, at # "read"
  PROVE  Inside(opts) /\ Inside(vendor) /\ Inside(guid) /\ Inside(bootType)
  BY DEF PxeInv, PxeTypeOK, PxeInBounds, Inside

LEMMA ScanOptionPxe ==
  ASSUME PxeInv, ScanOption
  PROVE  PxeInv'
  <1> DEFINE o == DhcpOption(buf, opts)
             newGuid == [lo |-> o.val.lo + 1, hi |-> o.val.hi]
  <1>0. at = "scan" /\ UNCHANGED <<buf, cur>>
    BY DEF ScanOption
  <1>1. Inside(opts) /\ Inside(vendor) /\ Inside(guid) /\ Inside(bootType)
    BY <1>0, AllInside
  <1>2. /\ Inside(o.val) /\ Inside(o.next)
        /\ o.typ # 255 => o.val.hi = o.next.lo
        /\ Len(bytes(buf, o.val)) = o.val.hi - o.val.lo
    BY <1>1, OptionInside
  <1>3. \/ turn
        \/ at' \in {"scan", "answer"} /\ opts' = o.next /\ UNCHANGED <<vendor, guid, bootType>>
        \/ /\ at' = "vendor" /\ opts' = o.next /\ vendor' = o.val /\ o.typ # 255
           /\ UNCHANGED <<guid, bootType>>
        \/ /\ at' = "scan" /\ opts' = o.next /\ guid' = newGuid
           /\ Len(bytes(buf, o.val)) = 17 /\ UNCHANGED <<vendor, bootType>>
    BY DEF ScanOption, badGuid
  <1> HIDE DEF o
  <1>4. CASE turn
    BY <1>0, <1>4, TurnPxe
  <1>5. CASE at' \in {"scan", "answer"} /\ opts' = o.next /\ UNCHANGED <<vendor, guid, bootType>>
    <2>1. Inside(opts)' /\ Inside(vendor)' /\ Inside(guid)' /\ Inside(bootType)'
      BY <1>0, <1>1, <1>2, <1>5 DEF Inside
    <2> QED BY <1>0, <1>5, <2>1 DEF PxeInv, PxeTypeOK, PxeInBounds, Inside
  <1>6. CASE /\ at' = "vendor" /\ opts' = o.next /\ vendor' = o.val /\ o.typ # 255
             /\ UNCHANGED <<guid, bootType>>
    <2>1. Inside(opts)' /\ Inside(vendor)' /\ Inside(guid)' /\ Inside(bootType)'
      BY <1>0, <1>1, <1>2, <1>6 DEF Inside
    <2>2. vendor'.hi <= opts'.lo
      BY <1>2, <1>6 DEF Inside, Slice
    <2> QED BY <1>0, <1>6, <2>1, <2>2 DEF PxeInv, PxeTypeOK, PxeInBounds, Inside
  <1>7. CASE /\ at' = "scan" /\ opts' = o.next /\ guid' = newGuid
             /\ Len(bytes(buf, o.val)) = 17 /\ UNCHANGED <<vendor, bootType>>
    <2>1. o.val.lo \in Nat /\ o.val.hi \in Nat /\ o.val.hi - o.val.lo = 17 /\ o.val.hi <= received(cur)
      BY <1>2, <1>7, ZenonT(30) DEF Inside, Slice
    <2>2. newGuid \in Slice /\ newGuid.lo <= newGuid.hi /\ newGuid.hi <= received(cur)
      BY <2>1 DEF Slice
    <2>3. Inside(opts)' /\ Inside(vendor)' /\ Inside(guid)' /\ Inside(bootType)'
      BY <1>0, <1>1, <1>2, <1>7, <2>2 DEF Inside
    <2> QED BY <1>0, <1>7, <2>3 DEF PxeInv, PxeTypeOK, PxeInBounds, Inside
  <1> QED BY <1>3, <1>4, <1>5, <1>6, <1>7

LEMMA ScanVendorPxe ==
  ASSUME PxeInv, ScanVendor
  PROVE  PxeInv'
  <1> DEFINE o == DhcpOption(buf, vendor)
  <1>0. at = "vendor" /\ UNCHANGED <<buf, cur, opts, guid>>
    BY DEF ScanVendor
  <1>1. Inside(opts) /\ Inside(vendor) /\ Inside(guid) /\ Inside(bootType)
    BY <1>0, AllInside
  <1>2. /\ Inside(o.val) /\ Inside(o.next)
        /\ o.typ # 255 => o.next.hi = vendor.hi
        /\ o.typ = 255 => o.next = nil
    BY <1>1, OptionInside
  <1>3. /\ at' \in {"scan", "vendor"} /\ vendor' = o.next
        /\ bootType' = o.val \/ bootType' = bootType
        /\ at' = "vendor" => o.typ # 255
    BY DEF ScanVendor
  <1> HIDE DEF o
  <1>4. Inside(opts)' /\ Inside(vendor)' /\ Inside(guid)' /\ Inside(bootType)'
    BY <1>0, <1>1, <1>2, <1>3 DEF Inside
  <1>5. vendor.hi <= opts.lo
    BY <1>0 DEF PxeInv, PxeInBounds
  <1>6. at' = "vendor" => vendor'.hi <= opts'.lo
    BY <1>0, <1>2, <1>3, <1>5
  <1> QED BY <1>0, <1>3, <1>4, <1>6 DEF PxeInv, PxeTypeOK, PxeInBounds, Inside

LEMMA StepPxe == PxeInv /\ [Next]_vars => PxeInv'
  <1> SUFFICES ASSUME PxeInv, [Next]_vars PROVE PxeInv'
    OBVIOUS
  <1>1. ASSUME NEW p \in Packets, Read(p) PROVE PxeInv'
    BY <1>1, ReadPxe
  <1>2. ASSUME ParseHeader PROVE PxeInv'
    <2>1. CASE turn
      BY <1>2, <2>1, TurnPxe DEF ParseHeader
    <2>2. CASE at' = "scan" /\ UNCHANGED slices
      BY <1>2, <2>2 DEF ParseHeader, PxeInv, PxeTypeOK, PxeInBounds, slices
    <2> QED BY <1>2, <2>1, <2>2 DEF ParseHeader
  <1>3. ASSUME ScanOption PROVE PxeInv'
    BY <1>3, ScanOptionPxe
  <1>4. ASSUME ScanVendor PROVE PxeInv'
    BY <1>4, ScanVendorPxe
  <1>5. ASSUME NEW written \in BOOLEAN, Answer(written) PROVE PxeInv'
    BY <1>5, TurnPxe DEF Answer
  <1>6. CASE UNCHANGED vars
    BY <1>6 DEF vars, slices, PxeInv, PxeTypeOK, PxeInBounds
  <1> QED BY <1>1, <1>2, <1>3, <1>4, <1>5, <1>6 DEF Next, Handle

\* ServePXE's buffer keeps its size from packet to packet, and the loop is back
\* at its read with nothing of the request it has dropped or answered.
THEOREM PxeTypeCorrect == Spec => []PxeTypeOK
  <1>1. PxeInv => PxeTypeOK
    BY DEF PxeInv
  <1> QED BY InitPxe, StepPxe, <1>1, PTL DEF Spec

\* ParsePXE never holds on to a byte beyond the packet just read, nor does its
\* inner loop leave the vendor option it is in: for every packet, whatever the
\* buffer held before it.
THEOREM PxeStaysInPacket == Spec => []PxeInBounds
  <1>1. PxeInv => PxeInBounds
    BY DEF PxeInv
  <1> QED BY InitPxe, StepPxe, <1>1, PTL DEF Spec

\* A turn of either option loop leaves it or consumes at least two bytes of
\* its slice: with PxeStaysInPacket, why both loops end for every packet.
PxeConsumes ==
    /\ at = "scan" /\ at' \in {"scan", "vendor"} => opts'.lo >= opts.lo + 2
    /\ at = "vendor" /\ at' = "vendor" => vendor'.lo >= vendor.lo + 2
    /\ at = "vendor" => opts' = opts

THEOREM PxeOptionsAreConsumed == Spec => [][PxeConsumes]_vars
  <1>1. ASSUME PxeInv, [Next]_vars PROVE [PxeConsumes]_vars
    <2> SUFFICES ASSUME Next PROVE PxeConsumes
      BY <1>1
    <2>1. ASSUME at = "scan", at' \in {"scan", "vendor"} PROVE opts'.lo >= opts.lo + 2
      <3>1. ScanOption
        BY <2>1 DEF Next, Handle, Read, ParseHeader, ScanVendor, Answer
      <3>2. opts' = DhcpOption(buf, opts).next /\ DhcpOption(buf, opts).typ # 255
        BY <2>1, <3>1 DEF ScanOption, turn
      <3>3. Inside(opts)
        BY <1>1, <2>1, AllInside
      <3> QED BY <1>1, <3>2, <3>3, OptionInside, ZenonT(30)
    <2>2. ASSUME at = "vendor" PROVE ScanVendor
      BY <2>2 DEF Next, Handle, Read, ParseHeader, ScanOption, Answer
    <2>3. ASSUME at = "vendor", at' = "vendor" PROVE vendor'.lo >= vendor.lo + 2
      <3>1. vendor' = DhcpOption(buf, vendor).next /\ DhcpOption(buf, vendor).typ # 255
        BY <2>2, <2>3 DEF ScanVendor
      <3>2. Inside(vendor)
        BY <1>1, <2>3, AllInside
      <3> QED BY <1>1, <3>1, <3>2, OptionInside, ZenonT(30)
    <2> QED BY <2>1, <2>2, <2>3 DEF PxeConsumes, ScanVendor
  <1> QED BY InitPxe, StepPxe, <1>1, PTL DEF Spec

-----------------------------------------------------------------------------
(* What ParsePXE has found so far, told from the options the packet means. *)

\* Option o has a boot item, and v is the first one in it.
hasItem(o) == o.typ = 43 /\ \E j \in DOMAIN o.sub : o.sub[j].typ = 71
firstItem(o, v) ==
    /\ o.typ = 43
    /\ \E j \in DOMAIN o.sub : /\ o.sub[j].typ = 71 /\ v = o.sub[j].val
                               /\ \A i \in 1 .. j - 1 : o.sub[i].typ # 71

\* Among the first k options, the last one with an item has v first.
lastItem(os, k, v) ==
    \E i \in 1 .. k : firstItem(os[i], v) /\ \A j \in i + 1 .. k : ~hasItem(os[j])

\* The first k options are behind the outer loop: no GUID among them was
\* rejected, and guid is the last one.
passed(k) ==
    /\ ends(cur.means, k) <= received(cur)
    /\ opts = [lo |-> ends(cur.means, k), hi |-> received(cur)]
    /\ \A i \in 1 .. k : cur.means[i].typ = 97 => ~badGuid(cur.means[i].val)
    /\ guid = nil => \A i \in 1 .. k : cur.means[i].typ # 97
    /\ guid # nil => lastGuid(cur.means, k, bytes(buf, guid))

\* The boot item is the first one in the last of the first k options that has any.
picked(k) ==
    /\ bootType = nil => \A i \in 1 .. k : ~hasItem(cur.means[i])
    /\ bootType # nil => lastItem(cur.means, k, bytes(buf, bootType))

\* The inner loop is in the k-th option, whose first j options are behind it.
inner(k, j) ==
    LET v    == cur.means[k]
        base == ends(cur.means, k - 1) + 2
    IN  /\ v.typ = 43 /\ holds(buf, base, Len(v.val), v.sub, v.val)
        /\ ends(v.sub, j) <= Len(v.val)
        /\ vendor = [lo |-> base + ends(v.sub, j), hi |-> base + Len(v.val)]
        /\ \A i \in 1 .. j : v.sub[i].typ # 71

\* A reply with address ip and options o answers packet p.
replies(p, ip, o) ==
    /\ ip = InterfaceIP(Interfaces[p.iface]) /\ ip # NoIP /\ Selects(p)
    /\ o = replyOptions(ip, SubSeq(lastVal(p, 97), 2, 17), selected(p))

PxeScanInv ==
    /\ PxeInv
    /\ at # "read" => hdr = cur.hdr /\ holds(buf, 0, received(cur), cur.means, cur.wire)
    /\ at = "header" => opts = [lo |-> 0, hi |-> received(cur)]
    /\ at \in {"scan", "vendor", "answer"} => cur.hdr.whole /\ cur.hdr.magic
    /\ at = "scan" => \E k \in 0 .. Len(cur.means) : passed(k) /\ picked(k)
    /\ at = "vendor" => \E k \in 1 .. Len(cur.means) :
                           /\ passed(k) /\ picked(k - 1)
                           /\ \E j \in 0 .. Len(cur.means[k].sub) : inner(k, j)
    /\ at = "answer" => /\ guid # nil /\ bootType # nil /\ Selects(cur)
                        /\ bytes(buf, guid) = SubSeq(lastVal(cur, 97), 2, 17)
                        /\ bytes(buf, bootType) = selected(cur)
    /\ sent # None => /\ sent.mac = cur.hdr.mac /\ sent.tid = cur.hdr.tid
                      /\ sent.yiaddr = cur.hdr.ciaddr
                      /\ replies(cur, sent.siaddr, sent.options)

LEMMA InitPxeScan == Init => PxeScanInv
  BY InitPxe DEF Init, PxeScanInv

LEMMA TurnPxeScan ==
  ASSUME PxeScanInv, PxeInv', turn, UNCHANGED <<cur, sent>>
  PROVE  PxeScanInv'
  <1>1. at' = "read" /\ sent' = sent /\ cur' = cur
    BY DEF turn
  <1>2. sent' # None => /\ sent'.mac = cur'.hdr.mac /\ sent'.tid = cur'.hdr.tid
                        /\ sent'.yiaddr = cur'.hdr.ciaddr
                        /\ replies(cur', sent'.siaddr, sent'.options)
    BY <1>1 DEF PxeScanInv
  <1> QED BY <1>1, <1>2 DEF PxeScanInv

LEMMA ReadPxeScan ==
  ASSUME PxeScanInv, PxeInv', NEW p \in Packets, Read(p)
  PROVE  PxeScanInv'
  <1>1. /\ at' = "header" /\ buf' = overwritten(buf, p) /\ hdr' = p.hdr
        /\ opts' = [lo |-> 0, hi |-> received(p)]
        /\ cur' = p /\ sent' = None
    BY DEF Read
  <1>2. holds(buf', 0, received(p), p.means, p.wire)
    BY <1>1, PacketInBuffer DEF PxeScanInv, PxeInv, PxeTypeOK
  <1> QED BY <1>1, <1>2 DEF PxeScanInv

\* What a step of the parser that keeps the packet keeps of the invariant.
LEMMA KeptPxeScan ==
  ASSUME PxeScanInv, at # "read", UNCHANGED <<buf, hdr, cur, sent>>
  PROVE  /\ hdr' = cur'.hdr /\ holds(buf', 0, received(cur'), cur'.means, cur'.wire)
         /\ sent' # None => /\ sent'.mac = cur'.hdr.mac /\ sent'.tid = cur'.hdr.tid
                            /\ sent'.yiaddr = cur'.hdr.ciaddr
                            /\ replies(cur', sent'.siaddr, sent'.options)
  <1>1. /\ hdr = cur.hdr /\ holds(buf, 0, received(cur), cur.means, cur.wire)
        /\ sent # None => /\ sent.mac = cur.hdr.mac /\ sent.tid = cur.hdr.tid
                          /\ sent.yiaddr = cur.hdr.ciaddr
                          /\ replies(cur, sent.siaddr, sent.options)
    BY DEF PxeScanInv
  <1> QED BY <1>1

LEMMA HeaderPxeScan ==
  ASSUME PxeScanInv, PxeInv', ParseHeader
  PROVE  PxeScanInv'
  <1>1. CASE turn
    BY <1>1, TurnPxeScan DEF ParseHeader
  <1>2. CASE ~turn
    <2>1. /\ at = "header" /\ at' = "scan" /\ opts' = opts /\ guid' = guid
          /\ bootType' = bootType /\ buf' = buf /\ hdr' = hdr /\ cur' = cur /\ sent' = sent
          /\ hdr.whole /\ hdr.magic
      BY <1>2 DEF ParseHeader, slices
    <2>2. /\ hdr = cur.hdr /\ opts = [lo |-> 0, hi |-> received(cur)]
          /\ guid = nil /\ bootType = nil /\ cur \in Packets
      BY <2>1 DEF PxeScanInv, PxeInv, PxeTypeOK
    <2>3. ends(cur.means, 0) = 0 /\ Len(cur.means) \in Nat /\ received(cur) \in Nat
      <3>1. cur.means \in Seq(AnyOption) /\ Len(cur.means) \in Nat /\ received(cur) \in Nat
        BY <2>2, PacketIs, ReceivedFits
      <3>2. encoded(cur.means)[0] = <<>>
        BY <3>1, EncodedDefined, ZenonT(30)
      <3> QED BY <3>1, <3>2 DEF ends
    <2>4. passed(0)' /\ picked(0)'
      BY <2>1, <2>2, <2>3 DEF passed, picked
    <2>5. \E k \in 0 .. Len(cur'.means) : passed(k)' /\ picked(k)'
      BY <2>1, <2>3, <2>4
    <2> QED BY <2>1, <2>2, <2>5, KeptPxeScan DEF PxeScanInv
  <1> QED BY <1>1, <1>2

-----------------------------------------------------------------------------
(* The boot item.                                                          *)

LEMMA LastItemKept ==
  ASSUME NEW os, NEW k \in Nat, NEW v, lastItem(os, k, v), ~hasItem(os[k + 1])
  PROVE  lastItem(os, k + 1, v)
  <1>1. PICK i \in 1 .. k : firstItem(os[i], v) /\ \A j \in i + 1 .. k : ~hasItem(os[j])
    BY DEF lastItem
  <1>2. i \in 1 .. k + 1 /\ \A j \in i + 1 .. k + 1 : ~hasItem(os[j])
    BY <1>1
  <1> QED BY <1>1, <1>2 DEF lastItem

LEMMA LastItemNew ==
  ASSUME NEW os, NEW k \in Nat, NEW v, firstItem(os[k + 1], v)
  PROVE  lastItem(os, k + 1, v)
  <1>1. k + 1 \in 1 .. k + 1 /\ \A j \in k + 1 + 1 .. k + 1 : ~hasItem(os[j])
    OBVIOUS
  <1> QED BY <1>1 DEF lastItem

LEMMA VendorIs ==
  ASSUME NEW p \in Packets, NEW i \in 1 .. Len(p.means), p.means[i].typ = 43
  PROVE  /\ p.means[i].val \in Seq(Byte) /\ p.means[i].sub \in Seq(Option)
         /\ p.means[i].sub \in Seq(AnyOption)
         /\ encodes(p.means[i].sub, p.means[i].val)
  <1>1. p.means[i] \in VendorOption /\ encodes(p.means[i].sub, p.means[i].val)
    BY DhcpAssumption, PacketIs DEF DhcpAssumption, wellFormed
  <1>2. p.means[i].val \in Seq(Byte) /\ p.means[i].sub \in Seq(Option)
    BY <1>1 DEF VendorOption
  <1>3. p.means[i].sub \in Seq(AnyOption)
    BY <1>2 DEF AnyOption
  <1> QED BY <1>1, <1>2, <1>3

\* What Selects asks for, of a packet whose first k options are in the buffer.
LEMMA SelectsIs ==
  ASSUME NEW p \in Packets, NEW k \in Nat, fitting(p) = 1 .. k
  PROVE  Selects(p) <=> /\ p.hdr.whole /\ p.hdr.magic
                        /\ \A i \in 1 .. k : p.means[i].typ = 97 => ~badGuid(p.means[i].val)
                        /\ \E i \in 1 .. k : p.means[i].typ = 97
                        /\ \E i \in 1 .. k : hasItem(p.means[i])
  <1>1. withTyp(p, 97) = {i \in 1 .. k : p.means[i].typ = 97}
    BY DEF withTyp
  <1>2. selections(p) = {i \in 1 .. k : hasItem(p.means[i])}
    BY DEF withTyp, selections, hasItem
  <1>3. (\A i \in withTyp(p, 97) : ~badGuid(p.means[i].val))
            <=> \A i \in 1 .. k : p.means[i].typ = 97 => ~badGuid(p.means[i].val)
    BY <1>1
  <1>4. withTyp(p, 97) # {} <=> \E i \in 1 .. k : p.means[i].typ = 97
    BY <1>1
  <1>5. selections(p) # {} <=> \E i \in 1 .. k : hasItem(p.means[i])
    BY <1>2
  <1> QED BY <1>3, <1>4, <1>5, Zenon DEF Selects

LEMMA SelectedIs ==
  ASSUME NEW p \in Packets, NEW k \in Nat, k <= Len(p.means), fitting(p) = 1 .. k,
         NEW v, lastItem(p.means, k, v)
  PROVE  selected(p) = v /\ \E i \in 1 .. k : hasItem(p.means[i])
  <1> DEFINE os == p.means
             S == selections(p)
  <1>1. PICK i \in 1 .. k : firstItem(os[i], v) /\ \A j \in i + 1 .. k : ~hasItem(os[j])
    BY DEF lastItem
  <1>2. PICK j \in DOMAIN os[i].sub :
            /\ os[i].sub[j].typ = 71 /\ v = os[i].sub[j].val
            /\ \A x \in 1 .. j - 1 : os[i].sub[x].typ # 71
    BY <1>1 DEF firstItem
  <1>3. os[i].typ = 43 /\ hasItem(os[i])
    BY <1>1, <1>2 DEF firstItem, hasItem
  <1>4. S = {x \in 1 .. k : hasItem(os[x])}
    BY DEF withTyp, selections, hasItem
  <1>5. Max(S) = i
    <2>1. i \in S /\ \A x \in S : x \in Nat /\ i >= x
      BY <1>1, <1>3, <1>4
    <2> HIDE DEF S
    <2>2. Max(S) \in S /\ \A y \in S : Max(S) >= y
      BY <2>1, Zenon DEF Max
    <2>3. Max(S) >= i /\ i >= Max(S) /\ Max(S) \in Nat /\ i \in Nat
      BY <2>1, <2>2, ZenonT(30)
    <2> QED BY <2>3
  <1>6. Len(p.means) \in Nat
    BY PacketIs
  <1>7. i \in 1 .. Len(p.means)
    BY <1>6
  <1>8. os[i].sub \in Seq(Option)
    BY <1>3, <1>7, VendorIs
  <1> DEFINE sub == os[i].sub
             T == {x \in DOMAIN sub : sub[x].typ = 71}
  <1>9. Min(T) = j
    <2>1. DOMAIN sub \subseteq Nat /\ DOMAIN sub = 1 .. Len(sub)
      BY <1>8
    <2>2. T \in SUBSET Nat /\ j \in T
      BY <1>2, <2>1
    <2> HIDE DEF T, sub
    <2>3. Min(T) \in T /\ Min(T) <= j
      <3>1. T # {}
        BY <2>2
      <3>2. Min(T) \in T /\ \A y \in T : Min(T) <= y
        BY ONLY <2>2, <3>1, MinIs, SMTT(30), Z3T(30)
      <3> QED BY <2>2, <3>2
    <2>4. Min(T) \in 1 .. Len(sub) /\ sub[Min(T)].typ = 71 /\ j \in Nat
      BY <2>1, <2>2, <2>3 DEF T
    <2>5. ~(Min(T) \in 1 .. j - 1)
      BY <1>2, <2>4 DEF sub
    <2> QED BY <2>3, <2>4, <2>5
  <1>10. selected(p) = v
    BY <1>2, <1>5, <1>9, ZenonT(30) DEF selected
  <1> QED BY <1>3, <1>10

-----------------------------------------------------------------------------
(* A turn of either loop.                                                  *)

LEMMA OuterView ==
  ASSUME PxeScanInv, at = "scan"
  PROVE  \E k \in 0 .. Len(cur.means) :
             passed(k) /\ picked(k) /\ finds(cur, buf, k, DhcpOption(buf, opts))
  <1>1. PICK k \in 0 .. Len(cur.means) : passed(k) /\ picked(k)
    BY DEF PxeScanInv
  <1>2. cur \in Packets /\ holds(buf, 0, received(cur), cur.means, cur.wire)
    BY DEF PxeScanInv, PxeInv, PxeTypeOK
  <1>3. /\ ends(cur.means, k) <= received(cur)
        /\ opts = [lo |-> ends(cur.means, k), hi |-> received(cur)]
    BY <1>1 DEF passed
  <1> QED BY <1>1, <1>2, <1>3, NextOption

\* Inside option k, where the loop enters it.
LEMMA EntersVendor ==
  ASSUME NEW p \in Packets, NEW c, holds(c, 0, received(p), p.means, p.wire),
         NEW k \in 0 .. Len(p.means), NEW o, finds(p, c, k, o), o.typ = 43
  PROVE  LET v    == p.means[k + 1]
             base == ends(p.means, k) + 2
         IN  /\ v.typ = 43 /\ holds(c, base, Len(v.val), v.sub, v.val)
             /\ ends(v.sub, 0) = 0 /\ Len(v.sub) \in Nat /\ Len(v.val) \in Nat /\ base \in Nat
             /\ o.val = [lo |-> base, hi |-> base + Len(v.val)]
  <1> DEFINE v == p.means[k + 1]
             base == ends(p.means, k) + 2
             l == Len(v.val)
  <1>1. /\ k + 1 \in 1 .. Len(p.means) /\ v.typ = 43 /\ bytes(c, o.val) = v.val
        /\ o.val = [lo |-> base, hi |-> ends(p.means, k + 1)]
        /\ ends(p.means, k + 1) <= received(p)
    BY DEF finds
  <1>2. p.means \in Seq(AnyOption) /\ Len(p.means) \in Nat
    BY PacketIs
  <1>3. k \in 0 .. Len(p.means) - 1
    BY <1>1, <1>2
  <1>4. /\ ends(p.means, k) \in Nat /\ l \in Nat
        /\ ends(p.means, k + 1) = ends(p.means, k) + 2 + l
    BY <1>2, <1>3, EndsStep
  <1>5. /\ v.val \in Seq(Byte) /\ v.sub \in Seq(AnyOption) /\ encodes(v.sub, v.val)
    BY <1>1, VendorIs
  <1>6. c \in Seq(Byte) /\ received(p) \in Nat /\ 0 + received(p) <= Len(c)
    BY DEF holds
  <1>7. base \in Nat /\ ends(p.means, k + 1) = base + l /\ base + l <= Len(c)
    BY <1>1, <1>4, <1>6
  <1> HIDE DEF base, l
  <1>8. \A x \in 1 .. l : SubSeq(c, base + 1, base + l)[x] = c[base + x]
    BY <1>4, <1>6, <1>7, SubSeqIs
  <1>9. SubSeq(c, base + 1, base + l) = v.val
    BY <1>1, <1>7 DEF bytes
  <1>10. \A x \in 1 .. l : c[base + x] = v.val[x]
    BY <1>8, <1>9, ZenonT(30)
  <1>11. holds(c, base, l, v.sub, v.val)
    <2>1. l <= Len(v.val)
      BY <1>4 DEF l
    <2> QED BY <1>4, <1>5, <1>6, <1>7, <1>10, <2>1 DEF holds
  <1>12. ends(v.sub, 0) = 0 /\ Len(v.sub) \in Nat
    <2>1. encoded(v.sub)[0] = <<>>
      BY <1>5, EncodedDefined, ZenonT(30)
    <2> QED BY <1>5, <2>1 DEF ends
  <1> QED BY <1>1, <1>4, <1>7, <1>11, <1>12 DEF base, l

\* Where the inner loop is, and what DhcpOption gives it.
nested(k, j, o) ==
    LET v    == cur.means[k]
        base == ends(cur.means, k - 1) + 2
    IN  \/ o.typ = 255 /\ ~hasItem(v)
        \/ o.typ = 71 /\ firstItem(v, bytes(buf, o.val)) /\ o.val # nil
        \/ /\ o.typ \notin {255, 71} /\ j + 1 \in 0 .. Len(v.sub)
           /\ v.sub[j + 1].typ # 71 /\ ends(v.sub, j + 1) <= Len(v.val)
           /\ o.next = [lo |-> base + ends(v.sub, j + 1), hi |-> base + Len(v.val)]

LEMMA InnerView ==
  ASSUME NEW k, NEW j \in 0 .. Len(cur.means[k].sub), inner(k, j)
  PROVE  nested(k, j, DhcpOption(buf, vendor))
  <1> DEFINE v == cur.means[k]
             base == ends(cur.means, k - 1) + 2
             m == Len(v.val)
             o == DhcpOption(buf, vendor)
  <1>1. /\ v.typ = 43 /\ holds(buf, base, m, v.sub, v.val) /\ ends(v.sub, j) <= m
        /\ vendor = [lo |-> base + ends(v.sub, j), hi |-> base + m]
        /\ \A i \in 1 .. j : v.sub[i].typ # 71
    BY DEF inner
  <1> HIDE DEF base, m, v
  <1>2. /\ base \in Nat /\ m \in Nat /\ v.sub \in Seq(AnyOption) /\ v.val \in Seq(Byte)
        /\ encodes(v.sub, v.val) /\ Len(v.sub) \in Nat /\ DOMAIN v.sub = 1 .. Len(v.sub)
    BY <1>1 DEF holds
  <1>3. CASE j = Len(v.sub)
    <2>1. o.typ = 255
      BY <1>1, <1>2, <1>3, FindsEnd
    <2>2. ~hasItem(v)
      BY <1>1, <1>2, <1>3 DEF hasItem
    <2> QED BY <2>1, <2>2 DEF nested, v
  <1>4. CASE j # Len(v.sub)
    <2>1. j \in 0 .. Len(v.sub) - 1 /\ j + 1 \in 1 .. Len(v.sub) /\ j + 1 \in 0 .. Len(v.sub)
      BY <1>2, <1>4 DEF v
    <2>2. ends(v.sub, j + 1) <= m
      BY <1>2, <2>1, EncodesAt DEF m
    <2>3. /\ o.typ = v.sub[j + 1].typ /\ o.typ # 255
          /\ o.val = [lo |-> base + ends(v.sub, j) + 2, hi |-> base + ends(v.sub, j + 1)]
          /\ o.next = [lo |-> base + ends(v.sub, j + 1), hi |-> base + m]
          /\ bytes(buf, o.val) = v.sub[j + 1].val
      <3>1. o = DhcpOption(buf, [lo |-> base + ends(v.sub, j), hi |-> base + m])
        BY <1>1
      <3> HIDE DEF o
      <3> DEFINE s == v.sub
                 b == v.val
      <3>2. holds(buf, base, m, s, b) /\ j \in 0 .. Len(s) - 1 /\ ends(s, j + 1) <= m
        BY <1>1, <2>1, <2>2
      <3> HIDE DEF s, b
      <3>3. o = DhcpOption(buf, [lo |-> base + ends(s, j), hi |-> base + m])
        BY <3>1 DEF s
      <3>4. /\ o.typ = s[j + 1].typ /\ o.typ # 255
            /\ o.val = [lo |-> base + ends(s, j) + 2, hi |-> base + ends(s, j + 1)]
            /\ o.next = [lo |-> base + ends(s, j + 1), hi |-> base + m]
            /\ bytes(buf, o.val) = s[j + 1].val
        BY <3>2, <3>3, FindsOption
      <3> QED BY <3>4 DEF s
    <2>4. CASE o.typ = 71
      <3>1. ends(v.sub, j) \in Nat
        BY <1>2, <2>1, EndsStep
      <3>2. o.val # nil
        BY <1>2, <2>3, <3>1 DEF nil
      <3>3. \A i \in 1 .. j + 1 - 1 : v.sub[i].typ # 71
        BY <1>1
      <3>4. firstItem(v, bytes(buf, o.val))
        <4>1. /\ j + 1 \in DOMAIN v.sub /\ v.sub[j + 1].typ = 71
              /\ bytes(buf, o.val) = v.sub[j + 1].val
          BY <1>2, <2>1, <2>3, <2>4
        <4> HIDE DEF o
        <4> QED BY <1>1, <3>3, <4>1 DEF firstItem
      <3> QED BY <2>4, <3>2, <3>4 DEF nested, v
    <2>5. CASE o.typ # 71
      BY <2>1, <2>2, <2>3, <2>5 DEF nested, v, m, base
    <2> QED BY <2>4, <2>5
  <1> QED BY <1>3, <1>4

\* The outer loop leaves one more option behind, none of which is a GUID.
LEMMA PassesOther ==
  ASSUME NEW k \in 0 .. Len(cur.means), passed(k), NEW STATE o, finds(cur, buf, k, o),
         o.typ \notin {97, 255}, opts' = o.next,
         UNCHANGED <<buf, guid, cur>>, Len(cur.means) \in Nat
  PROVE  passed(k + 1)' /\ k + 1 \in 1 .. Len(cur.means)
  <1> DEFINE os == cur.means
  <1>0. k \in Nat
    OBVIOUS
  <1>1. /\ k + 1 \in 1 .. Len(os) /\ o.typ = os[k + 1].typ
        /\ o.next = [lo |-> ends(os, k + 1), hi |-> received(cur)]
        /\ ends(os, k + 1) <= received(cur)
    BY DEF finds
  <1>2. /\ \A i \in 1 .. k : os[i].typ = 97 => ~badGuid(os[i].val)
        /\ guid = nil => \A i \in 1 .. k : os[i].typ # 97
        /\ guid # nil => lastGuid(os, k, bytes(buf, guid))
    BY DEF passed
  <1>3. os[k + 1].typ # 97
    BY <1>1
  <1> HIDE DEF os
  <1>4. \A i \in 1 .. k + 1 : os[i].typ = 97 => ~badGuid(os[i].val)
    BY <1>2, <1>3
  <1>5. guid = nil => \A i \in 1 .. k + 1 : os[i].typ # 97
    BY <1>2, <1>3
  <1>6. guid # nil => lastGuid(os, k + 1, bytes(buf, guid))
    BY <1>0, <1>2, <1>3, LastGuidKept
  <1>7. cur' = cur /\ buf' = buf /\ guid' = guid /\ opts' = [lo |-> ends(os, k + 1), hi |-> received(cur)]
    BY <1>1
  <1>8. passed(k + 1)'
    BY <1>1, <1>4, <1>5, <1>6, <1>7 DEF passed, os
  <1> QED BY <1>1, <1>8 DEF os

LEMMA PassesGuid ==
  ASSUME cur \in Packets, holds(buf, 0, received(cur), cur.means, cur.wire),
         NEW k \in 0 .. Len(cur.means), passed(k), NEW STATE o, finds(cur, buf, k, o),
         o.typ = 97, ~badGuid(bytes(buf, o.val)),
         opts' = o.next, guid' = [lo |-> o.val.lo + 1, hi |-> o.val.hi],
         UNCHANGED <<buf, cur>>
  PROVE  passed(k + 1)' /\ k + 1 \in 1 .. Len(cur.means)
  <1> DEFINE os == cur.means
  <1>0. k \in Nat
    <2>1. cur \in Packets /\ k \in 0 .. Len(cur.means)
      BY ZenonT(30)
    <2>2. Len(cur.means) \in Nat
      BY ONLY <2>1, PacketIs, SMTT(30), Z3T(30)
    <2> QED BY ONLY <2>1, <2>2, SMTT(30), Z3T(30)
  <1>1. /\ k + 1 \in 1 .. Len(os) /\ o.typ = os[k + 1].typ /\ bytes(buf, o.val) = os[k + 1].val
        /\ o.next = [lo |-> ends(os, k + 1), hi |-> received(cur)]
        /\ ends(os, k + 1) <= received(cur)
    BY DEF finds
  <1>2. \A i \in 1 .. k : os[i].typ = 97 => ~badGuid(os[i].val)
    BY DEF passed
  <1>3. guid' # nil /\ bytes(buf, guid') = SubSeq(os[k + 1].val, 2, 17)
    <2>1. Len(bytes(buf, o.val)) = 17 /\ o.typ # 255
      BY DEF badGuid
    <2> DEFINE g == [lo |-> o.val.lo + 1, hi |-> o.val.hi]
    <2>2. /\ cur \in Packets /\ holds(buf, 0, received(cur), cur.means, cur.wire)
          /\ k \in 0 .. Len(cur.means) /\ finds(cur, buf, k, o)
      OBVIOUS
    <2>3. guid' = g /\ g = [lo |-> o.val.lo + 1, hi |-> o.val.hi]
      OBVIOUS
    <2> HIDE DEF g
    <2>4. takes(cur, buf, k, o, g)
      BY ONLY <2>1, <2>2, <2>3, ZenonT(30) DEF takes
    <2>5. g # nil /\ bytes(buf, g) = SubSeq(cur.means[k + 1].val, 2, 17)
      BY ONLY <2>4, GuidFound, ZenonT(30)
    <2> QED BY <2>3, <2>5, ZenonT(30)
  <1>4. os[k + 1].typ = 97 /\ ~badGuid(os[k + 1].val)
    BY <1>1
  <1> HIDE DEF os
  <1>5. \A i \in 1 .. k + 1 : os[i].typ = 97 => ~badGuid(os[i].val)
    BY <1>2, <1>4
  <1>6. lastGuid(os, k + 1, bytes(buf, guid'))
    <2>1. lastGuid(os, k + 1, SubSeq(os[k + 1].val, 2, 17))
      BY <1>0, <1>4, LastGuidNew
    <2> QED BY <1>3, <2>1, ZenonT(30)
  <1>7. cur' = cur /\ buf' = buf /\ opts' = [lo |-> ends(os, k + 1), hi |-> received(cur)]
    BY <1>1
  <1>8. passed(k + 1)'
    BY <1>1, <1>3, <1>5, <1>6, <1>7, ZenonT(30) DEF passed, os
  <1> QED BY <1>1, <1>8 DEF os

\* An option without a boot item leaves the one picked so far.
LEMMA KeepsPick ==
  ASSUME NEW k \in Nat, picked(k), ~hasItem(cur.means[k + 1]), UNCHANGED <<buf, cur, bootType>>
  PROVE  picked(k + 1)'
  <1> DEFINE os == cur.means
  <1>1. /\ bootType = nil => \A i \in 1 .. k : ~hasItem(os[i])
        /\ bootType # nil => lastItem(os, k, bytes(buf, bootType))
    BY DEF picked
  <1>2. ~hasItem(os[k + 1])
    OBVIOUS
  <1> HIDE DEF os
  <1>3. bootType = nil => \A i \in 1 .. k + 1 : ~hasItem(os[i])
    BY <1>1, <1>2
  <1>4. bootType # nil => lastItem(os, k + 1, bytes(buf, bootType))
    BY <1>1, <1>2, LastItemKept
  <1> QED BY <1>3, <1>4 DEF picked, os

LEMMA ScanOptionPxeScan ==
  ASSUME PxeScanInv, PxeInv', ScanOption
  PROVE  PxeScanInv'
  <1> DEFINE o == DhcpOption(buf, opts)
  <1>1. /\ at = "scan" /\ UNCHANGED <<buf, hdr, cur, sent>>
        /\ \/ turn
           \/ /\ o.typ = 255 /\ guid # nil /\ bootType # nil
              /\ at' = "answer" /\ UNCHANGED <<guid, bootType>>
           \/ /\ o.typ = 43
              /\ at' = "vendor" /\ opts' = o.next /\ UNCHANGED <<guid, bootType>>
              /\ vendor' = o.val
           \/ /\ o.typ = 97 /\ ~badGuid(bytes(buf, o.val))
              /\ at' = "scan" /\ opts' = o.next
              /\ guid' = [lo |-> o.val.lo + 1, hi |-> o.val.hi] /\ UNCHANGED bootType
           \/ /\ o.typ \notin {255, 43, 97}
              /\ at' = "scan" /\ opts' = o.next /\ UNCHANGED <<guid, bootType>>
    BY DEF ScanOption
  <1>2. PICK k \in 0 .. Len(cur.means) : passed(k) /\ picked(k) /\ finds(cur, buf, k, o)
    BY <1>1, OuterView, ZenonT(30)
  <1>3. /\ cur \in Packets /\ cur.hdr.whole /\ cur.hdr.magic
        /\ holds(buf, 0, received(cur), cur.means, cur.wire)
    BY <1>1, ZenonT(30) DEF PxeScanInv, PxeInv, PxeTypeOK
  <1>4. k \in Nat /\ Len(cur.means) \in Nat
    BY <1>3, PacketIs
  <1>11. buf' = buf /\ cur' = cur /\ k \in 0 .. Len(cur.means)
    BY <1>1, <1>2, ZenonT(30)
  <1> HIDE DEF o
  <1>5. /\ hdr' = cur'.hdr /\ holds(buf', 0, received(cur'), cur'.means, cur'.wire)
        /\ sent' # None => /\ sent'.mac = cur'.hdr.mac /\ sent'.tid = cur'.hdr.tid
                           /\ sent'.yiaddr = cur'.hdr.ciaddr
                           /\ replies(cur', sent'.siaddr, sent'.options)
    BY <1>1, KeptPxeScan, ZenonT(30)
  <1>6. CASE turn
    BY <1>1, <1>6, TurnPxeScan
  <1>7. CASE /\ o.typ = 255 /\ guid # nil /\ bootType # nil
             /\ at' = "answer" /\ UNCHANGED <<guid, bootType>>
    <2>1. fitting(cur) = 1 .. k
      BY <1>2, <1>7 DEF finds
    <2>2. /\ bytes(buf, guid) = SubSeq(lastVal(cur, 97), 2, 17)
          /\ \E i \in 1 .. k : cur.means[i].typ = 97
      <3>1. lastGuid(cur.means, k, bytes(buf, guid))
        BY <1>2, <1>7 DEF passed
      <3>2. cur \in Packets /\ k \in Nat
        BY <1>3, <1>4
      <3>3. keeps(cur, k, bytes(buf, guid))
        BY ONLY <2>1, <3>1, <3>2, ZenonT(30) DEF keeps
      <3> QED BY ONLY <3>3, LastGuidIs, SMTT(30), Z3T(30)
    <2>3. bytes(buf, bootType) = selected(cur) /\ \E i \in 1 .. k : hasItem(cur.means[i])
      <3>1. lastItem(cur.means, k, bytes(buf, bootType)) /\ k <= Len(cur.means)
        BY <1>2, <1>4, <1>7 DEF picked
      <3> QED BY <1>3, <1>4, <2>1, <3>1, SelectedIs, ZenonT(30)
    <2>4. Selects(cur)
      <3>1. \A i \in 1 .. k : cur.means[i].typ = 97 => ~badGuid(cur.means[i].val)
        BY <1>2 DEF passed
      <3> QED BY <1>3, <1>4, <2>1, <2>2, <2>3, <3>1, SelectsIs, ZenonT(30)
    <2> QED BY <1>1, <1>3, <1>5, <1>7, <2>2, <2>3, <2>4, ZenonT(30) DEF PxeScanInv
  <1>8. CASE /\ o.typ = 43
             /\ at' = "vendor" /\ opts' = o.next /\ UNCHANGED <<guid, bootType>>
             /\ vendor' = o.val
    <2>1. passed(k + 1)' /\ k + 1 \in 1 .. Len(cur.means)
      BY <1>2, <1>4, <1>8, <1>11, PassesOther
    <2>2. picked(k + 1 - 1)'
      <3>1. k + 1 - 1 = k
        BY ONLY <1>4, SMTT(30), Z3T(30)
      <3>2. picked(k)'
        BY <1>2, <1>8, <1>11, ZenonT(30) DEF picked
      <3> QED BY ONLY <3>1, <3>2, ZenonT(30)
    <2>3. inner(k + 1, 0)' /\ 0 \in 0 .. Len(cur.means[k + 1].sub)
      <3> DEFINE v == cur.means[k + 1]
                 base == ends(cur.means, k) + 2
      <3>1. /\ v.typ = 43 /\ holds(buf, base, Len(v.val), v.sub, v.val)
            /\ ends(v.sub, 0) = 0 /\ Len(v.sub) \in Nat /\ Len(v.val) \in Nat /\ base \in Nat
            /\ o.val = [lo |-> base, hi |-> base + Len(v.val)]
        <4>1. /\ cur \in Packets /\ holds(buf, 0, received(cur), cur.means, cur.wire)
              /\ k \in 0 .. Len(cur.means) /\ finds(cur, buf, k, o) /\ o.typ = 43
          BY <1>2, <1>3, <1>8
        <4> QED BY ONLY <4>1, EntersVendor, SMTT(30), Z3T(30)
      <3>2. k + 1 - 1 = k /\ base + ends(v.sub, 0) = base
        <4>1. base \in Nat /\ ends(v.sub, 0) = 0
          BY <3>1
        <4> HIDE DEF v, base
        <4> QED BY <1>4, <4>1
      <3>3. vendor' = o.val /\ buf' = buf /\ cur' = cur
        BY <1>8, <1>11, ZenonT(30)
      <3>4. inner(k + 1, 0)'
        BY ONLY <3>1, <3>2, <3>3, SMTT(30), Z3T(30) DEF inner
      <3> QED BY <3>1, <3>4
    <2>4. \E x \in 1 .. Len(cur'.means) :
              /\ passed(x)' /\ picked(x - 1)'
              /\ \E j \in 0 .. Len(cur'.means[x].sub) : inner(x, j)'
      BY <1>1, <2>1, <2>2, <2>3
    <2> QED BY <1>1, <1>3, <1>5, <1>8, <2>4, ZenonT(30) DEF PxeScanInv
  <1>9. CASE /\ o.typ = 97 /\ ~badGuid(bytes(buf, o.val))
             /\ at' = "scan" /\ opts' = o.next
             /\ guid' = [lo |-> o.val.lo + 1, hi |-> o.val.hi] /\ UNCHANGED bootType
    <2>1. passed(k + 1)' /\ k + 1 \in 1 .. Len(cur.means)
      BY <1>2, <1>3, <1>9, <1>11, PassesGuid, ZenonT(30)
    <2>2. ~hasItem(cur.means[k + 1])
      BY <1>2, <1>9 DEF finds, hasItem
    <2>3. picked(k + 1)' /\ k + 1 \in 0 .. Len(cur'.means)
      <3>1. k \in Nat /\ picked(k) /\ UNCHANGED <<buf, cur, bootType>>
        BY <1>2, <1>4, <1>9, <1>11, ZenonT(30)
      <3>2. picked(k + 1)'
        BY ONLY <2>2, <3>1, KeepsPick, ZenonT(30)
      <3>3. k + 1 \in 0 .. Len(cur.means)
        BY ONLY <1>4, <2>1, SMTT(30), Z3T(30)
      <3> QED BY <1>11, <3>2, <3>3, ZenonT(30)
    <2> QED BY <1>1, <1>3, <1>5, <1>9, <2>1, <2>3, ZenonT(30) DEF PxeScanInv
  <1>10. CASE /\ o.typ \notin {255, 43, 97}
              /\ at' = "scan" /\ opts' = o.next /\ UNCHANGED <<guid, bootType>>
    <2>1. passed(k + 1)' /\ k + 1 \in 1 .. Len(cur.means)
      BY <1>2, <1>4, <1>10, <1>11, PassesOther, ZenonT(30)
    <2>2. ~hasItem(cur.means[k + 1])
      BY <1>2, <1>10, ZenonT(30) DEF finds, hasItem
    <2>3. picked(k + 1)' /\ k + 1 \in 0 .. Len(cur'.means)
      <3>1. k \in Nat /\ picked(k) /\ UNCHANGED <<buf, cur, bootType>>
        BY <1>2, <1>4, <1>10, <1>11, ZenonT(30)
      <3>2. picked(k + 1)'
        BY ONLY <2>2, <3>1, KeepsPick, ZenonT(30)
      <3>3. k + 1 \in 0 .. Len(cur.means)
        BY ONLY <1>4, <2>1, SMTT(30), Z3T(30)
      <3> QED BY <1>11, <3>2, <3>3, ZenonT(30)
    <2> QED BY <1>1, <1>3, <1>5, <1>10, <2>1, <2>3, ZenonT(30) DEF PxeScanInv
  <1> QED BY <1>1, <1>6, <1>7, <1>8, <1>9, <1>10

LEMMA ScanVendorPxeScan ==
  ASSUME PxeScanInv, PxeInv', ScanVendor
  PROVE  PxeScanInv'
  <1> DEFINE o == DhcpOption(buf, vendor)
  <1>1. /\ at = "vendor" /\ UNCHANGED <<buf, hdr, opts, guid, cur, sent>>
        /\ at' = IF o.typ \in {255, 71} THEN "scan" ELSE "vendor"
        /\ vendor' = o.next
        /\ bootType' = IF o.typ = 71 THEN o.val ELSE bootType
    BY DEF ScanVendor
  <1>2. PICK k \in 1 .. Len(cur.means) :
            /\ passed(k) /\ picked(k - 1)
            /\ \E j \in 0 .. Len(cur.means[k].sub) : inner(k, j)
    BY <1>1 DEF PxeScanInv
  <1>3. PICK j \in 0 .. Len(cur.means[k].sub) : inner(k, j)
    BY <1>2
  <1>4. nested(k, j, o)
    BY <1>3, InnerView
  <1>5. cur \in Packets /\ cur.hdr.whole /\ cur.hdr.magic
    BY <1>1 DEF PxeScanInv, PxeInv, PxeTypeOK
  <1>6. /\ hdr' = cur'.hdr /\ holds(buf', 0, received(cur'), cur'.means, cur'.wire)
        /\ sent' # None => /\ sent'.mac = cur'.hdr.mac /\ sent'.tid = cur'.hdr.tid
                           /\ sent'.yiaddr = cur'.hdr.ciaddr
                           /\ replies(cur', sent'.siaddr, sent'.options)
    BY <1>1, KeptPxeScan
  <1>7. /\ Len(cur.means) \in Nat /\ k - 1 \in Nat /\ k - 1 + 1 = k /\ k \in 0 .. Len(cur.means)
    BY <1>5, PacketIs
  <1>8. passed(k)'
    BY <1>1, <1>2 DEF passed
  <1> HIDE DEF o
  <1>9. CASE o.typ = 255
    <2>1. ~hasItem(cur.means[k - 1 + 1])
      BY <1>4, <1>7, <1>9 DEF nested
    <2>2. picked(k - 1 + 1)'
      BY <1>1, <1>2, <1>7, <1>9, <2>1, KeepsPick
    <2>3. picked(k)' /\ at' = "scan" /\ k \in 0 .. Len(cur'.means)
      BY <1>1, <1>7, <1>9, <2>2
    <2> QED BY <1>1, <1>5, <1>6, <1>8, <2>3, ZenonT(30) DEF PxeScanInv
  <1>10. CASE o.typ = 71
    <2>1. firstItem(cur.means[k - 1 + 1], bytes(buf, o.val)) /\ o.val # nil
      <3>1. o.typ # 255 /\ k - 1 + 1 = k
        BY <1>7, <1>10
      <3> QED BY ONLY <1>4, <1>10, <3>1, ZenonT(30) DEF nested
    <2>2. lastItem(cur.means, k - 1 + 1, bytes(buf, o.val))
      BY <1>7, <2>1, LastItemNew, ZenonT(30)
    <2>3. at' = "scan" /\ bootType' = o.val
      BY <1>1, <1>10
    <2>4. picked(k)' /\ k \in 0 .. Len(cur'.means)
      BY <1>1, <1>7, <2>1, <2>2, <2>3 DEF picked
    <2> QED BY <1>1, <1>5, <1>6, <1>8, <2>3, <2>4, ZenonT(30) DEF PxeScanInv
  <1>11. CASE o.typ \notin {255, 71}
    <2>1. at' = "vendor" /\ bootType' = bootType
      BY <1>1, <1>11
    <2>2. picked(k - 1)'
      BY <1>1, <1>2, <2>1 DEF picked
    <2>3. inner(k, j + 1)' /\ j + 1 \in 0 .. Len(cur'.means[k].sub)
      <3> DEFINE v == cur.means[k]
                 base == ends(cur.means, k - 1) + 2
      <3>1. /\ j + 1 \in 0 .. Len(v.sub)
            /\ v.sub[j + 1].typ # 71 /\ ends(v.sub, j + 1) <= Len(v.val)
            /\ o.next = [lo |-> base + ends(v.sub, j + 1), hi |-> base + Len(v.val)]
        BY <1>4, <1>11 DEF nested
      <3>2. /\ v.typ = 43 /\ holds(buf, base, Len(v.val), v.sub, v.val)
            /\ \A i \in 1 .. j : v.sub[i].typ # 71
        BY <1>3, ZenonT(30) DEF inner
      <3> HIDE DEF v, base
      <3>3. \A i \in 1 .. j + 1 : v.sub[i].typ # 71
        BY <3>1, <3>2
      <3> QED BY <1>1, <3>1, <3>2, <3>3, ZenonT(30) DEF inner, v, base
    <2>4. \E x \in 1 .. Len(cur'.means) :
              /\ passed(x)' /\ picked(x - 1)'
              /\ \E y \in 0 .. Len(cur'.means[x].sub) : inner(x, y)'
      BY <1>1, <1>8, <2>2, <2>3
    <2> QED BY <1>1, <1>5, <1>6, <2>1, <2>4, ZenonT(30) DEF PxeScanInv
  <1> QED BY <1>9, <1>10, <1>11

LEMMA AnswerPxeScan ==
  ASSUME PxeScanInv, PxeInv', NEW written \in BOOLEAN, Answer(written)
  PROVE  PxeScanInv'
  <1> DEFINE ip == InterfaceIP(Interfaces[cur.iface])
  <1>1. /\ at = "answer" /\ turn /\ UNCHANGED <<buf, hdr, cur>>
        /\ sent' = sent \/ (ip # NoIP /\ sent' = ReplyPXE(ip))
    BY DEF Answer
  <1>2. CASE sent' = sent
    BY <1>1, <1>2, TurnPxeScan
  <1>3. CASE ip # NoIP /\ sent' = ReplyPXE(ip)
    <2>1. /\ hdr = cur.hdr /\ Selects(cur)
          /\ bytes(buf, guid) = SubSeq(lastVal(cur, 97), 2, 17)
          /\ bytes(buf, bootType) = selected(cur)
      BY <1>1, ZenonT(30) DEF PxeScanInv
    <2>2. /\ sent'.mac = hdr.mac /\ sent'.tid = hdr.tid /\ sent'.yiaddr = hdr.ciaddr
          /\ sent'.siaddr = ip
          /\ sent'.options = replyOptions(ip, bytes(buf, guid), bytes(buf, bootType))
      BY <1>3 DEF ReplyPXE
    <2>3. replies(cur, sent'.siaddr, sent'.options)
      BY <1>3, <2>1, <2>2, ZenonT(30) DEF replies
    <2>4. cur' = cur /\ at' = "read"
      BY <1>1 DEF turn
    <2> QED BY <2>1, <2>2, <2>3, <2>4, ZenonT(30) DEF PxeScanInv
  <1> QED BY <1>1, <1>2, <1>3

LEMMA StepPxeScan == PxeScanInv /\ [Next]_vars => PxeScanInv'
  <1> SUFFICES ASSUME PxeScanInv, [Next]_vars PROVE PxeScanInv'
    OBVIOUS
  <1>0. PxeInv'
    BY StepPxe DEF PxeScanInv
  <1>1. ASSUME NEW p \in Packets, Read(p) PROVE PxeScanInv'
    BY <1>0, <1>1, ReadPxeScan
  <1>2. ASSUME ParseHeader PROVE PxeScanInv'
    BY <1>0, <1>2, HeaderPxeScan
  <1>3. ASSUME ScanOption PROVE PxeScanInv'
    BY <1>0, <1>3, ScanOptionPxeScan
  <1>4. ASSUME ScanVendor PROVE PxeScanInv'
    BY <1>0, <1>4, ScanVendorPxeScan
  <1>5. ASSUME NEW written \in BOOLEAN, Answer(written) PROVE PxeScanInv'
    BY <1>0, <1>5, AnswerPxeScan
  <1>6. CASE UNCHANGED vars
    <2>1. /\ at' = at /\ buf' = buf /\ hdr' = hdr /\ opts' = opts /\ vendor' = vendor
          /\ guid' = guid /\ bootType' = bootType /\ cur' = cur /\ sent' = sent
      BY <1>6 DEF vars, slices
    <2>2. \A k : passed(k)' <=> passed(k)
      BY <2>1, ZenonT(30) DEF passed
    <2>3. \A k : picked(k)' <=> picked(k)
      BY <2>1, ZenonT(30) DEF picked
    <2>4. \A k, j : inner(k, j)' <=> inner(k, j)
      BY <2>1, ZenonT(30) DEF inner
    <2> QED BY <1>0, <2>1, <2>2, <2>3, <2>4, ZenonT(30) DEF PxeScanInv
  <1> QED BY <1>1, <1>2, <1>3, <1>4, <1>5, <1>6 DEF Next, Handle

\* ParsePXE accepts a request exactly when it has a GUID, every GUID in it is
\* well formed and a boot item has been selected: for every packet, any number
\* and nesting of options, wherever the buffer cuts it off, and whatever the
\* buffer held before.
THEOREM PxeDecidesEveryPacket == Spec => PxeDecidesRight
  <1> DEFINE D == (at \in {"header", "scan"} /\ at' \in {"read", "answer"})
                  => (at' = "answer" <=> Selects(cur))
  <1>1. ASSUME PxeScanInv, [Next]_vars PROVE [D]_vars
    <2> SUFFICES ASSUME Next, at \in {"header", "scan"}, at' \in {"read", "answer"}
                 PROVE  at' = "answer" <=> Selects(cur)
      BY <1>1
    <2>1. ParseHeader \/ ScanOption
      BY ZenonT(30) DEF Next, Handle, Read, Answer, ScanVendor
    <2>2. CASE ParseHeader
      <3>1. at' = "read" /\ ~(hdr.whole /\ hdr.magic)
        BY <2>2 DEF ParseHeader, turn
      <3>2. hdr = cur.hdr
        BY <1>1, <2>2, ZenonT(30) DEF PxeScanInv, ParseHeader
      <3> QED BY <3>1, <3>2 DEF Selects
    <2>3. CASE ScanOption
      <3> DEFINE o == DhcpOption(buf, opts)
      <3>1. /\ at = "scan"
            /\ \/ o.typ = 255 /\ guid # nil /\ bootType # nil /\ at' = "answer"
               \/ o.typ = 255 /\ (guid = nil \/ bootType = nil) /\ at' = "read"
               \/ o.typ = 97 /\ badGuid(bytes(buf, o.val)) /\ at' = "read"
        BY <2>3 DEF ScanOption, turn
      <3>2. cur.hdr.whole /\ cur.hdr.magic /\ cur \in Packets /\ Len(cur.means) \in Nat
        BY <1>1, <3>1, PacketIs, ZenonT(30) DEF PxeScanInv, PxeInv, PxeTypeOK
      <3>3. PICK k \in 0 .. Len(cur.means) : passed(k) /\ picked(k) /\ finds(cur, buf, k, o)
        BY <1>1, <3>1, OuterView
      <3> HIDE DEF o
      <3>4. CASE o.typ = 255
        <4>1. fitting(cur) = 1 .. k /\ k \in Nat
          <5>1. fitting(cur) = 1 .. k
            BY <3>3, <3>4, ZenonT(30) DEF finds
          <5>2. k \in Nat
            BY ONLY <3>2, <3>3, SMTT(30), Z3T(30)
          <5> QED BY <5>1, <5>2, ZenonT(30)
        <4>2. guid # nil <=> \E i \in 1 .. k : cur.means[i].typ = 97
          BY <3>3, ZenonT(30) DEF passed, lastGuid
        <4>3. bootType # nil <=> \E i \in 1 .. k : hasItem(cur.means[i])
          <5>1. \A i, v : firstItem(cur.means[i], v) => hasItem(cur.means[i])
            BY DEF firstItem, hasItem
          <5> QED BY <3>3, <5>1, ZenonT(30) DEF picked, lastItem
        <4>4. \A i \in 1 .. k : cur.means[i].typ = 97 => ~badGuid(cur.means[i].val)
          BY <3>3, ZenonT(30) DEF passed
        <4>5. Selects(cur) <=> guid # nil /\ bootType # nil
          BY <3>2, <4>1, <4>2, <4>3, <4>4, SelectsIs
        <4> QED BY <3>1, <3>4, <4>5
      <3>5. CASE o.typ # 255
        <4>1. /\ at' = "read" /\ k + 1 \in fitting(cur) /\ cur.means[k + 1].typ = 97
              /\ badGuid(cur.means[k + 1].val)
          BY <3>1, <3>3, <3>5 DEF finds
        <4>2. ~Selects(cur)
          BY <4>1 DEF Selects, withTyp
        <4> QED BY <4>1, <4>2
      <3> QED BY <3>4, <3>5
    <2> QED BY <2>1, <2>2, <2>3
  <1> QED BY InitPxeScan, StepPxeScan, <1>1, PTL DEF Spec, PxeDecidesRight

-----------------------------------------------------------------------------
(* The reply, read by its lengths.                                         *)

\* The vendor option that mirrors the selection, read by its lengths.
LEMMA MirrorReads ==
  ASSUME NEW item, sized(item, 4)
  PROVE  decode(<<71, 4>> \o (item \o <<255>>)) = <<[typ |-> 71, val |-> item]>>
  <1> DEFINE h == <<71, 4>>
             e == <<255>>
             w == item \o e
             r == h \o w
             x == <<>> \o item
  <1>1. sized(h, 2) /\ sized(e, 1)
    BY DEF sized, Byte
  <1>2. writes(r, 0, h, 71, 4, <<>>, item) <=> piece(r, 0, h) /\ piece(r, 2, item)
    BY DEF writes, sized
  <1> HIDE DEF h, e, w, r
  <1>3. sized(w, 5) /\ w = item \o e
    BY <1>1, CatSized DEF w
  <1>4. sized(r, 7) /\ r = h \o w
    BY <1>1, <1>3, CatSized DEF r
  <1>5. piece(r, 0, h) /\ piece(r, 2, w)
    BY <1>1, <1>3, <1>4, WholeSized, CutSized
  <1>6. piece(r, 2, item) /\ piece(r, 6, e)
    <2>1. piece(r, 2, item) /\ piece(r, 2 + 4, e)
      BY <1>1, <1>3, <1>5, CutSizedAt, ZenonT(30)
    <2> QED BY <2>1
  <1>7. optionIn(r, 0, 71, 4, x)
    BY <1>2, <1>5, <1>6, OptionIn, ZenonT(30)
  <1>8. decoded(r)[7] = <<>>
    <2>1. r \in Seq(Byte) /\ 6 < Len(r) /\ r[6 + 1] = 255
      <3>1. e[1] = 255 /\ Len(e) = 1
        BY DEF e
      <3> QED BY <1>6, <3>1 DEF piece
    <2>2. decoded(r)[6 + 1] = <<>>
      BY <2>1, ReadsEnd
    <2> QED BY <2>2
  <1>9. x = item
    BY DEF sized
  <1> HIDE DEF x
  <1>10. decoded(r)[0 + 1] = <<[typ |-> 71, val |-> x]>> \o decoded(r)[0 + 3 + 4]
    BY <1>7 DEF optionIn, follows
  <1>11. decoded(r)[1] = <<[typ |-> 71, val |-> item]>> \o <<>>
    BY <1>8, <1>9, <1>10
  <1>12. decoded(r)[1] = <<[typ |-> 71, val |-> item]>>
    BY <1>11
  <1> QED BY <1>12 DEF decode, r, h, w, e

LEMMA ShortLength ==
  ASSUME NEW u \in Seq(Byte), Len(u) < 256
  PROVE  Len(u) \in Nat /\ Len(u) \in Byte /\ Len(u) % 256 = Len(u)
  <1>1. Len(u) \in Nat
    OBVIOUS
  <1>2. \A l \in Nat : l < 256 => l \in Byte /\ l % 256 = l
    BY ONLY SMTT(30), Z3T(30), ZenonT(30) DEF Byte
  <1> QED BY <1>1, <1>2

LEMMA TwoBytes ==
  ASSUME NEW y \in Byte
  PROVE  sized(<<210, y>>, 2)
  BY DEF Byte, sized

\* What the options os of a reply give the machine that reads them.
tells(os, F, ip, g, item) ==
    /\ reads(os, {53, 54, 60, 97, 43, 210, 211}, F)
    /\ F[54] = ip /\ F[97] = <<0>> \o g /\ F[43] = <<71, 4>> \o (item \o <<255>>)
    /\ F[210] = HTTPServer[ip] /\ F[211] = <<0, 0, 0, 5>>

LEMMA ReplyReads ==
  ASSUME NEW ip, sized(ip, 4), NEW g, sized(g, 16), NEW item, sized(item, 4),
         HTTPServer[ip] \in Seq(Byte), Len(HTTPServer[ip]) < 256
  PROVE  \E F : tells(decode(replyOptions(ip, g, item)), F, ip, g, item)
  <1> DEFINE u == HTTPServer[ip]
             L == Len(u)
             h53 == <<53, 1, 5>>
             h54 == <<54, 4>>
             h60 == <<60, 9>>
             h97 == <<97, 17, 0>>
             h43 == <<43, 7, 71, 4>>
             h210 == <<210, L>>
             h211 == <<211, 4, 0, 0, 0, 5>>
             five == <<0, 0, 0, 5>>
             e == <<255>>
             n == PXEClient
             w == item \o e
             m4 == h43 \o item
             m == m4 \o e
             b2 == h53 \o h54
             b3 == b2 \o ip
             b4 == b3 \o h60
             b5 == b4 \o n
             b6 == b5 \o h97
             b7 == b6 \o g
             b8 == b7 \o m
             b9 == b8 \o h210
             b10 == b9 \o u
             b11 == b10 \o h211
             b == b11 \o e
             x53 == <<5>> \o <<>>
             x54 == <<>> \o ip
             x60 == <<>> \o n
             x97 == <<0>> \o g
             x43 == <<71, 4>> \o w
             x210 == <<>> \o u
             x211 == five \o <<>>
             F == [t \in Int |-> IF t = 53 THEN x53 ELSE IF t = 54 THEN x54 ELSE IF t = 60 THEN x60
                                 ELSE IF t = 97 THEN x97 ELSE IF t = 43 THEN x43
                                 ELSE IF t = 210 THEN x210 ELSE x211]
             T0 == {}
             T1 == {211}
             T2 == {210, 211}
             T3 == {43, 210, 211}
             T4 == {97, 43, 210, 211}
             T5 == {60, 97, 43, 210, 211}
             T6 == {54, 60, 97, 43, 210, 211}
             T7 == {53, 54, 60, 97, 43, 210, 211}
             i10 == 50 + L
             i11 == 56 + L
             k211 == 51 + L
             k255 == 57 + L
  <1>0. L \in Nat /\ L \in Byte /\ u \in Seq(Byte) /\ L % 256 = L
    BY ShortLength, ZenonT(30)
  <1>1. replyOptions(ip, g, item) = b
    BY <1>0, ZenonT(30) DEF replyOptions, mirror
  <1>2. /\ gives(F, 53, x53) /\ gives(F, 54, x54) /\ gives(F, 60, x60) /\ gives(F, 97, x97)
        /\ gives(F, 43, x43) /\ gives(F, 210, x210) /\ gives(F, 211, x211)
    BY DEF gives
  <1>t. /\ adds(T0, 211, T1) /\ adds(T1, 210, T2) /\ adds(T2, 43, T3) /\ adds(T3, 97, T4)
        /\ adds(T4, 60, T5) /\ adds(T5, 54, T6) /\ adds(T6, 53, T7)
    BY DEF adds
  <1>s. /\ spans(39, 7, 40, 49) /\ spans(20, 17, 21, 40) /\ spans(9, 9, 10, 21)
        /\ spans(3, 4, 4, 10) /\ spans(0, 1, 1, 4)
    BY DEF spans
  <1>r. spans(i10, 4, k211, k255) /\ spans(48, L, 49, k211)
    BY <1>0 DEF spans
  <1>n. i10 \in Nat /\ i11 \in Nat /\ i10 + 6 = i11 /\ i11 + 1 = k255 /\ 50 + L = i10
    BY <1>0
  <1>3. b2 = h53 \o h54 /\ b3 = b2 \o ip /\ b4 = b3 \o h60 /\ b5 = b4 \o n /\ m4 = h43 \o item
    OBVIOUS
  <1>4. b6 = b5 \o h97 /\ b7 = b6 \o g /\ b8 = b7 \o m /\ b9 = b8 \o h210 /\ w = item \o e
    OBVIOUS
  <1>5. b10 = b9 \o u /\ b11 = b10 \o h211 /\ b = b11 \o e /\ m = m4 \o e
    OBVIOUS
  <1>6. /\ sized(h53, 3) /\ sized(h54, 2) /\ sized(h60, 2) /\ sized(h97, 3) /\ sized(h43, 4)
        /\ sized(h211, 6) /\ sized(e, 1)
    BY DEF Byte, sized
  <1>7. sized(n, 9)
    BY DEF PXEClient, Byte, sized
  <1> HIDE DEF e, n, u, L, w, m4, m, b2, b3, b4, b5, b6, b7, b8, b9, b10, b11, b, F
  <1> HIDE DEF x53, x54, x60, x97, x43, x210, x211, T0, T1, T2, T3, T4, T5, T6, T7
  <1> HIDE DEF i10, i11, k211, k255
  <1>8. sized(h210, 2) /\ sized(u, L)
    <2>1. L \in Byte /\ u \in Seq(Byte) /\ Len(u) = L
      BY <1>0 DEF L
    <2>2. sized(h210, 2)
      BY ONLY <2>1, TwoBytes, SMTT(30), Z3T(30)
    <2>3. sized(u, L)
      BY ONLY <2>1, ZenonT(30) DEF sized
    <2> QED BY ONLY <2>2, <2>3, SMTT(30), Z3T(30), ZenonT(30)
  <1>9. sized(w, 5) /\ sized(m4, 8)
    <2> HIDE DEF h43
    <2>1. w = item \o e /\ m4 = h43 \o item /\ sized(item, 4) /\ sized(e, 1) /\ sized(h43, 4)
      BY <1>3, <1>4, <1>6
    <2> QED BY ONLY <2>1, CatSized, SMTT(30), Z3T(30)
  <1>10. sized(m, 9)
    BY <1>5, <1>6, <1>9, CatSized
  <1>11. writes(b, 0, h53, 53, 1, <<5>>, <<>>) <=> piece(b, 0, h53) /\ piece(b, 3, <<>>)
    BY DEF writes, Byte, sized
  <1>12. writes(b, 3, h54, 54, 4, <<>>, ip) <=> piece(b, 3, h54) /\ piece(b, 5, ip)
    BY DEF writes, Byte, sized
  <1>13. writes(b, 9, h60, 60, 9, <<>>, n) <=> piece(b, 9, h60) /\ piece(b, 11, n)
    BY <1>7 DEF writes, Byte, sized
  <1>14. writes(b, 20, h97, 97, 17, <<0>>, g) <=> piece(b, 20, h97) /\ piece(b, 23, g)
    BY DEF writes, Byte, sized
  <1>15. writes(b, 39, h43, 43, 7, <<71, 4>>, w) <=> piece(b, 39, h43) /\ piece(b, 43, w)
    BY <1>9 DEF writes, Byte, sized
  <1>16. writes(b, 48, h210, 210, L, <<>>, u) <=> piece(b, 48, h210) /\ piece(b, 50, u)
    BY <1>0, <1>8 DEF writes, Byte, sized
  <1>17. writes(b, i10, h211, 211, 4, five, <<>>) <=> piece(b, i10, h211) /\ piece(b, i11, <<>>)
    BY <1>n DEF writes, Byte, sized
  <1> HIDE DEF h53, h54, h60, h97, h43, h210, h211, five
  <1>18. sized(b2, 5)
    BY <1>3, <1>6, CatSized
  <1>19. sized(b3, 9)
    BY <1>3, <1>18, CatSized
  <1>20. sized(b4, 11)
    BY <1>3, <1>6, <1>19, CatSized
  <1>21. sized(b5, 20)
    BY <1>3, <1>7, <1>20, CatSized
  <1>22. sized(b6, 23)
    BY <1>4, <1>6, <1>21, CatSized
  <1>23. sized(b7, 39)
    BY <1>4, <1>22, CatSized
  <1>24. sized(b8, 48)
    BY <1>4, <1>10, <1>23, CatSized
  <1>25. sized(b9, 50)
    BY <1>4, <1>8, <1>24, CatSized
  <1>26. sized(b10, i10)
    BY <1>0, <1>5, <1>8, <1>25, CatSized DEF i10
  <1>27. sized(b11, i11)
    BY <1>5, <1>6, <1>26, <1>n, CatSized
  <1>28. sized(b, k255)
    BY <1>5, <1>6, <1>27, <1>n, CatSized
  <1>29. piece(b, 0, b11) /\ piece(b, i11, e)
    BY <1>5, <1>6, <1>27, <1>28, <1>n, WholeSized, CutSized
  <1>30. piece(b, 0, b10) /\ piece(b, i10, h211)
    BY <1>5, <1>6, <1>26, <1>29, <1>n, CutSized
  <1>31. piece(b, 0, b9) /\ piece(b, 50, u)
    BY <1>0, <1>5, <1>8, <1>25, <1>30, CutSized, ZenonT(30)
  <1>32. piece(b, 0, b8) /\ piece(b, 48, h210)
    BY <1>4, <1>8, <1>24, <1>31, CutSized
  <1>33. piece(b, 0, b7) /\ piece(b, 39, m)
    BY <1>4, <1>10, <1>23, <1>32, CutSized
  <1>34. piece(b, 0, b6) /\ piece(b, 23, g)
    BY <1>4, <1>22, <1>33, CutSized
  <1>35. piece(b, 0, b5) /\ piece(b, 20, h97)
    BY <1>4, <1>6, <1>21, <1>34, CutSized
  <1>36. piece(b, 0, b4) /\ piece(b, 11, n)
    BY <1>3, <1>7, <1>20, <1>35, CutSized
  <1>37. piece(b, 0, b3) /\ piece(b, 9, h60)
    BY <1>3, <1>6, <1>19, <1>36, CutSized
  <1>38. piece(b, 0, b2) /\ piece(b, 5, ip)
    BY <1>3, <1>18, <1>37, CutSized
  <1>39. piece(b, 0, h53) /\ piece(b, 3, h54)
    BY <1>3, <1>6, <1>38, CutSized
  <1>40. piece(b, 39, h43) /\ piece(b, 43, w)
    <2>1. piece(b, 39, m4) /\ piece(b, 39 + 8, e)
      BY <1>5, <1>6, <1>9, <1>33, CutSizedAt, ZenonT(30)
    <2>2. piece(b, 39, h43) /\ piece(b, 39 + 4, item)
      BY <1>3, <1>6, <2>1, CutSizedAt, ZenonT(30)
    <2>3. piece(b, 43, item) /\ piece(b, 43 + 4, e)
      BY <2>1, <2>2
    <2>4. piece(b, 43, item \o e)
      BY <1>6, <2>3, JoinPiece, ZenonT(30)
    <2> QED BY <1>4, <2>2, <2>4
  <1>41. piece(b, 3, <<>>) /\ piece(b, i11, <<>>)
    <2>1. b \in Seq(Byte) /\ Len(b) = k255 /\ k255 \in Nat /\ 3 <= k255 /\ i11 <= k255
      BY <1>0, <1>28 DEF sized, k255, i11
    <2> QED BY <1>n, <2>1 DEF piece
  <1>42. optionIn(b, 0, 53, 1, x53)
    BY <1>11, <1>39, <1>41, OptionIn, ZenonT(30) DEF x53
  <1>43. optionIn(b, 3, 54, 4, x54)
    BY <1>12, <1>38, <1>39, OptionIn, ZenonT(30) DEF x54
  <1>44. optionIn(b, 9, 60, 9, x60)
    BY <1>13, <1>36, <1>37, OptionIn, ZenonT(30) DEF x60
  <1>45. optionIn(b, 20, 97, 17, x97)
    BY <1>14, <1>34, <1>35, OptionIn DEF x97
  <1>46. optionIn(b, 39, 43, 7, x43)
    BY <1>15, <1>40, OptionIn DEF x43
  <1>47. optionIn(b, 48, 210, L, x210)
    BY <1>16, <1>31, <1>32, OptionIn, ZenonT(30) DEF x210
  <1>48. optionIn(b, i10, 211, 4, x211)
    BY <1>17, <1>30, <1>41, OptionIn, ZenonT(30) DEF x211
  <1>49. readsFrom(b, k255, T0, F)
    <2>1. ending(e)
      BY DEF e, ending
    <2> QED BY <1>29, <1>n, <2>1, ReadsLast DEF T0
  <1>50. readsFrom(b, k211, T1, F)
    <2>1. gives(F, 211, x211) /\ adds(T0, 211, T1)
      BY <1>2, <1>t
    <2> QED BY <1>48, <1>49, <1>r, <2>1, ReadsNext, Zenon
  <1>51. readsFrom(b, 49, T2, F)
    <2>1. gives(F, 210, x210) /\ adds(T1, 210, T2)
      BY <1>2, <1>t
    <2> QED BY <1>47, <1>50, <1>r, <2>1, ReadsNext, Zenon
  <1>52. readsFrom(b, 40, T3, F)
    <2>1. gives(F, 43, x43) /\ adds(T2, 43, T3) /\ spans(39, 7, 40, 49)
      BY <1>2, <1>t, <1>s
    <2> QED BY <1>46, <1>51, <2>1, ReadsNext, Zenon
  <1>53. readsFrom(b, 21, T4, F)
    <2>1. gives(F, 97, x97) /\ adds(T3, 97, T4) /\ spans(20, 17, 21, 40)
      BY <1>2, <1>t, <1>s
    <2> QED BY <1>45, <1>52, <2>1, ReadsNext, Zenon
  <1>54. readsFrom(b, 10, T5, F)
    <2>1. gives(F, 60, x60) /\ adds(T4, 60, T5) /\ spans(9, 9, 10, 21)
      BY <1>2, <1>t, <1>s
    <2> QED BY <1>44, <1>53, <2>1, ReadsNext, Zenon
  <1>55. readsFrom(b, 4, T6, F)
    <2>1. gives(F, 54, x54) /\ adds(T5, 54, T6) /\ spans(3, 4, 4, 10)
      BY <1>2, <1>t, <1>s
    <2> QED BY <1>43, <1>54, <2>1, ReadsNext, Zenon
  <1>56. readsFrom(b, 1, T7, F)
    <2>1. gives(F, 53, x53) /\ adds(T6, 53, T7) /\ spans(0, 1, 1, 4)
      BY <1>2, <1>t, <1>s
    <2> QED BY <1>42, <1>55, <2>1, ReadsNext, Zenon
  <1>57. x54 = ip /\ x210 = u
    BY <1>0 DEF x54, x210, sized
  <1>58. x211 = five
    <2>1. five \in Seq(Byte)
      BY DEF five, Byte
    <2> QED BY <2>1 DEF x211
  <1>59. reads(decode(b), T7, F)
    BY <1>56 DEF decode, readsFrom
  <1>60. /\ F[54] = ip /\ F[97] = <<0>> \o g /\ F[43] = <<71, 4>> \o (item \o <<255>>)
         /\ F[210] = HTTPServer[ip] /\ F[211] = <<0, 0, 0, 5>>
    <2>1. F[54] = ip /\ F[97] = x97 /\ F[43] = x43 /\ F[210] = u /\ F[211] = five
      BY <1>2, <1>57, <1>58 DEF gives
    <2> QED BY <2>1 DEF x97, x43, w, e, u, five
  <1>61. tells(decode(b), F, ip, g, item)
    BY <1>59, <1>60 DEF tells, T7
  <1> QED BY <1>1, <1>61

LEMMA SelectedIn ==
  ASSUME NEW p \in Packets, Selects(p)
  PROVE  selected(p) \in Seq(Byte)
  <1> DEFINE S == selections(p)
             i == Max(S)
             sub == p.means[i].sub
             T == {j \in DOMAIN sub : sub[j].typ = 71}
  <1>1. Len(p.means) \in Nat /\ DOMAIN p.means = 1 .. Len(p.means)
    BY PacketIs
  <1>2. S \in SUBSET (1 .. Len(p.means)) /\ S # {}
    BY <1>1 DEF Selects, selections, withTyp, fitting
  <1>3. i \in S
    <2>1. \E x \in S : \A y \in S : y <= x
      BY <1>1, <1>2, MaxIn, ZenonT(30)
    <2>2. \E x \in S : \A y \in S : x >= y
      <3> HIDE DEF S
      <3>1. \A x \in S : x \in Int
        BY <1>1, <1>2
      <3> QED BY <2>1, <3>1
    <2> HIDE DEF S
    <2> QED BY <2>2, Zenon DEF Max
  <1>4. i \in 1 .. Len(p.means) /\ p.means[i].typ = 43 /\ T # {}
    <2>1. i \in 1 .. Len(p.means)
      BY <1>2, <1>3
    <2>2. p.means[i].typ = 43 /\ \E j \in DOMAIN sub : sub[j].typ = 71
      <3> HIDE DEF i
      <3> QED BY <1>3 DEF selections, withTyp
    <2> QED BY <2>1, <2>2
  <1> HIDE DEF i
  <1>5. sub \in Seq(Option)
    BY <1>4, VendorIs
  <1> HIDE DEF sub
  <1>6. T \in SUBSET Nat
    BY <1>5
  <1>7. Min(T) \in T
    BY <1>4, <1>6, MinIs, ZenonT(30)
  <1>8. Min(T) \in DOMAIN sub
    BY <1>7
  <1>9. sub[Min(T)] \in Option
    <2> HIDE DEF T
    <2> QED BY <1>5, <1>8
  <1>10. selected(p) = sub[Min(T)].val
    BY DEF selected, sub, i
  <1> QED BY <1>9, <1>10 DEF Option

\* What the reply of every accepted request reads back as.
LEMMA ReadsBack ==
  ASSUME UrlsFit, PxeScanInv
  PROVE  PxeReplyReadsBack
  <1> SUFFICES ASSUME sent # None, Len(selected(cur)) = 4 PROVE PxeReplyReadsBack
    BY DEF PxeReplyReadsBack
  <1> DEFINE os == decode(sent.options)
             ip == sent.siaddr
             u == lastVal(cur, 97)
             g == SubSeq(u, 2, 17)
             item == selected(cur)
  <1>1. /\ cur \in Packets /\ sent.mac = cur.hdr.mac /\ sent.tid = cur.hdr.tid
        /\ sent.yiaddr = cur.hdr.ciaddr /\ replies(cur, ip, sent.options)
    BY ZenonT(30) DEF PxeScanInv, PxeInv, PxeTypeOK
  <1>2. /\ ip = InterfaceIP(Interfaces[cur.iface]) /\ ip # NoIP /\ Selects(cur)
        /\ sent.options = replyOptions(ip, g, item)
    BY <1>1 DEF replies
  <1>3. Interfaces[cur.iface] \in Seq(Address) /\ cur.iface \in DOMAIN Interfaces
    BY <1>1, PacketIs, DhcpAssumption DEF DhcpAssumption
  <1>4. sized(ip, 4)
    <2>1. PICK a \in {c \in Range(Interfaces[cur.iface]) : usable(c)} :
              a.ip = InterfaceIP(Interfaces[cur.iface]) /\ a.ip \in Seq(Byte) /\ Len(a.ip) = 4
      BY <1>2, <1>3, BestAddress, ZenonT(30)
    <2> QED BY <1>2, <2>1 DEF sized
  <1>5. HTTPServer[ip] \in Seq(Byte) /\ Len(HTTPServer[ip]) < 256
    BY <1>2, <1>3 DEF UrlsFit
  <1>6. u \in Seq(Byte) /\ ~badGuid(u)
    BY <1>1, <1>2, LastValIn DEF Selects
  <1>7. sized(item, 4)
    BY <1>1, <1>2, SelectedIn DEF sized
  <1> HIDE DEF u, item, ip
  <1>8. sized(g, 16) /\ <<0>> \o g = u
    <2>1. Len(u) = 17 /\ u[1] = 0
      BY <1>6 DEF badGuid
    <2> QED BY <1>6, <2>1, GuidIn, GuidWhole, ZenonT(30) DEF sized
  <1> HIDE DEF g
  <1>9. PICK F : tells(os, F, ip, g, item)
    <2>1. \E F : tells(decode(replyOptions(ip, g, item)), F, ip, g, item)
      BY ONLY <1>4, <1>5, <1>7, <1>8, ReplyReads, SMTT(30), Z3T(30)
    <2> QED BY <1>2, <2>1
  <1> HIDE DEF os
  <1> DEFINE T == {53, 54, 60, 97, 43, 210, 211}
  <1>10. reads(os, T, F) /\ codes(os) = T
    BY <1>9 DEF tells, reads
  <1>11. /\ valueOf(os, 54) = F[54] /\ valueOf(os, 97) = F[97] /\ valueOf(os, 43) = F[43]
         /\ valueOf(os, 210) = F[210] /\ valueOf(os, 211) = F[211]
    <2>1. 54 \in T /\ 97 \in T /\ 43 \in T /\ 210 \in T /\ 211 \in T
      OBVIOUS
    <2> HIDE DEF T
    <2> QED BY ONLY <1>10, <2>1, ReadsValue, SMTT(30), Z3T(30)
  <1>12. decode(valueOf(os, 43)) = <<[typ |-> 71, val |-> item]>>
    <2>1. decode(<<71, 4>> \o (item \o <<255>>)) = <<[typ |-> 71, val |-> item]>>
      BY ONLY <1>7, MirrorReads, SMTT(30), Z3T(30)
    <2>2. valueOf(os, 43) = <<71, 4>> \o (item \o <<255>>)
      BY <1>9, <1>11, Zenon DEF tells
    <2> QED BY ONLY <2>1, <2>2, ZenonT(30)
  <1>13. /\ valueOf(os, 54) = ip /\ valueOf(os, 97) = u
         /\ valueOf(os, 210) = HTTPServer[ip] /\ valueOf(os, 211) = <<0, 0, 0, 5>>
    BY <1>8, <1>9, <1>11, Zenon DEF tells
  <1>14. /\ sent.mac = cur.hdr.mac /\ sent.tid = cur.hdr.tid /\ sent.yiaddr = cur.hdr.ciaddr
         /\ codes(os) = T
    BY <1>1, <1>10, ZenonT(30)
  <1> QED BY ONLY <1>12, <1>13, <1>14, ZenonT(30) DEF PxeReplyReadsBack, os, ip, u, item, T

\* A ROM that selected a boot item as PXE defines it and reads the reply by its
\* lengths finds its transaction, address and GUID, the item it selected, the
\* path prefix of this server and the reboot timeout: for every packet, every
\* earlier content of the buffer, every address and every URL an option has
\* room for.
THEOREM PxeRepliesReadBack ==
  ASSUME UrlsFit
  PROVE  Spec => []PxeReplyReadsBack
  <1>1. PxeScanInv => PxeReplyReadsBack
    BY ReadsBack, ZenonT(30)
  <1> QED BY InitPxeScan, StepPxeScan, <1>1, PTL DEF Spec
=============================================================================
