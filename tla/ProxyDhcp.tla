------------------------------ MODULE ProxyDhcp ------------------------------
(***************************************************************************)
(* The loop of ServeProxyDHCP: read a packet, ParseDHCP, ask the Booter,   *)
(* pick an address, answer with OfferDHCP (src/dhcp/dhcp.go).  ParseDHCP   *)
(* is taken option by option.  What the Booter says is left open: the      *)
(* module NetBoot models that.                                             *)
(***************************************************************************)
EXTENDS DhcpPacket

VARIABLES
    at,     \* where the loop is: "read", "header", "scan" or "answer"
    buf,    \* the option bytes of the one buffer
    hdr,    \* its first 240 bytes; TID and MAC of a request are slices of these
    opts,   \* the slice of buf still to be parsed
    guid,   \* ret.GUID, a slice of buf
    cur,    \* the packet read last; msg.IfIndex is its interface
    sent    \* the reply to it

vars == <<at, buf, hdr, opts, guid, cur, sent>>

None == [mac |-> "nobody"]

Init ==
    /\ at = "read"
    /\ buf = [i \in 1 .. BufLen |-> 0]
    /\ hdr = zeroHeader
    /\ cur = CHOOSE p \in Packets : TRUE
    /\ opts = nil /\ guid = nil
    /\ sent = None

-----------------------------------------------------------------------------
\* Mutant: the whole buffer is parsed, not the n bytes that were read.
Read_wholeBuffer(p) ==
    /\ at = "read"
    /\ at' = "header"
    /\ buf' = overwritten(buf, p) /\ hdr' = p.hdr
    /\ opts' = [lo |-> 0, hi |-> BufLen] /\ guid' = nil
    /\ cur' = p /\ sent' = None

\* Mutant: the next packet is read while the Booter decides on the last one.
Read_early(p) ==
    /\ at \in {"read", "answer"}
    /\ buf' = overwritten(buf, p) /\ hdr' = p.hdr
    /\ IF at = "answer"
       THEN UNCHANGED <<at, opts, guid, cur, sent>>
       ELSE /\ at' = "header"
            /\ opts' = [lo |-> 0, hi |-> received(p)] /\ guid' = nil
            /\ cur' = p /\ sent' = None

\* l.ReadFrom(buf)
Read(p) ==
    /\ at = "read"
    /\ at' = "header"
    /\ buf' = overwritten(buf, p) /\ hdr' = p.hdr
    /\ opts' = [lo |-> 0, hi |-> received(p)] /\ guid' = nil
    /\ cur' = p /\ sent' = None

\* The loop turns: what it held on to is gone.
turn == at' = "read" /\ opts' = nil /\ guid' = nil

\* ParseDHCP, up to the options.
ParseHeader ==
    /\ at = "header"
    /\ IF ~hdr.whole \/ hdr.op # 1 \/ (hdr.htype # 1 /\ hdr.hlen # 6) \/ ~hdr.magic
       THEN turn
       ELSE at' = "scan" /\ UNCHANGED <<opts, guid>>
    /\ UNCHANGED <<buf, hdr, cur, sent>>

\* Mutant: the length of a GUID is not looked at.
rejects_anyLength(typ, val) ==
    \/ typ = 53 /\ val # <<1>>
    \/ typ = 93 /\ val # <<0, 0>>
    \/ typ = 97 /\ val[1] # 0

\* The returns in the switch: not a DHCPDISCOVER, not an x86, malformed.
rejects(typ, val) ==
    \/ typ = 53 /\ val # <<1>>
    \/ typ = 93 /\ val # <<0, 0>>
    \/ typ = 97 /\ (Len(val) # 17 \/ val[1] # 0)

\* One turn of the option loop of ParseDHCP, or what follows the loop.
ScanOption ==
    LET o == DhcpOption(buf, opts)
    IN  /\ at = "scan"
        /\ \/ /\ o.typ = 255 /\ guid # nil
              /\ at' = "answer" /\ opts' = o.next /\ UNCHANGED guid
           \/ /\ o.typ = 255 /\ guid = nil
              /\ turn
           \/ /\ o.typ # 255 /\ rejects(o.typ, bytes(buf, o.val))
              /\ turn
           \/ /\ o.typ # 255 /\ ~rejects(o.typ, bytes(buf, o.val))
              /\ at' = "scan" /\ opts' = o.next
              /\ guid' = IF o.typ = 97 THEN [lo |-> o.val.lo + 1, hi |-> o.val.hi] ELSE guid
        /\ UNCHANGED <<buf, hdr, cur, sent>>

PXEClient == <<80, 88, 69, 67, 108, 105, 101, 110, 116>>
Pixiecore == <<80, 105, 120, 105, 101, 99, 111, 114, 101>>

\* Discovery control, the boot server, the menu of that server, the prompt.
pxeVendor(ip) ==
    <<6, 1, 3>> \o <<8, 7, 128, 0, 1>> \o ip
        \o <<9, 12, 128, 0, 9>> \o Pixiecore \o <<10, 10, 0>> \o Pixiecore \o <<255>>

\* The options of an offer with address ip to the machine with GUID g.
offerOptions(ip, g) ==
    <<53, 1, 2>> \o <<54, 4>> \o ip \o <<60, 9>> \o PXEClient \o <<97, 17, 0>> \o g
        \o <<43, Len(pxeVendor(ip)) % 256>> \o pxeVendor(ip) \o <<255>>

OfferDHCP(ip) ==
    [mac |-> hdr.mac, tid |-> hdr.tid, options |-> offerOptions(ip, bytes(buf, guid))]

\* The rest of the loop: the Booter's verdict, the address, the offer.  The
\* write may fail, which changes nothing but the log.
Answer(shouldBoot, written) ==
    LET ip == InterfaceIP(Interfaces[cur.iface])
    IN  /\ at = "answer"
        /\ turn
        /\ sent' = IF shouldBoot /\ ip # NoIP /\ written THEN OfferDHCP(ip) ELSE sent
        /\ UNCHANGED <<buf, hdr, cur>>

Handle ==
    \/ ParseHeader
    \/ ScanOption
    \/ \E shouldBoot, written \in BOOLEAN : Answer(shouldBoot, written)

Next ==
    \/ \E p \in Packets : Read(p)
    \/ Handle

Spec == Init /\ [][Next]_vars /\ WF_vars(Handle)

-----------------------------------------------------------------------------
\* The loop is at one of its places, the buffer keeps its size, and a GUID is
\* the 16 bytes OfferDHCP has room for.
ProxyTypeOK ==
    /\ at \in {"read", "header", "scan", "answer"}
    /\ buf \in Seq(Byte) /\ Len(buf) = BufLen
    /\ cur \in Packets
    /\ opts \in Slice /\ guid \in Slice
    /\ guid # nil => guid.hi - guid.lo = 16

\* Nothing ParseDHCP holds on to reaches beyond the bytes of the packet just
\* read, where the buffer still has those of an earlier one.
InBounds ==
    at # "read" => \A s \in {opts, guid} : s.lo <= s.hi /\ s.hi <= received(cur)

isGuid(v) == Len(v) = 17 /\ v[1] = 0

\* What ParseDHCP accepts, told from the options the packet means: a request
\* with a GUID in which nothing contradicts the DHCPDISCOVER of an x86 PXE ROM.
\* Options 53 and 93 may be missing, and one of the two PHY fields may be wrong.
Acceptable(p) ==
    /\ p.hdr.whole /\ p.hdr.op = 1 /\ p.hdr.magic
    /\ p.hdr.htype = 1 \/ p.hdr.hlen = 6
    /\ \A i \in withTyp(p, 53) : p.means[i].val = <<1>>
    /\ \A i \in withTyp(p, 93) : p.means[i].val = <<0, 0>>
    /\ \A i \in withTyp(p, 97) : isGuid(p.means[i].val)
    /\ withTyp(p, 97) # {}

\* ParseDHCP goes by the options the packet means and by its header alone: it
\* accepts exactly the packets that are Acceptable, whatever the buffer held
\* before, wherever the packet is cut off, and whatever order its options have
\* and however often they come.
DecidesRight ==
    [][(at \in {"header", "scan"} /\ at' \in {"read", "answer"})
       => (at' = "answer" <=> Acceptable(cur))]_vars

\* A ROM that reads the offer by its lengths finds its own transaction and
\* GUID, the server's address, and vendor options in which the menu leads to
\* the boot server the offer lists: OfferDHCP's hand-written lengths agree
\* with what is written, and no byte of another packet gets in.
OfferReadsBack ==
    sent # None =>
        LET os == decode(sent.options)
            vs == decode(valueOf(os, 43))
        IN  /\ sent.mac = cur.hdr.mac /\ sent.tid = cur.hdr.tid
            /\ codes(os) = {53, 54, 60, 97, 43}
            /\ valueOf(os, 97) = lastVal(cur, 97)
            /\ codes(vs) = {6, 8, 9, 10}
            /\ valueOf(vs, 8) = SubSeq(valueOf(vs, 9), 1, 2) \o <<1>> \o valueOf(os, 54)
            /\ valueOf(vs, 9)[3] = Len(valueOf(vs, 9)) - 3

\* The address in an offer is one of the interface the request came by, and
\* the interface has none of a kind that InterfaceIP prefers.
ServesBestAddress ==
    sent # None =>
        LET addrs == {a \in Range(Interfaces[cur.iface]) : usable(a)}
            scopes == {a.scope : a \in addrs}
        IN  \E a \in addrs :
                /\ a.ip = valueOf(decode(sent.options), 54)
                /\ \/ a.scope = "global"
                   \/ a.scope = "link-local" /\ "global" \notin scopes
                   \/ a.scope = "loopback" /\ scopes \subseteq {"loopback", "other"}

\* The loop is back at its read after any packet: the option loop ends.
ScanEnds == at # "read" ~> at = "read"
=============================================================================
