--------------------------------- MODULE Pxe ---------------------------------
(***************************************************************************)
(* The loop of ServePXE: read a packet, ParsePXE, pick an address, answer  *)
(* with ReplyPXE (src/pxe/pxe.go).  ParsePXE is taken option by option,    *)
(* the vendor options nested in option 43 included.  An option 43 of a     *)
(* packet also says what it means: its sub is the sequence of options that *)
(* its value encodes.                                                      *)
(***************************************************************************)
EXTENDS DhcpPacket

CONSTANT HTTPServer  \* the bytes of "http://%s:%d/" for each address

VARIABLES
    at,        \* where the loop is: "read", "header", "scan", "vendor" or "answer"
    buf,       \* the option bytes of the one buffer
    hdr,       \* its first 240 bytes; TID, MAC and ClientIP are slices of these
    opts,      \* the slice of buf still to be parsed
    vendor,    \* in the inner loop, the slice of option 43 still to be parsed
    guid,      \* ret.GUID, a slice of buf
    bootType,  \* ret.BootType, a slice of buf
    cur,       \* the packet read last; msg.IfIndex is its interface
    sent       \* the reply to it

slices == <<opts, vendor, guid, bootType>>
vars == <<at, buf, hdr, slices, cur, sent>>

None == [mac |-> "nobody"]

Init ==
    /\ at = "read"
    /\ buf = [i \in 1 .. BufLen |-> 0]
    /\ hdr = zeroHeader
    /\ cur = CHOOSE p \in Packets : TRUE
    /\ opts = nil /\ vendor = nil /\ guid = nil /\ bootType = nil
    /\ sent = None

-----------------------------------------------------------------------------
\* l.ReadFrom(buf)
Read(p) ==
    /\ at = "read"
    /\ at' = "header"
    /\ buf' = overwritten(buf, p) /\ hdr' = p.hdr
    /\ opts' = [lo |-> 0, hi |-> received(p)]
    /\ cur' = p /\ sent' = None
    /\ UNCHANGED <<vendor, guid, bootType>>

\* Mutant: the boot type of the last request is not forgotten.
turn_keepsType ==
    at' = "read" /\ opts' = nil /\ vendor' = nil /\ guid' = nil /\ UNCHANGED bootType

\* The loop turns: what it held on to is gone.
turn ==
    at' = "read" /\ opts' = nil /\ vendor' = nil /\ guid' = nil /\ bootType' = nil

\* ParsePXE, up to the options.
ParseHeader ==
    /\ at = "header"
    /\ IF hdr.whole /\ hdr.magic THEN at' = "scan" /\ UNCHANGED slices ELSE turn
    /\ UNCHANGED <<buf, hdr, cur, sent>>

badGuid(val) == Len(val) # 17 \/ val[1] # 0

\* One turn of the outer loop of ParsePXE, or what follows the loop.
ScanOption ==
    LET o == DhcpOption(buf, opts)
    IN  /\ at = "scan"
        /\ \/ o.typ = 255 /\ (guid = nil \/ bootType = nil) /\ turn
           \/ /\ o.typ = 255 /\ guid # nil /\ bootType # nil
              /\ at' = "answer" /\ opts' = o.next /\ UNCHANGED <<vendor, guid, bootType>>
           \/ /\ o.typ = 43
              /\ at' = "vendor" /\ opts' = o.next /\ UNCHANGED <<guid, bootType>>
              /\ vendor' = o.val
           \/ o.typ = 97 /\ badGuid(bytes(buf, o.val)) /\ turn
           \/ /\ o.typ = 97 /\ ~badGuid(bytes(buf, o.val))
              /\ at' = "scan" /\ opts' = o.next
              /\ guid' = [lo |-> o.val.lo + 1, hi |-> o.val.hi] /\ UNCHANGED <<vendor, bootType>>
           \/ /\ o.typ \notin {255, 43, 97}
              /\ at' = "scan" /\ opts' = o.next /\ UNCHANGED <<vendor, guid, bootType>>
        /\ UNCHANGED <<buf, hdr, cur, sent>>

\* Mutant: the inner loop assigns to opts, as a missing := would make it.
ScanVendor_shared ==
    LET o == DhcpOption(buf, vendor)
    IN  /\ at = "vendor"
        /\ at' = IF o.typ \in {255, 71} THEN "scan" ELSE "vendor"
        /\ vendor' = o.next /\ opts' = o.next
        /\ bootType' = IF o.typ = 71 THEN o.val ELSE bootType
        /\ UNCHANGED <<buf, hdr, guid, cur, sent>>

\* Mutant: the inner loop does not take the next option.
ScanVendor_stuck ==
    LET o == DhcpOption(buf, vendor)
    IN  /\ at = "vendor"
        /\ at' = IF o.typ \in {255, 71} THEN "scan" ELSE "vendor"
        /\ bootType' = IF o.typ = 71 THEN o.val ELSE bootType
        /\ UNCHANGED <<buf, hdr, opts, vendor, guid, cur, sent>>

\* One turn of the inner loop, up to the first option 71.
ScanVendor ==
    LET o == DhcpOption(buf, vendor)
    IN  /\ at = "vendor"
        /\ at' = IF o.typ \in {255, 71} THEN "scan" ELSE "vendor"
        /\ vendor' = o.next
        /\ bootType' = IF o.typ = 71 THEN o.val ELSE bootType
        /\ UNCHANGED <<buf, hdr, opts, guid, cur, sent>>

PXEClient == <<80, 88, 69, 67, 108, 105, 101, 110, 116>>

\* Mutant: the end mark is not counted in the length of option 43.
mirror_noEnd(item) == <<43, 6, 71, 4>> \o item \o <<255>>

\* "Mirror the menu selection back at the client"
mirror(item) == <<43, 7, 71, 4>> \o item \o <<255>>

\* The options of a reply by ip to the machine with GUID g that selected item.
replyOptions(ip, g, item) ==
    <<53, 1, 5>> \o <<54, 4>> \o ip \o <<60, 9>> \o PXEClient \o <<97, 17, 0>> \o g
        \o mirror(item) \o <<210, Len(HTTPServer[ip]) % 256>> \o HTTPServer[ip]
        \o <<211, 4, 0, 0, 0, 5>> \o <<255>>

ReplyPXE(ip) ==
    [mac |-> hdr.mac, tid |-> hdr.tid, yiaddr |-> hdr.ciaddr, siaddr |-> ip,
     options |-> replyOptions(ip, bytes(buf, guid), bytes(buf, bootType))]

\* The rest of the loop.  The write may fail, which changes only the log.
Answer(written) ==
    LET ip == InterfaceIP(Interfaces[cur.iface])
    IN  /\ at = "answer"
        /\ turn
        /\ sent' = IF ip # NoIP /\ written THEN ReplyPXE(ip) ELSE sent
        /\ UNCHANGED <<buf, hdr, cur>>

Handle ==
    \/ ParseHeader
    \/ ScanOption
    \/ ScanVendor
    \/ \E written \in BOOLEAN : Answer(written)

Next ==
    \/ \E p \in Packets : Read(p)
    \/ Handle

Spec == Init /\ [][Next]_vars /\ WF_vars(Handle)

-----------------------------------------------------------------------------
\* The loop is at one of its places, and the buffer keeps its size; when the
\* loop is at its read it holds nothing of an earlier request.
PxeTypeOK ==
    /\ at \in {"read", "header", "scan", "vendor", "answer"}
    /\ buf \in Seq(Byte) /\ Len(buf) = BufLen
    /\ cur \in Packets
    /\ {opts, vendor, guid, bootType} \subseteq Slice
    /\ at \in {"read", "header"} => vendor = nil /\ guid = nil /\ bootType = nil

\* Nothing ParsePXE holds on to reaches beyond the bytes of the packet just
\* read, and the inner loop stays within the option it is in.
PxeInBounds ==
    at # "read" => /\ \A s \in {opts, vendor, guid, bootType} :
                          s.lo <= s.hi /\ s.hi <= received(cur)
                   /\ at = "vendor" => vendor.hi <= opts.lo

\* The options 43 of p with a boot item, and the first item of the last one.
selections(p) == {i \in withTyp(p, 43) : \E j \in DOMAIN p.means[i].sub : p.means[i].sub[j].typ = 71}
selected(p) ==
    LET sub == p.means[Max(selections(p))].sub
    IN  sub[Min({j \in DOMAIN sub : sub[j].typ = 71})].val

\* What ParsePXE should accept, told from the options the packet means.
Selects(p) ==
    /\ p.hdr.whole /\ p.hdr.magic
    /\ \A i \in withTyp(p, 97) : ~badGuid(p.means[i].val)
    /\ withTyp(p, 97) # {} /\ selections(p) # {}

\* ParsePXE accepts a request exactly when its options hold a GUID, every GUID
\* in it is well formed, and a boot item has been selected, whatever the buffer
\* held before, wherever the packet is cut off and however the options nest.
PxeDecidesRight ==
    [][(at \in {"header", "scan"} /\ at' \in {"read", "answer"})
       => (at' = "answer" <=> Selects(cur))]_vars

\* The URL of each address the server may give fits in an option: it has 29
\* bytes at most, as in http://255.255.255.255:65535/.
UrlsFit ==
    \A i \in DOMAIN Interfaces :
        LET ip == InterfaceIP(Interfaces[i])
        IN  ip # NoIP => HTTPServer[ip] \in Seq(Byte) /\ Len(HTTPServer[ip]) < 256

\* A ROM that selected a boot item as PXE defines it (type and layer, 2 bytes
\* each) and reads the reply by its lengths finds its transaction, address and
\* GUID, the item it selected ("mirror the menu selection back at the
\* client"), the path prefix of this server and the reboot timeout.
PxeReplyReadsBack ==
    (sent # None /\ Len(selected(cur)) = 4) =>
        LET os == decode(sent.options)
        IN  /\ sent.mac = cur.hdr.mac /\ sent.tid = cur.hdr.tid
            /\ sent.yiaddr = cur.hdr.ciaddr
            /\ codes(os) = {53, 54, 60, 97, 43, 210, 211}
            /\ valueOf(os, 54) = sent.siaddr
            /\ valueOf(os, 97) = lastVal(cur, 97)
            /\ decode(valueOf(os, 43)) = <<[typ |-> 71, val |-> selected(cur)]>>
            /\ valueOf(os, 210) = HTTPServer[sent.siaddr]
            /\ valueOf(os, 211) = <<0, 0, 0, 5>>

\* The loop is back at its read after any packet: both option loops end.
PxeScanEnds == at # "read" ~> at = "read"
=============================================================================
