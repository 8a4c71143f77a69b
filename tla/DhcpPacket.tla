----------------------------- MODULE DhcpPacket -----------------------------
(***************************************************************************)
(* What the ProxyDHCP and the PXE server share: DHCP packets as bytes, the *)
(* buffer they are read into, DhcpOption and InterfaceIP (src/dhcp/dhcp.go).*)
(*                                                                         *)
(* A packet is its fixed header, as a record, and the bytes after the      *)
(* magic number.  The options a machine means and the bytes it sends are   *)
(* both kept: parsing has to recover the first from the second.  Whether   *)
(* the header is whole, which makes 240 bytes, is a field of that record: a *)
(* shorter packet leaves no option bytes.                                  *)
(***************************************************************************)
EXTENDS Integers, Sequences, FiniteSetsExt

CONSTANTS
    Packets,    \* what may arrive at the port
    BufLen,     \* room for option bytes in the buffer (784 = 1024 - 240 in the code)
    Interfaces  \* the addresses of each network interface, in the system's order

Byte == 0 .. 255
\* An address that To4 does not refuse is the 4 bytes it returns.
Address == {a \in [ipnet : BOOLEAN, v4 : BOOLEAN, ip : Seq(Byte),
                   scope : {"global", "link-local", "loopback", "other"}] :
               a.v4 => Len(a.ip) = 4}

\* An option, and a vendor option, which has options in its value.
Option == [typ : Byte \ {255}, val : Seq(Byte)]
VendorOption == [typ : {43}, val : Seq(Byte), sub : Seq(Option)]

encode(o) == <<o.typ, Len(o.val)>> \o o.val

\* The bytes of the first i options of os, for each i, and those of all.
encoded(os) ==
    LET upto[i \in 0 .. Len(os)] == IF i = 0 THEN <<>> ELSE upto[i - 1] \o encode(os[i])
    IN  upto
encodeAll(os) == encoded(os)[Len(os)]

\* The bytes b are the options os, then a tail that holds no whole option:
\* nothing, the end mark and padding, or a cut-off option.
encodes(os, b) ==
    LET end == Len(encodeAll(os))
    IN  /\ end <= Len(b) /\ SubSeq(b, 1, end) = encodeAll(os)
        /\ \/ Len(b) < end + 2
           \/ b[end + 1] = 255
           \/ Len(b) < end + 2 + b[end + 2]

\* A packet p has the header p.hdr and comes in by interface p.iface.  Its
\* option bytes p.wire encode the options p.means.
wellFormed(p) ==
    /\ p.wire \in Seq(Byte) /\ p.means \in Seq(Option \cup VendorOption)
    /\ encodes(p.means, p.wire)
    /\ \A i \in DOMAIN p.means : p.means[i].typ = 43 =>
          p.means[i] \in VendorOption /\ encodes(p.means[i].sub, p.means[i].val)
    /\ p.iface \in DOMAIN Interfaces
    /\ ~p.hdr.whole => p.wire = <<>>

ASSUME DhcpAssumption ==
    /\ BufLen \in Nat
    /\ Packets # {}
    /\ \A i \in DOMAIN Interfaces : Interfaces[i] \in Seq(Address)
    /\ \A p \in Packets : wellFormed(p)

-----------------------------------------------------------------------------
(* The buffer.  One buffer serves all packets of a loop: ReadFrom leaves   *)
(* the bytes beyond the n it has read as they were, and what the parsers   *)
(* return are slices of it.  A slice is its bounds lo, hi: bytes lo + 1 to *)
(* hi.  No option's value starts at 0, so that bound is nil.               *)

Slice == [lo : Nat, hi : Nat]
nil == [lo |-> 0, hi |-> 0]
bytes(b, s) == SubSeq(b, s.lo + 1, s.hi)

\* What make fills the buffer with: no request has such a header.
zeroHeader == [whole |-> FALSE, op |-> 0, htype |-> 0, hlen |-> 0, magic |-> FALSE]

received(p) == IF Len(p.wire) < BufLen THEN Len(p.wire) ELSE BufLen
overwritten(b, p) == SubSeq(p.wire, 1, received(p)) \o SubSeq(b, received(p) + 1, BufLen)

\* Mutant: the length is compared without the two bytes before the value.
DhcpOption_short(b, s) ==
    LET len == s.hi - s.lo
        l   == b[s.lo + 2]
        end == [typ |-> 255, val |-> nil, next |-> nil]
    IN  IF len < 2 THEN end
        ELSE IF b[s.lo + 1] = 255 \/ len < l THEN end
        ELSE [typ  |-> b[s.lo + 1],
              val  |-> [lo |-> s.lo + 2, hi |-> s.lo + 2 + l],
              next |-> [lo |-> s.lo + 2 + l, hi |-> s.hi]]

\* Mutant: the next option is taken to start l bytes on.
DhcpOption_stuck(b, s) ==
    LET len == s.hi - s.lo
        l   == b[s.lo + 2]
        end == [typ |-> 255, val |-> nil, next |-> nil]
    IN  IF len < 2 THEN end
        ELSE IF b[s.lo + 1] = 255 \/ len < l + 2 THEN end
        ELSE [typ  |-> b[s.lo + 1],
              val  |-> [lo |-> s.lo + 2, hi |-> s.lo + 2 + l],
              next |-> [lo |-> s.lo + l, hi |-> s.hi]]

\* The first option in slice s of buffer b, and what follows it.
DhcpOption(b, s) ==
    LET len == s.hi - s.lo
        l   == b[s.lo + 2]
        end == [typ |-> 255, val |-> nil, next |-> nil]
    IN  IF len < 2 THEN end
        ELSE IF b[s.lo + 1] = 255 \/ len < l + 2 THEN end
        ELSE [typ  |-> b[s.lo + 1],
              val  |-> [lo |-> s.lo + 2, hi |-> s.lo + 2 + l],
              next |-> [lo |-> s.lo + 2 + l, hi |-> s.hi]]

\* The options of p that are in the buffer as a whole.
fitting(p) ==
    {i \in DOMAIN p.means : Len(encoded(p.means)[i]) <= BufLen}
\* Those of them with code t, and the last one's value.
withTyp(p, t) == {i \in fitting(p) : p.means[i].typ = t}
lastVal(p, t) == p.means[CHOOSE i \in withTyp(p, t) : \A j \in withTyp(p, t) : j <= i].val

-----------------------------------------------------------------------------
(* The address a server gives for itself.                                  *)

NoIP == <<>>
usable(a) == a.ipnet /\ a.v4
prefer == <<"global", "link-local", "loopback">>

\* Mutant: the loops are swapped, so the first address wins.
InterfaceIP_first(addrs) ==
    LET fit == {i \in DOMAIN addrs : usable(addrs[i]) /\ addrs[i].scope # "other"}
    IN  IF fit = {} THEN NoIP ELSE addrs[Min(fit)].ip

\* "global unicast (includes rfc1918), link-local unicast, loopback"
InterfaceIP(addrs) ==
    LET of(f) == {i \in DOMAIN addrs : usable(addrs[i]) /\ addrs[i].scope = prefer[f]}
        fs    == {f \in DOMAIN prefer : of(f) # {}}
    IN  IF fs = {} THEN NoIP ELSE addrs[Min(of(Min(fs)))].ip

-----------------------------------------------------------------------------
(* How a machine reads the options of a reply (RFC 2132): it stops at 255, *)
(* and a length that points beyond the end makes no option.                *)

Malformed == [typ |-> -1, val |-> <<>>]

\* What is read from the i-th byte on, for each i, and from the first on.
decoded(b) ==
    LET from[i \in 1 .. Len(b) + 1] ==
            IF i > Len(b) THEN <<Malformed>>
            ELSE IF b[i] = 255 THEN <<>>
            ELSE IF i = Len(b) THEN <<Malformed>>
            ELSE IF i + 1 + b[i + 1] > Len(b) THEN <<Malformed>>
            ELSE <<[typ |-> b[i], val |-> SubSeq(b, i + 2, i + 1 + b[i + 1])]>>
                     \o from[i + 2 + b[i + 1]]
    IN  from
decode(b) == decoded(b)[1]

\* The value of the option with code t, and the codes there are.
valueOf(os, t) == os[CHOOSE i \in DOMAIN os : os[i].typ = t].val
codes(os) == {os[i].typ : i \in DOMAIN os}
=============================================================================
