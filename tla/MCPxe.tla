------------------------------- MODULE MCPxe --------------------------------
(* A small instance of Pxe. *)
EXTENDS Pxe, MCDhcpPacket

nest(sub, t) == [typ |-> 43, val |-> encodeAll(sub) \o t, sub |-> sub]

guid71 == opt(97, uuid(71))
item1 == opt(71, <<128, 0, 0, 0>>)
item2 == opt(71, <<0, 71, 4, 1>>)

\* Vendor options: an item, two of them, one after another option, an item of
\* another length, an empty item, none, one cut off.
Vendor == {nest(<<item1>>, <<255>>), nest(<<item1, item2>>, <<>>),
           nest(<<opt(8, <<71>>), item2>>, <<255>>), nest(<<opt(71, <<1>>)>>, <<255>>),
           nest(<<opt(71, <<>>)>>, <<>>), nest(<<>>, <<255>>), nest(<<opt(8, <<1>>)>>, <<71, 4>>)}

\* Either order of GUID and selection, and what makes a request wrong.
Means == {<<opt(97, <<0>>)>>, <<nest(<<item1>>, <<255>>)>>}
             \cup {<<v, guid1>> : v \in Vendor} \cup {<<guid71, v>> : v \in Vendor}
             \cup {<<nest(<<item2>>, <<>>), guid71, nest(<<opt(8, <<1>>)>>, <<>>)>>,
                   <<nest(<<item2>>, <<>>), guid1, nest(<<item1>>, <<>>)>>}

\* An option 43 cut off one byte short.
cut == SubSeq(encode(nest(<<item1>>, <<>>)), 1, 7)

\* The longest of these requests is cut off in its last option.
MCBufLen == 33

header == [whole |-> TRUE, tid |-> "t1", mac |-> "m1", ciaddr |-> "c1", magic |-> TRUE]
request(h, i) == packet(h, <<nest(<<item1>>, <<255>>), guid1>>, <<255>>, i)

MCPackets ==
    {short(header, 1)}
    \cup {packet(header, ms, <<>>, 1) : ms \in Means}
    \cup {packet(header, <<g>>, cut, 1) : g \in {guid1, guid71}}
    \cup {request(header, i) : i \in {2, 4}}
    \cup {request(h, 1) : h \in {[header EXCEPT !.magic = FALSE],
             [header EXCEPT !.tid = "t2", !.mac = "m2", !.ciaddr = "c2"]}}

\* One URL for each address, told apart by its last byte.
MCHTTPServer == [ip \in {<<b, 0, 0, 1>> : b \in Byte} |-> <<104, 116, 116, 112, 47, ip[1]>>]

\* What the proof about ReplyPXE takes for granted of the URLs.
ASSUME UrlsAssumption == UrlsFit
=============================================================================
