---------------------------- MODULE MCProxyDhcp -----------------------------
(* A small instance of ProxyDhcp. *)
EXTENDS ProxyDhcp, MCDhcpPacket

discover == opt(53, <<1>>)
x86      == opt(93, <<0, 0>>)
guid2    == opt(97, uuid(97))

\* Well-formed and other options; the last has bytes that look like codes.
Menu == {discover, opt(53, <<3>>), opt(53, <<>>), x86, opt(93, <<0, 7>>), opt(93, <<0>>),
         guid1, guid2, opt(97, <<0>>), opt(12, <<97, 17>>)}

\* No option, one, two around a GUID, and some whole requests.
Means == {<<>>} \cup {<<o>> : o \in Menu} \cup {<<o, guid2>> : o \in {discover, opt(53, <<3>>), opt(93, <<0, 7>>), guid1}}
             \cup {<<discover, x86, guid1>>, <<guid2, x86, discover>>,
                   <<discover, guid1, opt(53, <<3>>)>>}

\* Nothing, or a cut-off GUID one byte short.
Tails == {<<>>, SubSeq(encode(guid1), 1, 18)}

header(htype, hlen) ==
    [whole |-> TRUE, op |-> 1, htype |-> htype, hlen |-> hlen, tid |-> "t1", mac |-> "m1",
     magic |-> TRUE]
ethernet == header(1, 6)

\* A whole request fits exactly; with two GUIDs the second is cut off.
MCBufLen == 26

request(h, i) == packet(h, <<discover, x86, guid1>>, <<255>>, i)

MCPackets ==
    {short(ethernet, 1)}
    \cup {packet(ethernet, ms, t, 1) : ms \in Means, t \in Tails}
    \cup {request(ethernet, i) : i \in 1 .. 4}
    \cup {request(h, 1) : h \in {header(6, 8), header(1, 8), header(6, 6),
             [ethernet EXCEPT !.op = 2], [ethernet EXCEPT !.magic = FALSE],
             [ethernet EXCEPT !.tid = "t2", !.mac = "m2"]}}
=============================================================================
