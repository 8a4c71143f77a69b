---------------------------- MODULE MCDhcpPacket ----------------------------
(* Packets and interfaces for the small instances of ProxyDhcp and Pxe. *)
EXTENDS DhcpPacket

opt(t, v) == [typ |-> t, val |-> v]
uuid(b) == [i \in 1 .. 17 |-> IF i = 1 THEN 0 ELSE b]

guid1 == opt(97, uuid(1))

\* A packet that ends within its header, and one that does not.
short(h, i) == [hdr |-> [h EXCEPT !.whole = FALSE], means |-> <<>>, wire |-> <<>>, iface |-> i]
packet(h, ms, t, i) == [hdr |-> h, means |-> ms, wire |-> encodeAll(ms) \o t, iface |-> i]

addr(scope, b) == [ipnet |-> TRUE, v4 |-> TRUE, ip |-> <<b, 0, 0, 1>>, scope |-> scope]

MCInterfaces ==
    <<<<addr("loopback", 127), addr("link-local", 169), addr("global", 10), addr("global", 192)>>,
      <<addr("other", 224), [addr("global", 8) EXCEPT !.v4 = FALSE], addr("loopback", 127),
        addr("link-local", 169)>>,
      <<[addr("global", 9) EXCEPT !.ipnet = FALSE], addr("loopback", 127)>>,
      <<>>>>
=============================================================================
