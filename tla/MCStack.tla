------------------------------ MODULE MCStack -------------------------------
(***************************************************************************)
(* Instances of StackHistory for TLC.  Addresses have three bits; 01x and  *)
(* 10x are the networks of two interfaces, 11x is behind a gateway.        *)
(***************************************************************************)
EXTENDS StackHistory

CONSTANTS A, B, m1, m2, m3, bc, zero    \* interface and station MACs

MCMac == {A, B, m1, m2, m3, bc, zero}

\* m1 and m2 share a slot of the MAC table.
MCSlots == 0 .. 3
MCMacHash ==
  [m \in MCMac |-> IF m \in {bc, zero} THEN 0 ELSE IF m = m3 THEN 2 ELSE 1]

\* The XOR of the bits of an address, two by two: 011 and 101 get slots of
\* their own, 110 shares the one of 101.
MCIpHash ==
  [a \in Addr |-> IF a = INADDR_ANY THEN 0
                  ELSE IF a = <<0, 1, 1>> THEN 1
                  ELSE IF a \in {<<1, 0, 1>>, <<1, 1, 0>>} THEN 2 ELSE 3]

CardA == [mac |-> A, addr |-> <<0, 1, 0>>, plen |-> 2]
CardB == [mac |-> B, addr |-> <<1, 0, 0>>, plen |-> 2]

Net(bits, len) == [net |-> bits, plen |-> len]

\* A gateway for all of 1xx, the network 10x within it has an interface of its own.
Half == [dst |-> Net(<<1, 0, 0>>, 1), next |-> <<0, 1, 1>>]

NoRoutes == {}
NoAddr == {}

Ip(mac, dst, ttl) ==
  [dst |-> mac, src |-> m1, type |-> "IP",
   pl |-> [src |-> <<1, 1, 1>>, dst |-> dst, ttl |-> ttl, proto |-> "TCP"]]
ArpIs(mac, op, sha, spa, tpa) ==
  [dst |-> mac, src |-> sha, type |-> "ARP",
   pl |-> [op |-> op, sha |-> sha, spa |-> spa, tpa |-> tpa]]

L3Only == {[l2 |-> FALSE, l3 |-> l3] : l3 \in BOOLEAN}
L2AndBoth == {[l2 |-> TRUE, l3 |-> l3] : l3 \in BOOLEAN}

\* A router between 01x and 10x: packets in transit, requests and replies.
RouterCards == {CardA, CardB}
RouterFrames ==
  {Ip(A, <<0, 1, 1>>, 1), Ip(A, <<1, 0, 1>>, 2),
   ArpIs(A, "reply", m1, <<0, 1, 1>>, <<0, 1, 0>>),
   ArpIs(A, "reply", m2, <<1, 0, 1>>, <<0, 1, 0>>),
   ArpIs(bc, "request", m2, <<0, 1, 1>>, <<0, 1, 0>>),
   ArpIs(bc, "request", m2, <<1, 1, 0>>, <<0, 1, 0>>),
   ArpIs(A, "other", m1, <<0, 1, 1>>, <<0, 1, 0>>)}
RouterRoutes == {Half}
RouterTcp == {<<0, 1, 1>>, <<1, 0, 1>>}

\* A bridge that may be a router as well: frames that only the bridge looks at,
\* from stations in one slot and from the broadcast address; and packets and ARP
\* that are bridged, routed or both.
BridgeCards == {CardA, CardB}
BothFrames ==
  [dst : {bc, m1, A, zero}, src : {m1, m2, bc}, type : {"other"}] \cup
  {Ip(bc, <<1, 0, 1>>, 2), Ip(m1, <<1, 0, 1>>, 2),
   ArpIs(bc, "reply", m1, <<1, 0, 1>>, <<0, 1, 0>>),
   ArpIs(bc, "request", m2, <<1, 0, 1>>, <<0, 1, 0>>)}
=============================================================================
