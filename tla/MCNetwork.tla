------------------------------ MODULE MCNetwork -----------------------------
(***************************************************************************)
(* Networks for TLC.  Addresses have three bits; 01x, 10x and 11x are the  *)
(* networks of links.                                                      *)
(***************************************************************************)
EXTENDS NetworkHistory

CONSTANTS A, B, C, D, E, F, bc, zero    \* the MAC addresses of interfaces

MCMac == {A, B, C, D, E, F, bc, zero}
MCSlots == 0 .. 3
MCMacHash ==
  [m \in MCMac |-> IF m \in {bc, zero, E} THEN 0
                   ELSE IF m \in {A, D} THEN 1 ELSE IF m = B THEN 2 ELSE 3]
MCIpHash ==
  [a \in [1 .. 3 -> {0, 1}] |->
     IF a = <<0, 0, 0>> THEN 0
     ELSE IF a = <<0, 1, 1>> THEN 1
     ELSE IF a \in {<<1, 0, 1>>, <<1, 1, 0>>} THEN 2 ELSE 3]

MCPath == {"ab", "ba", "bc", "cb", "ca", "ac"}

Card(mac, addr, len) == [mac |-> mac, addr |-> addr, plen |-> len]
create(mac, addr, len, in, out_) ==
  [cmd |-> "create", card |-> Card(mac, addr, len), in |-> in, out |-> out_]
tcp(dst) == [cmd |-> "tcp", ifp |-> 1, dst |-> dst]
route(net, len, next) ==
  [cmd |-> "route", ifp |-> 1, dst |-> [net |-> net, plen |-> len], next |-> next]
fwdctl(l2, l3) == [cmd |-> "fwdctl", flags |-> [l2 |-> l2, l3 |-> l3]]
exit == [cmd |-> "exit"]

Net(commands, room) == [script |-> commands, space |-> room]
Times(n, c) == [i \in 1 .. n |-> c]

\* A router between two hosts (exercise 1).
Left == <<create(A, <<0, 1, 0>>, 2, "ab", "ba"), route(<<1, 0, 0>>, 2, <<0, 1, 1>>)>>
Router(b, c) ==
  <<create(b, <<0, 1, 1>>, 2, "ba", "ab"), create(c, <<1, 0, 0>>, 2, "bc", "cb"),
    fwdctl(FALSE, TRUE)>>
Right == <<create(D, <<1, 0, 1>>, 2, "cb", "bc"), route(<<0, 1, 0>>, 2, <<1, 0, 0>>)>>
ToRight(n) == Times(n, tcp(<<1, 0, 1>>))
ToLeft(n) == Times(n, tcp(<<0, 1, 0>>))

Routed == <<Left \o ToRight(3), Router(B, C), Right>>

\* The same with a SYN typed too early: there is no interface yet.
TypedEarly == <<Left \o ToRight(3), Router(B, C), ToLeft(1) \o Right>>

\* Packets both ways.
BothWays(n) == <<Left \o ToRight(n), Router(B, C), Right \o ToLeft(n)>>

\* The router restarts, with new MAC addresses, and then sends a SYN itself.
Restarted ==
  <<Left \o ToRight(3),
    Router(B, C) \o <<exit>> \o Router(E, F) \o ToLeft(1), Right>>

\* A bridge between two hosts (exercise 4); it may be a router as well.
Bridged(l3, n) ==
  <<<<create(A, <<0, 1, 0>>, 2, "ab", "ba")>> \o Times(3, tcp(<<0, 1, 1>>)),
    <<create(B, <<1, 0, 0>>, 2, "ba", "ab"), create(C, <<1, 0, 1>>, 2, "bc", "cb"),
      fwdctl(TRUE, l3)>>,
    <<create(D, <<0, 1, 1>>, 2, "cb", "bc")>> \o ToLeft(n)>>

\* Three routers in a ring: each takes the next one for the way to 001.
Ring ==
  <<<<create(A, <<0, 1, 0>>, 2, "ab", "ba"), create(F, <<1, 1, 0>>, 2, "ac", "ca"),
      fwdctl(FALSE, TRUE), route(<<0, 0, 0>>, 2, <<0, 1, 1>>)>>
       \o Times(2, tcp(<<0, 0, 1>>)),
    <<create(B, <<0, 1, 1>>, 2, "ba", "ab"), create(C, <<1, 0, 0>>, 2, "bc", "cb"),
      fwdctl(FALSE, TRUE), [route(<<0, 0, 0>>, 2, <<1, 0, 1>>) EXCEPT !.ifp = 2]>>,
    <<create(D, <<1, 0, 1>>, 2, "cb", "bc"), create(E, <<1, 1, 1>>, 2, "ca", "ac"),
      fwdctl(FALSE, TRUE), [route(<<0, 0, 0>>, 2, <<1, 1, 0>>) EXCEPT !.ifp = 2]>>>>

Networks ==
  {Net(Routed, 6), Net(TypedEarly, 1), Net(BothWays(2), 8), Net(Restarted, 8),
   Net(Bridged(FALSE, 0), 6), Net(Bridged(TRUE, 1), 8), Net(Ring, 4)}
NetworksBothWays == {Net(BothWays(1), 4)}
=============================================================================
