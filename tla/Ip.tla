--------------------------------- MODULE Ip ---------------------------------
(***************************************************************************)
(* ip.c and the output half of tcp.c: the routing table and the IPv4       *)
(* paths.  The poptrie is seen here through its contract, a longest-prefix *)
(* match over the routes it accepted (rib) and a table of next hops with   *)
(* room for FibSize entries of which fib_n are taken; fib is the list that *)
(* print_route shows.                                                      *)
(***************************************************************************)
EXTENDS Arp

CONSTANT FibSize        \* POPTRIE_INIT_FIB_SIZE: 4096 in the program

ASSUME IpAssumption == FibSize \in Nat \ {0}

VARIABLES
  rib,          \* prefix -> struct rtentry, for the routes in the poptrie
  fib_n,        \* next hop slots taken, the one of "no route" included
  fib,          \* list of struct fibentry, the newest first
  delivered     \* what the last event passed to tcp_input or udp_input

RtEntry == [ifp : Nat \ {NULL}, addr : Addr]
FibEntry == [ifp : Nat \ {NULL}, nextip : Addr, dst : Prefix]

IpTypeOK ==
  /\ DOMAIN rib \subseteq Prefix
  /\ \A p \in DOMAIN rib : rib[p] \in [ifp : Interfaces, addr : Addr]
  /\ fib_n \in 1 .. FibSize
  /\ fib \in Seq(FibEntry)
  /\ delivered \in Seq(IpPacket)

\* Mutants: a new route replaces the old one; a slot beyond the last is taken.
route_add_Replace(ifp, next, p) ==
  /\ rib' = IF fib_n < FibSize
            THEN [q \in DOMAIN rib \cup {p} |->
                    IF q = p THEN [ifp |-> ifp, addr |-> next] ELSE rib[q]]
            ELSE rib
  /\ fib_n' = IF fib_n < FibSize THEN fib_n + 1 ELSE fib_n
  /\ fib' = <<[ifp |-> ifp, nextip |-> next, dst |-> p]>> \o fib
route_add_OneMore(ifp, next, p) ==
  /\ fib_n' = IF fib_n <= FibSize THEN fib_n + 1 ELSE fib_n
  /\ fib' = <<[ifp |-> ifp, nextip |-> next, dst |-> p]>> \o fib
  /\ UNCHANGED rib

\* poptrie_route_add takes a next hop slot before it looks at the prefix (the
\* rtentry is fresh, so no slot already holds it) and fails when no slot is
\* left or when the prefix has a route; route_add ignores the result.
route_add(ifp, next, p) ==
  /\ rib' = IF fib_n < FibSize /\ p \notin DOMAIN rib
            THEN [q \in DOMAIN rib \cup {p} |->
                    IF q = p THEN [ifp |-> ifp, addr |-> next] ELSE rib[q]]
            ELSE rib
  /\ fib_n' = IF fib_n < FibSize THEN fib_n + 1 ELSE fib_n
  /\ fib' = <<[ifp |-> ifp, nextip |-> next, dst |-> p]>> \o fib

\* route_lookup: the routes with the longest match, one or none.
route_lookup(addr) == {rib[p] : p \in Longest(DOMAIN rib, addr)}

\* What a path through the IPv4 code leaves behind: entries for the head of
\* the send buffer, frames sent, and packets handed to the transport layer.
Drop == [queue |-> <<>>, sent |-> <<>>, up |-> <<>>]

\* The end of ipv4_input, for a packet to this host.
Deliver(pkt) == IF pkt.proto = "other" THEN Drop ELSE [Drop EXCEPT !.up = <<pkt>>]

\* Mutant: only the first packet in the buffer asks.
Await_AskOnce(ifp, nextip, pkt) ==
  [Drop EXCEPT
     !.sent  = IF sbuf = <<>> THEN <<arp_req(ifp, nextip)>> ELSE <<>>,
     !.queue = <<[nextip |-> nextip, shost |-> ifs[ifp].mac, pkt |-> pkt]>>]

\* The next hop is not in the ARP table: ask for it, and keep the packet.
Await(ifp, nextip, pkt) ==
  [Drop EXCEPT
     !.sent  = <<arp_req(ifp, nextip)>>,
     !.queue = <<[nextip |-> nextip, shost |-> ifs[ifp].mac, pkt |-> pkt]>>]

\* Mutant: a packet does not grow older.
Route_Ageless(entry, pkt) ==
  LET nextip == IF entry.addr = INADDR_ANY THEN pkt.dst ELSE entry.addr
  IN  IF Found(arptable, nextip)
      THEN [Drop EXCEPT !.sent = <<ether_output(entry.ifp,
              IpFrame(ifs[entry.ifp].mac, MacFor(arptable, nextip), pkt))>>]
      ELSE Await(entry.ifp, nextip, pkt)

\* A routed packet, one hop older, leaves for its next hop at once or waits.
Route(entry, pkt) ==
  LET nextip == IF entry.addr = INADDR_ANY THEN pkt.dst ELSE entry.addr
      hop    == [pkt EXCEPT !.ttl = (@ + 255) % 256]
  IN  IF Found(arptable, nextip)
      THEN [Drop EXCEPT !.sent = <<ether_output(entry.ifp,
              IpFrame(ifs[entry.ifp].mac, MacFor(arptable, nextip), hop))>>]
      ELSE Await(entry.ifp, nextip, hop)

\* A packet for the address of the interface it is routed to goes back to
\* ipv4_input, which finds that it is for this host.
ipv4_forward(pkt) ==
  IF route_lookup(pkt.dst) = {} THEN Drop
  ELSE LET entry == CHOOSE e \in route_lookup(pkt.dst) : TRUE
       IN  IF ifs[entry.ifp].addr = pkt.dst THEN Deliver(pkt)
           ELSE Route(entry, pkt)

\* Mutant: a packet may be forwarded with the last hop of its time to live.
ipv4_input_LateTtl(pkt) ==
  IF is_to_me(pkt.dst) THEN Deliver(pkt)
  ELSE IF IS_L3BRIDGE /\ pkt.ttl >= 1 THEN ipv4_forward(pkt) ELSE Drop
ipv4_input(pkt) ==
  IF is_to_me(pkt.dst) THEN Deliver(pkt)
  ELSE IF IS_L3BRIDGE /\ pkt.ttl > 1 THEN ipv4_forward(pkt) ELSE Drop

ipv4_output(pkt) == ipv4_forward([pkt EXCEPT !.ttl = 32])

\* The packet tcp_output builds on interface ifp; its TTL is set on the way out.
TcpSyn(ifp, dst) == [src |-> ifs[ifp].addr, dst |-> dst, ttl |-> 0, proto |-> "TCP"]
=============================================================================
