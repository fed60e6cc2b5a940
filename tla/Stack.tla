-------------------------------- MODULE Stack -------------------------------
(***************************************************************************)
(* main.c, and the dispatch of ether.c: one host.  The program is a single *)
(* thread that waits for one event at a time, a datagram on the socket of  *)
(* an interface or a command on standard input, and handles it to the end; *)
(* every action below is one event with everything its handler does.       *)
(***************************************************************************)
EXTENDS Ip

CONSTANTS
  Arrivals,     \* the frames the environment may send to an interface
  RouteCmds,    \* the routes the user may type: prefix and next hop
  TcpDsts,      \* the destinations the user may type for a SYN
  Answers,      \* the settings of the two flags the user may ask for
  MaxBuf,       \* bound: packets waiting in sbuf
  MaxFib        \* bound: routes in the list fib

ASSUME StackAssumption ==
  /\ Arrivals \subseteq Frame
  /\ RouteCmds \subseteq [dst : Prefix, next : Addr]
  /\ TcpDsts \subseteq Addr
  /\ Answers \subseteq [l2 : BOOLEAN, l3 : BOOLEAN]
  /\ MaxBuf \in Nat /\ MaxFib \in Nat

VARIABLE rx             \* the last event: what kind, where, which frame

Event ==
       [kind : {"frame"}, ifp : Nat \ {NULL}, eh : Frame]
  \cup [kind : {"tcp"}, pkt : IpPacket]
  \cup [kind : {"command"}]

vars == <<ifs, bridge_flags, mactable, sent, arptable, sbuf,
          rib, fib_n, fib, delivered, rx>>

TypeOK ==
  /\ IfTypeOK
  /\ EtherTypeOK
  /\ ArpTypeOK
  /\ IpTypeOK
  /\ rx \in Event

Init ==
  /\ ifs = <<>>
  /\ bridge_flags = [l2 |-> FALSE, l3 |-> FALSE]
  /\ mactable = [s \in Slots |-> [addr |-> ZeroMac, ifp |-> NULL]]
  /\ arptable = [s \in Slots |-> [ip_addr |-> INADDR_ANY, macaddr |-> ZeroMac]]
  /\ sbuf = <<>>
  /\ rib = [p \in {} |-> NULL]
  /\ fib_n = 1
  /\ fib = <<>>
  /\ sent = <<>> /\ delivered = <<>>
  /\ rx = [kind |-> "command"]

Tables == <<ifs, bridge_flags, rib, fib_n, fib>>

(***************************************************************************)
(* A frame comes in on ifp (dev_input, ether_input).                       *)
(***************************************************************************)
Received(ifp, eh) ==
  /\ rx' = [kind |-> "frame", ifp |-> ifp, eh |-> eh]
  /\ bridge_input(ifp, eh)
  /\ UNCHANGED Tables

\* The bridge alone: the frame is for another station, or of another type.
RecvBridged(ifp, eh) ==
  /\ eh.type = "other" \/ ~ ForUs(ifp, eh)
  /\ Received(ifp, eh)
  /\ sent' = BridgeSends(ifp, eh)
  /\ delivered' = <<>>
  /\ UNCHANGED <<arptable, sbuf>>

RecvIp(ifp, eh) ==
  /\ eh.type = "IP" /\ ForUs(ifp, eh)
  /\ Received(ifp, eh)
  /\ LET r == ipv4_input(eh.pl)
     IN  /\ Len(sbuf) + Len(r.queue) <= MaxBuf
         /\ sbuf' = r.queue \o sbuf
         /\ sent' = BridgeSends(ifp, eh) \o r.sent
         /\ delivered' = r.up
  /\ UNCHANGED arptable

RecvArpRequest(ifp, eh) ==
  /\ eh.type = "ARP" /\ eh.pl.op = "request" /\ ForUs(ifp, eh)
  /\ Received(ifp, eh)
  /\ arptable' = add2arptable(eh.pl.spa, eh.pl.sha)
  /\ sent' = BridgeSends(ifp, eh) \o ArpAnswer(ifp, eh.pl)
  /\ delivered' = <<>>
  /\ UNCHANGED sbuf

RecvArpReply(ifp, eh) ==
  /\ eh.type = "ARP" /\ eh.pl.op = "reply" /\ ForUs(ifp, eh)
  /\ Received(ifp, eh)
  /\ arptable' = add2arptable(eh.pl.spa, eh.pl.sha)
  /\ LET walked == Walk(ifp, arptable')
     IN  /\ sbuf' = walked.kept
         /\ sent' = BridgeSends(ifp, eh) \o walked.sent
  /\ delivered' = <<>>

\* Another hardware type, protocol or operation: arp_input returns.
RecvArpOther(ifp, eh) ==
  /\ eh.type = "ARP" /\ eh.pl.op = "other" /\ ForUs(ifp, eh)
  /\ Received(ifp, eh)
  /\ sent' = BridgeSends(ifp, eh)
  /\ delivered' = <<>>
  /\ UNCHANGED <<arptable, sbuf>>

(***************************************************************************)
(* A command is typed.                                                     *)
(***************************************************************************)
\* create: the interface, and the route to its network unless that is 0.
Create(card) ==
  /\ Len(ifs) < MaxIf /\ Len(fib) < MaxFib
  /\ ifs' = Append(ifs, card)
  /\ IF Connected(card).net = INADDR_ANY
     THEN UNCHANGED <<rib, fib_n, fib>>
     ELSE route_add(Len(ifs) + 1, INADDR_ANY, Connected(card))
  /\ rx' = [kind |-> "command"]
  /\ sent' = <<>> /\ delivered' = <<>>
  /\ UNCHANGED <<bridge_flags, mactable, arptable, sbuf>>

\* tcp: a SYN from the address of the interface named, routed like any other.
Tcp(ifp, dst) ==
  /\ rx' = [kind |-> "tcp", pkt |-> TcpSyn(ifp, dst)]
  /\ LET r == ipv4_output(TcpSyn(ifp, dst))
     IN  /\ Len(sbuf) + Len(r.queue) <= MaxBuf
         /\ sbuf' = r.queue \o sbuf
         /\ sent' = r.sent
         /\ delivered' = r.up
  /\ UNCHANGED <<Tables, mactable, arptable>>

\* fwdctl: each answer sets its flag, clears it or leaves it alone.
Fwdctl(flags) ==
  /\ bridge_flags' = flags
  /\ rx' = [kind |-> "command"]
  /\ sent' = <<>> /\ delivered' = <<>>
  /\ UNCHANGED <<ifs, mactable, arptable, sbuf, rib, fib_n, fib>>

\* route: adds the route for an interface that exists.
RouteAdd(ifp, cmd) ==
  /\ Len(fib) < MaxFib
  /\ route_add(ifp, cmd.next, cmd.dst)
  /\ rx' = [kind |-> "command"]
  /\ sent' = <<>> /\ delivered' = <<>>
  /\ UNCHANGED <<ifs, bridge_flags, mactable, arptable, sbuf>>

\* exit, and a new process: every table is as main makes it.  This ends the life
\* of the host, and is no step of Next, which is one life of it.
Restart ==
  /\ ifs' = <<>>
  /\ bridge_flags' = [l2 |-> FALSE, l3 |-> FALSE]
  /\ mactable' = [s \in Slots |-> [addr |-> ZeroMac, ifp |-> NULL]]
  /\ arptable' = [s \in Slots |-> [ip_addr |-> INADDR_ANY, macaddr |-> ZeroMac]]
  /\ sbuf' = <<>>
  /\ rib' = [p \in {} |-> NULL]
  /\ fib_n' = 1
  /\ fib' = <<>>
  /\ sent' = <<>> /\ delivered' = <<>>
  /\ rx' = [kind |-> "command"]

Recv(ifp, eh) ==
  \/ RecvBridged(ifp, eh)
  \/ RecvIp(ifp, eh)
  \/ RecvArpRequest(ifp, eh)
  \/ RecvArpReply(ifp, eh)
  \/ RecvArpOther(ifp, eh)

Next ==
  \/ \E ifp \in Interfaces, eh \in Arrivals : Recv(ifp, eh)
  \/ \E card \in Cards : Create(card)
  \/ \E ifp \in Interfaces, dst \in TcpDsts : Tcp(ifp, dst)
  \/ \E flags \in Answers : Fwdctl(flags)
  \/ \E ifp \in Interfaces, cmd \in RouteCmds : RouteAdd(ifp, cmd)

Spec == Init /\ [][Next]_vars
=============================================================================
