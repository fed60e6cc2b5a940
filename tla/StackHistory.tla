---------------------------- MODULE StackHistory ----------------------------
(***************************************************************************)
(* The host of Stack with history variables, and its properties.  The      *)
(* history is computed from what can be seen at the host's sockets alone:  *)
(* the event of the step (rx) and the frames it sent.                      *)
(***************************************************************************)
EXTENDS Stack, FiniteSets

\* What the host sends and what it only bridges are told apart by the source of
\* the frame: no other station uses the MAC address of an interface.
ASSUME HistoryAssumption == \A eh \in Arrivals, c \in Cards : eh.src # c.mac

VARIABLES
  heard,        \* station -> the port it was last heard on by the bridge
  claims,       \* address -> the last ARP packet accepted about it
  asked         \* addresses asked for, and not answered since

hvars == <<heard, claims, asked>>

\* The frames, IPv4 packets and requests among the transmissions s.
Entries(s) == {s[i] : i \in DOMAIN s}

\* An IPv4 frame this host routed carries the MAC address of an interface.
Routed(tx) == tx.eh.type = "IP" /\ \E i \in Interfaces : tx.eh.src = ifs[i].mac

Requests(s) ==
  {tx.eh.pl.tpa : tx \in {t \in Entries(s) :
     /\ t.eh.type = "ARP" /\ t.eh.pl.op = "request"
     /\ t.eh.src = ifs[t.ifp].mac}}

\* The event is an ARP packet of operation op that reached arp_input.
ArpIn(event, op) ==
  /\ event.kind = "frame" /\ event.eh.type = "ARP"
  /\ ForUs(event.ifp, event.eh) /\ event.eh.pl.op = op

HInit ==
  /\ Init
  /\ heard = [m \in Mac |-> NULL]
  /\ claims = [a \in Addr |-> [op |-> "none", sha |-> ZeroMac]]
  /\ asked = {}

HNext ==
  /\ Next
  /\ heard' = IF rx'.kind = "frame" /\ Bridged(rx'.ifp, rx'.eh)
              THEN [heard EXCEPT ![rx'.eh.src] = rx'.ifp]
              ELSE heard
  /\ claims' = IF ArpIn(rx', "request") \/ ArpIn(rx', "reply")
               THEN [claims EXCEPT ![rx'.eh.pl.spa] =
                       [op |-> rx'.eh.pl.op, sha |-> rx'.eh.pl.sha]]
               ELSE claims
  /\ asked' = (asked \cup Requests(sent'))
                \ (IF ArpIn(rx', "reply") THEN {rx'.eh.pl.spa} ELSE {})

HSpec == HInit /\ [][HNext]_<<vars, hvars>>

(***************************************************************************)
(* The bridge.                                                             *)
(***************************************************************************)
\* The ports the frame of the last event was bridged to.
Ports == {tx.ifp : tx \in {t \in Entries(sent) : t.eh = rx.eh}}

\* A slot of the MAC table that has learnt a station points to the port the
\* bridge last heard it on, however often the station moves and however the
\* slot was shared in between (add2mactable overwrites on every frame).
LearnedPortIsLatest ==
  \A s \in Slots : mactable[s].ifp # NULL =>
    mactable[s].ifp = heard[mactable[s].addr]

\* A broadcast frame is never switched to one port: with the L2 bridge on it
\* goes to every port but the one it came in on, whatever was learnt before.
BroadcastFloods ==
  rx.kind = "frame" /\ IS_L2BRIDGE /\ rx.eh.dst = BROADCAST =>
    Ports = Interfaces \ {rx.ifp}

\* A frame for another station is bridged once: to the port that station was
\* last heard on, or else to each port but its own (bridge_input reads the
\* table before it learns from the frame).
SwitchedOrFlooded ==
  [][rx'.kind = "frame" /\ rx'.eh.type = "other" /\ Bridged(rx'.ifp, rx'.eh) =>
       /\ Cardinality(Ports') = Len(sent')
       /\ \/ Ports' = Interfaces \ {rx'.ifp}
          \/ Ports' = {heard[rx'.eh.dst]}
    ]_<<vars, hvars>>

(***************************************************************************)
(* Address resolution and the send buffer.                                 *)
(***************************************************************************)
\* The ARP table never answers with a MAC address that a later ARP packet for
\* the same IPv4 address has replaced: an entry is the latest claim or is gone.
EntryIsLatestClaim ==
  \A a \in Addr : a # INADDR_ANY /\ Found(arptable, a) =>
    claims[a].op # "none" /\ MacFor(arptable, a) = claims[a].sha

\* No packet waits for an address nobody was asked for: each packet in sbuf
\* has a request for its next hop that no reply has answered yet (ipv4_forward
\* asks before it queues, arp_reply_input leaves no packet it could send).
WaitingWasAsked ==
  \A i \in DOMAIN sbuf : sbuf[i].nextip \in asked

\* When a reply has been handled, no packet waits for an address that the ARP
\* table holds: not those of the reply, nor any other (arp_reply_input walks
\* the whole list).
ReplyDrainsBuffer ==
  ArpIn(rx, "reply") => \A i \in DOMAIN sbuf : ~ Found(arptable, sbuf[i].nextip)

\* A packet keeps waiting for a resolved address in one case only: the address
\* was learnt from a request, which does not walk the send buffer.
ResolvedWaitsAfterRequestOnly ==
  \A i \in DOMAIN sbuf : Found(arptable, sbuf[i].nextip) =>
    claims[sbuf[i].nextip].op = "request"

\* How often packet p waits in q, and how often s has it routed.
Waiting(q, p) == Cardinality({i \in DOMAIN q : q[i].pkt = p})
Leaving(s, p) == Cardinality({i \in DOMAIN s : Routed(s[i]) /\ s[i].eh.pl = p})

\* The packet that the event gives the routing code, one hop older.
Accepted(event) ==
  LET pkt == IF event.kind = "tcp" THEN [event.pkt EXCEPT !.ttl = 32]
             ELSE event.eh.pl
  IN  {[pkt EXCEPT !.ttl = @ - 1] : e \in
        {r \in route_lookup(pkt.dst) : ifs[r.ifp].addr # pkt.dst}}

Offered(event) ==
  \/ event.kind = "tcp"
  \/ /\ event.kind = "frame" /\ event.eh.type = "IP"
     /\ ForUs(event.ifp, event.eh)
     /\ ~ is_to_me(event.eh.pl.dst) /\ IS_L3BRIDGE /\ event.eh.pl.ttl > 1

\* The router neither loses nor duplicates a packet it has a route for: in each
\* step what waited before and what came in is what left and what waits after,
\* counted packet by packet (sbuf against sendto, in both directions).
PacketsConserved ==
  [][LET in == IF Offered(rx') THEN Accepted(rx') ELSE {}
         seen == in \cup {sbuf[i].pkt : i \in DOMAIN sbuf}
                    \cup {sbuf'[i].pkt : i \in DOMAIN sbuf'}
                    \cup {tx.eh.pl : tx \in {t \in Entries(sent') : Routed(t)}}
     IN  \A p \in seen :
           Waiting(sbuf, p) + (IF p \in in THEN 1 ELSE 0)
             = Waiting(sbuf', p) + Leaving(sent', p)
    ]_<<vars, hvars>>

\* A packet that is routed, now or after it waited, has time to live left: the
\* decrement after the test in ipv4_input never reaches 0 or wraps.
TtlNeverExhausted ==
  /\ \A i \in DOMAIN sbuf : sbuf[i].pkt.ttl \in 1 .. 254
  /\ \A tx \in Entries(sent) : Routed(tx) => tx.eh.pl.ttl \in 1 .. 254

(***************************************************************************)
(* The routing table.                                                      *)
(***************************************************************************)
\* Of the routes listed by print_route, the ones poptrie_route_add had a next
\* hop slot for: the FibSize - 1 oldest.
Numbered == {i \in DOMAIN fib : i > Len(fib) - (FibSize - 1)}

\* The lookup is explained by the list alone: among the numbered routes that
\* cover the address with the longest length, the oldest one is used.
LookupFollowsOldest ==
  \A a \in Addr :
    LET hits == {i \in Numbered : Covers(fib[i].dst, a)}
        best == {i \in hits : \A j \in hits : fib[j].dst.plen <= fib[i].dst.plen}
    IN  route_lookup(a) =
          {[ifp |-> fib[i].ifp, addr |-> fib[i].nextip] : i \in
             {k \in best : \A j \in best : j <= k}}

(***************************************************************************)
(* What the documentation and the comments say, and the code does not do.  *)
(***************************************************************************)
\* The routing table decides the outgoing interface of a packet (ip.c): the
\* frame leaves on the interface whose MAC address it carries.
LeavesOnRoutedInterface ==
  \A tx \in Entries(sent) : Routed(tx) => ifs[tx.ifp].mac = tx.eh.src
=============================================================================
