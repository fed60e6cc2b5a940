---------------------------- MODULE StackProofs -----------------------------
(***************************************************************************)
(* The host for every address width, set of MAC addresses, hash function,  *)
(* set of arriving frames and size of its tables: its types, and what its  *)
(* tables have to do with what its sockets have seen.                      *)
(***************************************************************************)
EXTENDS StackHistory, PrefixLemmas, FiniteSetTheorems

-----------------------------------------------------------------------------
\* The walk over the send buffer.

\* One turn of the loop: the entry is sent on ifp, or kept.
Turn(q, ifp, macs, before, n) ==
  IF Found(macs, q[n].nextip)
  THEN [before EXCEPT !.sent = Append(@, ether_output(ifp, IpFrame(q[n].shost,
          MacFor(macs, q[n].nextip), q[n].pkt)))]
  ELSE [before EXCEPT !.kept = Append(@, q[n])]

\* What n turns have kept, a sequence over K, and sent, a sequence over S, is w[n].
Walked(w, q, ifp, macs, K, S) ==
  /\ w[0] = [kept |-> <<>>, sent |-> <<>>]
  /\ w[Len(q)] = WalkList(q, ifp, macs)
  /\ \A n \in 0 .. Len(q) : w[n] \in [kept : Seq(K), sent : Seq(S)]
  /\ \A n \in 1 .. Len(q) : w[n] = Turn(q, ifp, macs, w[n - 1], n)

\* The loop of arp_reply_input, turn by turn, if every entry whose next hop is
\* known is sent as a member of S, and every other entry is in K.
LEMMA WalkTurns ==
  ASSUME NEW B, NEW q \in Seq(B), NEW ifp, NEW macs, NEW K, NEW S,
         \A n \in 1 .. Len(q) :
           IF Found(macs, q[n].nextip)
           THEN ether_output(ifp, IpFrame(q[n].shost,
                  MacFor(macs, q[n].nextip), q[n].pkt)) \in S
           ELSE q[n] \in K
  PROVE  \E w : Walked(w, q, ifp, macs, K, S)
<1> DEFINE N == Len(q)
           R == [kept : Seq(K), sent : Seq(S)]
           z == [kept |-> <<>>, sent |-> <<>>]
           Tx(n) == ether_output(ifp, IpFrame(q[n].shost,
                      MacFor(macs, q[n].nextip), q[n].pkt))
           Step(b, n) == Turn(q, ifp, macs, b, n)
           Eqn(w) == w = [n \in 0 .. N |->
                            IF n = 0 THEN z ELSE Step(w[n - 1], n)]
           W == CHOOSE w : Eqn(w)
           g == [x \in R \X (1 .. N) |-> Step(x[1], x[2])]
<1>1. N \in Nat
  OBVIOUS
<1>2. z \in R
  OBVIOUS
<1>3. ASSUME NEW b \in R, NEW n \in 1 .. N
      PROVE  Step(b, n) \in R
  <2>1. CASE Found(macs, q[n].nextip)
    <3>1. Tx(n) \in S
      BY <2>1
    <3>2. Step(b, n) = [kept |-> b.kept, sent |-> Append(b.sent, Tx(n))]
      BY <2>1 DEF Turn
    <3> HIDE DEF Tx
    <3>3. b.kept \in Seq(K) /\ Append(b.sent, Tx(n)) \in Seq(S)
      BY <3>1
    <3> QED
      BY <3>2, <3>3
  <2>2. CASE ~ Found(macs, q[n].nextip)
    <3>1. q[n] \in K
      BY <2>2
    <3>2. b.sent \in Seq(S) /\ Append(b.kept, q[n]) \in Seq(K)
      BY <3>1
    <3>3. Step(b, n) = [kept |-> Append(b.kept, q[n]), sent |-> b.sent]
      BY <2>2 DEF Turn
    <3> QED
      BY <3>2, <3>3
  <2> QED
    BY <2>1, <2>2
<1>4. WalkList(q, ifp, macs) = W[N]
  BY DEF WalkList, Turn
<1> HIDE DEF Step, z, R, N
<1>5. g \in [R \X (1 .. N) -> R]
  <2>1. ASSUME NEW x \in R \X (1 .. N)
        PROVE  Step(x[1], x[2]) \in R
    BY <1>3
  <2> QED
    BY <2>1
<1>6. \E w : Eqn(w)
  <2>1. PICK f \in [0 .. N -> R] : Solves(f, N, z, g)
    <3> HIDE DEF g
    <3> QED
      BY <1>1, <1>2, <1>5, IntervalRecursion
  <2>2. ASSUME NEW n \in 0 .. N, n # 0
        PROVE  g[<<f[n - 1], n>>] = Step(f[n - 1], n)
    <3>1. n \in 1 .. N /\ n - 1 \in 0 .. N
      BY <1>1, <2>2
    <3>2. <<f[n - 1], n>> \in R \X (1 .. N)
      BY <3>1
    <3> QED
      BY <3>2
  <2> HIDE DEF g
  <2>3. Eqn(f)
    BY <2>1, <2>2 DEF Solves
  <2> QED
    BY <2>3
<1>7. Eqn(W)
  <2> HIDE DEF Eqn
  <2> QED
    BY <1>6
<1>8. W[0] = z /\ \A n \in 1 .. N : W[n] = Step(W[n - 1], n)
  <2> HIDE DEF W
  <2> QED
    BY <1>1, <1>7
<1> HIDE DEF W
<1>9. ASSUME NEW n \in 0 .. N
      PROVE  W[n] \in R
  <2>1. \A m \in 1 .. n : W[m - 1] \in R => W[m] \in R
    BY <1>1, <1>3, <1>8
  <2> QED
    BY <1>1, <1>2, <1>8, <2>1, IntervalInduction
<1> QED
  BY <1>4, <1>8, <1>9 DEF Walked, R, N, z, Step

\* The loop seen as a whole.
LEMMA WalkFacts ==
  ASSUME NEW B, NEW q \in Seq(B), NEW ifp, NEW macs, NEW K, NEW S,
         \A n \in 1 .. Len(q) :
           IF Found(macs, q[n].nextip)
           THEN ether_output(ifp, IpFrame(q[n].shost,
                  MacFor(macs, q[n].nextip), q[n].pkt)) \in S
           ELSE q[n] \in K
  PROVE  WalkList(q, ifp, macs) \in [kept : Seq(K), sent : Seq(S)]
<1>1. PICK w : Walked(w, q, ifp, macs, K, S)
  BY WalkTurns
<1>2. Len(q) \in 0 .. Len(q)
  OBVIOUS
<1> QED
  BY <1>1, <1>2 DEF Walked
-----------------------------------------------------------------------------
\* What the handlers build has the right type.

\* The frames of arp.c and of the IPv4 output path.
LEMMA FrameType ==
  ASSUME NEW src \in Mac, NEW dst \in Mac
  PROVE  /\ \A arp \in ArpPacket : ArpFrame(src, dst, arp) \in Frame
         /\ \A pkt \in IpPacket : IpFrame(src, dst, pkt) \in Frame
BY DEF ArpFrame, IpFrame, Frame

\* A frame sent on an interface is a transmission.
LEMMA SendType ==
  ASSUME NEW ifp \in Nat \ {NULL}, NEW eh \in Frame
  PROVE  ether_output(ifp, eh) \in Transmission
BY DEF ether_output, Transmission

\* The interfaces have MAC addresses and addresses.
LEMMA InterfaceType ==
  ASSUME IfTypeOK, NEW ifp \in Interfaces
  PROVE  /\ ifp \in Nat \ {NULL}
         /\ ifs[ifp].mac \in Mac
         /\ ifs[ifp].addr \in Addr
<1>1. ifs[ifp] \in Card /\ ifp \in Nat \ {0}
  BY DEF IfTypeOK, Interfaces
<1> QED
  BY <1>1 DEF Card, NULL

\* What the bridge sends for a frame, and the MAC table it leaves.
LEMMA BridgeType ==
  ASSUME IfTypeOK, EtherTypeOK, NEW ifp \in Interfaces, NEW eh \in Frame
  PROVE  /\ BridgeSends(ifp, eh) \in Seq(Transmission)
         /\ bridge_input(ifp, eh) =>
              mactable' \in [Slots -> [addr : Mac, ifp : 0 .. Len(ifs)]]
<1>1. /\ Len(ifs) \in Nat
      /\ ifp \in 1 .. Len(ifs)
      /\ eh.src \in Mac /\ eh.dst \in Mac
      /\ MACHASH[eh.src] \in Slots /\ MACHASH[eh.dst] \in Slots
  BY EtherAssumption DEF IfTypeOK, Interfaces, Frame
<1>2. find_interface(eh.dst) \in 0 .. Len(ifs)
  BY <1>1 DEF find_interface, EtherTypeOK, NULL
<1>3. find_interface(eh.dst) # NULL =>
        <<ether_output(find_interface(eh.dst), eh)>> \in Seq(Transmission)
  <2> SUFFICES ASSUME find_interface(eh.dst) # NULL
               PROVE  ether_output(find_interface(eh.dst), eh) \in Transmission
    OBVIOUS
  <2> QED
    BY <1>1, <1>2, SendType
<1>4. flood(ifp, eh) \in Seq(Transmission)
  <2>1. ASSUME NEW k \in 1 .. Len(ifs) - 1
        PROVE  flood(ifp, eh)[k] \in Transmission
    <3> DEFINE i == Len(ifs) - k + 1
    <3>1. i \in Nat \ {NULL} /\ i - 1 \in Nat \ {NULL}
      BY <1>1 DEF NULL
    <3>2. (IF i > ifp THEN i ELSE i - 1) \in Nat \ {NULL}
      BY <3>1
    <3>3. flood(ifp, eh)[k] = ether_output(IF i > ifp THEN i ELSE i - 1, eh)
      BY DEF flood
    <3> QED
      BY <3>2, <3>3, SendType
  <2>2. DOMAIN flood(ifp, eh) = 1 .. Len(ifs) - 1
        /\ flood(ifp, eh) = [k \in 1 .. Len(ifs) - 1 |-> flood(ifp, eh)[k]]
    BY DEF flood
  <2>3. Len(ifs) - 1 \in Nat
    BY <1>1
  <2> HIDE DEF flood
  <2> QED
    BY <2>1, <2>2, <2>3
<1>5. BridgeSends(ifp, eh) \in Seq(Transmission)
  BY <1>3, <1>4 DEF BridgeSends
<1>6. add2mactable(ifp, eh.src) \in [Slots -> [addr : Mac, ifp : 0 .. Len(ifs)]]
  BY <1>1 DEF add2mactable, EtherTypeOK
<1>7. bridge_input(ifp, eh) =>
        mactable' \in [Slots -> [addr : Mac, ifp : 0 .. Len(ifs)]]
  BY <1>6 DEF bridge_input, EtherTypeOK
<1> QED
  BY <1>5, <1>7

\* A request and an answer of the ARP code, and the table it keeps.
LEMMA ArpType ==
  ASSUME IfTypeOK, ArpTypeOK, NEW ifp \in Interfaces
  PROVE  /\ \A addr \in Addr : arp_req(ifp, addr) \in Transmission
         /\ \A arp \in ArpPacket : ArpAnswer(ifp, arp) \in Seq(Transmission)
         /\ \A addr \in Addr, mac \in Mac :
              add2arptable(addr, mac) \in [Slots -> [ip_addr : Addr, macaddr : Mac]]
<1>1. /\ ifp \in Nat \ {NULL}
      /\ ifs[ifp].mac \in Mac /\ ifs[ifp].addr \in Addr
      /\ BROADCAST \in Mac
  BY InterfaceType, EtherAssumption
<1>2. ASSUME NEW addr \in Addr
      PROVE  arp_req(ifp, addr) \in Transmission
  <2> DEFINE arp == [op |-> "request", sha |-> ifs[ifp].mac,
                     spa |-> ifs[ifp].addr, tpa |-> addr]
  <2>1. arp \in ArpPacket
    BY <1>1 DEF ArpPacket
  <2>2. ArpFrame(ifs[ifp].mac, BROADCAST, arp) \in Frame
    BY <1>1, <2>1, FrameType
  <2> QED
    BY <1>1, <2>2, SendType DEF arp_req
<1>3. ASSUME NEW arp \in ArpPacket
      PROVE  ArpAnswer(ifp, arp) \in Seq(Transmission)
  <2> DEFINE ans == [op |-> "reply", sha |-> ifs[ifp].mac,
                     spa |-> ifs[ifp].addr, tpa |-> arp.spa]
             tx == ether_output(ifp, ArpFrame(ifs[ifp].mac, arp.sha, ans))
  <2>1. ans \in ArpPacket /\ arp.sha \in Mac
    BY <1>1 DEF ArpPacket
  <2>2. ArpFrame(ifs[ifp].mac, arp.sha, ans) \in Frame
    BY <1>1, <2>1, FrameType
  <2>3. tx \in Transmission
    BY <1>1, <2>2, SendType
  <2>4. ArpAnswer(ifp, arp) = IF arp.tpa # ifs[ifp].addr THEN <<>> ELSE <<tx>>
    BY DEF ArpAnswer
  <2> HIDE DEF tx
  <2> QED
    BY <2>3, <2>4
<1>4. ASSUME NEW addr \in Addr, NEW mac \in Mac
      PROVE  add2arptable(addr, mac) \in [Slots -> [ip_addr : Addr, macaddr : Mac]]
  BY ArpAssumption DEF add2arptable, ArpTypeOK
<1> QED
  BY <1>2, <1>3, <1>4

\* What the IPv4 paths return.
Outcome == [queue : Seq(SendBuf), sent : Seq(Transmission), up : Seq(IpPacket)]

\* A packet that waits: one entry for the send buffer, one request.
LEMMA AwaitType ==
  ASSUME IfTypeOK, ArpTypeOK, NEW ifp \in Interfaces,
         NEW nextip \in Addr, NEW pkt \in IpPacket
  PROVE  Await(ifp, nextip, pkt) \in Outcome
<1> DEFINE e == [nextip |-> nextip, shost |-> ifs[ifp].mac, pkt |-> pkt]
           tx == arp_req(ifp, nextip)
<1>1. e \in SendBuf
  BY InterfaceType DEF SendBuf
<1>2. tx \in Transmission
  BY ArpType
<1> HIDE DEF e, tx
<1>3. <<e>> \in Seq(SendBuf) /\ <<tx>> \in Seq(Transmission)
      /\ <<>> \in Seq(IpPacket)
  BY <1>1, <1>2
<1>4. Await(ifp, nextip, pkt) = [queue |-> <<e>>, sent |-> <<tx>>, up |-> <<>>]
  <2>1. Await(ifp, nextip, pkt) = [Drop EXCEPT !.sent = <<tx>>, !.queue = <<e>>]
    BY Zenon DEF Await, e, tx
  <2> QED
    BY <2>1 DEF Drop
<1> QED
  BY <1>3, <1>4 DEF Outcome

\* A packet that is routed leaves or waits, one hop older.
LEMMA RouteType ==
  ASSUME IfTypeOK, ArpTypeOK, NEW entry \in [ifp : Interfaces, addr : Addr],
         NEW pkt \in IpPacket
  PROVE  Route(entry, pkt) \in Outcome
<1> DEFINE nextip == IF entry.addr = INADDR_ANY THEN pkt.dst ELSE entry.addr
           hop == [pkt EXCEPT !.ttl = (@ + 255) % 256]
           tx == ether_output(entry.ifp,
                   IpFrame(ifs[entry.ifp].mac, MacFor(arptable, nextip), hop))
<1>1. nextip \in Addr
  BY DEF IpPacket
<1>2. hop \in IpPacket
  <2>1. pkt.ttl \in 0 .. 255
    BY DEF IpPacket
  <2>2. (pkt.ttl + 255) % 256 \in 0 .. 255
    BY <2>1
  <2> QED
    BY <2>2 DEF IpPacket
<1>3. tx \in Transmission
  <2>1. MacFor(arptable, nextip) \in Mac
    BY <1>1, ArpAssumption DEF MacFor, ArpTypeOK
  <2>2. entry.ifp \in Interfaces
    OBVIOUS
  <2>3. entry.ifp \in Nat \ {NULL} /\ ifs[entry.ifp].mac \in Mac
    BY <2>2, InterfaceType
  <2> HIDE DEF nextip, hop
  <2>4. IpFrame(ifs[entry.ifp].mac, MacFor(arptable, nextip), hop) \in Frame
    BY <1>2, <2>1, <2>3, FrameType
  <2> QED
    BY <2>3, <2>4, SendType
<1>4. Route(entry, pkt) = IF Found(arptable, nextip)
                          THEN [queue |-> <<>>, sent |-> <<tx>>, up |-> <<>>]
                          ELSE Await(entry.ifp, nextip, hop)
  BY DEF Route, Drop
<1> HIDE DEF nextip, hop, tx
<1>5. [queue |-> <<>>, sent |-> <<tx>>, up |-> <<>>] \in Outcome
  BY <1>3 DEF Outcome
<1>6. Await(entry.ifp, nextip, hop) \in Outcome
  BY <1>1, <1>2, AwaitType
<1> QED
  BY <1>4, <1>5, <1>6

\* The three entries to the IPv4 code.
LEMMA IpType ==
  ASSUME IfTypeOK, ArpTypeOK, IpTypeOK, NEW pkt \in IpPacket
  PROVE  /\ ipv4_forward(pkt) \in Outcome
         /\ ipv4_input(pkt) \in Outcome
         /\ ipv4_output(pkt) \in Outcome
<1>1. Drop \in Outcome
  BY DEF Drop, Outcome
<1>2. ASSUME NEW k \in IpPacket
      PROVE  Deliver(k) \in Outcome
  <2>1. <<k>> \in Seq(IpPacket)
    OBVIOUS
  <2>2. Deliver(k) = IF k.proto = "other" THEN Drop
                     ELSE [queue |-> <<>>, sent |-> <<>>, up |-> <<k>>]
    BY DEF Deliver, Drop
  <2> QED
    BY <1>1, <2>1, <2>2 DEF Outcome
<1>3. ASSUME NEW k \in IpPacket
      PROVE  ipv4_forward(k) \in Outcome
  <2>1. route_lookup(k.dst) \subseteq [ifp : Interfaces, addr : Addr]
    BY DEF route_lookup, Longest, IpTypeOK
  <2>2. CASE route_lookup(k.dst) = {}
    BY <1>1, <2>2 DEF ipv4_forward
  <2>3. CASE route_lookup(k.dst) # {}
    <3> DEFINE entry == CHOOSE e \in route_lookup(k.dst) : TRUE
    <3>1. entry \in [ifp : Interfaces, addr : Addr]
      BY <2>1, <2>3
    <3>2. ipv4_forward(k) = IF ifs[entry.ifp].addr = k.dst THEN Deliver(k)
                            ELSE Route(entry, k)
      BY <2>3 DEF ipv4_forward
    <3> HIDE DEF entry
    <3> QED
      BY <1>2, <3>1, <3>2, RouteType
  <2> QED
    BY <2>2, <2>3
<1>4. ipv4_input(pkt) \in Outcome
  BY <1>1, <1>2, <1>3 DEF ipv4_input
<1>5. [pkt EXCEPT !.ttl = 32] \in IpPacket
  BY DEF IpPacket
<1> QED
  BY <1>3, <1>4, <1>5 DEF ipv4_output

\* A route that is added keeps the routing table well formed, when its
\* interface exists by the end of the step.
LEMMA RouteAddType ==
  ASSUME IfTypeOK, IpTypeOK, IfTypeOK', Len(ifs) <= Len(ifs'),
         NEW ifp \in Interfaces', NEW next \in Addr, NEW p \in Prefix,
         route_add(ifp, next, p), delivered' \in Seq(IpPacket)
  PROVE  IpTypeOK'
<1>1. Len(ifs) \in Nat /\ Len(ifs') \in Nat
  BY DEF IfTypeOK
<1>2. Interfaces \subseteq Interfaces' /\ ifp \in Nat \ {NULL}
  BY <1>1 DEF Interfaces, NULL
<1>3. DOMAIN rib' \subseteq Prefix
      /\ \A q \in DOMAIN rib' : rib'[q] \in [ifp : Interfaces', addr : Addr]
  <2>1. CASE fib_n < FibSize /\ p \notin DOMAIN rib
    <3>1. rib' = [q \in DOMAIN rib \cup {p} |->
                    IF q = p THEN [ifp |-> ifp, addr |-> next] ELSE rib[q]]
      BY <2>1 DEF route_add
    <3> QED
      BY <1>2, <3>1 DEF IpTypeOK
  <2>2. CASE ~ (fib_n < FibSize /\ p \notin DOMAIN rib)
    <3>1. rib' = rib
      BY <2>2 DEF route_add
    <3> QED
      BY <1>2, <3>1 DEF IpTypeOK
  <2> QED
    BY <2>1, <2>2
<1>4. fib_n' \in 1 .. FibSize
  BY IpAssumption DEF route_add, IpTypeOK
<1>5. fib' \in Seq(FibEntry)
  <2>1. [ifp |-> ifp, nextip |-> next, dst |-> p] \in FibEntry
    BY <1>2 DEF FibEntry
  <2> QED
    BY <2>1 DEF route_add, IpTypeOK
<1> QED
  BY <1>3, <1>4, <1>5 DEF IpTypeOK

-----------------------------------------------------------------------------
\* The type invariant.

\* The walk of a reply over a well-typed send buffer.
LEMMA WalkType ==
  ASSUME ArpTypeOK, NEW ifp \in Nat \ {NULL},
         NEW macs \in [Slots -> [ip_addr : Addr, macaddr : Mac]]
  PROVE  Walk(ifp, macs) \in [kept : Seq(SendBuf), sent : Seq(Transmission)]
<1>1. sbuf \in Seq(SendBuf)
  BY DEF ArpTypeOK
<1>2. ASSUME NEW n \in 1 .. Len(sbuf)
      PROVE  /\ sbuf[n] \in SendBuf
             /\ ether_output(ifp, IpFrame(sbuf[n].shost,
                  MacFor(macs, sbuf[n].nextip), sbuf[n].pkt)) \in Transmission
  <2>1. sbuf[n] \in SendBuf
    BY <1>1
  <2>2. /\ sbuf[n].shost \in Mac /\ sbuf[n].pkt \in IpPacket
        /\ sbuf[n].nextip \in Addr
    BY <2>1 DEF SendBuf
  <2>3. MacFor(macs, sbuf[n].nextip) \in Mac
    BY <2>2, ArpAssumption DEF MacFor
  <2>4. IpFrame(sbuf[n].shost, MacFor(macs, sbuf[n].nextip), sbuf[n].pkt) \in Frame
    BY <2>2, <2>3, FrameType
  <2> QED
    BY <2>1, <2>4, SendType
<1>3. WalkList(sbuf, ifp, macs) \in [kept : Seq(SendBuf), sent : Seq(Transmission)]
  BY <1>1, <1>2, WalkFacts
<1> QED
  BY <1>3 DEF Walk

\* What a frame that comes in does to the types, whoever it is for.
LEMMA ReceivedType ==
  ASSUME TypeOK, NEW ifp \in Interfaces, NEW eh \in Arrivals,
         Received(ifp, eh)
  PROVE  /\ IfTypeOK' /\ rx' \in Event
         /\ bridge_flags' \in [l2 : BOOLEAN, l3 : BOOLEAN]
         /\ mactable' \in [Slots -> [addr : Mac, ifp : 0 .. Len(ifs')]]
         /\ BridgeSends(ifp, eh) \in Seq(Transmission)
         /\ delivered' \in Seq(IpPacket) => IpTypeOK'
<1>1. IfTypeOK /\ EtherTypeOK /\ IpTypeOK
  BY DEF TypeOK
<1>2. eh \in Frame
  BY StackAssumption
<1>3. /\ ifs' = ifs /\ bridge_flags' = bridge_flags
      /\ rib' = rib /\ fib_n' = fib_n /\ fib' = fib
  BY DEF Received, Tables
<1>4. IfTypeOK' /\ bridge_flags' \in [l2 : BOOLEAN, l3 : BOOLEAN]
  BY <1>1, <1>3 DEF IfTypeOK, EtherTypeOK
<1>5. rx' \in Event
  BY <1>1, <1>2, InterfaceType DEF Received, Event
<1>6. BridgeSends(ifp, eh) \in Seq(Transmission)
      /\ mactable' \in [Slots -> [addr : Mac, ifp : 0 .. Len(ifs')]]
  BY <1>1, <1>2, <1>3, BridgeType DEF Received
<1>7. delivered' \in Seq(IpPacket) => IpTypeOK'
  BY <1>1, <1>3 DEF IpTypeOK, Interfaces
<1> QED
  BY <1>4, <1>5, <1>6, <1>7

\* A frame that comes in, whatever it carries.
LEMMA RecvType ==
  ASSUME TypeOK, NEW ifp \in Interfaces, NEW eh \in Arrivals, Recv(ifp, eh)
  PROVE  TypeOK'
<1>1. IfTypeOK /\ EtherTypeOK /\ ArpTypeOK /\ IpTypeOK
  BY DEF TypeOK
<1>2. eh \in Frame /\ ifp \in Nat \ {NULL}
  BY <1>1, StackAssumption, InterfaceType
<1>3. Received(ifp, eh)
  BY DEF Recv, RecvBridged, RecvIp, RecvArpRequest, RecvArpReply, RecvArpOther
<1>4. /\ ArpTypeOK' /\ sent' \in Seq(Transmission)
      /\ delivered' \in Seq(IpPacket)
  <2>1. BridgeSends(ifp, eh) \in Seq(Transmission)
    BY <1>3, ReceivedType
  <2>2. CASE RecvBridged(ifp, eh) \/ RecvArpOther(ifp, eh)
    <3>1. /\ arptable' = arptable /\ sbuf' = sbuf /\ delivered' = <<>>
          /\ sent' = BridgeSends(ifp, eh)
      BY <2>2 DEF RecvBridged, RecvArpOther
    <3> QED
      BY <1>1, <2>1, <3>1 DEF ArpTypeOK
  <2>3. CASE RecvIp(ifp, eh)
    <3>1. eh.pl \in IpPacket
      BY <1>2, <2>3 DEF RecvIp, Frame
    <3>2. ipv4_input(eh.pl) \in Outcome
      BY <1>1, <3>1, IpType
    <3>3. /\ arptable' = arptable /\ sbuf' = ipv4_input(eh.pl).queue \o sbuf
          /\ sent' = BridgeSends(ifp, eh) \o ipv4_input(eh.pl).sent
          /\ delivered' = ipv4_input(eh.pl).up
      BY <2>3 DEF RecvIp
    <3> QED
      BY <1>1, <2>1, <3>2, <3>3 DEF ArpTypeOK, Outcome
  <2>4. CASE RecvArpRequest(ifp, eh)
    <3>1. eh.pl \in ArpPacket
      BY <1>2, <2>4 DEF RecvArpRequest, Frame
    <3>2. /\ add2arptable(eh.pl.spa, eh.pl.sha)
                \in [Slots -> [ip_addr : Addr, macaddr : Mac]]
          /\ ArpAnswer(ifp, eh.pl) \in Seq(Transmission)
      BY <1>1, <3>1, ArpType DEF ArpPacket
    <3> QED
      BY <1>1, <2>1, <2>4, <3>2 DEF RecvArpRequest, ArpTypeOK
  <2>5. CASE RecvArpReply(ifp, eh)
    <3>1. eh.pl \in ArpPacket
      BY <1>2, <2>5 DEF RecvArpReply, Frame
    <3>2. arptable' \in [Slots -> [ip_addr : Addr, macaddr : Mac]]
      BY <1>1, <2>5, <3>1, ArpType DEF RecvArpReply, ArpPacket
    <3>3. Walk(ifp, arptable') \in [kept : Seq(SendBuf), sent : Seq(Transmission)]
      BY <1>1, <1>2, <3>2, WalkType
    <3>4. /\ sbuf' = Walk(ifp, arptable').kept
          /\ sent' = BridgeSends(ifp, eh) \o Walk(ifp, arptable').sent
          /\ delivered' = <<>>
      BY <2>5 DEF RecvArpReply
    <3> QED
      BY <2>1, <3>2, <3>3, <3>4 DEF ArpTypeOK
  <2> QED
    BY <2>2, <2>3, <2>4, <2>5 DEF Recv
<1> QED
  BY <1>3, <1>4, ReceivedType DEF TypeOK, EtherTypeOK

\* A command that is typed.
LEMMA CommandType ==
  ASSUME TypeOK
  PROVE  /\ \A card \in Cards : Create(card) => TypeOK'
         /\ \A ifp \in Interfaces, dst \in TcpDsts : Tcp(ifp, dst) => TypeOK'
         /\ \A flags \in Answers : Fwdctl(flags) => TypeOK'
         /\ \A ifp \in Interfaces, cmd \in RouteCmds :
              RouteAdd(ifp, cmd) => TypeOK'
<1>1. IfTypeOK /\ EtherTypeOK /\ ArpTypeOK /\ IpTypeOK
  BY DEF TypeOK
<1>2. [kind |-> "command"] \in Event
  BY DEF Event
<1>3. ASSUME NEW card \in Cards, Create(card)
      PROVE  TypeOK'
  <2>1. card \in Card
    BY IfnetAssumption
  <2>2. /\ ifs' = Append(ifs, card) /\ sent' = <<>> /\ delivered' = <<>>
        /\ bridge_flags' = bridge_flags /\ mactable' = mactable
        /\ arptable' = arptable /\ sbuf' = sbuf /\ rx' = [kind |-> "command"]
    BY <1>3 DEF Create
  <2>3. /\ IfTypeOK' /\ Len(ifs) \in Nat
        /\ Len(ifs') = Len(ifs) + 1 /\ Interfaces' = 1 .. Len(ifs')
    BY <1>1, <2>1, <2>2 DEF IfTypeOK, Interfaces
  <2>4. EtherTypeOK'
    <3>1. 0 .. Len(ifs) \subseteq 0 .. Len(ifs')
      BY <2>3
    <3> QED
      BY <1>1, <2>2, <3>1 DEF EtherTypeOK
  <2>5. ArpTypeOK'
    BY <1>1, <2>2 DEF ArpTypeOK
  <2>6. IpTypeOK'
    <3>1. CASE Connected(card).net = INADDR_ANY
      <4>1. rib' = rib /\ fib_n' = fib_n /\ fib' = fib
        BY <1>3, <3>1 DEF Create
      <4>2. Interfaces \subseteq Interfaces'
        BY <2>3 DEF Interfaces
      <4> QED
        BY <1>1, <2>2, <4>1, <4>2 DEF IpTypeOK
    <3>2. CASE Connected(card).net # INADDR_ANY
      <4>1. route_add(Len(ifs) + 1, INADDR_ANY, Connected(card))
        BY <1>3, <3>2 DEF Create
      <4>2. INADDR_ANY \in Addr
        BY DEF INADDR_ANY, Addr
      <4>3. Connected(card) \in Prefix
        <5>1. card.addr \in Addr /\ card.plen \in 0 .. Width
          BY <2>1, WidthAssumption DEF Card
        <5> QED
          BY <5>1, PrefixOfType DEF Connected
      <4>4. Len(ifs) + 1 \in Interfaces' /\ Len(ifs) <= Len(ifs')
        BY <2>3
      <4>5. delivered' \in Seq(IpPacket)
        BY <2>2
      <4> QED
        BY <1>1, <2>3, <4>1, <4>2, <4>3, <4>4, <4>5, RouteAddType
    <3> QED
      BY <3>1, <3>2
  <2> QED
    BY <1>2, <2>2, <2>3, <2>4, <2>5, <2>6 DEF TypeOK
<1>4. ASSUME NEW ifp \in Interfaces, NEW dst \in TcpDsts, Tcp(ifp, dst)
      PROVE  TypeOK'
  <2> DEFINE pkt == TcpSyn(ifp, dst)
  <2>1. pkt \in IpPacket
    <3>1. dst \in Addr /\ ifs[ifp].addr \in Addr
      BY <1>1, StackAssumption, InterfaceType
    <3> QED
      BY <3>1 DEF TcpSyn, IpPacket
  <2>2. ipv4_output(pkt) \in Outcome
    BY <1>1, <2>1, IpType
  <2>3. /\ sbuf' = ipv4_output(pkt).queue \o sbuf
        /\ sent' = ipv4_output(pkt).sent /\ delivered' = ipv4_output(pkt).up
        /\ rx' = [kind |-> "tcp", pkt |-> pkt]
        /\ UNCHANGED <<ifs, bridge_flags, rib, fib_n, fib, mactable, arptable>>
    BY <1>4 DEF Tcp, Tables
  <2> HIDE DEF pkt
  <2>4. /\ sbuf' \in Seq(SendBuf) /\ sent' \in Seq(Transmission)
        /\ delivered' \in Seq(IpPacket)
    BY <1>1, <2>2, <2>3 DEF Outcome, ArpTypeOK
  <2>5. rx' \in Event
    BY <2>1, <2>3 DEF Event
  <2>6. IfTypeOK' /\ EtherTypeOK' /\ ArpTypeOK'
    BY <1>1, <2>3, <2>4 DEF IfTypeOK, EtherTypeOK, ArpTypeOK
  <2>7. IpTypeOK'
    BY <1>1, <2>3, <2>4 DEF IpTypeOK, Interfaces
  <2> QED
    BY <2>5, <2>6, <2>7 DEF TypeOK
<1>5. ASSUME NEW flags \in Answers, Fwdctl(flags)
      PROVE  TypeOK'
  <2>1. flags \in [l2 : BOOLEAN, l3 : BOOLEAN]
    BY StackAssumption
  <2>2. /\ bridge_flags' = flags /\ rx' = [kind |-> "command"]
        /\ sent' = <<>> /\ delivered' = <<>>
        /\ UNCHANGED <<ifs, mactable, arptable, sbuf, rib, fib_n, fib>>
    BY <1>5 DEF Fwdctl
  <2>3. IfTypeOK' /\ EtherTypeOK' /\ ArpTypeOK'
    BY <1>1, <2>1, <2>2 DEF IfTypeOK, EtherTypeOK, ArpTypeOK
  <2>4. IpTypeOK'
    BY <1>1, <2>2 DEF IpTypeOK, Interfaces
  <2> QED
    BY <1>2, <2>2, <2>3, <2>4 DEF TypeOK
<1>6. ASSUME NEW ifp \in Interfaces, NEW cmd \in RouteCmds, RouteAdd(ifp, cmd)
      PROVE  TypeOK'
  <2>1. cmd.dst \in Prefix /\ cmd.next \in Addr
    BY StackAssumption
  <2>2. /\ route_add(ifp, cmd.next, cmd.dst) /\ rx' = [kind |-> "command"]
        /\ sent' = <<>> /\ delivered' = <<>>
        /\ UNCHANGED <<ifs, bridge_flags, mactable, arptable, sbuf>>
    BY <1>6 DEF RouteAdd
  <2>3. IfTypeOK' /\ EtherTypeOK' /\ ArpTypeOK'
    BY <1>1, <2>2 DEF IfTypeOK, EtherTypeOK, ArpTypeOK
  <2>4. Len(ifs) <= Len(ifs') /\ ifp \in Interfaces'
    BY <1>1, <2>2 DEF IfTypeOK, Interfaces
  <2>5. delivered' \in Seq(IpPacket)
    BY <2>2
  <2>6. IpTypeOK'
    BY <1>1, <2>1, <2>2, <2>3, <2>4, <2>5, RouteAddType
  <2> QED
    BY <1>2, <2>2, <2>3, <2>6 DEF TypeOK
<1> QED
  BY <1>3, <1>4, <1>5, <1>6

\* Every step keeps the types.
LEMMA StepType == TypeOK /\ [Next]_vars => TypeOK'
<1> SUFFICES ASSUME TypeOK, [Next]_vars
             PROVE  TypeOK'
  OBVIOUS
<1>1. CASE UNCHANGED vars
  BY <1>1 DEF vars, TypeOK, IfTypeOK, EtherTypeOK, ArpTypeOK, IpTypeOK, Interfaces
<1>2. CASE Next
  BY <1>2, RecvType, CommandType DEF Next
<1> QED
  BY <1>1, <1>2

\* A host that has just started.
LEMMA InitType == Init => TypeOK
<1> SUFFICES ASSUME Init PROVE TypeOK
  OBVIOUS
<1>1. INADDR_ANY \in Addr
  BY DEF INADDR_ANY, Addr
<1>2. IfTypeOK /\ ArpTypeOK /\ rx \in Event
  BY <1>1, EtherAssumption DEF Init, IfTypeOK, ArpTypeOK, Event
<1>3. EtherTypeOK
  <2>1. 0 \in 0 .. Len(ifs)
    BY DEF Init
  <2> QED
    BY <2>1, EtherAssumption DEF Init, EtherTypeOK, NULL
<1>4. IpTypeOK
  BY IpAssumption DEF Init, IpTypeOK
<1> QED
  BY <1>2, <1>3, <1>4 DEF TypeOK

\* The state of the host is well formed after every event: every table entry
\* points to an interface that exists, the next hop table never overflows, and
\* what is queued, sent and delivered are packets with a TTL of eight bits.
THEOREM TypeCorrect == Spec => []TypeOK
BY InitType, StepType, PTL DEF Spec

-----------------------------------------------------------------------------
\* The history.

hall == <<vars, hvars>>

-----------------------------------------------------------------------------
\* Steps and history.

HTypeOK ==
  /\ heard \in [Mac -> Nat]
  /\ claims \in [Addr -> [op : {"none", "request", "reply"}, sha : Mac]]

\* A step handles a frame, or leaves the two hash tables alone.
LEMMA StepShape ==
  ASSUME TypeOK, Next
  PROVE  \/ /\ rx'.kind = "frame"
            /\ rx'.ifp \in Interfaces /\ rx'.eh \in Arrivals /\ rx'.eh \in Frame
            /\ Recv(rx'.ifp, rx'.eh) /\ Received(rx'.ifp, rx'.eh)
         \/ /\ rx'.kind # "frame"
            /\ mactable' = mactable /\ arptable' = arptable
<1>1. ASSUME NEW ifp \in Interfaces, NEW eh \in Arrivals, Recv(ifp, eh)
      PROVE  /\ rx'.kind = "frame"
             /\ rx'.ifp \in Interfaces /\ rx'.eh \in Arrivals /\ rx'.eh \in Frame
             /\ Recv(rx'.ifp, rx'.eh) /\ Received(rx'.ifp, rx'.eh)
  <2>1. Received(ifp, eh)
    BY <1>1 DEF Recv, RecvBridged, RecvIp, RecvArpRequest, RecvArpReply,
                RecvArpOther
  <2>2. rx'.kind = "frame" /\ rx'.ifp = ifp /\ rx'.eh = eh
    BY <2>1 DEF Received
  <2>3. rx'.eh \in Frame
    BY <2>2, StackAssumption
  <2> QED
    BY <1>1, <2>1, <2>2, <2>3
<1>2. ASSUME NEW card \in Cards, Create(card)
      PROVE  rx'.kind # "frame" /\ mactable' = mactable /\ arptable' = arptable
  BY <1>2 DEF Create
<1>3. ASSUME NEW ifp \in Interfaces, NEW dst \in TcpDsts, Tcp(ifp, dst)
      PROVE  rx'.kind # "frame" /\ mactable' = mactable /\ arptable' = arptable
  BY <1>3 DEF Tcp
<1>4. ASSUME NEW flags \in Answers, Fwdctl(flags)
      PROVE  rx'.kind # "frame" /\ mactable' = mactable /\ arptable' = arptable
  BY <1>4 DEF Fwdctl
<1>5. ASSUME NEW ifp \in Interfaces, NEW cmd \in RouteCmds, RouteAdd(ifp, cmd)
      PROVE  rx'.kind # "frame" /\ mactable' = mactable /\ arptable' = arptable
  BY <1>5 DEF RouteAdd
<1> QED
  BY <1>1, <1>2, <1>3, <1>4, <1>5 DEF Next

\* The bridge's part of a step: what it learns is what the history records.
LEMMA BridgeStep ==
  ASSUME TypeOK, HNext
  PROVE  \/ mactable' = mactable /\ heard' = heard
         \/ /\ rx'.eh.src = BROADCAST /\ mactable' = mactable
            /\ heard' = [heard EXCEPT ![BROADCAST] = rx'.ifp]
            /\ rx'.ifp \in Interfaces
         \/ /\ rx'.eh.src # BROADCAST /\ rx'.eh.src \in Mac
            /\ rx'.ifp \in Interfaces
            /\ heard' = [heard EXCEPT ![rx'.eh.src] = rx'.ifp]
            /\ mactable' = [mactable EXCEPT ![MACHASH[rx'.eh.src]] =
                              [addr |-> rx'.eh.src, ifp |-> rx'.ifp]]
<1>1. Next
  BY DEF HNext
<1>2. CASE rx'.kind = "frame"
  <2>1. /\ rx'.ifp \in Interfaces /\ rx'.eh \in Frame
        /\ bridge_input(rx'.ifp, rx'.eh)
    BY <1>1, <1>2, StepShape DEF Received
  <2>2. rx'.eh.src \in Mac
    BY <2>1 DEF Frame
  <2>3. CASE Bridged(rx'.ifp, rx'.eh)
    <3>1. heard' = [heard EXCEPT ![rx'.eh.src] = rx'.ifp]
      BY <1>2, <2>3 DEF HNext
    <3>2. mactable' = add2mactable(rx'.ifp, rx'.eh.src)
      BY <2>1, <2>3 DEF bridge_input
    <3> QED
      BY <2>1, <2>2, <3>1, <3>2 DEF add2mactable
  <2>4. CASE ~ Bridged(rx'.ifp, rx'.eh)
    BY <2>1, <2>4 DEF HNext, bridge_input
  <2> QED
    BY <2>3, <2>4
<1>3. CASE rx'.kind # "frame"
  BY <1>1, <1>3, StepShape DEF HNext
<1> QED
  BY <1>2, <1>3

\* The ARP code's part of a step.
LEMMA ArpStep ==
  ASSUME TypeOK, HNext
  PROVE  \/ /\ ~ ArpIn(rx', "request") /\ ~ ArpIn(rx', "reply")
            /\ arptable' = arptable /\ claims' = claims
         \/ \E op \in {"request", "reply"} :
              /\ ArpIn(rx', op)
              /\ rx'.eh.pl.spa \in Addr /\ rx'.eh.pl.sha \in Mac
              /\ arptable' = add2arptable(rx'.eh.pl.spa, rx'.eh.pl.sha)
              /\ claims' = [claims EXCEPT ![rx'.eh.pl.spa] =
                              [op |-> op, sha |-> rx'.eh.pl.sha]]
<1>1. Next
  BY DEF HNext
<1>2. CASE rx'.kind = "frame"
  <2>1. Recv(rx'.ifp, rx'.eh) /\ rx'.eh \in Frame
    BY <1>1, <1>2, StepShape
  <2>2. CASE \/ RecvBridged(rx'.ifp, rx'.eh) \/ RecvIp(rx'.ifp, rx'.eh)
             \/ RecvArpOther(rx'.ifp, rx'.eh)
    <3>1. ~ ArpIn(rx', "request") /\ ~ ArpIn(rx', "reply")
      BY <2>2 DEF RecvBridged, RecvIp, RecvArpOther, ArpIn
    <3>2. arptable' = arptable
      BY <2>2 DEF RecvBridged, RecvIp, RecvArpOther
    <3> QED
      BY <3>1, <3>2 DEF HNext
  <2>3. ASSUME NEW op \in {"request", "reply"}, ArpIn(rx', op),
               arptable' = add2arptable(rx'.eh.pl.spa, rx'.eh.pl.sha)
        PROVE  /\ rx'.eh.pl.spa \in Addr /\ rx'.eh.pl.sha \in Mac
               /\ claims' = [claims EXCEPT ![rx'.eh.pl.spa] =
                               [op |-> op, sha |-> rx'.eh.pl.sha]]
    <3>1. rx'.eh.type = "ARP" /\ rx'.eh.pl.op = op
      BY <2>3 DEF ArpIn
    <3>2. rx'.eh.pl \in ArpPacket
      BY <2>1, <3>1 DEF Frame
    <3>3. claims' = [claims EXCEPT ![rx'.eh.pl.spa] =
                       [op |-> rx'.eh.pl.op, sha |-> rx'.eh.pl.sha]]
      BY <2>3 DEF HNext
    <3> QED
      BY <3>1, <3>2, <3>3 DEF ArpPacket
  <2>4. CASE RecvArpRequest(rx'.ifp, rx'.eh)
    <3>1. /\ ArpIn(rx', "request")
          /\ arptable' = add2arptable(rx'.eh.pl.spa, rx'.eh.pl.sha)
      BY <1>2, <2>4 DEF RecvArpRequest, ArpIn
    <3> QED
      BY <2>3, <3>1
  <2>5. CASE RecvArpReply(rx'.ifp, rx'.eh)
    <3>1. /\ ArpIn(rx', "reply")
          /\ arptable' = add2arptable(rx'.eh.pl.spa, rx'.eh.pl.sha)
      BY <1>2, <2>5 DEF RecvArpReply, ArpIn
    <3> QED
      BY <2>3, <3>1
  <2> QED
    BY <2>1, <2>2, <2>4, <2>5 DEF Recv
<1>3. CASE rx'.kind # "frame"
  BY <1>1, <1>3, StepShape DEF HNext, ArpIn
<1> QED
  BY <1>2, <1>3

\* The types of the history.
LEMMA HistoryType == HSpec => [](TypeOK /\ HTypeOK)
<1>1. HInit => TypeOK /\ HTypeOK
  <2> SUFFICES ASSUME HInit PROVE TypeOK /\ HTypeOK
    OBVIOUS
  <2>1. TypeOK
    BY InitType DEF HInit
  <2>2. HTypeOK
    BY EtherAssumption DEF HInit, HTypeOK, NULL
  <2> QED
    BY <2>1, <2>2
<1>2. TypeOK /\ HTypeOK /\ [HNext]_hall => TypeOK' /\ HTypeOK'
  <2> SUFFICES ASSUME TypeOK, HTypeOK, [HNext]_hall
               PROVE  TypeOK' /\ HTypeOK'
    OBVIOUS
  <2>1. TypeOK'
    BY StepType DEF HNext, hall
  <2>2. CASE UNCHANGED hall
    BY <2>1, <2>2 DEF HTypeOK, hall, hvars
  <2>3. CASE HNext
    <3>1. heard' \in [Mac -> Nat]
      BY <2>3, BridgeStep, EtherAssumption DEF HTypeOK, Interfaces
    <3>2. claims' \in [Addr -> [op : {"none", "request", "reply"}, sha : Mac]]
      BY <2>3, ArpStep DEF HTypeOK
    <3> QED
      BY <2>1, <3>1, <3>2 DEF HTypeOK
  <2> QED
    BY <2>2, <2>3
<1> QED
  BY <1>1, <1>2, PTL DEF HSpec, hall

-----------------------------------------------------------------------------
\* The bridge.

\* An entry is in the slot of its station, and is not that of BROADCAST: hence
\* what moves a station in the history rewrites its entry, if it has one.
Stations ==
  \A s \in Slots : mactable[s].ifp # NULL =>
    /\ mactable[s].addr # BROADCAST
    /\ MACHASH[mactable[s].addr] = s
    /\ mactable[s].ifp = heard[mactable[s].addr]

LEMMA StationsStep ==
  ASSUME TypeOK, HTypeOK, Stations, HNext
  PROVE  Stations'
<1>1. CASE mactable' = mactable /\ heard' = heard
  BY <1>1 DEF Stations
<1>2. CASE /\ mactable' = mactable
           /\ heard' = [heard EXCEPT ![BROADCAST] = rx'.ifp]
  BY <1>2 DEF Stations, HTypeOK, TypeOK, EtherTypeOK
<1>3. CASE /\ rx'.eh.src # BROADCAST /\ rx'.eh.src \in Mac
           /\ rx'.ifp \in Interfaces
           /\ heard' = [heard EXCEPT ![rx'.eh.src] = rx'.ifp]
           /\ mactable' = [mactable EXCEPT ![MACHASH[rx'.eh.src]] =
                             [addr |-> rx'.eh.src, ifp |-> rx'.ifp]]
  <2> DEFINE src == rx'.eh.src
  <2>1. mactable \in [Slots -> [addr : Mac, ifp : 0 .. Len(ifs)]]
        /\ MACHASH[src] \in Slots
    BY <1>3, EtherAssumption DEF TypeOK, EtherTypeOK
  <2> SUFFICES ASSUME NEW s \in Slots, mactable'[s].ifp # NULL
               PROVE  /\ mactable'[s].addr # BROADCAST
                      /\ MACHASH[mactable'[s].addr] = s
                      /\ mactable'[s].ifp = heard'[mactable'[s].addr]
    BY DEF Stations
  <2>2. CASE s = MACHASH[src]
    <3>1. mactable'[s] = [addr |-> src, ifp |-> rx'.ifp]
      BY <1>3, <2>1, <2>2
    <3>2. heard'[src] = rx'.ifp
      BY <1>3 DEF HTypeOK
    <3> QED
      BY <1>3, <2>2, <3>1, <3>2
  <2>3. CASE s # MACHASH[src]
    <3>1. mactable'[s] = mactable[s] /\ mactable[s].addr \in Mac
      BY <1>3, <2>1, <2>3
    <3>2. mactable[s].addr # src
      BY <2>3, <3>1 DEF Stations
    <3>3. heard'[mactable[s].addr] = heard[mactable[s].addr]
      BY <1>3, <3>1, <3>2 DEF HTypeOK
    <3> QED
      BY <3>1, <3>3 DEF Stations
  <2> QED
    BY <2>2, <2>3
<1> QED
  BY <1>1, <1>2, <1>3, BridgeStep

LEMMA StationsInvariant == HSpec => []Stations
<1>1. HInit => Stations
  BY DEF HInit, Init, Stations
<1>2. TypeOK /\ HTypeOK /\ Stations /\ [HNext]_hall => Stations'
  <2> SUFFICES ASSUME TypeOK, HTypeOK, Stations, [HNext]_hall
               PROVE  Stations'
    OBVIOUS
  <2>1. CASE UNCHANGED hall
    BY <2>1 DEF Stations, hall, vars, hvars
  <2> QED
    BY <2>1, StationsStep
<1> QED
  BY <1>1, <1>2, HistoryType, PTL DEF HSpec, hall

\* However stations move and share slots, the bridge sends a frame to the port
\* its destination was last heard on, or else to every port.
THEOREM LearnedPort == HSpec => []LearnedPortIsLatest
<1>1. Stations => LearnedPortIsLatest
  BY DEF Stations, LearnedPortIsLatest
<1> QED
  BY <1>1, StationsInvariant, PTL

-----------------------------------------------------------------------------
\* The ARP table.

LEMMA ClaimStep ==
  ASSUME TypeOK, HTypeOK, EntryIsLatestClaim, HNext
  PROVE  EntryIsLatestClaim'
<1>1. CASE arptable' = arptable /\ claims' = claims
  BY <1>1 DEF EntryIsLatestClaim, Found, MacFor
<1>2. CASE \E op \in {"request", "reply"} :
             /\ rx'.eh.pl.spa \in Addr /\ rx'.eh.pl.sha \in Mac
             /\ arptable' = add2arptable(rx'.eh.pl.spa, rx'.eh.pl.sha)
             /\ claims' = [claims EXCEPT ![rx'.eh.pl.spa] =
                             [op |-> op, sha |-> rx'.eh.pl.sha]]
  <2> DEFINE spa == rx'.eh.pl.spa
             sha == rx'.eh.pl.sha
  <2>1. PICK op \in {"request", "reply"} :
          claims' = [claims EXCEPT ![spa] = [op |-> op, sha |-> sha]]
    BY <1>2
  <2>2. /\ arptable' = [arptable EXCEPT ![IPHASH[spa]] =
                          [ip_addr |-> spa, macaddr |-> sha]]
        /\ spa \in Addr /\ IPHASH[spa] \in Slots
        /\ arptable \in [Slots -> [ip_addr : Addr, macaddr : Mac]]
    BY <1>2, ArpAssumption DEF add2arptable, TypeOK, ArpTypeOK
  <2> SUFFICES ASSUME NEW a \in Addr, a # INADDR_ANY,
                      arptable'[IPHASH[a]].ip_addr = a
               PROVE  /\ claims'[a].op # "none"
                      /\ arptable'[IPHASH[a]].macaddr = claims'[a].sha
    BY DEF EntryIsLatestClaim, Found, MacFor
  <2>3. IPHASH[a] \in Slots
    BY ArpAssumption
  <2> HIDE DEF spa, sha
  <2>4. CASE a = spa
    BY <2>1, <2>2, <2>4 DEF HTypeOK
  <2>5. CASE a # spa
    <3>1. IPHASH[a] # IPHASH[spa]
      BY <2>2, <2>5
    <3>2. arptable'[IPHASH[a]] = arptable[IPHASH[a]] /\ claims'[a] = claims[a]
      BY <2>1, <2>2, <2>3, <2>5, <3>1 DEF HTypeOK
    <3> QED
      BY <3>2 DEF EntryIsLatestClaim, Found, MacFor
  <2> QED
    BY <2>4, <2>5
<1> QED
  BY <1>1, <1>2, ArpStep

\* An address that the ARP table answers for, other than 0.0.0.0, was claimed
\* in an ARP packet, and the answer is the MAC address of the latest claim.
THEOREM LatestClaim == HSpec => []EntryIsLatestClaim
<1>1. HInit => EntryIsLatestClaim
  BY ArpAssumption DEF HInit, Init, EntryIsLatestClaim, Found
<1>2. TypeOK /\ HTypeOK /\ EntryIsLatestClaim /\ [HNext]_hall
        => EntryIsLatestClaim'
  <2> SUFFICES ASSUME TypeOK, HTypeOK, EntryIsLatestClaim, [HNext]_hall
               PROVE  EntryIsLatestClaim'
    OBVIOUS
  <2>1. CASE UNCHANGED hall
    BY <2>1 DEF EntryIsLatestClaim, Found, MacFor, hall, vars, hvars
  <2> QED
    BY <2>1, ClaimStep
<1> QED
  BY <1>1, <1>2, HistoryType, PTL DEF HSpec, hall

-----------------------------------------------------------------------------
\* What the IPv4 paths do with a packet.

\* The next hop of a packet that takes a route, and the packet one hop older.
NextIp(entry, pkt) == IF entry.addr = INADDR_ANY THEN pkt.dst ELSE entry.addr
Older(pkt) == [pkt EXCEPT !.ttl = (@ + 255) % 256]

\* The packet as it leaves, and as it waits.
Leaves(entry, pkt) ==
  ether_output(entry.ifp, IpFrame(ifs[entry.ifp].mac,
    MacFor(arptable, NextIp(entry, pkt)), Older(pkt)))
Waits(entry, pkt) ==
  [nextip |-> NextIp(entry, pkt), shost |-> ifs[entry.ifp].mac, pkt |-> Older(pkt)]

\* The route of a packet that is not for this host, if there is one.
Onward(pkt) == {r \in route_lookup(pkt.dst) : ifs[r.ifp].addr # pkt.dst}

\* The path r routes the packet k: it leaves at once, or waits and is asked for.
Routes(r, k) ==
  \E entry \in [ifp : Interfaces, addr : Addr] :
    /\ Onward(k) = {entry}
    /\ NextIp(entry, k) \in Addr /\ Older(k) \in IpPacket
    /\ \/ r.queue = <<>> /\ r.sent = <<Leaves(entry, k)>>
       \/ /\ ~ Found(arptable, NextIp(entry, k))
          /\ r.queue = <<Waits(entry, k)>>
          /\ r.sent = <<arp_req(entry.ifp, NextIp(entry, k))>>

LEMMA RouteShape ==
  ASSUME TypeOK, NEW k \in IpPacket
  PROVE  \/ Routes(ipv4_forward(k), k)
         \/ /\ Onward(k) = {}
            /\ ipv4_forward(k).queue = <<>> /\ ipv4_forward(k).sent = <<>>
<1> DEFINE r == ipv4_forward(k)
<1>1. k.dst \in Addr /\ k.ttl \in 0 .. 255 /\ DOMAIN rib \in SUBSET Prefix
  BY DEF IpPacket, TypeOK, IpTypeOK
<1>2. Older(k) \in IpPacket
  <2>1. (k.ttl + 255) % 256 \in 0 .. 255
    BY <1>1
  <2> QED
    BY <2>1 DEF Older, IpPacket
<1>3. Drop.queue = <<>> /\ Drop.sent = <<>>
  BY DEF Drop
<1>4. CASE route_lookup(k.dst) = {}
  BY <1>3, <1>4 DEF ipv4_forward, Onward
<1>5. CASE route_lookup(k.dst) # {}
  <2>1. PICK p \in Longest(DOMAIN rib, k.dst) : TRUE
    BY <1>5 DEF route_lookup
  <2>2. ASSUME NEW q \in Longest(DOMAIN rib, k.dst)
        PROVE  q = p
    <3>1. /\ q \in DOMAIN rib /\ Covers(q, k.dst)
          /\ p \in DOMAIN rib /\ Covers(p, k.dst) /\ p.plen <= q.plen
      BY <2>1 DEF Longest
    <3>2. q.plen \in Nat /\ p.plen \in Nat
      BY <1>1, <3>1, PrefixType, WidthAssumption
    <3>3. q.plen >= p.plen
      BY <3>1, <3>2
    <3> QED
      BY <1>1, <2>1, <3>1, <3>3, OneLongest
  <2> DEFINE entry == rib[p]
  <2>3. route_lookup(k.dst) = {entry}
    BY <2>1, <2>2 DEF route_lookup
  <2>4. entry \in [ifp : Interfaces, addr : Addr]
    BY <2>1 DEF Longest, TypeOK, IpTypeOK
  <2>5. NextIp(entry, k) \in Addr
    BY <1>1, <2>4 DEF NextIp
  <2> HIDE DEF entry
  <2>6. r = IF ifs[entry.ifp].addr = k.dst THEN Deliver(k) ELSE Route(entry, k)
    <3>1. (CHOOSE e \in {entry} : TRUE) = entry
      OBVIOUS
    <3> QED
      BY <2>3, <3>1 DEF ipv4_forward
  <2>7. CASE ifs[entry.ifp].addr = k.dst
    <3>1. Onward(k) = {}
      BY <2>3, <2>7 DEF Onward
    <3>2. r.queue = <<>> /\ r.sent = <<>>
      BY <2>6, <2>7 DEF Deliver, Drop
    <3> QED
      BY <3>1, <3>2
  <2>8. CASE ifs[entry.ifp].addr # k.dst
    <3>1. Onward(k) = {entry}
      BY <2>3, <2>8 DEF Onward
    <3>2. CASE Found(arptable, NextIp(entry, k))
      <4>1. r = [Drop EXCEPT !.sent = <<Leaves(entry, k)>>]
        BY <2>6, <2>8, <3>2 DEF Route, Leaves, NextIp, Older
      <4>2. r.queue = <<>> /\ r.sent = <<Leaves(entry, k)>>
        BY <4>1 DEF Drop
      <4> QED
        BY <1>2, <2>4, <2>5, <3>1, <4>2 DEF Routes
    <3>3. CASE ~ Found(arptable, NextIp(entry, k))
      <4>1. r = Await(entry.ifp, NextIp(entry, k), Older(k))
        BY <2>6, <2>8, <3>3 DEF Route, NextIp, Older
      <4>2. r = [Drop EXCEPT !.sent = <<arp_req(entry.ifp, NextIp(entry, k))>>,
                             !.queue = <<Waits(entry, k)>>]
        BY <4>1, Zenon DEF Await, Waits
      <4>3. /\ r.queue = <<Waits(entry, k)>>
            /\ r.sent = <<arp_req(entry.ifp, NextIp(entry, k))>>
        BY <4>2 DEF Drop
      <4> QED
        BY <1>2, <2>4, <2>5, <3>1, <3>3, <4>3 DEF Routes
    <3> QED
      BY <3>2, <3>3
  <2> QED
    BY <2>7, <2>8
<1> QED
  BY <1>4, <1>5

\* A packet that comes in is routed when it is for another host and may live on.
MayPass(pkt) == ~ is_to_me(pkt.dst) /\ IS_L3BRIDGE /\ pkt.ttl > 1

LEMMA InputShape ==
  ASSUME TypeOK, NEW k \in IpPacket
  PROVE  \/ MayPass(k) /\ Routes(ipv4_input(k), k)
         \/ /\ MayPass(k) => Onward(k) = {}
            /\ ipv4_input(k).queue = <<>> /\ ipv4_input(k).sent = <<>>
<1>1. CASE MayPass(k)
  <2>1. ipv4_input(k) = ipv4_forward(k)
    BY <1>1 DEF MayPass, ipv4_input
  <2> QED
    BY <1>1, <2>1, RouteShape
<1>2. CASE ~ MayPass(k)
  <2>1. ipv4_input(k) = Drop \/ ipv4_input(k) = Deliver(k)
    BY <1>2 DEF MayPass, ipv4_input
  <2>2. ipv4_input(k).queue = <<>> /\ ipv4_input(k).sent = <<>>
    BY <2>1 DEF Drop, Deliver
  <2> QED
    BY <1>2, <2>2
<1> QED
  BY <1>1, <1>2

LEMMA OutputShape ==
  ASSUME TypeOK, NEW k \in IpPacket
  PROVE  LET pkt == [k EXCEPT !.ttl = 32]
         IN  /\ pkt \in IpPacket /\ pkt.ttl = 32
             /\ \/ Routes(ipv4_output(k), pkt)
                \/ /\ Onward(pkt) = {}
                   /\ ipv4_output(k).queue = <<>> /\ ipv4_output(k).sent = <<>>
<1> DEFINE pkt == [k EXCEPT !.ttl = 32]
<1>1. pkt \in IpPacket /\ pkt.ttl = 32
  BY DEF IpPacket
<1>2. ipv4_output(k) = ipv4_forward(pkt)
  BY DEF ipv4_output
<1> HIDE DEF pkt
<1>3. \/ Routes(ipv4_forward(pkt), pkt)
      \/ /\ Onward(pkt) = {}
         /\ ipv4_forward(pkt).queue = <<>> /\ ipv4_forward(pkt).sent = <<>>
  BY <1>1, RouteShape
<1> QED
  BY <1>1, <1>2, <1>3 DEF pkt

\* What routing a packet puts into the send buffer and onto the wire: frames of
\* the interface that the route names, with the packet one hop older.
LEMMA RoutedType ==
  ASSUME TypeOK, NEW k \in IpPacket, NEW entry \in [ifp : Interfaces, addr : Addr],
         NextIp(entry, k) \in Addr, Older(k) \in IpPacket
  PROVE  /\ Leaves(entry, k) \in Transmission
         /\ Leaves(entry, k).eh.type = "IP"
         /\ Leaves(entry, k).eh.src = ifs[entry.ifp].mac
         /\ Leaves(entry, k).eh.pl = Older(k)
         /\ Waits(entry, k) \in SendBuf
         /\ Waits(entry, k).nextip = NextIp(entry, k)
         /\ Waits(entry, k).shost = ifs[entry.ifp].mac
         /\ Waits(entry, k).pkt = Older(k)
         /\ arp_req(entry.ifp, NextIp(entry, k)) \in Transmission
         /\ arp_req(entry.ifp, NextIp(entry, k)).eh.type = "ARP"
         /\ arp_req(entry.ifp, NextIp(entry, k)).eh.src = ifs[entry.ifp].mac
         /\ arp_req(entry.ifp, NextIp(entry, k)).ifp = entry.ifp
         /\ arp_req(entry.ifp, NextIp(entry, k)).eh.pl.op = "request"
         /\ arp_req(entry.ifp, NextIp(entry, k)).eh.pl.tpa = NextIp(entry, k)
<1>1. IfTypeOK /\ ArpTypeOK /\ entry.ifp \in Interfaces
  BY DEF TypeOK
<1>2. entry.ifp \in Nat \ {NULL} /\ ifs[entry.ifp].mac \in Mac
  BY <1>1, InterfaceType
<1>3. MacFor(arptable, NextIp(entry, k)) \in Mac
  BY <1>1, ArpAssumption DEF MacFor, ArpTypeOK
<1> DEFINE eh == IpFrame(ifs[entry.ifp].mac,
                   MacFor(arptable, NextIp(entry, k)), Older(k))
<1>4. /\ eh \in Frame /\ eh.type = "IP"
      /\ eh.src = ifs[entry.ifp].mac /\ eh.pl = Older(k)
  BY <1>2, <1>3, FrameType DEF IpFrame
<1> HIDE DEF eh
<1>5. Leaves(entry, k) = ether_output(entry.ifp, eh)
  BY DEF Leaves, eh
<1>6. /\ Leaves(entry, k) \in Transmission
      /\ Leaves(entry, k).eh.type = "IP"
      /\ Leaves(entry, k).eh.src = ifs[entry.ifp].mac
      /\ Leaves(entry, k).eh.pl = Older(k)
  <2>1. ether_output(entry.ifp, eh).eh = eh
    BY DEF ether_output
  <2> QED
    BY <1>2, <1>4, <1>5, <2>1, SendType
<1>7. /\ Waits(entry, k) \in SendBuf
      /\ Waits(entry, k).nextip = NextIp(entry, k)
      /\ Waits(entry, k).shost = ifs[entry.ifp].mac
      /\ Waits(entry, k).pkt = Older(k)
  BY <1>2 DEF Waits, SendBuf
<1>8. arp_req(entry.ifp, NextIp(entry, k)) \in Transmission
  BY <1>1, ArpType
<1>9. /\ arp_req(entry.ifp, NextIp(entry, k)).eh.type = "ARP"
      /\ arp_req(entry.ifp, NextIp(entry, k)).eh.src = ifs[entry.ifp].mac
      /\ arp_req(entry.ifp, NextIp(entry, k)).ifp = entry.ifp
      /\ arp_req(entry.ifp, NextIp(entry, k)).eh.pl.op = "request"
      /\ arp_req(entry.ifp, NextIp(entry, k)).eh.pl.tpa = NextIp(entry, k)
  BY DEF arp_req, ether_output, ArpFrame
<1> QED
  BY <1>6, <1>7, <1>8, <1>9

-----------------------------------------------------------------------------
\* The send buffer.

\* The transmission asks for the MAC address of a.
Asks(tx, a) ==
  /\ tx.eh.type = "ARP" /\ tx.eh.pl.op = "request" /\ tx.eh.pl.tpa = a
  /\ tx.eh.src = ifs[tx.ifp].mac

\* A packet that is kept waits for an address that is not known, and that has
\* just been asked for.
KeepsAndAsks(r) ==
  \/ r.queue = <<>>
  \/ \E e \in SendBuf, tx \in Transmission :
       /\ r.queue = <<e>> /\ r.sent = <<tx>>
       /\ Asks(tx, e.nextip) /\ ~ Found(arptable, e.nextip)

LEMMA IpQueues ==
  ASSUME TypeOK, NEW pkt \in IpPacket
  PROVE  KeepsAndAsks(ipv4_input(pkt)) /\ KeepsAndAsks(ipv4_output(pkt))
<1>1. ASSUME NEW k \in IpPacket, NEW r,
             Routes(r, k) \/ (r.queue = <<>> /\ r.sent = <<>>)
      PROVE  KeepsAndAsks(r)
  <2>1. CASE r.queue = <<>>
    BY <2>1 DEF KeepsAndAsks
  <2>2. CASE r.queue # <<>>
    <3>1. PICK entry \in [ifp : Interfaces, addr : Addr] :
            /\ NextIp(entry, k) \in Addr /\ Older(k) \in IpPacket
            /\ ~ Found(arptable, NextIp(entry, k))
            /\ r.queue = <<Waits(entry, k)>>
            /\ r.sent = <<arp_req(entry.ifp, NextIp(entry, k))>>
      BY <1>1, <2>2 DEF Routes
    <3>2. /\ Waits(entry, k) \in SendBuf
          /\ Waits(entry, k).nextip = NextIp(entry, k)
          /\ arp_req(entry.ifp, NextIp(entry, k)) \in Transmission
          /\ Asks(arp_req(entry.ifp, NextIp(entry, k)), NextIp(entry, k))
      BY <3>1, RoutedType DEF Asks
    <3> QED
      BY <3>1, <3>2 DEF KeepsAndAsks
  <2> QED
    BY <2>1, <2>2
<1> DEFINE old == [pkt EXCEPT !.ttl = 32]
<1>2. old \in IpPacket
  BY DEF IpPacket
<1>3. Routes(ipv4_output(pkt), old)
      \/ (ipv4_output(pkt).queue = <<>> /\ ipv4_output(pkt).sent = <<>>)
  BY OutputShape
<1> HIDE DEF old
<1> QED
  BY <1>1, <1>2, <1>3, InputShape

\* What a step does to the send buffer: a packet joins it, a reply walks it, or
\* it stays as it is.
LEMMA BufferStep ==
  ASSUME TypeOK, HNext
  PROVE  \/ sbuf' = sbuf /\ ~ ArpIn(rx', "reply")
         \/ /\ ~ ArpIn(rx', "request") /\ ~ ArpIn(rx', "reply")
            /\ \E e \in SendBuf : /\ sbuf' = <<e>> \o sbuf
                                 /\ ~ Found(arptable, e.nextip)
                                 /\ e.nextip \in asked'
         \/ /\ ArpIn(rx', "reply")
            /\ arptable' = add2arptable(rx'.eh.pl.spa, rx'.eh.pl.sha)
            /\ sbuf' \in Seq({e \in Entries(sbuf) : ~ Found(arptable', e.nextip)})
<1>1. Next /\ sbuf \in Seq(SendBuf)
  BY DEF HNext, TypeOK, ArpTypeOK
<1>2. ASSUME NEW r, r.queue \in Seq(SendBuf), KeepsAndAsks(r),
             NEW before \in Seq(Transmission), sent' = before \o r.sent,
             sbuf' = r.queue \o sbuf,
             ~ ArpIn(rx', "request"), ~ ArpIn(rx', "reply")
      PROVE  \/ sbuf' = sbuf
             \/ \E e \in SendBuf : /\ sbuf' = <<e>> \o sbuf
                                  /\ ~ Found(arptable, e.nextip)
                                  /\ e.nextip \in asked'
  <2>1. CASE r.queue = <<>>
    BY <1>1, <1>2, <2>1
  <2>2. CASE r.queue # <<>>
    <3>1. PICK e \in SendBuf, tx \in Transmission :
            /\ r.queue = <<e>> /\ r.sent = <<tx>>
            /\ Asks(tx, e.nextip) /\ ~ Found(arptable, e.nextip)
      BY <1>2, <2>2 DEF KeepsAndAsks
    <3>2. tx \in Entries(sent')
      <4>1. sent' = before \o <<tx>>
        BY <1>2, <3>1
      <4>2. Len(before) + 1 \in DOMAIN sent' /\ sent'[Len(before) + 1] = tx
        BY <4>1
      <4> QED
        BY <4>2 DEF Entries
    <3>3. e.nextip \in Requests(sent')
      BY <3>1, <3>2 DEF Requests, Asks
    <3>4. e.nextip \in asked'
      BY <1>2, <3>3 DEF HNext
    <3> QED
      BY <1>2, <3>1, <3>4
  <2> QED
    BY <2>1, <2>2
<1>3. ASSUME NEW ifp \in Interfaces, NEW eh \in Arrivals, RecvIp(ifp, eh)
      PROVE  \/ sbuf' = sbuf /\ ~ ArpIn(rx', "reply")
             \/ /\ ~ ArpIn(rx', "request") /\ ~ ArpIn(rx', "reply")
                /\ \E e \in SendBuf : /\ sbuf' = <<e>> \o sbuf
                                     /\ ~ Found(arptable, e.nextip)
                                     /\ e.nextip \in asked'
  <2>1. eh.pl \in IpPacket /\ eh \in Frame
    BY <1>3, StackAssumption DEF RecvIp, Frame
  <2>2. rx'.eh = eh /\ eh.type = "IP"
    BY <1>3 DEF RecvIp, Received
  <2>3. ~ ArpIn(rx', "request") /\ ~ ArpIn(rx', "reply")
    BY <2>2 DEF ArpIn
  <2>4. /\ sbuf' = ipv4_input(eh.pl).queue \o sbuf
        /\ sent' = BridgeSends(ifp, eh) \o ipv4_input(eh.pl).sent
    BY <1>3 DEF RecvIp
  <2>5. /\ ipv4_input(eh.pl).queue \in Seq(SendBuf)
        /\ BridgeSends(ifp, eh) \in Seq(Transmission)
        /\ KeepsAndAsks(ipv4_input(eh.pl))
    BY <2>1, IpType, IpQueues, BridgeType DEF TypeOK, Outcome
  <2> QED
    BY <1>2, <2>3, <2>4, <2>5
<1>4. ASSUME NEW ifp \in Interfaces, NEW dst \in TcpDsts, Tcp(ifp, dst)
      PROVE  \/ sbuf' = sbuf /\ ~ ArpIn(rx', "reply")
             \/ /\ ~ ArpIn(rx', "request") /\ ~ ArpIn(rx', "reply")
                /\ \E e \in SendBuf : /\ sbuf' = <<e>> \o sbuf
                                     /\ ~ Found(arptable, e.nextip)
                                     /\ e.nextip \in asked'
  <2> DEFINE pkt == TcpSyn(ifp, dst)
  <2>1. pkt \in IpPacket
    BY InterfaceType, StackAssumption DEF TypeOK, TcpSyn, IpPacket
  <2>2. ~ ArpIn(rx', "request") /\ ~ ArpIn(rx', "reply")
    BY <1>4 DEF Tcp, ArpIn
  <2>3. sbuf' = ipv4_output(pkt).queue \o sbuf /\ sent' = ipv4_output(pkt).sent
    BY <1>4 DEF Tcp
  <2> HIDE DEF pkt
  <2>4. /\ ipv4_output(pkt).queue \in Seq(SendBuf)
        /\ ipv4_output(pkt).sent \in Seq(Transmission)
        /\ KeepsAndAsks(ipv4_output(pkt))
    BY <2>1, IpType, IpQueues DEF TypeOK, Outcome
  <2>5. <<>> \in Seq(Transmission) /\ sent' = <<>> \o ipv4_output(pkt).sent
    BY <2>3, <2>4
  <2> QED
    BY <1>2, <2>2, <2>3, <2>4, <2>5
<1>5. ASSUME NEW ifp \in Interfaces, NEW eh \in Arrivals, RecvArpReply(ifp, eh)
      PROVE  /\ ArpIn(rx', "reply")
             /\ arptable' = add2arptable(rx'.eh.pl.spa, rx'.eh.pl.sha)
             /\ sbuf' \in Seq({e \in Entries(sbuf) : ~ Found(arptable', e.nextip)})
  <2> DEFINE K == {e \in Entries(sbuf) : ~ Found(arptable', e.nextip)}
             S == {ether_output(ifp, IpFrame(sbuf[n].shost,
                     MacFor(arptable', sbuf[n].nextip), sbuf[n].pkt)) :
                     n \in 1 .. Len(sbuf)}
  <2>1. \A n \in 1 .. Len(sbuf) :
          IF Found(arptable', sbuf[n].nextip)
          THEN ether_output(ifp, IpFrame(sbuf[n].shost,
                 MacFor(arptable', sbuf[n].nextip), sbuf[n].pkt)) \in S
          ELSE sbuf[n] \in K
    BY <1>1 DEF Entries
  <2> HIDE DEF K, S
  <2>2. WalkList(sbuf, ifp, arptable') \in [kept : Seq(K), sent : Seq(S)]
    BY <1>1, <2>1, WalkFacts
  <2>3. /\ sbuf' = Walk(ifp, arptable').kept
        /\ arptable' = add2arptable(eh.pl.spa, eh.pl.sha)
        /\ rx' = [kind |-> "frame", ifp |-> ifp, eh |-> eh]
        /\ eh.type = "ARP" /\ eh.pl.op = "reply" /\ ForUs(ifp, eh)
    BY <1>5 DEF RecvArpReply, Received
  <2>4. sbuf' \in Seq(K)
    BY <2>2, <2>3 DEF Walk
  <2> QED
    BY <2>3, <2>4 DEF K, ArpIn
<1>6. ASSUME NEW ifp \in Interfaces, NEW eh \in Arrivals,
             \/ RecvBridged(ifp, eh) \/ RecvArpRequest(ifp, eh)
             \/ RecvArpOther(ifp, eh)
      PROVE  sbuf' = sbuf /\ ~ ArpIn(rx', "reply")
  BY <1>6 DEF RecvBridged, RecvArpRequest, RecvArpOther, Received, ArpIn
<1>7. ASSUME \/ \E card \in Cards : Create(card)
             \/ \E flags \in Answers : Fwdctl(flags)
             \/ \E ifp \in Interfaces, cmd \in RouteCmds : RouteAdd(ifp, cmd)
      PROVE  sbuf' = sbuf /\ ~ ArpIn(rx', "reply")
  BY <1>7 DEF Create, Fwdctl, RouteAdd, ArpIn
<1> QED
  BY <1>1, <1>3, <1>4, <1>5, <1>6, <1>7 DEF Next, Recv

\* A step that handles no reply leaves a state in which rx is no reply: the
\* interfaces that ForUs looks at do not change while a frame is handled.
LEMMA NoReply ==
  ASSUME TypeOK, HNext, ~ ArpIn(rx', "reply")
  PROVE  ReplyDrainsBuffer'
<1>1. CASE rx'.kind = "frame"
  <2>1. ifs' = ifs
    BY <1>1, StepShape DEF HNext, Received, Tables
  <2> QED
    BY <2>1 DEF ReplyDrainsBuffer, ArpIn, ForUs
<1>2. CASE rx'.kind # "frame"
  BY <1>2 DEF ReplyDrainsBuffer, ArpIn
<1> QED
  BY <1>1, <1>2

BufferOK == WaitingWasAsked /\ ReplyDrainsBuffer /\ ResolvedWaitsAfterRequestOnly

LEMMA BufferOKStep ==
  ASSUME TypeOK, HTypeOK, BufferOK, HNext
  PROVE  BufferOK'
<1>1. /\ sbuf \in Seq(SendBuf)
      /\ arptable \in [Slots -> [ip_addr : Addr, macaddr : Mac]]
  BY DEF TypeOK, ArpTypeOK
<1>2. ASSUME ~ ArpIn(rx', "reply")
      PROVE  asked \subseteq asked'
  BY <1>2 DEF HNext
<1>3. CASE /\ ~ ArpIn(rx', "request") /\ ~ ArpIn(rx', "reply")
           /\ \/ sbuf' = sbuf
              \/ \E e \in SendBuf : /\ sbuf' = <<e>> \o sbuf
                                   /\ ~ Found(arptable, e.nextip)
                                   /\ e.nextip \in asked'
  <2>1. arptable' = arptable /\ claims' = claims
    BY <1>3, ArpStep
  <2>2. ASSUME NEW i \in DOMAIN sbuf'
        PROVE  \/ \E j \in DOMAIN sbuf : sbuf'[i] = sbuf[j]
               \/ ~ Found(arptable, sbuf'[i].nextip) /\ sbuf'[i].nextip \in asked'
    <3>1. CASE sbuf' = sbuf
      BY <3>1
    <3>2. CASE \E e \in SendBuf : /\ sbuf' = <<e>> \o sbuf
                                 /\ ~ Found(arptable, e.nextip)
                                 /\ e.nextip \in asked'
      <4>1. PICK e \in SendBuf : /\ sbuf' = <<e>> \o sbuf
                                /\ ~ Found(arptable, e.nextip)
                                /\ e.nextip \in asked'
        BY <3>2
      <4>2. CASE i = 1
        BY <1>1, <4>1, <4>2
      <4>3. CASE i # 1
        <5>1. i - 1 \in DOMAIN sbuf /\ sbuf'[i] = sbuf[i - 1]
          BY <1>1, <4>1, <4>3
        <5> QED
          BY <5>1
      <4> QED
        BY <4>2, <4>3
    <3> QED
      BY <1>3, <3>1, <3>2
  <2>3. WaitingWasAsked'
    BY <1>2, <1>3, <2>2 DEF BufferOK, WaitingWasAsked
  <2>4. ResolvedWaitsAfterRequestOnly'
    BY <2>1, <2>2 DEF BufferOK, ResolvedWaitsAfterRequestOnly, Found
  <2>5. ReplyDrainsBuffer'
    BY <1>3, NoReply
  <2> QED
    BY <2>3, <2>4, <2>5 DEF BufferOK
<1>4. CASE sbuf' = sbuf /\ ArpIn(rx', "request")
  <2>1. ~ ArpIn(rx', "reply")
    BY <1>4 DEF ArpIn
  <2> DEFINE spa == rx'.eh.pl.spa
  <2>2. /\ spa \in Addr
        /\ arptable' = add2arptable(spa, rx'.eh.pl.sha)
        /\ claims' = [claims EXCEPT ![spa] =
                        [op |-> "request", sha |-> rx'.eh.pl.sha]]
    BY <1>4, <2>1, ArpStep
  <2> HIDE DEF spa
  <2>3. WaitingWasAsked'
    BY <1>2, <1>4, <2>1 DEF BufferOK, WaitingWasAsked
  <2>4. ResolvedWaitsAfterRequestOnly'
    <3> SUFFICES ASSUME NEW i \in DOMAIN sbuf,
                        arptable'[IPHASH[sbuf[i].nextip]].ip_addr = sbuf[i].nextip
                 PROVE  claims'[sbuf[i].nextip].op = "request"
      BY <1>4 DEF ResolvedWaitsAfterRequestOnly, Found
    <3>1. /\ sbuf[i].nextip \in Addr /\ IPHASH[sbuf[i].nextip] \in Slots
          /\ IPHASH[spa] \in Slots
      <4>1. sbuf[i] \in SendBuf
        BY <1>1
      <4> QED
        BY <2>2, <4>1, ArpAssumption DEF SendBuf
    <3>2. CASE sbuf[i].nextip = spa
      BY <2>2, <3>2 DEF HTypeOK
    <3>3. CASE sbuf[i].nextip # spa
      <4>1. claims'[sbuf[i].nextip] = claims[sbuf[i].nextip]
        BY <2>2, <3>1, <3>3 DEF HTypeOK
      <4>2. IPHASH[sbuf[i].nextip] # IPHASH[spa]
        BY <1>1, <2>2, <3>1, <3>3 DEF add2arptable
      <4>3. Found(arptable, sbuf[i].nextip)
        BY <1>1, <2>2, <3>1, <4>2 DEF add2arptable, Found
      <4> QED
        BY <4>1, <4>3 DEF BufferOK, ResolvedWaitsAfterRequestOnly
    <3> QED
      BY <3>2, <3>3
  <2>5. ReplyDrainsBuffer'
    BY <2>1, NoReply
  <2> QED
    BY <2>3, <2>4, <2>5 DEF BufferOK
<1>5. CASE /\ ArpIn(rx', "reply")
           /\ arptable' = add2arptable(rx'.eh.pl.spa, rx'.eh.pl.sha)
           /\ sbuf' \in Seq({e \in Entries(sbuf) : ~ Found(arptable', e.nextip)})
  <2>1. \A i \in DOMAIN sbuf' : sbuf'[i] \in Entries(sbuf)
                               /\ ~ Found(arptable', sbuf'[i].nextip)
    BY <1>5
  <2>2. rx'.eh.pl.spa \in Addr /\ IPHASH[rx'.eh.pl.spa] \in Slots
    BY <1>5, ArpStep, ArpAssumption
  <2>3. Found(arptable', rx'.eh.pl.spa)
    BY <1>1, <1>5, <2>2 DEF add2arptable, Found
  <2>4. asked \ {rx'.eh.pl.spa} \subseteq asked'
    BY <1>5 DEF HNext
  <2>5. WaitingWasAsked'
    <3> SUFFICES ASSUME NEW i \in DOMAIN sbuf'
                 PROVE  sbuf'[i].nextip \in asked'
      BY DEF WaitingWasAsked
    <3>1. sbuf'[i].nextip \in asked
      BY <2>1 DEF BufferOK, WaitingWasAsked, Entries
    <3>2. sbuf'[i].nextip # rx'.eh.pl.spa
      BY <2>1, <2>3
    <3> QED
      BY <2>4, <3>1, <3>2
  <2>6. ReplyDrainsBuffer' /\ ResolvedWaitsAfterRequestOnly'
    BY <2>1 DEF ReplyDrainsBuffer, ResolvedWaitsAfterRequestOnly, Found
  <2> QED
    BY <2>5, <2>6 DEF BufferOK
<1> QED
  BY <1>3, <1>4, <1>5, BufferStep

LEMMA BufferInvariant == HSpec => []BufferOK
<1>1. HInit => BufferOK
  BY DEF HInit, Init, BufferOK, WaitingWasAsked, ReplyDrainsBuffer,
         ResolvedWaitsAfterRequestOnly
<1>2. TypeOK /\ HTypeOK /\ BufferOK /\ [HNext]_hall => BufferOK'
  <2> SUFFICES ASSUME TypeOK, HTypeOK, BufferOK, [HNext]_hall
               PROVE  BufferOK'
    OBVIOUS
  <2>1. CASE UNCHANGED hall
    BY <2>1 DEF hall, vars, hvars, BufferOK, WaitingWasAsked, ReplyDrainsBuffer,
                ResolvedWaitsAfterRequestOnly, Found, ArpIn, ForUs
  <2> QED
    BY <2>1, BufferOKStep
<1> QED
  BY <1>1, <1>2, HistoryType, PTL DEF HSpec, hall

\* No packet waits for an address that nobody was asked for.
THEOREM Asked == HSpec => []WaitingWasAsked
BY BufferInvariant, PTL DEF BufferOK

\* After a reply no packet waits that could be sent.
THEOREM Drained == HSpec => []ReplyDrainsBuffer
BY BufferInvariant, PTL DEF BufferOK

\* Of the addresses that the host knows, a packet waits for one only when the
\* last ARP packet about it was a request.
THEOREM StaleWait == HSpec => []ResolvedWaitsAfterRequestOnly
BY BufferInvariant, PTL DEF BufferOK

-----------------------------------------------------------------------------
\* Who sends what.

\* flood serves every interface but one, each once.
LEMMA FloodPorts ==
  ASSUME IfTypeOK, NEW ifp \in Interfaces, NEW eh
  PROVE  /\ DOMAIN flood(ifp, eh) = 1 .. Len(ifs) - 1
         /\ Len(flood(ifp, eh)) = Len(ifs) - 1
         /\ \A k \in DOMAIN flood(ifp, eh) :
              /\ flood(ifp, eh)[k].eh = eh
              /\ flood(ifp, eh)[k].ifp \in Interfaces \ {ifp}
         /\ \A j \in Interfaces \ {ifp} : \E k \in DOMAIN flood(ifp, eh) :
              flood(ifp, eh)[k].ifp = j
<1> DEFINE n == Len(ifs)
           f == flood(ifp, eh)
           port(k) == LET i == n - k + 1 IN IF i > ifp THEN i ELSE i - 1
<1>1. n \in Nat /\ ifp \in 1 .. n /\ Interfaces = 1 .. n
  BY DEF IfTypeOK, Interfaces
<1>2. f = [k \in 1 .. n - 1 |-> ether_output(port(k), eh)]
  BY DEF flood
<1>3. /\ DOMAIN f = 1 .. n - 1
      /\ \A k \in 1 .. n - 1 : f[k].ifp = port(k) /\ f[k].eh = eh
  <2> HIDE DEF n, port, f
  <2> QED
    BY <1>2 DEF ether_output
<1>4. Len(f) = n - 1
  <2>1. n - 1 \in Nat
    BY <1>1
  <2>2. f \in Seq({ether_output(port(k), eh) : k \in 1 .. n - 1})
    <3> HIDE DEF f, port, n
    <3> QED
      BY <1>2, <2>1
  <2> HIDE DEF f, n
  <2> QED
    BY <1>3, <2>1, <2>2
<1>5. ASSUME NEW k \in 1 .. n - 1
      PROVE  port(k) \in (1 .. n) \ {ifp}
  <2> HIDE DEF n
  <2> QED
    BY <1>1
<1>6. ASSUME NEW j \in (1 .. n) \ {ifp}
      PROVE  \E k \in 1 .. n - 1 : port(k) = j
  <2> HIDE DEF n
  <2>1. CASE j > ifp
    <3>1. n - j + 1 \in 1 .. n - 1 /\ port(n - j + 1) = j
      BY <1>1, <2>1
    <3> QED
      BY <3>1
  <2>2. CASE j < ifp
    <3>1. n - j \in 1 .. n - 1 /\ port(n - j) = j
      BY <1>1, <2>2
    <3> QED
      BY <3>1
  <2> QED
    BY <1>1, <2>1, <2>2
<1> HIDE DEF port, f, n
<1>7. \A k \in DOMAIN f : f[k].eh = eh /\ f[k].ifp \in Interfaces \ {ifp}
  BY <1>1, <1>3, <1>5
<1>8. \A j \in Interfaces \ {ifp} : \E k \in DOMAIN f : f[k].ifp = j
  BY <1>1, <1>3, <1>6
<1> QED
  BY <1>3, <1>4, <1>7, <1>8 DEF f, n

\* The transmissions of the bridge carry the frame that came in.
LEMMA BridgeCopies ==
  ASSUME NEW ifp, NEW eh, NEW k \in DOMAIN BridgeSends(ifp, eh)
  PROVE  BridgeSends(ifp, eh)[k].eh = eh
BY DEF BridgeSends, flood, ether_output

\* The packets that wait carry the MAC address of an interface, and the
\* interfaces are those of cards.
OwnOK ==
  /\ ifs \in Seq(Cards)
  /\ \A n \in DOMAIN sbuf : \E i \in Interfaces : sbuf[n].shost = ifs[i].mac

\* Transmissions with the MAC address of an interface as their source: of these
\* the host is the sender, while those of the bridge are another's.
Own == {tx \in Transmission : \E i \in Interfaces : tx.eh.src = ifs[i].mac}

\* Packets that carry the MAC address of an interface while they wait.
OwnBuf == {e \in SendBuf : \E i \in Interfaces : e.shost = ifs[i].mac}

LEMMA OwnIp ==
  ASSUME TypeOK, NEW k \in IpPacket, NEW r,
         Routes(r, k) \/ (r.queue = <<>> /\ r.sent = <<>>)
  PROVE  r.sent \in Seq(Own) /\ r.queue \in Seq(OwnBuf)
<1>1. CASE r.queue = <<>> /\ r.sent = <<>>
  BY <1>1
<1>2. CASE Routes(r, k)
  <2>1. PICK entry \in [ifp : Interfaces, addr : Addr] :
          /\ NextIp(entry, k) \in Addr /\ Older(k) \in IpPacket
          /\ \/ r.queue = <<>> /\ r.sent = <<Leaves(entry, k)>>
             \/ /\ r.queue = <<Waits(entry, k)>>
                /\ r.sent = <<arp_req(entry.ifp, NextIp(entry, k))>>
    BY <1>2 DEF Routes
  <2> DEFINE tx == Leaves(entry, k)
             e == Waits(entry, k)
             ask == arp_req(entry.ifp, NextIp(entry, k))
  <2>2. tx \in Own /\ ask \in Own /\ e \in OwnBuf
    BY <2>1, RoutedType DEF Own, OwnBuf
  <2>3. \/ r.queue = <<>> /\ r.sent = <<tx>>
        \/ r.queue = <<e>> /\ r.sent = <<ask>>
    BY <2>1
  <2> HIDE DEF tx, e, ask
  <2>4. /\ <<tx>> \in Seq(Own) /\ <<ask>> \in Seq(Own)
        /\ <<e>> \in Seq(OwnBuf) /\ <<>> \in Seq(OwnBuf)
    BY <2>2
  <2> QED
    BY <2>3, <2>4
<1> QED
  BY <1>1, <1>2

\* An interface is one of the cards.
LEMMA CardOf ==
  ASSUME OwnOK, NEW i \in Interfaces
  PROVE  ifs[i] \in Cards
BY DEF OwnOK, Interfaces

\* A packet that joins the buffer, or leaves it, does not disturb the others.
LEMMA BufferOwn ==
  ASSUME TypeOK, OwnOK
  PROVE  sbuf \in Seq(OwnBuf)
<1>1. sbuf \in Seq(SendBuf)
  BY DEF TypeOK, ArpTypeOK
<1>2. \A n \in 1 .. Len(sbuf) : sbuf[n] \in OwnBuf
  BY <1>1 DEF OwnOK, OwnBuf
<1> QED
  BY <1>1, <1>2

\* Of what the host sends when a frame comes in, the copies of the frame come
\* first, and everything else has the MAC address of an interface.
LEMMA OwnRecv ==
  ASSUME TypeOK, OwnOK, NEW ifp \in Interfaces, NEW eh \in Arrivals, Recv(ifp, eh)
  PROVE  /\ sbuf' \in Seq(OwnBuf)
         /\ \E rest \in Seq(Own) : sent' = BridgeSends(ifp, eh) \o rest
<1>1. /\ eh \in Frame /\ ifp \in Nat \ {NULL} /\ sbuf \in Seq(OwnBuf)
      /\ BridgeSends(ifp, eh) \in Seq(Transmission)
  BY StackAssumption, BridgeType, InterfaceType, BufferOwn DEF TypeOK
<1>2. CASE RecvBridged(ifp, eh) \/ RecvArpOther(ifp, eh)
  <2>1. sbuf' = sbuf /\ sent' = BridgeSends(ifp, eh)
    BY <1>2 DEF RecvBridged, RecvArpOther
  <2>2. <<>> \in Seq(Own) /\ sent' = BridgeSends(ifp, eh) \o <<>>
    BY <1>1, <2>1
  <2> QED
    BY <1>1, <2>1, <2>2
<1>3. CASE RecvIp(ifp, eh)
  <2> DEFINE r == ipv4_input(eh.pl)
  <2>1. eh.pl \in IpPacket
    BY <1>1, <1>3 DEF RecvIp, Frame
  <2>2. sbuf' = r.queue \o sbuf /\ sent' = BridgeSends(ifp, eh) \o r.sent
    BY <1>3 DEF RecvIp
  <2>3. r.sent \in Seq(Own) /\ r.queue \in Seq(OwnBuf)
    BY <2>1, InputShape, OwnIp
  <2> HIDE DEF r
  <2>4. sbuf' \in Seq(OwnBuf)
    BY <1>1, <2>2, <2>3
  <2> QED
    BY <2>2, <2>3, <2>4
<1>4. CASE RecvArpRequest(ifp, eh)
  <2>1. sbuf' = sbuf /\ sent' = BridgeSends(ifp, eh) \o ArpAnswer(ifp, eh.pl)
    BY <1>4 DEF RecvArpRequest
  <2>2. eh.pl \in ArpPacket
    BY <1>1, <1>4 DEF RecvArpRequest, Frame
  <2>3. ArpAnswer(ifp, eh.pl) \in Seq(Transmission)
    BY <2>2, ArpType DEF TypeOK
  <2>4. \A j \in DOMAIN ArpAnswer(ifp, eh.pl) :
          ArpAnswer(ifp, eh.pl)[j].eh.src = ifs[ifp].mac
    BY DEF ArpAnswer, ether_output, ArpFrame
  <2> DEFINE a == ArpAnswer(ifp, eh.pl)
  <2> HIDE DEF a
  <2>5. \A j \in 1 .. Len(a) : a[j] \in Own
    BY <2>3, <2>4 DEF Own, a
  <2>6. a \in Seq(Own)
    BY <2>3, <2>5 DEF a
  <2> QED
    BY <1>1, <2>1, <2>6 DEF a
<1>5. CASE RecvArpReply(ifp, eh)
  <2> DEFINE w == WalkList(sbuf, ifp, arptable')
  <2>1. sbuf' = w.kept /\ sent' = BridgeSends(ifp, eh) \o w.sent
    BY <1>5 DEF RecvArpReply, Walk
  <2>2. arptable' \in [Slots -> [ip_addr : Addr, macaddr : Mac]]
    <3>1. TypeOK'
      BY RecvType
    <3> QED
      BY <3>1 DEF TypeOK, ArpTypeOK
  <2>3. ASSUME NEW n \in 1 .. Len(sbuf)
        PROVE  /\ sbuf[n] \in OwnBuf
               /\ ether_output(ifp, IpFrame(sbuf[n].shost,
                    MacFor(arptable', sbuf[n].nextip), sbuf[n].pkt)) \in Own
    <3>1. sbuf[n] \in OwnBuf
      BY <1>1
    <3>2. sbuf[n] \in SendBuf
      BY <3>1 DEF OwnBuf
    <3>3. /\ sbuf[n].shost \in Mac /\ sbuf[n].pkt \in IpPacket
          /\ MacFor(arptable', sbuf[n].nextip) \in Mac
      BY <2>2, <3>2, ArpAssumption DEF SendBuf, MacFor
    <3> DEFINE eh1 == IpFrame(sbuf[n].shost,
                        MacFor(arptable', sbuf[n].nextip), sbuf[n].pkt)
    <3>4. eh1 \in Frame /\ eh1.src = sbuf[n].shost
      BY <3>3, FrameType DEF IpFrame
    <3> HIDE DEF eh1
    <3>5. ether_output(ifp, eh1) \in Transmission
          /\ ether_output(ifp, eh1).eh = eh1
      BY <1>1, <3>4, SendType DEF ether_output
    <3>6. ether_output(ifp, eh1) \in Own
      BY <3>1, <3>4, <3>5 DEF Own, OwnBuf
    <3> QED
      BY <3>1, <3>6 DEF eh1
  <2>4. w \in [kept : Seq(OwnBuf), sent : Seq(Own)]
    BY <1>1, <2>3, WalkFacts
  <2> HIDE DEF w
  <2> QED
    BY <2>1, <2>4
<1> QED
  BY <1>2, <1>3, <1>4, <1>5 DEF Recv

LEMMA OwnStep ==
  ASSUME TypeOK, OwnOK, Next
  PROVE  OwnOK'
<1>1. ASSUME ifs' = ifs, sbuf' \in Seq(OwnBuf)
      PROVE  OwnOK'
  <2>1. \A n \in DOMAIN sbuf' : sbuf'[n] \in OwnBuf
    BY <1>1
  <2> QED
    BY <1>1, <2>1 DEF OwnOK, OwnBuf, Interfaces
<1>2. ASSUME NEW ifp \in Interfaces, NEW eh \in Arrivals, Recv(ifp, eh)
      PROVE  OwnOK'
  <2>1. ifs' = ifs
    BY <1>2 DEF Recv, RecvBridged, RecvIp, RecvArpRequest, RecvArpReply,
                RecvArpOther, Received, Tables
  <2> QED
    BY <1>1, <1>2, <2>1, OwnRecv
<1>3. ASSUME NEW ifp \in Interfaces, NEW dst \in TcpDsts, Tcp(ifp, dst)
      PROVE  OwnOK'
  <2> DEFINE k == TcpSyn(ifp, dst)
             r == ipv4_output(k)
             old == [k EXCEPT !.ttl = 32]
  <2>1. k \in IpPacket
    BY InterfaceType, StackAssumption DEF TypeOK, TcpSyn, IpPacket
  <2>2. sbuf' = r.queue \o sbuf /\ ifs' = ifs
    BY <1>3 DEF Tcp, Tables
  <2> HIDE DEF k
  <2>3. /\ old \in IpPacket
        /\ Routes(r, old) \/ (r.queue = <<>> /\ r.sent = <<>>)
    BY <2>1, OutputShape
  <2> HIDE DEF r, old
  <2>4. r.queue \in Seq(OwnBuf) /\ sbuf \in Seq(OwnBuf)
    BY <2>3, OwnIp, BufferOwn
  <2> QED
    BY <1>1, <2>2, <2>4
<1>4. ASSUME NEW card \in Cards, Create(card)
      PROVE  OwnOK'
  <2>1. /\ ifs' = Append(ifs, card) /\ sbuf' = sbuf /\ ifs \in Seq(Cards)
        /\ Len(ifs) \in Nat
    BY <1>4 DEF Create, OwnOK
  <2>2. /\ ifs' \in Seq(Cards) /\ Len(ifs') = Len(ifs) + 1
        /\ \A i \in 1 .. Len(ifs) : ifs'[i] = ifs[i]
    BY <2>1
  <2>3. \A i \in Interfaces : i \in Interfaces' /\ ifs'[i] = ifs[i]
    BY <2>1, <2>2 DEF Interfaces
  <2> QED
    BY <2>1, <2>2, <2>3 DEF OwnOK
<1>5. ASSUME \/ \E flags \in Answers : Fwdctl(flags)
             \/ \E ifp \in Interfaces, cmd \in RouteCmds : RouteAdd(ifp, cmd)
      PROVE  OwnOK'
  BY <1>1, <1>5, BufferOwn DEF Fwdctl, RouteAdd
<1> QED
  BY <1>2, <1>3, <1>4, <1>5 DEF Next

LEMMA OwnInvariant == HSpec => []OwnOK
<1>1. HInit => OwnOK
  BY DEF HInit, Init, OwnOK
<1>2. TypeOK /\ OwnOK /\ [HNext]_hall => OwnOK'
  <2> SUFFICES ASSUME TypeOK, OwnOK, [HNext]_hall
               PROVE  OwnOK'
    OBVIOUS
  <2>1. CASE UNCHANGED hall
    BY <2>1 DEF hall, vars, OwnOK, Interfaces
  <2> QED
    BY <2>1, OwnStep DEF HNext
<1> QED
  BY <1>1, <1>2, HistoryType, PTL DEF HSpec, hall

-----------------------------------------------------------------------------
\* Time to live.

Alive == 1 .. 254

\* What an IPv4 path keeps or sends has time to live left.
Aged(r) ==
  /\ \A i \in DOMAIN r.queue : r.queue[i].pkt.ttl \in Alive
  /\ \A i \in DOMAIN r.sent : r.sent[i].eh.type = "IP" => r.sent[i].eh.pl.ttl \in Alive

\* The decrement comes after the test in ipv4_input, and after 32 is set.
LEMMA IpAges ==
  ASSUME TypeOK, NEW pkt \in IpPacket
  PROVE  Aged(ipv4_input(pkt)) /\ Aged(ipv4_output(pkt))
<1>1. ASSUME NEW k \in IpPacket, NEW r,
             (k.ttl > 1 /\ Routes(r, k)) \/ (r.queue = <<>> /\ r.sent = <<>>)
      PROVE  Aged(r)
  <2>1. CASE r.queue = <<>> /\ r.sent = <<>>
    BY <2>1 DEF Aged
  <2>2. CASE k.ttl > 1 /\ Routes(r, k)
    <3>1. PICK entry \in [ifp : Interfaces, addr : Addr] :
            /\ NextIp(entry, k) \in Addr /\ Older(k) \in IpPacket
            /\ \/ r.queue = <<>> /\ r.sent = <<Leaves(entry, k)>>
               \/ /\ r.queue = <<Waits(entry, k)>>
                  /\ r.sent = <<arp_req(entry.ifp, NextIp(entry, k))>>
      BY <2>2 DEF Routes
    <3>2. Older(k).ttl = k.ttl - 1 /\ k.ttl - 1 \in Alive
      <4>1. k.ttl \in 2 .. 255
        BY <2>2 DEF IpPacket
      <4>2. (k.ttl + 255) % 256 = k.ttl - 1
        BY <4>1
      <4> QED
        BY <4>1, <4>2 DEF Older, IpPacket, Alive
    <3> DEFINE tx == Leaves(entry, k)
               e == Waits(entry, k)
               ask == arp_req(entry.ifp, NextIp(entry, k))
    <3>3. tx.eh.pl = Older(k) /\ e.pkt = Older(k) /\ ask.eh.type # "IP"
      BY <3>1, RoutedType
    <3> HIDE DEF tx, e, ask
    <3>4. \A x : DOMAIN <<x>> = {1} /\ <<x>>[1] = x
      OBVIOUS
    <3>5. CASE r.queue = <<>> /\ r.sent = <<tx>>
      <4>1. \A i \in DOMAIN <<tx>> : <<tx>>[i].eh.pl.ttl \in Alive
        BY <3>2, <3>3, <3>4
      <4> QED
        BY <3>5, <4>1 DEF Aged
    <3>6. CASE r.queue = <<e>> /\ r.sent = <<ask>>
      <4>1. \A i \in DOMAIN <<e>> : <<e>>[i].pkt.ttl \in Alive
        BY <3>2, <3>3, <3>4
      <4>2. \A i \in DOMAIN <<ask>> : <<ask>>[i].eh.type # "IP"
        BY <3>3, <3>4
      <4> QED
        BY <3>6, <4>1, <4>2 DEF Aged
    <3> QED
      BY <3>1, <3>5, <3>6 DEF tx, e, ask
  <2> QED
    BY <1>1, <2>1, <2>2
<1> DEFINE old == [pkt EXCEPT !.ttl = 32]
<1>2. old \in IpPacket /\ old.ttl > 1
  BY DEF IpPacket
<1>3. Routes(ipv4_output(pkt), old)
      \/ (ipv4_output(pkt).queue = <<>> /\ ipv4_output(pkt).sent = <<>>)
  BY OutputShape
<1> HIDE DEF old
<1>4. Aged(ipv4_output(pkt))
  BY <1>1, <1>2, <1>3
<1>5. Aged(ipv4_input(pkt))
  BY <1>1, InputShape DEF MayPass
<1> QED
  BY <1>4, <1>5

\* Transmissions of which the IPv4 packets, if this host routed them, live.
Live == {tx \in Transmission : Routed(tx) => tx.eh.pl.ttl \in Alive}

LEMMA TtlStep ==
  ASSUME TypeOK, OwnOK, TtlNeverExhausted, Next
  PROVE  TtlNeverExhausted'
<1>1. /\ sbuf \in Seq(SendBuf) /\ ifs \in Seq(Cards)
      /\ \A i \in DOMAIN sbuf : sbuf[i].pkt.ttl \in Alive
  <2>1. sbuf \in Seq(SendBuf)
    <3>1. ArpTypeOK
      BY Zenon DEF TypeOK
    <3> QED
      BY <3>1, Zenon DEF ArpTypeOK
  <2>2. ifs \in Seq(Cards)
    BY DEF OwnOK
  <2>3. \A i \in DOMAIN sbuf : sbuf[i].pkt.ttl \in 1 .. 254
    BY Zenon DEF TtlNeverExhausted
  <2> QED
    BY <2>1, <2>2, <2>3 DEF Alive
<1>2. ASSUME ifs' = ifs, sent' \in Seq(Live),
             \A i \in DOMAIN sbuf' : sbuf'[i].pkt.ttl \in Alive
      PROVE  TtlNeverExhausted'
  <2>1. \A tx \in Entries(sent') : tx \in Live
    BY <1>2 DEF Entries
  <2> QED
    BY <1>1, <1>2, <2>1
       DEF TtlNeverExhausted, Live, Routed, Interfaces, Entries, Alive
<1>3. ASSUME sbuf' = sbuf, sent' = <<>>
      PROVE  TtlNeverExhausted'
  BY <1>1, <1>3 DEF TtlNeverExhausted, Entries, Alive
<1>4. ASSUME NEW q \in Seq(SendBuf), NEW s \in Seq(Transmission),
             NEW r, Aged(r), r.queue = q, r.sent = s
      PROVE  /\ s \in Seq(Live)
             /\ \A i \in DOMAIN (q \o sbuf) : (q \o sbuf)[i].pkt.ttl \in Alive
  <2>1. \A i \in 1 .. Len(s) : s[i] \in Live
    BY <1>4 DEF Aged, Live, Routed
  <2>2. s \in Seq(Live)
    BY <2>1
  <2>3. ASSUME NEW i \in DOMAIN (q \o sbuf)
        PROVE  (q \o sbuf)[i].pkt.ttl \in Alive
    <3>1. CASE i \in 1 .. Len(q)
      BY <1>1, <1>4, <3>1 DEF Aged
    <3>2. CASE i \notin 1 .. Len(q)
      <4>1. i - Len(q) \in DOMAIN sbuf /\ (q \o sbuf)[i] = sbuf[i - Len(q)]
        BY <1>1, <3>2
      <4> QED
        BY <1>1, <4>1
    <3> QED
      BY <3>1, <3>2
  <2> QED
    BY <2>2, <2>3
<1>5. ASSUME NEW ifp \in Interfaces, NEW eh \in Arrivals, Recv(ifp, eh)
      PROVE  TtlNeverExhausted'
  <2>1. /\ ifs' = ifs /\ eh \in Frame /\ ifp \in Nat \ {NULL}
        /\ BridgeSends(ifp, eh) \in Seq(Transmission)
    BY <1>5, StackAssumption, BridgeType, InterfaceType
       DEF TypeOK, Recv, RecvBridged, RecvIp, RecvArpRequest, RecvArpReply,
           RecvArpOther, Received, Tables
  <2>2. BridgeSends(ifp, eh) \in Seq(Live)
    <3>1. \A i \in Interfaces : ifs[i].mac # eh.src
      BY <1>1, HistoryAssumption DEF Interfaces
    <3>2. ASSUME NEW j \in DOMAIN BridgeSends(ifp, eh)
          PROVE  BridgeSends(ifp, eh)[j].eh = eh
      BY DEF BridgeSends, flood, ether_output
    <3>3. \A j \in 1 .. Len(BridgeSends(ifp, eh)) : BridgeSends(ifp, eh)[j] \in Live
      BY <2>1, <3>1, <3>2 DEF Live, Routed
    <3> QED
      BY <2>1, <3>3
  <2>3. CASE RecvBridged(ifp, eh) \/ RecvArpOther(ifp, eh)
    <3>1. sbuf' = sbuf /\ sent' = BridgeSends(ifp, eh)
      BY <2>3 DEF RecvBridged, RecvArpOther
    <3> QED
      BY <1>1, <1>2, <2>1, <2>2, <3>1
  <2>4. CASE RecvIp(ifp, eh)
    <3> DEFINE r == ipv4_input(eh.pl)
    <3>1. eh.pl \in IpPacket
      BY <2>1, <2>4 DEF RecvIp, Frame
    <3>2. r \in Outcome /\ Aged(r)
      BY <3>1, IpType, IpAges DEF TypeOK
    <3>3. sbuf' = r.queue \o sbuf /\ sent' = BridgeSends(ifp, eh) \o r.sent
      BY <2>4 DEF RecvIp
    <3> HIDE DEF r
    <3>4. /\ r.sent \in Seq(Live)
          /\ \A i \in DOMAIN (r.queue \o sbuf) : (r.queue \o sbuf)[i].pkt.ttl \in Alive
      BY <1>4, <3>2 DEF Outcome
    <3> QED
      BY <1>2, <2>1, <2>2, <3>3, <3>4
  <2>5. CASE RecvArpRequest(ifp, eh)
    <3>1. sbuf' = sbuf /\ sent' = BridgeSends(ifp, eh) \o ArpAnswer(ifp, eh.pl)
      BY <2>5 DEF RecvArpRequest
    <3>2. eh.pl \in ArpPacket
      BY <2>1, <2>5 DEF RecvArpRequest, Frame
    <3>3. ArpAnswer(ifp, eh.pl) \in Seq(Transmission)
      BY <3>2, ArpType DEF TypeOK
    <3>4. \A j \in DOMAIN ArpAnswer(ifp, eh.pl) :
            ArpAnswer(ifp, eh.pl)[j].eh.type = "ARP"
      BY DEF ArpAnswer, ether_output, ArpFrame
    <3>5. ArpAnswer(ifp, eh.pl) \in Seq(Live)
      <4>1. \A j \in 1 .. Len(ArpAnswer(ifp, eh.pl)) : ArpAnswer(ifp, eh.pl)[j] \in Live
        BY <3>3, <3>4 DEF Live, Routed
      <4> QED
        BY <3>3, <4>1
    <3> QED
      BY <1>1, <1>2, <2>1, <2>2, <3>1, <3>5
  <2>6. CASE RecvArpReply(ifp, eh)
    <3> DEFINE K == {e \in SendBuf : e.pkt.ttl \in Alive}
    <3>1. /\ sbuf' = Walk(ifp, arptable').kept
          /\ sent' = BridgeSends(ifp, eh) \o Walk(ifp, arptable').sent
      BY <2>6 DEF RecvArpReply
    <3>2. arptable' \in [Slots -> [ip_addr : Addr, macaddr : Mac]]
      <4>1. TypeOK'
        BY <1>5, RecvType
      <4> QED
        BY <4>1 DEF TypeOK, ArpTypeOK
    <3>3. ASSUME NEW n \in 1 .. Len(sbuf)
          PROVE  /\ sbuf[n] \in K
                 /\ ether_output(ifp, IpFrame(sbuf[n].shost,
                      MacFor(arptable', sbuf[n].nextip), sbuf[n].pkt)) \in Live
      <4>1. sbuf[n] \in SendBuf /\ sbuf[n].pkt.ttl \in Alive
        BY <1>1
      <4>2. /\ sbuf[n].shost \in Mac /\ sbuf[n].pkt \in IpPacket
            /\ MacFor(arptable', sbuf[n].nextip) \in Mac
        BY <3>2, <4>1, ArpAssumption DEF SendBuf, MacFor
      <4> DEFINE eh1 == IpFrame(sbuf[n].shost,
                          MacFor(arptable', sbuf[n].nextip), sbuf[n].pkt)
      <4>3. eh1 \in Frame /\ eh1.pl = sbuf[n].pkt
        BY <4>2, FrameType DEF IpFrame
      <4> HIDE DEF eh1
      <4>4. ether_output(ifp, eh1) \in Transmission
            /\ ether_output(ifp, eh1).eh = eh1
        BY <2>1, <4>3, SendType DEF ether_output
      <4>5. ether_output(ifp, eh1) \in Live
        BY <4>1, <4>3, <4>4 DEF Live
      <4> QED
        BY <4>1, <4>5 DEF eh1
    <3> HIDE DEF K
    <3>4. WalkList(sbuf, ifp, arptable') \in [kept : Seq(K), sent : Seq(Live)]
      BY <1>1, <3>3, WalkFacts
    <3>5. sbuf' \in Seq(K) /\ Walk(ifp, arptable').sent \in Seq(Live)
      BY <3>1, <3>4 DEF Walk
    <3>6. \A i \in DOMAIN sbuf' : sbuf'[i].pkt.ttl \in Alive
      BY <3>5 DEF K
    <3> QED
      BY <1>2, <2>1, <2>2, <3>1, <3>5, <3>6
  <2> QED
    BY <1>5, <2>3, <2>4, <2>5, <2>6 DEF Recv
<1>6. ASSUME NEW ifp \in Interfaces, NEW dst \in TcpDsts, Tcp(ifp, dst)
      PROVE  TtlNeverExhausted'
  <2> DEFINE r == ipv4_output(TcpSyn(ifp, dst))
  <2>1. TcpSyn(ifp, dst) \in IpPacket
    BY InterfaceType, StackAssumption DEF TypeOK, TcpSyn, IpPacket
  <2>2. r \in Outcome /\ Aged(r)
    BY <2>1, IpType, IpAges DEF TypeOK
  <2>3. sbuf' = r.queue \o sbuf /\ sent' = r.sent /\ ifs' = ifs
    BY <1>6 DEF Tcp, Tables
  <2> HIDE DEF r
  <2>4. /\ r.sent \in Seq(Live)
        /\ \A i \in DOMAIN (r.queue \o sbuf) : (r.queue \o sbuf)[i].pkt.ttl \in Alive
    BY <1>4, <2>2 DEF Outcome
  <2> QED
    BY <1>2, <2>3, <2>4
<1>7. ASSUME NEW card \in Cards, Create(card)
      PROVE  TtlNeverExhausted'
  BY <1>1, <1>3, <1>7 DEF Create
<1>8. ASSUME \/ \E flags \in Answers : Fwdctl(flags)
             \/ \E ifp \in Interfaces, cmd \in RouteCmds : RouteAdd(ifp, cmd)
      PROVE  TtlNeverExhausted'
  BY <1>1, <1>3, <1>8 DEF Fwdctl, RouteAdd
<1> QED
  BY <1>5, <1>6, <1>7, <1>8 DEF Next

\* A packet that this host routes, at once or after it waited, still has time to
\* live: the decrement neither reaches 0 nor wraps.
THEOREM TimeToLive == HSpec => []TtlNeverExhausted
<1>1. HInit => TtlNeverExhausted
  BY DEF HInit, Init, TtlNeverExhausted, Entries
<1>2. TypeOK /\ OwnOK /\ TtlNeverExhausted /\ [HNext]_hall => TtlNeverExhausted'
  <2> SUFFICES ASSUME TypeOK, OwnOK, TtlNeverExhausted, [HNext]_hall
               PROVE  TtlNeverExhausted'
    OBVIOUS
  <2>1. CASE UNCHANGED hall
    BY <2>1 DEF hall, vars, TtlNeverExhausted, Entries, Routed, Interfaces
  <2> QED
    BY <2>1, TtlStep DEF HNext
<1> QED
  BY <1>1, <1>2, HistoryType, OwnInvariant, PTL DEF HSpec, hall

-----------------------------------------------------------------------------
\* Where the bridge sends a frame.

\* The copies of the frame that came in are those that the bridge made.
LEMMA CopiesOnly ==
  ASSUME TypeOK, OwnOK, NEW ifp \in Interfaces, NEW eh \in Arrivals, Recv(ifp, eh)
  PROVE  {tx.ifp : tx \in {t \in Entries(sent') : t.eh = eh}} =
           {BridgeSends(ifp, eh)[k].ifp : k \in DOMAIN BridgeSends(ifp, eh)}
<1> DEFINE b == BridgeSends(ifp, eh)
<1>1. b \in Seq(Transmission) /\ \A k \in DOMAIN b : b[k].eh = eh
  BY StackAssumption, BridgeType, BridgeCopies DEF TypeOK
<1>2. PICK rest \in Seq(Own) : sent' = b \o rest
  BY OwnRecv
<1>3. \A i \in Interfaces : ifs[i].mac # eh.src
  BY CardOf, HistoryAssumption
<1> HIDE DEF b
<1>4. ASSUME NEW k \in DOMAIN b
      PROVE  b[k] \in Entries(sent')
  <2>1. k \in DOMAIN sent' /\ sent'[k] = b[k]
    BY <1>1, <1>2
  <2> QED
    BY <2>1 DEF Entries
<1>5. ASSUME NEW tx \in Entries(sent'), tx.eh = eh
      PROVE  \E k \in DOMAIN b : tx = b[k]
  <2>1. PICK i \in DOMAIN sent' : tx = sent'[i]
    BY DEF Entries
  <2>2. CASE i \in DOMAIN b
    BY <1>1, <1>2, <2>1, <2>2
  <2>3. CASE i \notin DOMAIN b
    <3>1. PICK j \in DOMAIN rest : tx = rest[j]
      <4>1. /\ i - Len(b) \in DOMAIN rest
            /\ sent'[i] = rest[i - Len(b)]
        BY <1>1, <1>2, <2>1, <2>3
      <4> QED
        BY <2>1, <4>1
    <3>2. rest[j] \in Own
      BY <1>2
    <3> QED
      BY <1>3, <1>5, <3>1, <3>2 DEF Own
  <2> QED
    BY <2>2, <2>3
<1>6. {tx.ifp : tx \in {t \in Entries(sent') : t.eh = eh}} =
        {b[k].ifp : k \in DOMAIN b}
  BY <1>1, <1>4, <1>5
<1> QED
  BY <1>6 DEF b

\* A frame that comes in is switched to the port its destination was last heard
\* on, or goes to every port but its own.
LEMMA BridgePorts ==
  ASSUME TypeOK, HTypeOK, OwnOK, Stations,
         NEW ifp \in Interfaces, NEW eh \in Frame, Bridged(ifp, eh)
  PROVE  LET b     == BridgeSends(ifp, eh)
             ports == {b[k].ifp : k \in DOMAIN b}
         IN  /\ Cardinality(ports) = Len(b)
             /\ \/ ports = Interfaces \ {ifp}
                \/ eh.dst # BROADCAST /\ ports = {heard[eh.dst]}
<1> DEFINE b == BridgeSends(ifp, eh)
           ports == {b[k].ifp : k \in DOMAIN b}
           to == find_interface(eh.dst)
<1>1. eh.dst \in Mac /\ MACHASH[eh.dst] \in Slots
  BY EtherAssumption DEF Frame
<1>2. CASE to # NULL
  <2>1. eh.dst # BROADCAST /\ to = heard[eh.dst]
    BY <1>1, <1>2 DEF find_interface, Stations
  <2> DEFINE tx == ether_output(to, eh)
  <2>2. b = <<tx>> /\ tx.ifp = to
    BY <1>2 DEF BridgeSends, ether_output
  <2> HIDE DEF b, tx, to
  <2>3. DOMAIN b = {1} /\ b[1] = tx /\ Len(b) = 1
    BY <2>2
  <2>4. ports = {to}
    BY <2>2, <2>3
  <2>5. Cardinality(ports) = 1
    BY <2>4, FS_Singleton
  <2> QED
    BY <2>1, <2>3, <2>4, <2>5 DEF b
<1>3. CASE to = NULL
  <2> DEFINE f == flood(ifp, eh)
  <2>1. b = f
    BY <1>3 DEF BridgeSends
  <2>2. IfTypeOK
    BY DEF TypeOK
  <2>3. /\ DOMAIN f = 1 .. Len(ifs) - 1 /\ Len(f) = Len(ifs) - 1
        /\ \A k \in DOMAIN f : f[k].ifp \in Interfaces \ {ifp}
        /\ \A j \in Interfaces \ {ifp} : \E k \in DOMAIN f : f[k].ifp = j
    BY <2>2, FloodPorts
  <2> HIDE DEF f, b, to
  <2>4. ports = Interfaces \ {ifp}
    BY <2>1, <2>3
  <2>5. Cardinality(Interfaces \ {ifp}) = Len(ifs) - 1
    <3>1. Len(ifs) \in Nat /\ ifp \in 1 .. Len(ifs)
      BY <2>2 DEF IfTypeOK, Interfaces
    <3> DEFINE n == Len(ifs)
               I == 1 .. n
    <3> HIDE DEF n
    <3>2. n \in Int /\ 1 \in Int /\ ~ (1 > n) /\ n - 1 + 1 = n
      BY <3>1 DEF n
    <3>3. IsFiniteSet(I) /\ Cardinality(I) = n
      BY <3>2, FS_Interval
    <3>4. ifp \in I
      BY <3>1 DEF n
    <3> HIDE DEF I
    <3>5. Cardinality(I \ {ifp}) = n - 1
      BY <3>3, <3>4, FS_RemoveElement
    <3> QED
      BY <3>5 DEF Interfaces, I, n
  <2>6. Len(b) = Len(ifs) - 1
    BY <2>1, <2>3
  <2> QED
    BY <2>4, <2>5, <2>6 DEF b
<1> QED
  BY <1>2, <1>3

LEMMA BroadcastStep ==
  ASSUME TypeOK, HTypeOK, OwnOK, Stations, Next
  PROVE  BroadcastFloods'
<1> SUFFICES ASSUME rx'.kind = "frame", IS_L2BRIDGE', rx'.eh.dst = BROADCAST
             PROVE  Ports' = Interfaces' \ {rx'.ifp}
  BY DEF BroadcastFloods
<1>1. /\ rx'.ifp \in Interfaces /\ rx'.eh \in Arrivals /\ rx'.eh \in Frame
      /\ Recv(rx'.ifp, rx'.eh) /\ Received(rx'.ifp, rx'.eh)
  BY StepShape
<1>2. ifs' = ifs /\ bridge_flags' = bridge_flags
  BY <1>1 DEF Received, Tables
<1>3. Bridged(rx'.ifp, rx'.eh)
  <2>1. ifs[rx'.ifp].mac # BROADCAST
    BY <1>1, CardOf, EtherAssumption
  <2> QED
    BY <1>2, <2>1 DEF Bridged, IS_L2BRIDGE
<1>4. Ports' = {BridgeSends(rx'.ifp, rx'.eh)[k].ifp :
                  k \in DOMAIN BridgeSends(rx'.ifp, rx'.eh)}
  BY <1>1, CopiesOnly DEF Ports, Entries
<1>5. Ports' = Interfaces \ {rx'.ifp}
  BY <1>1, <1>3, <1>4, BridgePorts
<1> QED
  BY <1>2, <1>5 DEF Interfaces

\* A broadcast frame is never switched to one port, whatever was learnt before.
THEOREM Broadcast == HSpec => []BroadcastFloods
<1>1. HInit => BroadcastFloods
  BY DEF HInit, Init, BroadcastFloods
<1>2. TypeOK /\ HTypeOK /\ OwnOK /\ Stations /\ BroadcastFloods /\ [HNext]_hall
        => BroadcastFloods'
  <2> SUFFICES ASSUME TypeOK, HTypeOK, OwnOK, Stations, BroadcastFloods, [HNext]_hall
               PROVE  BroadcastFloods'
    OBVIOUS
  <2>1. CASE UNCHANGED hall
    BY <2>1 DEF hall, vars, BroadcastFloods, Ports, Entries, IS_L2BRIDGE, Interfaces
  <2> QED
    BY <2>1, BroadcastStep DEF HNext
<1> QED
  BY <1>1, <1>2, HistoryType, OwnInvariant, StationsInvariant, PTL DEF HSpec, hall

\* A frame for another station leaves once on each port it leaves on: the one
\* the station was last heard on, or all but its own.
THEOREM Switched == HSpec => SwitchedOrFlooded
<1> DEFINE A == rx'.kind = "frame" /\ rx'.eh.type = "other"
                  /\ Bridged(rx'.ifp, rx'.eh) =>
                    /\ Cardinality(Ports') = Len(sent')
                    /\ \/ Ports' = Interfaces \ {rx'.ifp}
                       \/ Ports' = {heard[rx'.eh.dst]}
<1>1. TypeOK /\ HTypeOK /\ OwnOK /\ Stations /\ [HNext]_hall => [A]_hall
  <2> SUFFICES ASSUME TypeOK, HTypeOK, OwnOK, Stations, HNext,
                      rx'.kind = "frame", rx'.eh.type = "other",
                      Bridged(rx'.ifp, rx'.eh)
               PROVE  /\ Cardinality(Ports') = Len(sent')
                      /\ \/ Ports' = Interfaces \ {rx'.ifp}
                         \/ Ports' = {heard[rx'.eh.dst]}
    OBVIOUS
  <2>1. /\ rx'.ifp \in Interfaces /\ rx'.eh \in Arrivals /\ rx'.eh \in Frame
        /\ Recv(rx'.ifp, rx'.eh)
    BY StepShape DEF HNext
  <2>2. sent' = BridgeSends(rx'.ifp, rx'.eh)
    BY <2>1 DEF Recv, RecvBridged, RecvIp, RecvArpRequest, RecvArpReply, RecvArpOther
  <2>3. Ports' = {BridgeSends(rx'.ifp, rx'.eh)[k].ifp :
                    k \in DOMAIN BridgeSends(rx'.ifp, rx'.eh)}
    BY <2>1, CopiesOnly DEF Ports, Entries
  <2> QED
    BY <2>1, <2>2, <2>3, BridgePorts
<1> QED
  BY <1>1, HistoryType, OwnInvariant, StationsInvariant, PTL
     DEF HSpec, SwitchedOrFlooded, hall

-----------------------------------------------------------------------------
\* Counting the members of a sequence.

\* How many members of s are in S.
Count(s, S) == Cardinality({i \in DOMAIN s : s[i] \in S})

LEMMA CountType ==
  ASSUME NEW B, NEW s \in Seq(B), NEW S
  PROVE  /\ IsFiniteSet({i \in DOMAIN s : s[i] \in S})
         /\ Count(s, S) \in Nat
<1>1. IsFiniteSet(1 .. Len(s)) /\ DOMAIN s = 1 .. Len(s)
  BY FS_Interval
<1>2. {i \in DOMAIN s : s[i] \in S} \in SUBSET (1 .. Len(s))
  BY <1>1
<1> QED
  BY <1>1, <1>2, FS_Subset, FS_CardinalityType DEF Count

LEMMA CountEmpty ==
  ASSUME NEW s, NEW S, s = <<>>
  PROVE  Count(s, S) = 0
<1>1. {i \in DOMAIN s : s[i] \in S} = {}
  OBVIOUS
<1> QED
  BY <1>1, FS_EmptySet DEF Count

LEMMA CountNone ==
  ASSUME NEW s, NEW S, \A i \in DOMAIN s : s[i] \notin S
  PROVE  Count(s, S) = 0
<1>1. {i \in DOMAIN s : s[i] \in S} = {}
  OBVIOUS
<1> QED
  BY <1>1, FS_EmptySet DEF Count

LEMMA CountOne ==
  ASSUME NEW x, NEW S
  PROVE  Count(<<x>>, S) = IF x \in S THEN 1 ELSE 0
<1>1. DOMAIN <<x>> = {1} /\ <<x>>[1] = x
  OBVIOUS
<1>2. {i \in DOMAIN <<x>> : <<x>>[i] \in S} = IF x \in S THEN {1} ELSE {}
  BY <1>1
<1> QED
  BY <1>2, FS_EmptySet, FS_Singleton DEF Count

\* The count of a concatenation is the sum of the counts.
LEMMA CountConcat ==
  ASSUME NEW B, NEW s \in Seq(B), NEW t \in Seq(B), NEW S
  PROVE  Count(s \o t, S) = Count(s, S) + Count(t, S)
<1> DEFINE m == Len(s)
           n == Len(t)
           u == s \o t
           I == {i \in DOMAIN s : s[i] \in S}
           J == {i \in DOMAIN t : t[i] \in S}
           U == {i \in DOMAIN u : u[i] \in S}
           K == U \ I
           f == [j \in J |-> m + j]
<1>1. /\ m \in Nat /\ n \in Nat
      /\ DOMAIN s = 1 .. m /\ DOMAIN t = 1 .. n /\ DOMAIN u = 1 .. m + n
      /\ \A i \in 1 .. m : u[i] = s[i]
      /\ \A j \in 1 .. n : u[m + j] = t[j]
  OBVIOUS
<1>2. u \in Seq(B)
  OBVIOUS
<1>3. /\ IsFiniteSet(I) /\ IsFiniteSet(J) /\ IsFiniteSet(U)
      /\ Count(s, S) \in Nat /\ Count(t, S) \in Nat
  <2> HIDE DEF u
  <2> QED
    BY <1>2, CountType
<1> HIDE DEF m, n, u
<1>4. ASSUME NEW j \in J
      PROVE  m + j \in K
  <2>1. j \in 1 .. n /\ t[j] \in S
    BY <1>1
  <2>2. m + j \in DOMAIN u /\ u[m + j] \in S /\ m + j \notin 1 .. m
    BY <1>1, <2>1
  <2> QED
    BY <1>1, <2>2
<1>5. ASSUME NEW k \in K
      PROVE  \E j \in J : k = m + j
  <2>1. k \in 1 .. m + n /\ u[k] \in S /\ ~ (k \in 1 .. m /\ s[k] \in S)
    BY <1>1
  <2>2. k \notin 1 .. m
    BY <1>1, <2>1
  <2>3. k - m \in 1 .. n /\ k = m + (k - m)
    BY <1>1, <2>1, <2>2
  <2>4. k - m \in J
    BY <1>1, <2>1, <2>3
  <2> QED
    BY <2>3, <2>4
<1>6. I \subseteq U
  <2>1. \A i \in 1 .. m : i \in 1 .. m + n
    BY <1>1
  <2> QED
    BY <1>1, <2>1
<1>7. J \subseteq Nat
  BY <1>1
<1> HIDE DEF I, J, U
<1>8. f \in Bijection(J, K)
  <2>1. f \in [J -> K]
    BY <1>4
  <2>2. \A i, j \in J : f[i] = f[j] => i = j
    BY <1>1, <1>7
  <2>3. \A k \in K : \E j \in J : f[j] = k
    BY <1>5
  <2> HIDE DEF f, K
  <2> QED
    BY <2>1, <2>2, <2>3 DEF Bijection, Injection, Surjection, IsInjective
<1>9. Cardinality(K) = Cardinality(J) /\ IsFiniteSet(K)
  <2>1. ExistsBijection(J, K)
    BY <1>8 DEF ExistsBijection
  <2> HIDE DEF K
  <2> QED
    BY <1>3, <2>1, FS_Bijection
<1>10. U = I \cup K /\ I \cap K = {}
  BY <1>6
<1>11. Cardinality(U) = Cardinality(I) + Cardinality(K)
  <2> HIDE DEF K
  <2>1. Cardinality(I \cup K) = Cardinality(I) + Cardinality(K) - Cardinality(I \cap K)
    BY <1>3, <1>9, FS_Union
  <2>2. Cardinality(I \cap K) = 0
    BY <1>10, FS_EmptySet
  <2>3. Cardinality(I) \in Nat /\ Cardinality(K) \in Nat
    BY <1>3, <1>9, FS_CardinalityType
  <2> QED
    BY <1>10, <2>1, <2>2, <2>3
<1> QED
  BY <1>9, <1>11 DEF Count, I, J, U, u

LEMMA CountAppend ==
  ASSUME NEW B, NEW s \in Seq(B), NEW x \in B, NEW S
  PROVE  Count(Append(s, x), S) = Count(s, S) + (IF x \in S THEN 1 ELSE 0)
<1>1. <<x>> \in Seq(B) /\ Append(s, x) = s \o <<x>>
  OBVIOUS
<1>2. Count(s \o <<x>>, S) = Count(s, S) + Count(<<x>>, S)
  <2> DEFINE t == <<x>>
  <2> HIDE DEF t
  <2>1. t \in Seq(B)
    BY <1>1 DEF t
  <2>2. Count(s \o t, S) = Count(s, S) + Count(t, S)
    BY <2>1, CountConcat
  <2> QED
    BY <2>2 DEF t
<1> QED
  BY <1>1, <1>2, CountOne

\* An entry of q that the walk sends becomes a member of S, and of T just when
\* the entry is one of P.
Marks(q, ifp, macs, S, P, T) ==
  \A n \in 1 .. Len(q) :
    LET tx == ether_output(ifp, IpFrame(q[n].shost,
                MacFor(macs, q[n].nextip), q[n].pkt))
    IN  Found(macs, q[n].nextip) => tx \in S /\ (q[n] \in P <=> tx \in T)

\* Every entry that the walk over the send buffer visits is kept or sent, once:
\* the members of P are counted among what is kept and what is sent.
LEMMA WalkCounts ==
  ASSUME NEW B, NEW q \in Seq(B), NEW ifp, NEW macs, NEW S, NEW P, NEW T,
         Marks(q, ifp, macs, S, P, T)
  PROVE  Count(WalkList(q, ifp, macs).kept, P)
           + Count(WalkList(q, ifp, macs).sent, T) = Count(q, P)
<1> DEFINE N == Len(q)
           Tx(n) == ether_output(ifp, IpFrame(q[n].shost,
                      MacFor(macs, q[n].nextip), q[n].pkt))
           C(n) == {i \in 1 .. n : q[i] \in P}
           R == [kept : Seq(B), sent : Seq(S)]
<1>1. N \in Nat /\ \A n \in 1 .. N : q[n] \in B
  OBVIOUS
<1>2. PICK w : Walked(w, q, ifp, macs, B, S)
  <2>1. \A n \in 1 .. N : IF Found(macs, q[n].nextip) THEN Tx(n) \in S ELSE q[n] \in B
    BY <1>1 DEF Marks
  <2> QED
    BY <2>1, WalkTurns
<1>3. /\ w[0] = [kept |-> <<>>, sent |-> <<>>]
      /\ \A n \in 0 .. N : w[n] \in R
      /\ \A n \in 1 .. N : w[n] = Turn(q, ifp, macs, w[n - 1], n)
  BY <1>2 DEF Walked
<1> DEFINE OK(n) == Count(w[n].kept, P) + Count(w[n].sent, T) = Cardinality(C(n))
           f == [n \in 0 .. N |-> IF OK(n) THEN 1 ELSE 0]
<1>4. \A n \in 0 .. N : IsFiniteSet(C(n)) /\ Cardinality(C(n)) \in Nat
  <2> SUFFICES ASSUME NEW n \in 0 .. N
               PROVE  IsFiniteSet(C(n)) /\ Cardinality(C(n)) \in Nat
    OBVIOUS
  <2> DEFINE D == C(n)
  <2>1. D \in SUBSET (1 .. n) /\ n \in Int
    BY <1>1
  <2>2. IsFiniteSet(1 .. n)
    BY <2>1, FS_Interval
  <2> HIDE DEF D
  <2>3. IsFiniteSet(D)
    BY <2>1, <2>2, FS_Subset
  <2>4. Cardinality(D) \in Nat
    BY <2>3, FS_CardinalityType
  <2> QED
    BY <2>3, <2>4 DEF D
<1>5. OK(0)
  <2>1. w[0].kept = <<>> /\ w[0].sent = <<>>
    BY <1>3
  <2>2. C(0) = {}
    OBVIOUS
  <2> HIDE DEF C
  <2>3. Count(w[0].kept, P) = 0 /\ Count(w[0].sent, T) = 0
    BY <2>1, CountEmpty
  <2>4. Cardinality(C(0)) = 0
    BY <2>2, FS_EmptySet
  <2> QED
    BY <2>3, <2>4
<1>6. ASSUME NEW n \in 1 .. N, OK(n - 1)
      PROVE  OK(n)
  <2> DEFINE b == w[n - 1]
  <2>1. n - 1 \in 0 .. N /\ b \in R /\ b.kept \in Seq(B) /\ b.sent \in Seq(S)
    BY <1>1, <1>3
  <2>2. w[n] = Turn(q, ifp, macs, b, n)
    BY <1>3
  <2>3. Cardinality(C(n)) = Cardinality(C(n - 1)) + (IF q[n] \in P THEN 1 ELSE 0)
    <3>1. C(n) = IF q[n] \in P THEN C(n - 1) \cup {n} ELSE C(n - 1)
      BY <1>1
    <3>2. n \notin C(n - 1)
      BY <1>1
    <3>3. IsFiniteSet(C(n - 1)) /\ Cardinality(C(n - 1)) \in Nat
      BY <1>4, <2>1
    <3> DEFINE D == C(n - 1)
    <3> HIDE DEF C
    <3>4. n \notin D /\ IsFiniteSet(D)
      BY <3>2, <3>3
    <3> HIDE DEF D
    <3>5. Cardinality(D \cup {n}) = Cardinality(D) + 1
      BY <3>4, FS_AddElement
    <3> USE DEF D
    <3> QED
      BY <3>1, <3>3, <3>5
  <2>4. Count(b.kept, P) \in Nat /\ Count(b.sent, T) \in Nat
    BY <2>1, CountType
  <2>5. CASE Found(macs, q[n].nextip)
    <3>1. Tx(n) \in S /\ (q[n] \in P <=> Tx(n) \in T)
      BY <2>5 DEF Marks
    <3>2. w[n] = [kept |-> b.kept, sent |-> Append(b.sent, Tx(n))]
      BY <2>1, <2>2, <2>5 DEF Turn
    <3> HIDE DEF Tx, b
    <3>3. Count(Append(b.sent, Tx(n)), T)
            = Count(b.sent, T) + (IF Tx(n) \in T THEN 1 ELSE 0)
      BY <2>1, <3>1, CountAppend
    <3>4. Count(Append(b.sent, Tx(n)), T)
            = Count(b.sent, T) + (IF q[n] \in P THEN 1 ELSE 0)
      BY <3>1, <3>3
    <3>5. w[n].kept = b.kept /\ w[n].sent = Append(b.sent, Tx(n))
      BY <3>2
    <3> HIDE DEF C
    <3> QED
      BY <1>4, <1>6, <2>1, <2>3, <2>4, <3>4, <3>5 DEF b
  <2>6. CASE ~ Found(macs, q[n].nextip)
    <3>1. w[n] = [kept |-> Append(b.kept, q[n]), sent |-> b.sent]
      BY <2>1, <2>2, <2>6 DEF Turn
    <3> HIDE DEF b
    <3>2. b.kept \in Seq(B) /\ q[n] \in B
      BY <1>1, <2>1
    <3>3. Count(Append(b.kept, q[n]), P)
            = Count(b.kept, P) + (IF q[n] \in P THEN 1 ELSE 0)
      BY <3>2, CountAppend
    <3>4. w[n].kept = Append(b.kept, q[n]) /\ w[n].sent = b.sent
      BY <3>1
    <3> HIDE DEF C
    <3> QED
      BY <1>4, <1>6, <2>1, <2>3, <2>4, <3>3, <3>4 DEF b
  <2> QED
    BY <2>5, <2>6
<1>7. OK(N)
  <2> DEFINE M == {1}
  <2>1. f[0] \in M /\ \A n \in 1 .. N : f[n - 1] \in M => f[n] \in M
    <3> HIDE DEF OK
    <3> QED
      BY <1>1, <1>5, <1>6
  <2>2. f[N] \in M
    <3> HIDE DEF M, f
    <3> QED
      BY <1>1, <2>1, IntervalInduction
  <2> HIDE DEF OK
  <2> QED
    BY <1>1, <2>2
<1>8. Count(q, P) = Cardinality(C(N))
  <2>1. DOMAIN q = 1 .. N
    OBVIOUS
  <2> QED
    BY <2>1 DEF Count
<1>9. w[N] = WalkList(q, ifp, macs)
  BY <1>2 DEF Walked
<1> HIDE DEF C
<1> QED
  BY <1>7, <1>8, <1>9

-----------------------------------------------------------------------------
\* Packets are conserved.

\* A packet p waiting, and a packet p leaving.
WaitOf(p) == {e \in SendBuf : e.pkt = p}
LeaveOf(p) == {tx \in Transmission : Routed(tx) /\ tx.eh.pl = p}

LEMMA CountsAgree ==
  ASSUME NEW p
  PROVE  /\ \A q \in Seq(SendBuf) : Waiting(q, p) = Count(q, WaitOf(p))
         /\ \A s \in Seq(Transmission) : Leaving(s, p) = Count(s, LeaveOf(p))
<1>1. ASSUME NEW q \in Seq(SendBuf)
      PROVE  Waiting(q, p) = Count(q, WaitOf(p))
  <2>1. \A i \in DOMAIN q : q[i] \in SendBuf
    OBVIOUS
  <2>2. {i \in DOMAIN q : q[i].pkt = p} = {i \in DOMAIN q : q[i] \in WaitOf(p)}
    BY <2>1 DEF WaitOf
  <2> QED
    BY <2>2 DEF Waiting, Count
<1>2. ASSUME NEW s \in Seq(Transmission)
      PROVE  Leaving(s, p) = Count(s, LeaveOf(p))
  <2>1. \A i \in DOMAIN s : s[i] \in Transmission
    OBVIOUS
  <2>2. {i \in DOMAIN s : Routed(s[i]) /\ s[i].eh.pl = p}
          = {i \in DOMAIN s : s[i] \in LeaveOf(p)}
    BY <2>1 DEF LeaveOf
  <2> QED
    BY <2>2 DEF Leaving, Count
<1> QED
  BY <1>1, <1>2

\* A path that routes the packet k puts it in one place, and puts nothing else
\* anywhere.
LEMMA PathBalance ==
  ASSUME TypeOK, NEW k \in IpPacket, NEW r, NEW p,
         Routes(r, k) \/ (Onward(k) = {} /\ r.queue = <<>> /\ r.sent = <<>>)
  PROVE  Count(r.queue, WaitOf(p)) + Count(r.sent, LeaveOf(p))
           = IF Onward(k) # {} /\ p = Older(k) THEN 1 ELSE 0
<1>1. CASE Onward(k) = {} /\ r.queue = <<>> /\ r.sent = <<>>
  <2>1. Count(r.queue, WaitOf(p)) = 0 /\ Count(r.sent, LeaveOf(p)) = 0
    BY <1>1, CountEmpty
  <2> QED
    BY <1>1, <2>1
<1>2. CASE Routes(r, k)
  <2>1. PICK entry \in [ifp : Interfaces, addr : Addr] :
          /\ Onward(k) = {entry}
          /\ NextIp(entry, k) \in Addr /\ Older(k) \in IpPacket
          /\ \/ r.queue = <<>> /\ r.sent = <<Leaves(entry, k)>>
             \/ /\ r.queue = <<Waits(entry, k)>>
                /\ r.sent = <<arp_req(entry.ifp, NextIp(entry, k))>>
    BY <1>2 DEF Routes
  <2> DEFINE tx == Leaves(entry, k)
             e == Waits(entry, k)
             ask == arp_req(entry.ifp, NextIp(entry, k))
  <2>2. /\ tx \in LeaveOf(p) <=> p = Older(k)
        /\ e \in WaitOf(p) <=> p = Older(k)
        /\ ask \notin LeaveOf(p)
    <3>1. /\ tx \in Transmission /\ tx.eh.type = "IP" /\ tx.eh.pl = Older(k)
          /\ tx.eh.src = ifs[entry.ifp].mac
          /\ e \in SendBuf /\ e.pkt = Older(k)
          /\ ask.eh.type = "ARP"
      BY <2>1, RoutedType
    <3> HIDE DEF tx, e, ask
    <3>2. Routed(tx) /\ ~ Routed(ask)
      BY <3>1 DEF Routed
    <3> QED
      BY <3>1, <3>2 DEF LeaveOf, WaitOf
  <2>3. \/ r.queue = <<>> /\ r.sent = <<tx>>
        \/ r.queue = <<e>> /\ r.sent = <<ask>>
    BY <2>1
  <2> HIDE DEF tx, e, ask
  <2>4. CASE r.queue = <<>> /\ r.sent = <<tx>>
    <3>1. Count(<<>>, WaitOf(p)) = 0
      BY CountEmpty
    <3>2. Count(<<tx>>, LeaveOf(p)) = IF p = Older(k) THEN 1 ELSE 0
      BY <2>2, CountOne
    <3> QED
      BY <2>1, <2>4, <3>1, <3>2
  <2>5. CASE r.queue = <<e>> /\ r.sent = <<ask>>
    <3>1. Count(<<e>>, WaitOf(p)) = IF p = Older(k) THEN 1 ELSE 0
      BY <2>2, CountOne
    <3>2. Count(<<ask>>, LeaveOf(p)) = 0
      BY <2>2, CountOne
    <3> QED
      BY <2>1, <2>5, <3>1, <3>2
  <2> QED
    BY <2>3, <2>4, <2>5
<1> QED
  BY <1>1, <1>2

\* The copies of the bridge, and what the ARP code sends, are no routed packets.
LEMMA NotRouted ==
  ASSUME TypeOK, OwnOK, NEW p, NEW ifp, NEW eh \in Arrivals
  PROVE  Count(BridgeSends(ifp, eh), LeaveOf(p)) = 0
<1>1. \A i \in Interfaces : ifs[i].mac # eh.src
  BY CardOf, HistoryAssumption
<1>2. \A j \in DOMAIN BridgeSends(ifp, eh) :
        BridgeSends(ifp, eh)[j] \notin LeaveOf(p)
  BY <1>1, BridgeCopies DEF LeaveOf, Routed
<1> QED
  BY <1>2, CountNone

\* The packet that an event offers, one hop older.
LEMMA AcceptedIs ==
  ASSUME NEW k \in IpPacket, k.ttl > 1
  PROVE  {[k EXCEPT !.ttl = @ - 1] : e \in Onward(k)}
           = IF Onward(k) = {} THEN {} ELSE {Older(k)}
<1>1. (k.ttl + 255) % 256 = k.ttl - 1
  <2>1. k.ttl \in 2 .. 255
    BY DEF IpPacket
  <2> QED
    BY <2>1
<1>2. Older(k) = [k EXCEPT !.ttl = @ - 1]
  BY <1>1 DEF Older
<1> QED
  BY <1>2

\* In each step, as often as a packet p is accepted or waited before it leaves or
\* waits after.
Balanced(p) ==
  Waiting(sbuf, p) + (IF Offered(rx') /\ p \in Accepted(rx') THEN 1 ELSE 0)
    = Waiting(sbuf', p) + Leaving(sent', p)

LEMMA Balance ==
  ASSUME TypeOK, OwnOK, Next, NEW p
  PROVE  Balanced(p)
<1>1. sbuf \in Seq(SendBuf)
  BY DEF TypeOK, ArpTypeOK
<1>2. Count(sbuf, WaitOf(p)) \in Nat /\ Waiting(sbuf, p) = Count(sbuf, WaitOf(p))
  BY <1>1, CountType, CountsAgree
\* Nothing is offered, nothing joins or leaves the buffer.
<1>3. ASSUME sbuf' = sbuf, sent' \in Seq(Transmission),
             Count(sent', LeaveOf(p)) = 0, ~ Offered(rx')
      PROVE  Balanced(p)
  <2>1. Leaving(sent', p) = 0
    BY <1>3, CountsAgree
  <2>2. Waiting(sbuf', p) = Waiting(sbuf, p)
    BY <1>3
  <2> QED
    BY <1>2, <1>3, <2>1, <2>2 DEF Balanced
\* The packet k takes the path r, after the bridge has sent its copies.
<1>4. ASSUME NEW k \in IpPacket, NEW r \in Outcome, NEW before \in Seq(Transmission),
             Routes(r, k) \/ (Onward(k) = {} /\ r.queue = <<>> /\ r.sent = <<>>),
             Count(before, LeaveOf(p)) = 0,
             sbuf' = r.queue \o sbuf, sent' = before \o r.sent,
             Offered(rx') /\ p \in Accepted(rx') <=> Onward(k) # {} /\ p = Older(k)
      PROVE  Balanced(p)
  <2>1. r.queue \in Seq(SendBuf) /\ r.sent \in Seq(Transmission)
    BY DEF Outcome
  <2>2. Count(r.queue, WaitOf(p)) \in Nat /\ Count(r.sent, LeaveOf(p)) \in Nat
    BY <2>1, CountType
  <2>3. Count(r.queue, WaitOf(p)) + Count(r.sent, LeaveOf(p))
          = IF Onward(k) # {} /\ p = Older(k) THEN 1 ELSE 0
    BY <1>4, PathBalance
  <2>4. Count(sbuf', WaitOf(p)) = Count(r.queue, WaitOf(p)) + Count(sbuf, WaitOf(p))
    BY <1>1, <1>4, <2>1, CountConcat
  <2>5. Count(sent', LeaveOf(p)) = Count(r.sent, LeaveOf(p))
    <3>1. Count(before \o r.sent, LeaveOf(p))
            = Count(before, LeaveOf(p)) + Count(r.sent, LeaveOf(p))
      BY <2>1, CountConcat
    <3> QED
      BY <1>4, <2>2, <3>1
  <2>6. sbuf' \in Seq(SendBuf) /\ sent' \in Seq(Transmission)
    BY <1>1, <1>4, <2>1
  <2>7. /\ Waiting(sbuf', p) = Count(sbuf', WaitOf(p))
        /\ Leaving(sent', p) = Count(sent', LeaveOf(p))
    BY <2>6, CountsAgree
  <2>8. (IF Offered(rx') /\ p \in Accepted(rx') THEN 1 ELSE 0)
          = IF Onward(k) # {} /\ p = Older(k) THEN 1 ELSE 0
    BY <1>4
  <2> QED
    BY <1>2, <2>2, <2>3, <2>4, <2>5, <2>7, <2>8 DEF Balanced
<1>5. ASSUME NEW ifp \in Interfaces, NEW eh \in Arrivals, Recv(ifp, eh)
      PROVE  Balanced(p)
  <2> DEFINE b == BridgeSends(ifp, eh)
  <2>1. /\ eh \in Frame /\ ifp \in Nat \ {NULL}
        /\ b \in Seq(Transmission) /\ Count(b, LeaveOf(p)) = 0
    BY StackAssumption, BridgeType, InterfaceType, NotRouted DEF TypeOK
  <2>2. rx' = [kind |-> "frame", ifp |-> ifp, eh |-> eh]
    BY <1>5 DEF Recv, RecvBridged, RecvIp, RecvArpRequest, RecvArpReply,
                RecvArpOther, Received
  <2> HIDE DEF b
  <2>3. CASE RecvBridged(ifp, eh) \/ RecvArpOther(ifp, eh)
    <3>1. sbuf' = sbuf /\ sent' = b
      BY <2>3 DEF RecvBridged, RecvArpOther, b
    <3>2. ~ Offered(rx')
      BY <2>2, <2>3 DEF RecvBridged, RecvArpOther, Offered
    <3> QED
      BY <1>3, <2>1, <3>1, <3>2
  <2>4. CASE RecvIp(ifp, eh)
    <3> DEFINE k == eh.pl
               r == ipv4_input(k)
    <3>1. k \in IpPacket /\ eh.type = "IP" /\ ForUs(ifp, eh)
      BY <2>1, <2>4 DEF RecvIp, Frame
    <3>2. sbuf' = r.queue \o sbuf /\ sent' = b \o r.sent
      BY <2>4 DEF RecvIp, b
    <3>3. Offered(rx') <=> MayPass(k)
      BY <2>2, <3>1 DEF Offered, MayPass
    <3>4. Accepted(rx') = {[k EXCEPT !.ttl = @ - 1] : e \in Onward(k)}
      BY <2>2 DEF Accepted, Onward
    <3> HIDE DEF k
    <3>5. r \in Outcome
      BY <3>1, IpType DEF TypeOK
    <3>6. \/ MayPass(k) /\ Routes(r, k)
          \/ /\ MayPass(k) => Onward(k) = {}
             /\ r.queue = <<>> /\ r.sent = <<>>
      BY <3>1, InputShape
    <3> HIDE DEF r
    <3>7. CASE MayPass(k)
      <4>1. Accepted(rx') = IF Onward(k) = {} THEN {} ELSE {Older(k)}
        BY <3>1, <3>4, <3>7, AcceptedIs DEF MayPass
      <4>2. Offered(rx') /\ p \in Accepted(rx') <=> Onward(k) # {} /\ p = Older(k)
        BY <3>3, <3>7, <4>1
      <4>3. Routes(r, k) \/ (Onward(k) = {} /\ r.queue = <<>> /\ r.sent = <<>>)
        BY <3>6, <3>7
      <4> QED
        BY <1>4, <2>1, <3>1, <3>2, <3>5, <4>2, <4>3
    <3>8. CASE ~ MayPass(k)
      <4>1. r.queue = <<>> /\ r.sent = <<>> /\ ~ Offered(rx')
        BY <3>3, <3>6, <3>8
      <4>2. sbuf' = sbuf /\ sent' = b
        BY <1>1, <2>1, <3>2, <4>1
      <4> QED
        BY <1>3, <2>1, <4>1, <4>2
    <3> QED
      BY <3>7, <3>8
  <2>5. CASE RecvArpRequest(ifp, eh)
    <3> DEFINE a == ArpAnswer(ifp, eh.pl)
    <3>1. sbuf' = sbuf /\ sent' = b \o a
      BY <2>5 DEF RecvArpRequest, b
    <3>2. eh.pl \in ArpPacket /\ eh.type = "ARP"
      BY <2>1, <2>5 DEF RecvArpRequest, Frame
    <3>3. a \in Seq(Transmission)
      BY <3>2, ArpType DEF TypeOK
    <3>4. \A j \in DOMAIN a : a[j] \notin LeaveOf(p)
      BY DEF ArpAnswer, ether_output, ArpFrame, LeaveOf, Routed
    <3>5. ~ Offered(rx')
      BY <2>2, <3>2 DEF Offered
    <3> HIDE DEF a
    <3>6. Count(a, LeaveOf(p)) = 0
      BY <3>4, CountNone
    <3>7. Count(b \o a, LeaveOf(p)) = 0 /\ b \o a \in Seq(Transmission)
      <4>1. Count(b \o a, LeaveOf(p)) = Count(b, LeaveOf(p)) + Count(a, LeaveOf(p))
        BY <2>1, <3>3, CountConcat
      <4> QED
        BY <2>1, <3>3, <3>6, <4>1
    <3> QED
      BY <1>3, <3>1, <3>5, <3>7
  <2>6. CASE RecvArpReply(ifp, eh)
    <3> DEFINE w == WalkList(sbuf, ifp, arptable')
    <3>1. sbuf' = w.kept /\ sent' = b \o w.sent
      BY <2>6 DEF RecvArpReply, Walk, b
    <3>2. ~ Offered(rx')
      BY <2>2, <2>6 DEF RecvArpReply, Offered
    <3>3. arptable' \in [Slots -> [ip_addr : Addr, macaddr : Mac]]
      <4>1. TypeOK'
        BY <1>5, RecvType
      <4> QED
        BY <4>1 DEF TypeOK, ArpTypeOK
    <3>4. ASSUME NEW n \in 1 .. Len(sbuf)
          PROVE  LET tx == ether_output(ifp, IpFrame(sbuf[n].shost,
                             MacFor(arptable', sbuf[n].nextip), sbuf[n].pkt))
                 IN  /\ tx \in Transmission
                     /\ sbuf[n] \in WaitOf(p) <=> tx \in LeaveOf(p)
      <4>1. sbuf[n] \in SendBuf
        BY <1>1
      <4>2. PICK i \in Interfaces : sbuf[n].shost = ifs[i].mac
        BY <1>1 DEF OwnOK
      <4>3. /\ sbuf[n].shost \in Mac /\ sbuf[n].pkt \in IpPacket
            /\ MacFor(arptable', sbuf[n].nextip) \in Mac
        BY <3>3, <4>1, ArpAssumption DEF SendBuf, MacFor
      <4> DEFINE eh1 == IpFrame(sbuf[n].shost,
                          MacFor(arptable', sbuf[n].nextip), sbuf[n].pkt)
                 tx == ether_output(ifp, eh1)
      <4>4. /\ eh1 \in Frame /\ eh1.src = ifs[i].mac
            /\ eh1.type = "IP" /\ eh1.pl = sbuf[n].pkt
        BY <4>2, <4>3, FrameType DEF IpFrame
      <4> HIDE DEF eh1
      <4>5. tx \in Transmission /\ tx.eh = eh1
        BY <2>1, <4>4, SendType DEF ether_output
      <4> HIDE DEF tx
      <4>6. tx \in LeaveOf(p) <=> sbuf[n].pkt = p
        BY <4>4, <4>5 DEF LeaveOf, Routed
      <4>7. sbuf[n] \in WaitOf(p) <=> sbuf[n].pkt = p
        BY <4>1 DEF WaitOf
      <4> QED
        BY <4>5, <4>6, <4>7 DEF tx, eh1
    <3>5. w \in [kept : Seq(SendBuf), sent : Seq(Transmission)]
      <4>1. \A n \in 1 .. Len(sbuf) : sbuf[n] \in SendBuf
        BY <1>1
      <4> QED
        BY <1>1, <3>4, <4>1, WalkFacts
    <3>6. Count(w.kept, WaitOf(p)) + Count(w.sent, LeaveOf(p))
            = Count(sbuf, WaitOf(p))
      <4>1. Marks(sbuf, ifp, arptable', Transmission, WaitOf(p), LeaveOf(p))
        BY <3>4 DEF Marks
      <4> QED
        BY <1>1, <4>1, WalkCounts
    <3> HIDE DEF w
    <3>7. /\ w.kept \in Seq(SendBuf) /\ w.sent \in Seq(Transmission)
          /\ b \o w.sent \in Seq(Transmission)
      BY <2>1, <3>5
    <3>8. Count(w.kept, WaitOf(p)) \in Nat /\ Count(w.sent, LeaveOf(p)) \in Nat
      BY <3>7, CountType
    <3>9. Count(b \o w.sent, LeaveOf(p)) = Count(w.sent, LeaveOf(p))
      <4>1. Count(b \o w.sent, LeaveOf(p))
              = Count(b, LeaveOf(p)) + Count(w.sent, LeaveOf(p))
        BY <2>1, <3>7, CountConcat
      <4> QED
        BY <2>1, <3>8, <4>1
    <3>10. /\ Waiting(sbuf', p) = Count(w.kept, WaitOf(p))
           /\ Leaving(sent', p) = Count(w.sent, LeaveOf(p))
      BY <3>1, <3>7, <3>9, CountsAgree
    <3> QED
      BY <1>2, <3>2, <3>6, <3>8, <3>10 DEF Balanced
  <2> QED
    BY <1>5, <2>3, <2>4, <2>5, <2>6 DEF Recv
<1>6. ASSUME NEW ifp \in Interfaces, NEW dst \in TcpDsts, Tcp(ifp, dst)
      PROVE  Balanced(p)
  <2> DEFINE syn == TcpSyn(ifp, dst)
             k == [syn EXCEPT !.ttl = 32]
             r == ipv4_output(syn)
  <2>1. syn \in IpPacket
    BY InterfaceType, StackAssumption DEF TypeOK, TcpSyn, IpPacket
  <2>2. rx' = [kind |-> "tcp", pkt |-> syn]
        /\ sbuf' = r.queue \o sbuf /\ sent' = r.sent
    BY <1>6 DEF Tcp
  <2> HIDE DEF syn
  <2>3. /\ r \in Outcome /\ k \in IpPacket /\ k.ttl = 32
        /\ Routes(r, k) \/ (Onward(k) = {} /\ r.queue = <<>> /\ r.sent = <<>>)
    BY <2>1, IpType, OutputShape DEF TypeOK
  <2>4. Accepted(rx') = {[k EXCEPT !.ttl = @ - 1] : e \in Onward(k)} /\ Offered(rx')
    BY <2>2 DEF Accepted, Onward, Offered
  <2> HIDE DEF k, r
  <2>5. Accepted(rx') = IF Onward(k) = {} THEN {} ELSE {Older(k)}
    BY <2>3, <2>4, AcceptedIs
  <2>6. Offered(rx') /\ p \in Accepted(rx') <=> Onward(k) # {} /\ p = Older(k)
    BY <2>4, <2>5
  <2>7. sent' = <<>> \o r.sent /\ <<>> \in Seq(Transmission)
    BY <2>2, <2>3 DEF Outcome
  <2>8. Count(<<>>, LeaveOf(p)) = 0
    BY CountEmpty
  <2> QED
    BY <1>4, <2>2, <2>3, <2>6, <2>7, <2>8
<1>7. ASSUME \/ \E card \in Cards : Create(card)
             \/ \E flags \in Answers : Fwdctl(flags)
             \/ \E ifp \in Interfaces, cmd \in RouteCmds : RouteAdd(ifp, cmd)
      PROVE  Balanced(p)
  <2>1. sbuf' = sbuf /\ sent' = <<>> /\ rx' = [kind |-> "command"]
    BY <1>7 DEF Create, Fwdctl, RouteAdd
  <2>2. Count(sent', LeaveOf(p)) = 0 /\ sent' \in Seq(Transmission)
    BY <2>1, CountEmpty
  <2>3. ~ Offered(rx')
    BY <2>1 DEF Offered
  <2> QED
    BY <1>3, <2>1, <2>2, <2>3
<1> QED
  BY <1>5, <1>6, <1>7 DEF Next

\* The router neither loses nor duplicates a packet that it has a route for, in
\* whatever order packets, requests and replies come in.
THEOREM Conserved == HSpec => PacketsConserved
<1>1. TypeOK /\ OwnOK /\ [HNext]_hall =>
        [LET in == IF Offered(rx') THEN Accepted(rx') ELSE {}
             seen == in \cup {sbuf[i].pkt : i \in DOMAIN sbuf}
                        \cup {sbuf'[i].pkt : i \in DOMAIN sbuf'}
                        \cup {tx.eh.pl : tx \in {t \in Entries(sent') : Routed(t)}}
         IN  \A p \in seen :
               Waiting(sbuf, p) + (IF p \in in THEN 1 ELSE 0)
                 = Waiting(sbuf', p) + Leaving(sent', p)]_hall
  <2> DEFINE in == IF Offered(rx') THEN Accepted(rx') ELSE {}
  <2> SUFFICES ASSUME TypeOK, OwnOK, Next, NEW p
               PROVE  Waiting(sbuf, p) + (IF p \in in THEN 1 ELSE 0)
                        = Waiting(sbuf', p) + Leaving(sent', p)
    BY DEF HNext
  <2>1. Balanced(p)
    BY Balance
  <2>2. p \in in <=> Offered(rx') /\ p \in Accepted(rx')
    OBVIOUS
  <2> HIDE DEF in
  <2> QED
    BY <2>1, <2>2 DEF Balanced
<1> QED
  BY <1>1, HistoryType, OwnInvariant, PTL DEF HSpec, PacketsConserved, hall

-----------------------------------------------------------------------------
\* The routing table.

\* Route i of the list is the oldest numbered one for its prefix.
Oldest(i) == \A j \in Numbered : fib[j].dst = fib[i].dst => j <= i

\* The next hop a route of the list stands for.
HopOf(i) == [ifp |-> fib[i].ifp, addr |-> fib[i].nextip]

\* The poptrie's routes are the oldest of those that got a next hop slot, and
\* the slots are taken one for each route of the list, until none is left.
RouteOK ==
  /\ fib_n = IF Len(fib) < FibSize - 1 THEN Len(fib) + 1 ELSE FibSize
  /\ DOMAIN rib = {fib[i].dst : i \in Numbered}
  /\ \A i \in Numbered : Oldest(i) => rib[fib[i].dst] = HopOf(i)

LEMMA RouteAddStep ==
  ASSUME TypeOK, RouteOK, NEW ifp, NEW next, NEW p, route_add(ifp, next, p)
  PROVE  RouteOK'
<1> DEFINE n == Len(fib)
           e == [ifp |-> ifp, nextip |-> next, dst |-> p]
<1>1. fib \in Seq(FibEntry) /\ n \in Nat /\ FibSize \in Nat \ {0}
  BY IpAssumption DEF TypeOK, IpTypeOK
<1>2. fib' = <<e>> \o fib
  BY DEF route_add
<1>3. /\ Len(fib') = n + 1 /\ DOMAIN fib' = 1 .. n + 1 /\ DOMAIN fib = 1 .. n
      /\ fib'[1] = e
      /\ \A i \in 1 .. n : fib'[i + 1] = fib[i]
  <2> HIDE DEF e
  <2> QED
    BY <1>1, <1>2
<1>4. fib_n < FibSize <=> n < FibSize - 1
  BY <1>1 DEF RouteOK
<1>5. /\ 1 \in Numbered' <=> fib_n < FibSize
      /\ \A i \in 1 .. n : i + 1 \in Numbered' <=> i \in Numbered
      /\ Numbered \subseteq 1 .. n
      /\ \A k \in Numbered' : k = 1 \/ \E i \in Numbered : k = i + 1
  <2> HIDE DEF e
  <2>1. \A k \in 1 .. n + 1 : k = 1 \/ \E i \in 1 .. n : k = i + 1
    <3> SUFFICES ASSUME NEW k \in 1 .. n + 1, k # 1
                 PROVE  \E i \in 1 .. n : k = i + 1
      OBVIOUS
    <3>1. k - 1 \in 1 .. n /\ k = k - 1 + 1
      BY <1>1
    <3> QED
      BY <3>1
  <2>2. 1 \in Numbered' <=> fib_n < FibSize
    BY <1>1, <1>3, <1>4 DEF Numbered
  <2>3. \A i \in 1 .. n : i + 1 \in Numbered' <=> i \in Numbered
    BY <1>1, <1>3 DEF Numbered
  <2>4. Numbered \subseteq 1 .. n /\ Numbered' \subseteq 1 .. n + 1
    BY <1>3 DEF Numbered
  <2> HIDE DEF n
  <2> QED
    BY <2>1, <2>2, <2>3, <2>4
<1>6. fib_n' = IF Len(fib') < FibSize - 1 THEN Len(fib') + 1 ELSE FibSize
  BY <1>1, <1>3 DEF RouteOK, route_add
<1>7. DOMAIN rib' = {fib'[k].dst : k \in Numbered'}
  <2>1. DOMAIN rib' = IF fib_n < FibSize THEN DOMAIN rib \cup {p} ELSE DOMAIN rib
    BY DEF route_add
  <2>2. fib'[1].dst = p
    BY <1>3
  <2> HIDE DEF e, n
  <2>3. {fib'[k].dst : k \in Numbered'} =
          {fib[i].dst : i \in Numbered}
            \cup (IF fib_n < FibSize THEN {p} ELSE {})
    <3>1. \A i \in Numbered : i + 1 \in Numbered' /\ fib'[i + 1].dst = fib[i].dst
      BY <1>3, <1>5
    <3>2. \A k \in Numbered' : \/ k = 1 /\ fib_n < FibSize /\ fib'[k].dst = p
                              \/ \E i \in Numbered : fib'[k].dst = fib[i].dst
      BY <1>3, <1>5, <2>2
    <3> QED
      BY <1>5, <2>2, <3>1, <3>2
  <2> QED
    BY <2>1, <2>3 DEF RouteOK
<1>8. ASSUME NEW k \in Numbered', Oldest(k)'
      PROVE  rib'[fib'[k].dst] = HopOf(k)'
  <2>1. CASE k # 1
    <3>1. PICK i \in Numbered : k = i + 1
      BY <1>5, <2>1
    <3>2. i \in 1 .. n /\ fib'[k] = fib[i] /\ fib[i].dst \in DOMAIN rib
      BY <1>3, <1>5, <3>1 DEF RouteOK
    <3>3. Oldest(i)
      <4> SUFFICES ASSUME NEW j \in Numbered, fib[j].dst = fib[i].dst
                   PROVE  j <= i
        BY DEF Oldest
      <4>1. j \in 1 .. n /\ j + 1 \in Numbered' /\ fib'[j + 1] = fib[j]
        BY <1>3, <1>5
      <4>2. j + 1 <= k
        BY <1>8, <3>2, <4>1 DEF Oldest
      <4> QED
        BY <1>1, <3>1, <3>2, <4>1, <4>2
    <3>4. rib[fib[i].dst] = HopOf(i)
      BY <3>3 DEF RouteOK
    <3>5. rib'[fib[i].dst] = rib[fib[i].dst]
      BY <3>2 DEF route_add
    <3> QED
      BY <3>2, <3>4, <3>5 DEF HopOf
  <2>2. CASE k = 1
    <3>1. fib'[k] = e /\ fib_n < FibSize
      BY <1>3, <1>5, <1>8, <2>2
    <3>2. p \notin DOMAIN rib
      <4> SUFFICES ASSUME NEW i \in Numbered, fib[i].dst = p
                   PROVE  FALSE
        BY DEF RouteOK
      <4>1. i \in 1 .. n /\ i + 1 \in Numbered' /\ fib'[i + 1].dst = p
        BY <1>3, <1>5
      <4>2. i + 1 <= 1
        BY <1>8, <2>2, <3>1, <4>1 DEF Oldest
      <4> QED
        BY <1>1, <4>1, <4>2
    <3>3. rib'[p] = [ifp |-> ifp, addr |-> next]
      BY <3>1, <3>2 DEF route_add
    <3> QED
      BY <3>1, <3>3 DEF HopOf
  <2> QED
    BY <2>1, <2>2
<1> HIDE DEF n, e
<1> QED
  BY <1>6, <1>7, <1>8 DEF RouteOK

\* The last, hence the oldest, numbered route for a prefix that has one.
LEMMA OldestExists ==
  ASSUME TypeOK, NEW i \in Numbered
  PROVE  \E k \in Numbered : fib[k].dst = fib[i].dst /\ Oldest(k)
<1> DEFINE n == Len(fib)
           T == {n - k : k \in {j \in Numbered : fib[j].dst = fib[i].dst}}
<1>1. n \in Nat /\ Numbered \subseteq 1 .. n
  BY DEF TypeOK, IpTypeOK, Numbered
<1> HIDE DEF n
<1>2. T \subseteq Nat /\ T # {}
  BY <1>1
<1> HIDE DEF T
<1>3. PICK t \in T : \A u \in T : t <= u
  BY <1>2, LeastNatural
<1> USE DEF T
<1>4. PICK k \in Numbered : fib[k].dst = fib[i].dst /\ t = n - k
  BY <1>3
<1>5. ASSUME NEW j \in Numbered, fib[j].dst = fib[k].dst
      PROVE  j <= k
  <2>1. n - j \in T
    BY <1>4, <1>5
  <2>2. n - k <= n - j
    BY <1>3, <1>4, <2>1
  <2>3. j \in 1 .. n /\ k \in 1 .. n
    BY <1>1
  <2> QED
    BY <1>1, <2>2, <2>3
<1> QED
  BY <1>4, <1>5 DEF Oldest

LEMMA LookupOldest ==
  ASSUME TypeOK, RouteOK
  PROVE  LookupFollowsOldest
<1>1. DOMAIN rib \subseteq Prefix /\ Numbered \subseteq Nat
  BY DEF TypeOK, IpTypeOK, Numbered
<1> SUFFICES ASSUME NEW a \in Addr
             PROVE  LET hits == {i \in Numbered : Covers(fib[i].dst, a)}
                        best == {i \in hits :
                                   \A j \in hits : fib[j].dst.plen <= fib[i].dst.plen}
                    IN  route_lookup(a) =
                          {[ifp |-> fib[i].ifp, addr |-> fib[i].nextip] : i \in
                             {k \in best : \A j \in best : j <= k}}
  BY DEF LookupFollowsOldest
<1> DEFINE hits == {i \in Numbered : Covers(fib[i].dst, a)}
           best == {i \in hits : \A j \in hits : fib[j].dst.plen <= fib[i].dst.plen}
           last == {k \in best : \A j \in best : j <= k}
           L == Longest(DOMAIN rib, a)
\* The longest prefix is that of the best routes, and they have no other.
<1>2. ASSUME NEW i \in hits
      PROVE  fib[i].dst \in L <=> i \in best
  <2>1. \A j \in hits : fib[j].dst \in DOMAIN rib /\ Covers(fib[j].dst, a)
    BY DEF RouteOK
  <2>2. \A q \in DOMAIN rib : Covers(q, a) => \E j \in hits : fib[j].dst = q
    BY DEF RouteOK
  <2>3. fib[i].dst \in L <=> \A q \in DOMAIN rib : Covers(q, a) => q.plen <= fib[i].dst.plen
    BY <2>1 DEF Longest
  <2>4. i \in best <=> \A j \in hits : fib[j].dst.plen <= fib[i].dst.plen
    OBVIOUS
  <2> HIDE DEF hits, best, L
  <2> QED
    BY <2>1, <2>2, <2>3, <2>4
<1>3. ASSUME NEW i \in best, NEW j \in best
      PROVE  fib[i].dst = fib[j].dst
  <2>1. fib[i].dst \in L /\ fib[j].dst \in DOMAIN rib /\ Covers(fib[j].dst, a)
        /\ i \in Numbered /\ j \in Numbered
    BY <1>2 DEF RouteOK
  <2>2. fib[j].dst.plen >= fib[i].dst.plen
    <3>1. fib[i].dst.plen <= fib[j].dst.plen
      OBVIOUS
    <3>2. fib[i].dst.plen \in Nat /\ fib[j].dst.plen \in Nat
      <4>1. fib[i].dst \in Prefix /\ fib[j].dst \in Prefix
        BY <1>1, <2>1 DEF RouteOK
      <4> QED
        BY <4>1, PrefixType, WidthAssumption
    <3> QED
      BY <3>1, <3>2
  <2> HIDE DEF L, best
  <2> QED
    BY <1>1, <2>1, <2>2, OneLongest DEF L
<1>4. ASSUME NEW p \in L
      PROVE  \E i \in last : rib[p] = HopOf(i)
  <2>1. p \in DOMAIN rib /\ Covers(p, a)
    BY DEF Longest
  <2>2. PICK m \in Numbered : fib[m].dst = p
    BY <2>1 DEF RouteOK
  <2>3. PICK i \in Numbered : fib[i].dst = p /\ Oldest(i)
    BY <2>2, OldestExists
  <2>4. i \in best
    BY <1>2, <2>1, <2>3
  <2>5. ASSUME NEW j \in best
        PROVE  j <= i
    <3>1. j \in Numbered /\ fib[j].dst = fib[i].dst
      BY <1>3, <2>4
    <3> QED
      BY <2>3, <3>1 DEF Oldest
  <2>6. rib[p] = HopOf(i)
    BY <2>3 DEF RouteOK
  <2> HIDE DEF best, L
  <2> QED
    BY <2>4, <2>5, <2>6
<1>5. ASSUME NEW i \in last
      PROVE  fib[i].dst \in L /\ rib[fib[i].dst] = HopOf(i)
  <2>1. i \in best /\ i \in hits /\ i \in Numbered /\ \A j \in best : j <= i
    OBVIOUS
  <2>2. fib[i].dst \in L
    BY <1>2, <2>1
  <2>3. ASSUME NEW j \in Numbered, fib[j].dst = fib[i].dst
        PROVE  j <= i
    <3>1. j \in hits /\ j \in best
      BY <2>1, <2>3
    <3> QED
      BY <2>1, <3>1
  <2> HIDE DEF L, best, last, hits
  <2> QED
    BY <2>1, <2>2, <2>3 DEF RouteOK, Oldest
<1>6. route_lookup(a) = {HopOf(i) : i \in last}
  <2>1. route_lookup(a) = {rib[p] : p \in L}
    BY DEF route_lookup
  <2>2. \A i \in last : \E p \in L : HopOf(i) = rib[p]
    BY <1>5
  <2> HIDE DEF L, last
  <2> QED
    BY <1>4, <2>1, <2>2
<1> QED
  BY <1>6 DEF HopOf

\* A lookup is explained by the list that print_route shows: of the routes that
\* got a next hop slot and cover the address with the longest length, the oldest.
THEOREM OldestRoute == HSpec => []LookupFollowsOldest
<1>1. HInit => RouteOK
  <2> SUFFICES ASSUME HInit PROVE RouteOK
    OBVIOUS
  <2>1. fib = <<>> /\ fib_n = 1 /\ rib = [p \in {} |-> NULL]
    BY DEF HInit, Init
  <2>2. Len(fib) = 0 /\ DOMAIN fib = {}
    BY <2>1
  <2>3. Numbered = {}
    BY <2>2 DEF Numbered
  <2> QED
    BY <2>1, <2>2, <2>3, IpAssumption DEF RouteOK
<1>2. TypeOK /\ RouteOK /\ [HNext]_hall => RouteOK'
  <2> SUFFICES ASSUME TypeOK, RouteOK, [HNext]_hall
               PROVE  RouteOK'
    OBVIOUS
  <2>1. CASE UNCHANGED <<rib, fib_n, fib>>
    BY <2>1 DEF RouteOK, Numbered, Oldest, HopOf
  <2>2. CASE \E ifp, next, p : route_add(ifp, next, p)
    BY <2>2, RouteAddStep
  <2>3. ASSUME Next
        PROVE  \/ UNCHANGED <<rib, fib_n, fib>>
               \/ \E ifp, next, p : route_add(ifp, next, p)
    BY <2>3 DEF Next, Recv, RecvBridged, RecvIp, RecvArpRequest, RecvArpReply,
      RecvArpOther, Received, Tables, Create, Tcp, Fwdctl, RouteAdd
  <2> QED
    BY <2>1, <2>2, <2>3 DEF HNext, hall, vars
<1>3. TypeOK /\ RouteOK => LookupFollowsOldest
  BY LookupOldest
<1> QED
  BY <1>1, <1>2, <1>3, HistoryType, PTL DEF HSpec, hall
=============================================================================
