--------------------------- MODULE NetworkProofs ----------------------------
(***************************************************************************)
(* What holds of three hosts, whatever their scripts and however the       *)
(* sockets treat their frames.  A theorem is not carried over by INSTANCE, *)
(* so what StackProofs shows of one host is shown here of a host At(h) for *)
(* any h, of which the instances H1, H2 and H3 are the three cases.        *)
(***************************************************************************)
EXTENDS NetworkHistory, NaturalLemmas

\* The remaining tables of the hosts, side by side.
flags == <<flags1, flags2, flags3>>
mactable == <<mactable1, mactable2, mactable3>>
rib == <<rib1, rib2, rib3>>
fib_n == <<fib_n1, fib_n2, fib_n3>>
fib == <<fib1, fib2, fib3>>

\* Host h, whichever it is.
At(h) == INSTANCE Stack WITH
  ifs <- ifs[h], bridge_flags <- flags[h], mactable <- mactable[h],
  arptable <- arptable[h], sbuf <- sbuf[h], rib <- rib[h], fib_n <- fib_n[h],
  fib <- fib[h],
  Cards <- None, Arrivals <- None, RouteCmds <- None, TcpDsts <- None,
  Answers <- None

-----------------------------------------------------------------------------
\* The three instances are cases of one.

\* What the bridge and the dispatch do.
LEMMA BridgeAt ==
  ASSUME NEW ifp, NEW eh
  PROVE  /\ H1!BridgeSends(ifp, eh) = At(1)!BridgeSends(ifp, eh)
         /\ H2!BridgeSends(ifp, eh) = At(2)!BridgeSends(ifp, eh)
         /\ H3!BridgeSends(ifp, eh) = At(3)!BridgeSends(ifp, eh)
BY DEF ifs, flags, mactable, At!BridgeSends, H1!BridgeSends, H2!BridgeSends,
   H3!BridgeSends, At!Bridged, H1!Bridged, H2!Bridged, H3!Bridged, At!flood,
   H1!flood, H2!flood, H3!flood, At!find_interface, H1!find_interface,
   H2!find_interface, H3!find_interface, At!IS_L2BRIDGE, H1!IS_L2BRIDGE,
   H2!IS_L2BRIDGE, H3!IS_L2BRIDGE, At!ether_output, H1!ether_output,
   H2!ether_output, H3!ether_output, At!NULL, H1!NULL, H2!NULL, H3!NULL

\* What every frame that comes in does to the tables, and whom it is for.
LEMMA ReceivedAt ==
  ASSUME NEW ifp, NEW eh
  PROVE  /\ H1!Received(ifp, eh) <=> At(1)!Received(ifp, eh)
         /\ H2!Received(ifp, eh) <=> At(2)!Received(ifp, eh)
         /\ H3!Received(ifp, eh) <=> At(3)!Received(ifp, eh)
         /\ H1!ForUs(ifp, eh) <=> At(1)!ForUs(ifp, eh)
         /\ H2!ForUs(ifp, eh) <=> At(2)!ForUs(ifp, eh)
         /\ H3!ForUs(ifp, eh) <=> At(3)!ForUs(ifp, eh)
BY DEF ifs, flags, mactable, rib, fib_n, fib, At!Received, H1!Received, H2!Received,
   H3!Received, At!bridge_input, H1!bridge_input, H2!bridge_input, H3!bridge_input,
   At!Bridged, H1!Bridged, H2!Bridged, H3!Bridged, At!add2mactable, H1!add2mactable,
   H2!add2mactable, H3!add2mactable, At!IS_L2BRIDGE, H1!IS_L2BRIDGE, H2!IS_L2BRIDGE,
   H3!IS_L2BRIDGE, At!ForUs, H1!ForUs, H2!ForUs, H3!ForUs, At!Tables, H1!Tables,
   H2!Tables, H3!Tables

\* ARP.
LEMMA ArpAt ==
  ASSUME NEW ifp, NEW arp, NEW addr, NEW mac
  PROVE  /\ H1!ArpAnswer(ifp, arp) = At(1)!ArpAnswer(ifp, arp)
         /\ H2!ArpAnswer(ifp, arp) = At(2)!ArpAnswer(ifp, arp)
         /\ H3!ArpAnswer(ifp, arp) = At(3)!ArpAnswer(ifp, arp)
         /\ H1!add2arptable(addr, mac) = At(1)!add2arptable(addr, mac)
         /\ H2!add2arptable(addr, mac) = At(2)!add2arptable(addr, mac)
         /\ H3!add2arptable(addr, mac) = At(3)!add2arptable(addr, mac)
BY DEF ifs, arptable, At!ArpAnswer, H1!ArpAnswer, H2!ArpAnswer, H3!ArpAnswer,
   At!add2arptable, H1!add2arptable, H2!add2arptable, H3!add2arptable,
   At!ether_output, H1!ether_output, H2!ether_output, H3!ether_output, At!ArpFrame,
   H1!ArpFrame, H2!ArpFrame, H3!ArpFrame

\* The walk over the send buffer, and the entry for a next hop.
LEMMA WalkAt ==
  ASSUME NEW ifp, NEW table
  PROVE  /\ H1!Walk(ifp, table) = At(1)!Walk(ifp, table)
         /\ H2!Walk(ifp, table) = At(2)!Walk(ifp, table)
         /\ H3!Walk(ifp, table) = At(3)!Walk(ifp, table)
BY DEF sbuf, At!Walk, H1!Walk, H2!Walk, H3!Walk, At!WalkList, H1!WalkList,
   H2!WalkList, H3!WalkList, At!Found, H1!Found, H2!Found, H3!Found, At!MacFor,
   H1!MacFor, H2!MacFor, H3!MacFor, At!ether_output, H1!ether_output,
   H2!ether_output, H3!ether_output, At!IpFrame, H1!IpFrame, H2!IpFrame, H3!IpFrame

\* The IPv4 paths.
LEMMA LookupAt ==
  ASSUME NEW addr
  PROVE  /\ H1!route_lookup(addr) = At(1)!route_lookup(addr)
         /\ H2!route_lookup(addr) = At(2)!route_lookup(addr)
         /\ H3!route_lookup(addr) = At(3)!route_lookup(addr)
BY DEF rib, At!route_lookup, H1!route_lookup, H2!route_lookup, H3!route_lookup,
   At!Longest, H1!Longest, H2!Longest, H3!Longest, At!Covers, H1!Covers, H2!Covers,
   H3!Covers, At!Mask, H1!Mask, H2!Mask, H3!Mask

\* A packet is put aside.
LEMMA AwaitAt ==
  ASSUME NEW ifp, NEW addr, NEW pkt
  PROVE  /\ H1!Await(ifp, addr, pkt) = At(1)!Await(ifp, addr, pkt)
         /\ H2!Await(ifp, addr, pkt) = At(2)!Await(ifp, addr, pkt)
         /\ H3!Await(ifp, addr, pkt) = At(3)!Await(ifp, addr, pkt)
BY DEF ifs, At!Await, H1!Await, H2!Await, H3!Await, At!arp_req, H1!arp_req,
   H2!arp_req, H3!arp_req, At!Drop, H1!Drop, H2!Drop, H3!Drop, At!ether_output,
   H1!ether_output, H2!ether_output, H3!ether_output, At!ArpFrame, H1!ArpFrame,
   H2!ArpFrame, H3!ArpFrame

\* A packet is routed.
LEMMA RouteAt ==
  ASSUME NEW entry, NEW pkt
  PROVE  /\ H1!Route(entry, pkt) = At(1)!Route(entry, pkt)
         /\ H2!Route(entry, pkt) = At(2)!Route(entry, pkt)
         /\ H3!Route(entry, pkt) = At(3)!Route(entry, pkt)
BY AwaitAt DEF ifs, arptable, At!Route, H1!Route, H2!Route, H3!Route, At!Drop,
   H1!Drop, H2!Drop, H3!Drop, At!ether_output, H1!ether_output, H2!ether_output,
   H3!ether_output, At!IpFrame, H1!IpFrame, H2!IpFrame, H3!IpFrame, At!Found,
   H1!Found, H2!Found, H3!Found, At!MacFor, H1!MacFor, H2!MacFor, H3!MacFor,
   At!INADDR_ANY, H1!INADDR_ANY, H2!INADDR_ANY, H3!INADDR_ANY

\* A packet is passed on.
LEMMA ForwardAt ==
  ASSUME NEW pkt
  PROVE  /\ H1!ipv4_forward(pkt) = At(1)!ipv4_forward(pkt)
         /\ H2!ipv4_forward(pkt) = At(2)!ipv4_forward(pkt)
         /\ H3!ipv4_forward(pkt) = At(3)!ipv4_forward(pkt)
BY LookupAt, RouteAt DEF ifs, At!ipv4_forward, H1!ipv4_forward, H2!ipv4_forward,
   H3!ipv4_forward, At!Drop, H1!Drop, H2!Drop, H3!Drop, At!Deliver, H1!Deliver,
   H2!Deliver, H3!Deliver

\* The ways in and out of the IPv4 code.
LEMMA PathsAt ==
  ASSUME NEW pkt
  PROVE  /\ H1!ipv4_input(pkt) = At(1)!ipv4_input(pkt)
         /\ H2!ipv4_input(pkt) = At(2)!ipv4_input(pkt)
         /\ H3!ipv4_input(pkt) = At(3)!ipv4_input(pkt)
         /\ H1!ipv4_output(pkt) = At(1)!ipv4_output(pkt)
         /\ H2!ipv4_output(pkt) = At(2)!ipv4_output(pkt)
         /\ H3!ipv4_output(pkt) = At(3)!ipv4_output(pkt)
BY ForwardAt DEF ifs, flags, At!ipv4_input, H1!ipv4_input, H2!ipv4_input,
   H3!ipv4_input, At!ipv4_output, H1!ipv4_output, H2!ipv4_output, H3!ipv4_output,
   At!is_to_me, H1!is_to_me, H2!is_to_me, H3!is_to_me, At!Interfaces, H1!Interfaces,
   H2!Interfaces, H3!Interfaces, At!Drop, H1!Drop, H2!Drop, H3!Drop, At!Deliver,
   H1!Deliver, H2!Deliver, H3!Deliver, At!IS_L3BRIDGE, H1!IS_L3BRIDGE,
   H2!IS_L3BRIDGE, H3!IS_L3BRIDGE

\* The events.
LEMMA RecvBridgedAt ==
  ASSUME NEW ifp, NEW eh
  PROVE  /\ H1!RecvBridged(ifp, eh) => At(1)!RecvBridged(ifp, eh)
         /\ H2!RecvBridged(ifp, eh) => At(2)!RecvBridged(ifp, eh)
         /\ H3!RecvBridged(ifp, eh) => At(3)!RecvBridged(ifp, eh)
BY BridgeAt, ReceivedAt DEF arptable, sbuf, At!RecvBridged, H1!RecvBridged,
   H2!RecvBridged, H3!RecvBridged

\* A packet comes in.
LEMMA RecvIpAt ==
  ASSUME NEW ifp, NEW eh
  PROVE  /\ H1!RecvIp(ifp, eh) => At(1)!RecvIp(ifp, eh)
         /\ H2!RecvIp(ifp, eh) => At(2)!RecvIp(ifp, eh)
         /\ H3!RecvIp(ifp, eh) => At(3)!RecvIp(ifp, eh)
BY BridgeAt, ReceivedAt, PathsAt DEF arptable, sbuf, At!RecvIp, H1!RecvIp,
   H2!RecvIp, H3!RecvIp

\* An ARP request comes in.
LEMMA RecvRequestAt ==
  ASSUME NEW ifp, NEW eh
  PROVE  /\ H1!RecvArpRequest(ifp, eh) => At(1)!RecvArpRequest(ifp, eh)
         /\ H2!RecvArpRequest(ifp, eh) => At(2)!RecvArpRequest(ifp, eh)
         /\ H3!RecvArpRequest(ifp, eh) => At(3)!RecvArpRequest(ifp, eh)
BY BridgeAt, ReceivedAt, ArpAt DEF arptable, sbuf, At!RecvArpRequest,
   H1!RecvArpRequest, H2!RecvArpRequest, H3!RecvArpRequest

\* An ARP reply comes in.
LEMMA RecvReplyAt ==
  ASSUME NEW ifp, NEW eh
  PROVE  /\ H1!RecvArpReply(ifp, eh) => At(1)!RecvArpReply(ifp, eh)
         /\ H2!RecvArpReply(ifp, eh) => At(2)!RecvArpReply(ifp, eh)
         /\ H3!RecvArpReply(ifp, eh) => At(3)!RecvArpReply(ifp, eh)
BY BridgeAt, ReceivedAt, ArpAt, WalkAt DEF arptable, sbuf, At!RecvArpReply,
   H1!RecvArpReply, H2!RecvArpReply, H3!RecvArpReply

\* ARP of another kind comes in.
LEMMA RecvOtherAt ==
  ASSUME NEW ifp, NEW eh
  PROVE  /\ H1!RecvArpOther(ifp, eh) => At(1)!RecvArpOther(ifp, eh)
         /\ H2!RecvArpOther(ifp, eh) => At(2)!RecvArpOther(ifp, eh)
         /\ H3!RecvArpOther(ifp, eh) => At(3)!RecvArpOther(ifp, eh)
BY BridgeAt, ReceivedAt DEF arptable, sbuf, At!RecvArpOther, H1!RecvArpOther,
   H2!RecvArpOther, H3!RecvArpOther

\* create.
LEMMA CreateAt ==
  ASSUME NEW card
  PROVE  /\ H1!Create(card) => At(1)!Create(card)
         /\ H2!Create(card) => At(2)!Create(card)
         /\ H3!Create(card) => At(3)!Create(card)
BY DEF ifs, flags, mactable, arptable, sbuf, rib, fib_n, fib, At!Create, H1!Create,
   H2!Create, H3!Create, At!Connected, H1!Connected, H2!Connected, H3!Connected,
   At!PrefixOf, H1!PrefixOf, H2!PrefixOf, H3!PrefixOf, At!Mask, H1!Mask, H2!Mask,
   H3!Mask, At!INADDR_ANY, H1!INADDR_ANY, H2!INADDR_ANY, H3!INADDR_ANY,
   At!route_add, H1!route_add, H2!route_add, H3!route_add

\* tcp.
LEMMA TcpAt ==
  ASSUME NEW ifp, NEW dst
  PROVE  /\ H1!Tcp(ifp, dst) => At(1)!Tcp(ifp, dst)
         /\ H2!Tcp(ifp, dst) => At(2)!Tcp(ifp, dst)
         /\ H3!Tcp(ifp, dst) => At(3)!Tcp(ifp, dst)
BY PathsAt DEF ifs, flags, mactable, arptable, sbuf, rib, fib_n, fib, At!Tcp,
   H1!Tcp, H2!Tcp, H3!Tcp, At!TcpSyn, H1!TcpSyn, H2!TcpSyn, H3!TcpSyn, At!Tables,
   H1!Tables, H2!Tables, H3!Tables

\* fwdctl.
LEMMA FwdctlAt ==
  ASSUME NEW new
  PROVE  /\ H1!Fwdctl(new) => At(1)!Fwdctl(new)
         /\ H2!Fwdctl(new) => At(2)!Fwdctl(new)
         /\ H3!Fwdctl(new) => At(3)!Fwdctl(new)
BY DEF ifs, flags, mactable, arptable, sbuf, rib, fib_n, fib, At!Fwdctl, H1!Fwdctl,
   H2!Fwdctl, H3!Fwdctl

\* A process starts, for the first time or again.
LEMMA RestartAt ==
  /\ H1!Restart => At(1)!Restart
  /\ H2!Restart => At(2)!Restart
  /\ H3!Restart => At(3)!Restart
  /\ H1!Init => At(1)!Init
  /\ H2!Init => At(2)!Init
  /\ H3!Init => At(3)!Init
BY DEF ifs, flags, mactable, arptable, sbuf, rib, fib_n, fib, At!Restart,
   H1!Restart, H2!Restart, H3!Restart, At!Init, H1!Init, H2!Init, H3!Init, At!NULL,
   H1!NULL, H2!NULL, H3!NULL, At!INADDR_ANY, H1!INADDR_ANY, H2!INADDR_ANY,
   H3!INADDR_ANY


-----------------------------------------------------------------------------
\* What the tables and the frames of a host may hold.  The MAC addresses that
\* the owners of an address have had, own, are what the tables may know of it.

\* The owners of an address: each with a MAC address of its own.
Owners(own) ==
  /\ own \in [Addr -> SUBSET Mac]
  /\ \A a \in Addr : BROADCAST \notin own[a]

\* Frames that name a MAC address of their sender's, if they are about ARP, and
\* packets that are sent to a station.
Truthful(own) ==
  {f \in H1!Frame : /\ f.type = "ARP" => f.pl.sha \in own[f.pl.spa]
                    /\ f.type = "IP" => f.dst # BROADCAST}

\* The frames that host h may send.
Leaving(h, own) == [ifp : DOMAIN ifs[h], eh : Truthful(own)]

\* What an entry of an ARP table says.
Known(e, own) ==
  e.macaddr \in own[e.ip_addr] \/ (e.ip_addr = INADDR_ANY /\ e.macaddr = ZeroMac)

\* The interfaces are owners.
CardsOK(h, own) ==
  /\ ifs[h] \in Seq(H1!Card)
  /\ \A i \in DOMAIN ifs[h] : ifs[h][i].mac \in own[ifs[h][i].addr]

\* The ARP table knows of owners only, and the send buffer holds packets.
ArpOK(h, own) ==
  /\ arptable[h] \in [Slots -> [ip_addr : Addr, macaddr : Mac]]
  /\ \A s \in Slots : Known(arptable[h][s], own)
  /\ sbuf[h] \in Seq(H1!SendBuf)

\* Routes lead to interfaces that are there.
RoutesOK(h) ==
  /\ DOMAIN rib[h] \subseteq H1!Prefix
  /\ \A p \in DOMAIN rib[h] : rib[h][p] \in [ifp : DOMAIN ifs[h], addr : Addr]
  /\ fib_n[h] \in 1 .. FibSize
  /\ fib[h] \in Seq(H1!FibEntry)

\* So do the entries of the MAC address table.
BridgeOK(h) ==
  /\ flags[h] \in [l2 : BOOLEAN, l3 : BOOLEAN]
  /\ mactable[h] \in [Slots -> [addr : Mac, ifp : 0 .. Len(ifs[h])]]

\* A host in order.
HostOK(h, own) == CardsOK(h, own) /\ ArpOK(h, own) /\ RoutesOK(h) /\ BridgeOK(h)

\* What is known of the owners of addresses stays true when more are.
LEMMA OwnersGrow ==
  ASSUME NEW own, NEW more, Owners(own), Owners(more),
         \A a \in Addr : own[a] \subseteq more[a]
  PROVE  /\ Truthful(own) \subseteq Truthful(more)
         /\ \A h \in Hosts : HostOK(h, own) => HostOK(h, more)
<1>1. Truthful(own) \subseteq Truthful(more)
  BY DEF Truthful, H1!Frame, H1!ArpPacket, Addr
<1>2. ASSUME NEW h \in Hosts, HostOK(h, own)
      PROVE  HostOK(h, more)
  <2>1. CardsOK(h, more)
    <3>1. ASSUME NEW i \in DOMAIN ifs[h]
          PROVE  ifs[h][i].addr \in Addr
      <4>1. ifs[h][i] \in H1!Card
        BY <1>2 DEF HostOK, CardsOK
      <4> QED
        BY <4>1 DEF H1!Card, Addr
    <3> QED
      BY <1>2, <3>1 DEF HostOK, CardsOK
  <2>2. ArpOK(h, more)
    BY <1>2 DEF HostOK, ArpOK, Known
  <2> QED
    BY <1>2, <2>1, <2>2 DEF HostOK
<1> QED
  BY <1>1, <1>2

\* An interface of a host.
LEMMA InterfaceAt ==
  ASSUME NEW h \in Hosts, NEW own, Owners(own), CardsOK(h, own),
         NEW i \in DOMAIN ifs[h]
  PROVE  /\ i \in Nat /\ i # 0 /\ i \in 1 .. Len(ifs[h]) /\ Len(ifs[h]) \in Nat
         /\ ifs[h][i].mac \in own[ifs[h][i].addr]
         /\ ifs[h][i].mac \in Mac /\ ifs[h][i].addr \in Addr
         /\ ifs[h][i].mac # BROADCAST
<1>1. ifs[h][i] \in H1!Card
  BY DEF CardsOK
<1>2. ifs[h][i].mac \in Mac /\ ifs[h][i].addr \in Addr
  BY <1>1 DEF H1!Card, Addr
<1> QED
  BY <1>2 DEF CardsOK, Owners

\* A packet or an ARP packet in a frame of its own.
LEMMA FramesAt ==
  ASSUME NEW own, Owners(own), NEW src \in Mac, NEW dst \in Mac
  PROVE  /\ \A pkt \in H1!IpPacket : dst # BROADCAST =>
              [dst |-> dst, src |-> src, type |-> "IP", pl |-> pkt] \in Truthful(own)
         /\ \A arp \in H1!ArpPacket : arp.sha \in own[arp.spa] =>
              [dst |-> dst, src |-> src, type |-> "ARP", pl |-> arp] \in Truthful(own)
<1>1. ASSUME NEW pkt \in H1!IpPacket, dst # BROADCAST
      PROVE  [dst |-> dst, src |-> src, type |-> "IP", pl |-> pkt] \in Truthful(own)
  <2> DEFINE f == [dst |-> dst, src |-> src, type |-> "IP", pl |-> pkt]
  <2>1. f \in H1!Frame /\ f.type = "IP" /\ f.dst = dst
    BY DEF H1!Frame
  <2> QED
    BY <1>1, <2>1 DEF Truthful
<1>2. ASSUME NEW arp \in H1!ArpPacket, arp.sha \in own[arp.spa]
      PROVE  [dst |-> dst, src |-> src, type |-> "ARP", pl |-> arp] \in Truthful(own)
  <2> DEFINE f == [dst |-> dst, src |-> src, type |-> "ARP", pl |-> arp]
  <2>1. f \in H1!Frame /\ f.type = "ARP" /\ f.pl = arp
    BY DEF H1!Frame
  <2> QED
    BY <1>2, <2>1 DEF Truthful
<1> QED
  BY <1>1, <1>2

\* The ARP packets a host sends of itself, to whatever station.
LEMMA OwnArpAt ==
  ASSUME NEW h \in Hosts, NEW own, Owners(own), CardsOK(h, own),
         NEW i \in DOMAIN ifs[h], NEW dst \in Mac, NEW tpa \in Addr,
         NEW op \in {"request", "reply"}
  PROVE  [ifp |-> i, eh |-> [dst |-> dst, src |-> ifs[h][i].mac, type |-> "ARP",
            pl |-> [op |-> op, sha |-> ifs[h][i].mac, spa |-> ifs[h][i].addr,
                    tpa |-> tpa]]] \in Leaving(h, own)
<1> DEFINE arp == [op |-> op, sha |-> ifs[h][i].mac, spa |-> ifs[h][i].addr,
                   tpa |-> tpa]
<1>1. arp \in H1!ArpPacket
  BY InterfaceAt DEF H1!ArpPacket, Addr
<1>2. arp.sha \in own[arp.spa]
  BY InterfaceAt
<1> HIDE DEF arp
<1>3. [dst |-> dst, src |-> ifs[h][i].mac, type |-> "ARP", pl |-> arp] \in Truthful(own)
  BY <1>1, <1>2, InterfaceAt, FramesAt
<1>4. [ifp |-> i, eh |-> [dst |-> dst, src |-> ifs[h][i].mac, type |-> "ARP",
          pl |-> arp]] \in Leaving(h, own)
  BY <1>3 DEF Leaving
<1> QED
  BY <1>4 DEF arp

-----------------------------------------------------------------------------
\* What the parts of an event send and leave behind.

\* The bridge sends what it got on interfaces that exist.
LEMMA BridgeSendsAt ==
  ASSUME NEW h \in Hosts, NEW own, Owners(own), CardsOK(h, own), BridgeOK(h),
         NEW ifp \in DOMAIN ifs[h], NEW eh \in Truthful(own)
  PROVE  At(h)!BridgeSends(ifp, eh) \in Seq(Leaving(h, own))
<1>1. Len(ifs[h]) \in Nat /\ ifp \in 1 .. Len(ifs[h]) /\ DOMAIN ifs[h] = 1 .. Len(ifs[h])
  BY InterfaceAt DEF CardsOK
<1>2. ASSUME NEW i \in DOMAIN ifs[h]
      PROVE  [ifp |-> i, eh |-> eh] \in Leaving(h, own)
  BY DEF Leaving
<1>3. At(h)!flood(ifp, eh) \in Seq(Leaving(h, own))
  <2> DEFINE N == Len(ifs[h])
             at(k) == LET i == N - k + 1 IN IF i > ifp THEN i ELSE i - 1
             f == [k \in 1 .. (N - 1) |-> [ifp |-> at(k), eh |-> eh]]
  <2>1. N - 1 \in Nat
    BY <1>1
  <2>2. ASSUME NEW k \in 1 .. (N - 1)
        PROVE  at(k) \in DOMAIN ifs[h]
    BY <1>1
  <2> HIDE DEF at
  <2>3. \A k \in 1 .. (N - 1) : [ifp |-> at(k), eh |-> eh] \in Leaving(h, own)
    BY <1>2, <2>2
  <2>4. f \in Seq(Leaving(h, own))
    BY <2>1, <2>3
  <2>5. At(h)!flood(ifp, eh) = f
    BY DEF At!flood, At!ether_output, at
  <2> QED
    BY <2>4, <2>5
<1>4. ASSUME At(h)!find_interface(eh.dst) # 0
      PROVE  At(h)!find_interface(eh.dst) \in DOMAIN ifs[h]
  <2>1. eh.dst \in Mac
    BY DEF Truthful, H1!Frame
  <2>2. MACHASH[eh.dst] \in Slots
    BY <2>1, NetworkAssumption
  <2>3. mactable[h][MACHASH[eh.dst]].ifp \in 0 .. Len(ifs[h])
    BY <2>2 DEF BridgeOK
  <2> QED
    BY <1>1, <1>4, <2>3 DEF At!find_interface, At!NULL
<1>5. <<>> \in Seq(Leaving(h, own))
  OBVIOUS
<1>6. ASSUME At(h)!find_interface(eh.dst) # 0
      PROVE  <<At(h)!ether_output(At(h)!find_interface(eh.dst), eh)>> \in Seq(Leaving(h, own))
  BY <1>2, <1>4, <1>6 DEF At!ether_output
<1> QED
  BY <1>3, <1>5, <1>6 DEF At!BridgeSends, At!NULL

\* The bridge learns the port a frame came in on.
LEMMA BridgeLearnsAt ==
  ASSUME NEW h \in Hosts, NEW own, Owners(own), CardsOK(h, own), BridgeOK(h),
         NEW ifp \in DOMAIN ifs[h], NEW eh \in Truthful(own),
         At(h)!Received(ifp, eh)
  PROVE  /\ ifs'[h] = ifs[h] /\ CardsOK(h, own)' /\ BridgeOK(h)'
         /\ rib'[h] = rib[h] /\ fib_n'[h] = fib_n[h] /\ fib'[h] = fib[h]
         /\ rx' \in H1!Event
<1>1. /\ rx' = [kind |-> "frame", ifp |-> ifp, eh |-> eh]
      /\ ifs[h]' = ifs[h] /\ flags[h]' = flags[h]
      /\ rib[h]' = rib[h] /\ fib_n[h]' = fib_n[h] /\ fib[h]' = fib[h]
  BY DEF At!Received, At!Tables
<1>2. Len(ifs[h]) \in Nat /\ ifp \in 1 .. Len(ifs[h]) /\ DOMAIN ifs[h] = 1 .. Len(ifs[h])
  BY InterfaceAt DEF CardsOK
<1>3. eh \in H1!Frame /\ eh.src \in Mac
  BY DEF Truthful, H1!Frame
<1>4. mactable[h]' \in [Slots -> [addr : Mac, ifp : 0 .. Len(ifs[h])]]
  <2>1. MACHASH[eh.src] \in Slots
    BY <1>3, NetworkAssumption
  <2>2. mactable[h]' = mactable[h]
          \/ mactable[h]' = [mactable[h] EXCEPT ![MACHASH[eh.src]] =
                               [addr |-> eh.src, ifp |-> ifp]]
    BY DEF At!Received, At!bridge_input, At!add2mactable
  <2>3. [addr |-> eh.src, ifp |-> ifp] \in [addr : Mac, ifp : 0 .. Len(ifs[h])]
    BY <1>2, <1>3
  <2> QED
    BY <2>1, <2>2, <2>3 DEF BridgeOK
<1>5. rx' \in H1!Event
  BY <1>1, <1>2, <1>3 DEF H1!Event, H1!NULL
<1> QED
  BY <1>1, <1>4, <1>5 DEF CardsOK, BridgeOK

\* ARP: what is learnt is what a truthful frame says, and the answer is true.
LEMMA LearnsAt ==
  ASSUME NEW h \in Hosts, NEW own, Owners(own), ArpOK(h, own),
         NEW eh \in Truthful(own), eh.type = "ARP"
  PROVE  LET table == At(h)!add2arptable(eh.pl.spa, eh.pl.sha)
         IN  /\ table \in [Slots -> [ip_addr : Addr, macaddr : Mac]]
             /\ \A s \in Slots : Known(table[s], own)
<1> DEFINE s0 == IPHASH[eh.pl.spa]
           e == [ip_addr |-> eh.pl.spa, macaddr |-> eh.pl.sha]
<1>1. eh.pl \in H1!ArpPacket /\ eh.pl.sha \in own[eh.pl.spa]
  BY DEF Truthful, H1!Frame
<1>2. eh.pl.spa \in Addr /\ eh.pl.sha \in Mac
  BY <1>1 DEF H1!ArpPacket, Addr
<1>3. s0 \in Slots /\ e \in [ip_addr : Addr, macaddr : Mac] /\ Known(e, own)
  BY <1>1, <1>2, NetworkAssumption DEF Addr, Known
<1>4. At(h)!add2arptable(eh.pl.spa, eh.pl.sha) = [arptable[h] EXCEPT ![s0] = e]
  BY DEF At!add2arptable
<1> HIDE DEF s0, e
<1>5. [arptable[h] EXCEPT ![s0] = e] \in [Slots -> [ip_addr : Addr, macaddr : Mac]]
  BY <1>3 DEF ArpOK
<1>6. ASSUME NEW s \in Slots
      PROVE  Known([arptable[h] EXCEPT ![s0] = e][s], own)
  <2>1. [arptable[h] EXCEPT ![s0] = e][s] = IF s = s0 THEN e ELSE arptable[h][s]
    BY <1>3 DEF ArpOK
  <2> QED
    BY <1>3, <2>1 DEF ArpOK
<1> QED
  BY <1>4, <1>5, <1>6

\* A request is answered with the address of the interface it came in on.
LEMMA AnswersAt ==
  ASSUME NEW h \in Hosts, NEW own, Owners(own), CardsOK(h, own),
         NEW ifp \in DOMAIN ifs[h], NEW eh \in Truthful(own), eh.type = "ARP"
  PROVE  \E tx \in Leaving(h, own) :
           tx.eh.type = "ARP" /\ At(h)!ArpAnswer(ifp, eh.pl) \in {<<>>, <<tx>>}
<1>1. eh.pl \in H1!ArpPacket
  BY DEF Truthful, H1!Frame
<1>2. eh.pl.spa \in Addr /\ eh.pl.sha \in Mac
  BY <1>1 DEF H1!ArpPacket, Addr
<1> DEFINE tx == [ifp |-> ifp, eh |-> [dst |-> eh.pl.sha, src |-> ifs[h][ifp].mac,
                    type |-> "ARP",
                    pl |-> [op |-> "reply", sha |-> ifs[h][ifp].mac,
                            spa |-> ifs[h][ifp].addr, tpa |-> eh.pl.spa]]]
<1>3. tx \in Leaving(h, own)
  BY <1>2, OwnArpAt
<1>4. At(h)!ArpAnswer(ifp, eh.pl) = IF eh.pl.tpa # ifs[h][ifp].addr THEN <<>> ELSE <<tx>>
  BY DEF At!ArpAnswer, At!ether_output, At!ArpFrame
<1>5. tx.eh.type = "ARP"
  OBVIOUS
<1> HIDE DEF tx
<1> QED
  BY <1>3, <1>4, <1>5

\* The MAC address of a next hop is a station's.
LEMMA NextHopAt ==
  ASSUME NEW own, Owners(own),
         NEW table \in [Slots -> [ip_addr : Addr, macaddr : Mac]],
         \A s \in Slots : Known(table[s], own), NEW a \in Addr
  PROVE  table[IPHASH[a]].macaddr \in Mac /\ table[IPHASH[a]].macaddr # BROADCAST
<1>1. IPHASH[a] \in Slots
  BY NetworkAssumption DEF Addr
<1>2. table[IPHASH[a]] \in [ip_addr : Addr, macaddr : Mac] /\ Known(table[IPHASH[a]], own)
  BY <1>1
<1> QED
  BY <1>2, NetworkAssumption DEF Known, Owners

\* A packet that has been routed, hop, has left or waits; or it was for this host
\* or for nobody.
Handled(h, own, pkt, hop, r) ==
  \/ r.queue = <<>> /\ r.sent = <<>> /\ r.up \in {<<>>, <<pkt>>}
  \/ \E tx \in Leaving(h, own) :
       /\ r.queue = <<>> /\ r.sent = <<tx>> /\ r.up = <<>>
       /\ tx.eh.type = "IP" /\ tx.eh.pl = hop
  \/ \E tx \in Leaving(h, own), e \in H1!SendBuf :
       /\ r.queue = <<e>> /\ r.sent = <<tx>> /\ r.up = <<>>
       /\ tx.eh.type = "ARP" /\ e.pkt = hop

\* A packet one hop older, with a TTL above 0.
Older(pkt) == [pkt EXCEPT !.ttl = @ - 1]

\* A routed packet leaves or waits one hop older, or is dropped.
LEMMA RoutedAt ==
  ASSUME NEW h \in Hosts, NEW own, Owners(own), CardsOK(h, own), ArpOK(h, own),
         NEW entry \in [ifp : DOMAIN ifs[h], addr : Addr],
         NEW pkt \in H1!IpPacket, pkt.ttl > 0
  PROVE  Handled(h, own, pkt, Older(pkt), At(h)!Route(entry, pkt))
<1> DEFINE nextip == IF entry.addr = INADDR_ANY THEN pkt.dst ELSE entry.addr
           hop == [pkt EXCEPT !.ttl = (@ + 255) % 256]
           mac == ifs[h][entry.ifp].mac
           e == [nextip |-> nextip, shost |-> mac, pkt |-> hop]
           dst == arptable[h][IPHASH[nextip]].macaddr
           tx == [ifp |-> entry.ifp, eh |-> [dst |-> dst, src |-> mac,
                    type |-> "IP", pl |-> hop]]
           req == [ifp |-> entry.ifp, eh |-> [dst |-> BROADCAST, src |-> mac,
                    type |-> "ARP",
                    pl |-> [op |-> "request", sha |-> mac,
                            spa |-> ifs[h][entry.ifp].addr, tpa |-> nextip]]]
<1>1. nextip \in Addr /\ mac \in Mac /\ entry.ifp \in DOMAIN ifs[h]
  BY InterfaceAt DEF H1!IpPacket, Addr
<1>2. hop = Older(pkt) /\ hop \in H1!IpPacket
  <2>1. pkt.ttl \in 1 .. 255
    BY DEF H1!IpPacket
  <2>2. (pkt.ttl + 255) % 256 = pkt.ttl - 1
    BY <2>1
  <2>3. pkt.ttl - 1 \in 0 .. 255
    BY <2>1
  <2> QED
    BY <2>2, <2>3 DEF H1!IpPacket, Older
<1>3. dst \in Mac /\ dst # BROADCAST
  <2> HIDE DEF nextip
  <2> QED
    BY <1>1, NextHopAt DEF ArpOK
<1>4. req \in Leaving(h, own)
  <2> HIDE DEF nextip
  <2> QED
    BY <1>1, OwnArpAt, NetworkAssumption
<1>5. tx \in Leaving(h, own)
  <2> HIDE DEF hop, dst, mac
  <2>1. [dst |-> dst, src |-> mac, type |-> "IP", pl |-> hop] \in Truthful(own)
    BY <1>1, <1>2, <1>3, FramesAt
  <2> QED
    BY <1>1, <2>1 DEF Leaving
<1>6. e \in H1!SendBuf
  <2> HIDE DEF hop, nextip, mac
  <2> QED
    BY <1>1, <1>2 DEF H1!SendBuf, Addr
<1>7. At(h)!Route(entry, pkt) =
        IF arptable[h][IPHASH[nextip]].ip_addr = nextip
        THEN [queue |-> <<>>, sent |-> <<tx>>, up |-> <<>>]
        ELSE [queue |-> <<e>>, sent |-> <<req>>, up |-> <<>>]
  <2>1. At(h)!INADDR_ANY = INADDR_ANY
    BY DEF At!INADDR_ANY, INADDR_ANY, H1!INADDR_ANY
  <2>2. [At(h)!Drop EXCEPT !.sent = <<tx>>] = [queue |-> <<>>, sent |-> <<tx>>, up |-> <<>>]
    BY DEF At!Drop
  <2>3. At(h)!Await(entry.ifp, nextip, hop) = [queue |-> <<e>>, sent |-> <<req>>, up |-> <<>>]
    <3>1. At(h)!arp_req(entry.ifp, nextip) = req
      BY DEF At!arp_req, At!ether_output, At!ArpFrame
    <3>2. At(h)!Await(entry.ifp, nextip, hop) =
            [At(h)!Drop EXCEPT !.sent = <<req>>, !.queue = <<e>>]
      <4> HIDE DEF req, nextip, hop
      <4> QED
        BY <3>1 DEF At!Await
    <3>3. ASSUME NEW a, NEW b, NEW r,
                 r = [At(h)!Drop EXCEPT !.sent = <<a>>, !.queue = <<b>>]
          PROVE  r = [queue |-> <<b>>, sent |-> <<a>>, up |-> <<>>]
      BY <3>3 DEF At!Drop
    <3> HIDE DEF req, e, nextip, hop
    <3> QED
      BY <3>2, <3>3
  <2>4. At(h)!Route(entry, pkt) = IF At(h)!Found(arptable[h], nextip)
                                  THEN [At(h)!Drop EXCEPT !.sent = <<tx>>]
                                  ELSE At(h)!Await(entry.ifp, nextip, hop)
    BY <2>1 DEF At!Route, At!MacFor, At!ether_output, At!IpFrame
  <2> QED
    BY <2>2, <2>3, <2>4 DEF At!Found
<1>8. tx.eh.type = "IP" /\ tx.eh.pl = hop /\ req.eh.type = "ARP" /\ e.pkt = hop
  OBVIOUS
<1> HIDE DEF tx, req, e, hop, nextip
<1> QED
  BY <1>2, <1>4, <1>5, <1>6, <1>7, <1>8 DEF Handled

\* A packet that is routed to this host's own interface, to nobody, or onward.
LEMMA ForwardedAt ==
  ASSUME NEW h \in Hosts, NEW own, Owners(own), HostOK(h, own),
         NEW pkt \in H1!IpPacket, pkt.ttl > 0
  PROVE  Handled(h, own, pkt, Older(pkt), At(h)!ipv4_forward(pkt))
<1> DEFINE R == At(h)!route_lookup(pkt.dst)
           entry == CHOOSE e \in R : TRUE
<1>1. R \subseteq [ifp : DOMAIN ifs[h], addr : Addr]
  BY DEF At!route_lookup, At!Longest, HostOK, RoutesOK
<1>2. /\ Handled(h, own, pkt, Older(pkt), At(h)!Drop)
      /\ Handled(h, own, pkt, Older(pkt), At(h)!Deliver(pkt))
  <2>1. /\ At(h)!Drop = [queue |-> <<>>, sent |-> <<>>, up |-> <<>>]
        /\ [At(h)!Drop EXCEPT !.up = <<pkt>>] =
             [queue |-> <<>>, sent |-> <<>>, up |-> <<pkt>>]
    BY DEF At!Drop
  <2> QED
    BY <2>1 DEF Handled, At!Deliver
<1>3. CASE R = {}
  BY <1>2, <1>3 DEF At!ipv4_forward
<1>4. CASE R # {}
  <2>1. entry \in [ifp : DOMAIN ifs[h], addr : Addr]
    BY <1>1, <1>4
  <2>2. Handled(h, own, pkt, Older(pkt), At(h)!Route(entry, pkt))
    <3> HIDE DEF entry
    <3> QED
      BY <2>1, RoutedAt DEF HostOK
  <2>3. At(h)!ipv4_forward(pkt) \in {At(h)!Deliver(pkt), At(h)!Route(entry, pkt)}
    BY <1>4 DEF At!ipv4_forward
  <2> HIDE DEF entry
  <2> QED
    BY <1>2, <2>2, <2>3
<1> QED
  BY <1>3, <1>4

\* The paths from the wire and from tcp.c.
LEMMA PathsHandle ==
  ASSUME NEW h \in Hosts, NEW own, Owners(own), HostOK(h, own),
         NEW pkt \in H1!IpPacket
  PROVE  /\ Handled(h, own, pkt, Older(pkt), At(h)!ipv4_input(pkt))
         /\ pkt.ttl <= 1 => At(h)!ipv4_input(pkt).sent = <<>>
                            /\ At(h)!ipv4_input(pkt).queue = <<>>
         /\ Handled(h, own, [pkt EXCEPT !.ttl = 32], [pkt EXCEPT !.ttl = 31],
                    At(h)!ipv4_output(pkt))
<1>1. /\ At(h)!Drop = [queue |-> <<>>, sent |-> <<>>, up |-> <<>>]
      /\ [At(h)!Drop EXCEPT !.up = <<pkt>>] =
           [queue |-> <<>>, sent |-> <<>>, up |-> <<pkt>>]
  BY DEF At!Drop
<1>2. /\ At(h)!Deliver(pkt).sent = <<>> /\ At(h)!Deliver(pkt).queue = <<>>
      /\ At(h)!Drop.sent = <<>> /\ At(h)!Drop.queue = <<>>
      /\ At(h)!Deliver(pkt).up \in {<<>>, <<pkt>>} /\ At(h)!Drop.up = <<>>
  BY <1>1 DEF At!Deliver
<1>3. \/ At(h)!ipv4_input(pkt) \in {At(h)!Deliver(pkt), At(h)!Drop}
      \/ pkt.ttl > 1 /\ At(h)!ipv4_input(pkt) = At(h)!ipv4_forward(pkt)
  BY DEF At!ipv4_input
<1>4. pkt.ttl \in Nat
  BY DEF H1!IpPacket
<1>5. pkt.ttl > 1 => Handled(h, own, pkt, Older(pkt), At(h)!ipv4_forward(pkt))
  BY <1>4, ForwardedAt
<1>6. Handled(h, own, pkt, Older(pkt), At(h)!ipv4_input(pkt))
  BY <1>2, <1>3, <1>5 DEF Handled
<1>7. pkt.ttl <= 1 => At(h)!ipv4_input(pkt).sent = <<>>
                      /\ At(h)!ipv4_input(pkt).queue = <<>>
  BY <1>2, <1>3, <1>4
<1>8. Handled(h, own, [pkt EXCEPT !.ttl = 32], [pkt EXCEPT !.ttl = 31],
              At(h)!ipv4_output(pkt))
  <2> DEFINE first == [pkt EXCEPT !.ttl = 32]
  <2>1. first \in H1!IpPacket /\ first.ttl = 32
    BY DEF H1!IpPacket
  <2>2. Older(first) = [pkt EXCEPT !.ttl = 31]
    <3> DEFINE second == [pkt EXCEPT !.ttl = 31]
               hop(n) == [src |-> pkt.src, dst |-> pkt.dst, ttl |-> n, proto |-> pkt.proto]
    <3>1. first = hop(32) /\ second = hop(31)
      BY DEF H1!IpPacket
    <3>2. [hop(32) EXCEPT !.ttl = @ - 1] = hop(31)
      OBVIOUS
    <3> HIDE DEF first, second, hop
    <3> QED
      BY <3>1, <3>2 DEF Older, second
  <2>3. At(h)!ipv4_output(pkt) = At(h)!ipv4_forward(first)
    BY DEF At!ipv4_output
  <2> HIDE DEF first
  <2>4. Handled(h, own, first, Older(first), At(h)!ipv4_forward(first))
    BY <2>1, ForwardedAt
  <2> QED
    BY <2>2, <2>3, <2>4 DEF first
<1> QED
  BY <1>6, <1>7, <1>8

\* Adding a route keeps the routing table well formed.
LEMMA RouteAddKeeps ==
  ASSUME NEW h \in Hosts, RoutesOK(h),
         \A i \in DOMAIN ifs[h] : i \in DOMAIN ifs'[h],
         NEW ifp \in DOMAIN ifs'[h], ifp \in Nat \ {0},
         NEW next \in Addr, NEW p \in H1!Prefix, At(h)!route_add(ifp, next, p)
  PROVE  RoutesOK(h)'
<1>1. /\ rib[h]' = IF fib_n[h] < FibSize /\ p \notin DOMAIN rib[h]
                   THEN [q \in DOMAIN rib[h] \cup {p} |->
                           IF q = p THEN [ifp |-> ifp, addr |-> next] ELSE rib[h][q]]
                   ELSE rib[h]
      /\ fib_n[h]' = IF fib_n[h] < FibSize THEN fib_n[h] + 1 ELSE fib_n[h]
      /\ fib[h]' = <<[ifp |-> ifp, nextip |-> next, dst |-> p]>> \o fib[h]
  BY DEF At!route_add
<1>2. DOMAIN rib[h]' \subseteq H1!Prefix
  BY <1>1 DEF RoutesOK
<1>3. \A q \in DOMAIN rib[h]' : rib[h]'[q] \in [ifp : DOMAIN ifs[h]', addr : Addr]
  BY <1>1 DEF RoutesOK
<1>4. fib_n[h]' \in 1 .. FibSize
  BY <1>1, NetworkAssumption DEF RoutesOK
<1>5. fib[h]' \in Seq(H1!FibEntry)
  <2>1. [ifp |-> ifp, nextip |-> next, dst |-> p] \in H1!FibEntry
    BY DEF H1!FibEntry, H1!NULL, Addr
  <2> QED
    BY <1>1, <2>1 DEF RoutesOK
<1> QED
  BY <1>2, <1>3, <1>4, <1>5 DEF RoutesOK

-----------------------------------------------------------------------------
\* The sums of the first terms are those of a recursion.
SumsOf(u, f, n) ==
  /\ u[0] = 0 /\ u[n] = Sum(f, n)
  /\ \A k \in 0 .. n : u[k] \in Nat
  /\ \A k \in 1 .. n : u[k] = u[k - 1] + f[k]

\* The recursion has a solution.
LEMMA SumTurns ==
  ASSUME NEW n \in Nat, NEW f, \A k \in 1 .. n : f[k] \in Nat
  PROVE  \E u : SumsOf(u, f, n)
<1> DEFINE g == [x \in Nat \X (1 .. n) |-> x[1] + f[x[2]]]
           Eqn(u) == u = [k \in 0 .. n |-> IF k = 0 THEN 0 ELSE u[k - 1] + f[k]]
           U == CHOOSE u : Eqn(u)
<1>1. g \in [Nat \X (1 .. n) -> Nat]
  OBVIOUS
<1>2. PICK u \in [0 .. n -> Nat] : Solves(u, n, 0, g)
  <2> HIDE DEF g
  <2> QED
    BY <1>1, IntervalRecursion
<1>3. ASSUME NEW k \in 0 .. n, k # 0
      PROVE  g[<<u[k - 1], k>>] = u[k - 1] + f[k]
  <2>1. k \in 1 .. n /\ u[k - 1] \in Nat
    BY <1>3
  <2> QED
    BY <2>1
<1>4. Eqn(u)
  <2> HIDE DEF g
  <2> QED
    BY <1>2, <1>3 DEF Solves
<1>5. Eqn(U)
  <2> HIDE DEF Eqn
  <2> QED
    BY <1>4
<1>6. Sum(f, n) = U[n]
  BY DEF Sum
<1>7. U[0] = 0 /\ \A k \in 1 .. n : U[k] = U[k - 1] + f[k]
  <2> HIDE DEF U
  <2> QED
    BY <1>5
<1> HIDE DEF U
<1>8. ASSUME NEW k \in 0 .. n
      PROVE  U[k] \in Nat
  <2>1. ASSUME NEW m \in 1 .. k, U[m - 1] \in Nat
        PROVE  U[m] \in Nat
    <3>1. m \in 1 .. n /\ f[m] \in Nat
      OBVIOUS
    <3> QED
      BY <1>7, <2>1, <3>1
  <2>2. k \in Nat /\ U[0] \in Nat
    BY <1>7
  <2> QED
    BY <2>1, <2>2, IntervalInduction
<1> QED
  BY <1>6, <1>7, <1>8 DEF SumsOf

\* A sum of natural numbers is one.
LEMMA SumType ==
  ASSUME NEW n \in Nat, NEW f, \A k \in 1 .. n : f[k] \in Nat
  PROVE  Sum(f, n) \in Nat
<1>1. PICK u : SumsOf(u, f, n)
  BY SumTurns
<1> QED
  BY <1>1 DEF SumsOf

\* Sums of the same terms are the same.
LEMMA SumAgree ==
  ASSUME NEW n \in Nat, NEW f, NEW g,
         \A k \in 1 .. n : f[k] \in Nat /\ g[k] = f[k]
  PROVE  Sum(g, n) = Sum(f, n)
<1>1. PICK u : SumsOf(u, f, n)
  BY SumTurns
<1>2. PICK w : SumsOf(w, g, n)
  BY SumTurns
<1> DEFINE same == [k \in 0 .. n |-> IF w[k] = u[k] THEN 1 ELSE 0]
           R == {1}
<1>3. same[0] \in R
  BY <1>1, <1>2 DEF SumsOf
<1>4. \A k \in 1 .. n : same[k - 1] \in R => same[k] \in R
  BY <1>1, <1>2 DEF SumsOf
<1>5. same[n] \in R
  <2> HIDE DEF same, R
  <2> QED
    BY <1>3, <1>4, IntervalInduction
<1> QED
  BY <1>1, <1>2, <1>5 DEF SumsOf

\* A sum ends with its last term.
LEMMA SumLast ==
  ASSUME NEW n \in Nat, NEW f, \A k \in 1 .. n : f[k] \in Nat
  PROVE  /\ Sum(f, 0) = 0
         /\ n # 0 => Sum(f, n) = Sum(f, n - 1) + f[n]
<1>1. Sum(f, 0) = 0
  <2>1. PICK u : SumsOf(u, f, 0)
    BY SumTurns
  <2> QED
    BY <2>1 DEF SumsOf
<1>2. ASSUME n # 0
      PROVE  Sum(f, n) = Sum(f, n - 1) + f[n]
  <2>1. PICK u : SumsOf(u, f, n)
    BY SumTurns
  <2>2. n - 1 \in Nat /\ \A k \in 1 .. n - 1 : f[k] \in Nat
    BY <1>2
  <2>3. PICK w : SumsOf(w, f, n - 1)
    BY <2>2, SumTurns
  <2> DEFINE same == [k \in 0 .. n - 1 |-> IF w[k] = u[k] THEN 1 ELSE 0]
             R == {1}
  <2>4. same[0] \in R
    BY <2>1, <2>2, <2>3 DEF SumsOf
  <2>5. \A k \in 1 .. n - 1 : same[k - 1] \in R => same[k] \in R
    BY <2>1, <2>2, <2>3 DEF SumsOf
  <2>6. same[n - 1] \in R
    <3> HIDE DEF same, R
    <3> QED
      BY <2>2, <2>4, <2>5, IntervalInduction
  <2>7. w[n - 1] = u[n - 1]
    BY <2>2, <2>6
  <2> QED
    BY <1>2, <2>1, <2>3, <2>7 DEF SumsOf
<1> QED
  BY <1>1, <1>2

\* A sum in two parts.
LEMMA SumParts ==
  ASSUME NEW m \in Nat, NEW n \in Nat, NEW N, N = m + n, NEW f, NEW g, NEW e,
         \A k \in 1 .. N : f[k] \in Nat,
         \A k \in 1 .. m : e[k] = f[k],
         \A k \in 1 .. n : g[k] = f[m + k]
  PROVE  Sum(f, N) = Sum(e, m) + Sum(g, n)
<1> DEFINE same == [k \in 0 .. n |-> IF Sum(f, m + k) = Sum(e, m) + Sum(g, k) THEN 1 ELSE 0]
           R == {1}
<1>1. Sum(e, m) = Sum(f, m) /\ Sum(f, m) \in Nat
  <2>1. \A k \in 1 .. m : f[k] \in Nat /\ e[k] = f[k]
    OBVIOUS
  <2> QED
    BY <2>1, SumAgree, SumType
<1>2. same[0] \in R
  <2>1. Sum(g, 0) = 0
    BY SumLast
  <2> QED
    BY <1>1, <2>1
<1>3. ASSUME NEW k \in 1 .. n, same[k - 1] \in R
      PROVE  same[k] \in R
  <2>1. Sum(f, m + k) = Sum(f, m + k - 1) + f[m + k]
    <3>1. m + k \in Nat /\ m + k # 0 /\ \A i \in 1 .. m + k : f[i] \in Nat
      OBVIOUS
    <3> QED
      BY <3>1, SumLast
  <2>2. Sum(g, k) = Sum(g, k - 1) + g[k] /\ Sum(g, k - 1) \in Nat
    <3>1. k \in Nat /\ k # 0 /\ \A i \in 1 .. k : g[i] \in Nat
      OBVIOUS
    <3>2. k - 1 \in Nat /\ \A i \in 1 .. k - 1 : g[i] \in Nat
      BY <3>1
    <3> QED
      BY <3>1, <3>2, SumLast, SumType
  <2>3. Sum(f, m + (k - 1)) = Sum(e, m) + Sum(g, k - 1)
    BY <1>3
  <2>4. f[m + k] = g[k] /\ f[m + k] \in Nat
    OBVIOUS
  <2>5. m + (k - 1) = m + k - 1
    OBVIOUS
  <2> QED
    BY <1>1, <2>1, <2>2, <2>3, <2>4, <2>5
<1>4. same[n] \in R
  <2> HIDE DEF same, R
  <2> QED
    BY <1>2, <1>3, IntervalInduction
<1> QED
  BY <1>4

\* One term changes, and the sum with it.
Exchanged(f, g, j, n) == Sum(g, n) + f[j] = Sum(f, n) + g[j]

\* Only that term counts in the difference of the sums.
LEMMA SumChange ==
  ASSUME NEW n \in Nat, NEW f, NEW g, NEW j \in 1 .. n,
         \A k \in 1 .. n : f[k] \in Nat /\ g[k] \in Nat,
         \A k \in 1 .. n : k # j => g[k] = f[k]
  PROVE  Exchanged(f, g, j, n)
<1>1. \A k \in 1 .. j - 1 : f[k] \in Nat /\ g[k] = f[k]
  OBVIOUS
<1>2. Sum(g, j - 1) = Sum(f, j - 1) /\ Sum(f, j - 1) \in Nat
  <2>1. j - 1 \in Nat
    OBVIOUS
  <2> QED
    BY <1>1, <2>1, SumAgree, SumType
<1>3. /\ Sum(f, j) = Sum(f, j - 1) + f[j]
      /\ Sum(g, j) = Sum(g, j - 1) + g[j]
  <2>1. j \in Nat /\ j # 0 /\ \A k \in 1 .. j : f[k] \in Nat /\ g[k] \in Nat
    OBVIOUS
  <2> QED
    BY <2>1, SumLast
<1> DEFINE rest == [k \in 1 .. n - j |-> f[j + k]]
<1>4. /\ Sum(f, n) = Sum(f, j) + Sum(rest, n - j)
      /\ Sum(g, n) = Sum(g, j) + Sum(rest, n - j)
  <2>1. j \in Nat /\ n - j \in Nat /\ n = j + (n - j)
    OBVIOUS
  <2>2. \A k \in 1 .. n - j : rest[k] = f[j + k] /\ rest[k] = g[j + k]
    OBVIOUS
  <2> HIDE DEF rest
  <2> QED
    BY <2>1, <2>2, SumParts
<1>5. Sum(rest, n - j) \in Nat
  <2>1. n - j \in Nat /\ \A k \in 1 .. n - j : rest[k] \in Nat
    OBVIOUS
  <2> HIDE DEF rest
  <2> QED
    BY <2>1, SumType
<1> HIDE DEF rest
<1> QED
  BY <1>2, <1>3, <1>4, <1>5 DEF Exchanged

\* The sum of the weights g of what a sequence holds.
Total(s, g) == Sum([i \in DOMAIN s |-> g[s[i]]], Len(s))

\* What a sequence weighs is a natural number.
LEMMA TotalType ==
  ASSUME NEW B, NEW s \in Seq(B), NEW g \in [B -> Nat]
  PROVE  Total(s, g) \in Nat
<1> DEFINE f == [i \in DOMAIN s |-> g[s[i]]]
<1>1. Len(s) \in Nat /\ \A i \in 1 .. Len(s) : f[i] \in Nat
  OBVIOUS
<1> HIDE DEF f
<1>2. Sum(f, Len(s)) \in Nat
  BY <1>1, SumType
<1> QED
  BY <1>2 DEF Total, f

\* Two sequences together weigh what each of them does.
LEMMA TotalConcat ==
  ASSUME NEW B, NEW s \in Seq(B), NEW t \in Seq(B), NEW g \in [B -> Nat]
  PROVE  Total(s \o t, g) = Total(s, g) + Total(t, g)
<1> DEFINE f == [i \in DOMAIN (s \o t) |-> g[(s \o t)[i]]]
           e == [i \in DOMAIN s |-> g[s[i]]]
           d == [i \in DOMAIN t |-> g[t[i]]]
           m == Len(s)
           n == Len(t)
           N == Len(s \o t)
<1>1. /\ m \in Nat /\ n \in Nat /\ N = m + n /\ DOMAIN (s \o t) = 1 .. N
      /\ s \o t \in Seq(B)
  OBVIOUS
<1>2. \A i \in 1 .. N : f[i] \in Nat
  BY <1>1
<1>3. \A i \in 1 .. m : e[i] = f[i]
  BY <1>1
<1>4. \A i \in 1 .. n : d[i] = f[m + i]
  BY <1>1
<1>5. /\ Total(s \o t, g) = Sum(f, N)
      /\ Total(s, g) = Sum(e, m) /\ Total(t, g) = Sum(d, n)
  BY <1>1 DEF Total
<1> HIDE DEF f, e, d, m, n, N
<1>6. Sum(f, N) = Sum(e, m) + Sum(d, n)
  <2>1. /\ m \in Nat /\ n \in Nat /\ N = m + n
        /\ \A k \in 1 .. N : f[k] \in Nat
        /\ \A k \in 1 .. m : e[k] = f[k]
        /\ \A k \in 1 .. n : d[k] = f[m + k]
    BY <1>1, <1>2, <1>3, <1>4
  <2> QED
    BY <2>1, SumParts, SMTT(60)
<1> QED
  BY <1>5, <1>6

\* The empty sequence weighs nothing, whatever the weights are.
LEMMA TotalNone ==
  ASSUME NEW g
  PROVE  Total(<<>>, g) = 0
<1> DEFINE e == [i \in DOMAIN <<>> |-> g[<<>>[i]]]
<1>1. Sum(e, 0) = 0
  <2> HIDE DEF e
  <2> QED
    BY SumLast
<1>2. Len(<<>>) = 0
  OBVIOUS
<1>3. Total(<<>>, g) = Sum(e, 0)
  BY <1>2 DEF Total
<1> QED
  BY <1>1, <1>3

\* Nor does it with typed weights, and one element weighs what it weighs.
LEMMA TotalFew ==
  ASSUME NEW B, NEW x \in B, NEW g \in [B -> Nat]
  PROVE  Total(<<>>, g) = 0 /\ Total(<<x>>, g) = g[x]
<1> DEFINE e == [i \in DOMAIN <<>> |-> g[<<>>[i]]]
           f == [i \in DOMAIN <<x>> |-> g[<<x>>[i]]]
<1>1. Sum(e, 0) = 0
  <2> HIDE DEF e
  <2> QED
    BY SumLast
<1>2. f[1] = g[x] /\ f[1] \in Nat
  OBVIOUS
<1>3. Sum(f, 0) = 0 /\ Sum(f, 1) = Sum(f, 1 - 1) + f[1]
  <2> HIDE DEF f
  <2>1. \A k \in 1 .. 0 : f[k] \in Nat
    OBVIOUS
  <2>2. \A k \in 1 .. 1 : f[k] \in Nat
    BY <1>2
  <2> QED
    BY <2>1, <2>2, SumLast
<1>4. Len(<<>>) = 0 /\ Len(<<x>>) = 1
  OBVIOUS
<1>5. Total(<<>>, g) = Sum(e, 0) /\ Total(<<x>>, g) = Sum(f, 1)
  BY <1>4 DEF Total
<1> HIDE DEF e, f
<1> QED
  BY <1>1, <1>2, <1>3, <1>5

\* An element is added at the end.
LEMMA TotalAppend ==
  ASSUME NEW B, NEW s \in Seq(B), NEW x \in B, NEW g \in [B -> Nat]
  PROVE  Total(Append(s, x), g) = Total(s, g) + g[x]
<1> DEFINE t == <<x>>
<1>1. t \in Seq(B) /\ Append(s, x) = s \o t
  OBVIOUS
<1>2. Total(t, g) = g[x]
  BY TotalFew
<1> HIDE DEF t
<1>3. Total(s \o t, g) = Total(s, g) + Total(t, g)
  BY <1>1, TotalConcat
<1> QED
  BY <1>1, <1>2, <1>3

\* An element is taken from the head.
LEMMA TotalHead ==
  ASSUME NEW B, NEW s \in Seq(B), s # <<>>, NEW g \in [B -> Nat]
  PROVE  /\ Head(s) \in B /\ Tail(s) \in Seq(B)
         /\ Total(s, g) = g[Head(s)] + Total(Tail(s), g)
<1> DEFINE t == <<Head(s)>>
           r == Tail(s)
<1>1. Head(s) \in B /\ r \in Seq(B) /\ t \in Seq(B)
  OBVIOUS
<1>2. s = t \o r
  OBVIOUS
<1>3. Total(t, g) = g[Head(s)]
  BY <1>1, TotalFew
<1>4. Total(t \o r, g) = Total(t, g) + Total(r, g)
  <2> HIDE DEF t, r
  <2> QED
    BY <1>1, TotalConcat
<1> QED
  BY <1>1, <1>2, <1>3, <1>4

\* Where all weights are 1, their sum is the number.
LEMMA TotalOnes ==
  ASSUME NEW B, NEW s \in Seq(B), NEW g \in [B -> Nat], \A x \in B : g[x] = 1
  PROVE  Total(s, g) = Len(s)
<1> DEFINE f == [i \in DOMAIN s |-> g[s[i]]]
           same == [k \in 0 .. Len(s) |-> IF Sum(f, k) = k THEN 1 ELSE 0]
           R == {1}
<1>1. Len(s) \in Nat /\ \A i \in 1 .. Len(s) : f[i] = 1
  OBVIOUS
<1> HIDE DEF f
<1>2. \A k \in 0 .. Len(s) : /\ Sum(f, 0) = 0
                             /\ k # 0 => Sum(f, k) = Sum(f, k - 1) + f[k]
  <2> SUFFICES ASSUME NEW k \in 0 .. Len(s)
               PROVE  /\ Sum(f, 0) = 0
                      /\ k # 0 => Sum(f, k) = Sum(f, k - 1) + f[k]
    OBVIOUS
  <2>1. k \in Nat /\ \A i \in 1 .. k : f[i] \in Nat
    BY <1>1
  <2> QED
    BY <2>1, SumLast
<1>3. same[0] \in R /\ \A k \in 1 .. Len(s) : same[k - 1] \in R => same[k] \in R
  <2>1. same[0] \in R
    BY <1>1, <1>2
  <2>2. ASSUME NEW k \in 1 .. Len(s), same[k - 1] \in R
        PROVE  same[k] \in R
    <3>1. Sum(f, k - 1) = k - 1 /\ f[k] = 1 /\ k \in 0 .. Len(s) /\ k # 0
      BY <1>1, <2>2
    <3>2. Sum(f, k) = k
      BY <1>2, <3>1
    <3> QED
      BY <3>1, <3>2
  <2> QED
    BY <2>1, <2>2
<1>4. same[Len(s)] \in R
  <2> HIDE DEF same, R
  <2> QED
    BY <1>1, <1>3, IntervalInduction
<1>5. Sum(f, Len(s)) = Len(s)
  BY <1>1, <1>4
<1> QED
  BY <1>5 DEF Total, f

-----------------------------------------------------------------------------
\* The walk over the send buffer.

\* One turn of the loop.
WalkTurn(q, ifp, table, b, n) ==
  IF table[IPHASH[q[n].nextip]].ip_addr = q[n].nextip
  THEN [b EXCEPT !.sent = Append(@, [ifp |-> ifp,
          eh |-> [dst |-> table[IPHASH[q[n].nextip]].macaddr,
                  src |-> q[n].shost, type |-> "IP", pl |-> q[n].pkt]])]
  ELSE [b EXCEPT !.kept = Append(@, q[n])]

\* The turns of the loop, one after the other.
Walked(w, h, q, ifp, table, S) ==
  /\ w[0] = [kept |-> <<>>, sent |-> <<>>]
  /\ \A n \in 0 .. Len(q) : w[n] \in [kept : Seq(H1!SendBuf), sent : Seq(S)]
  /\ \A n \in 1 .. Len(q) : w[n] = WalkTurn(q, ifp, table, w[n - 1], n)
  /\ w[Len(q)] = At(h)!WalkList(q, ifp, table)

\* The frames the loop may send.
Walkable(q, ifp, table, S) ==
  \A n \in 1 .. Len(q) :
    table[IPHASH[q[n].nextip]].ip_addr = q[n].nextip =>
      [ifp |-> ifp, eh |-> [dst |-> table[IPHASH[q[n].nextip]].macaddr,
         src |-> q[n].shost, type |-> "IP", pl |-> q[n].pkt]] \in S

\* The loop over the send buffer has its turns: what is kept stays in the
\* buffer and what is sent is a frame.
LEMMA WalkTurnsAt ==
  ASSUME NEW h \in Hosts, NEW q \in Seq(H1!SendBuf), NEW ifp, NEW table, NEW S,
         Walkable(q, ifp, table, S)
  PROVE  \E w : Walked(w, h, q, ifp, table, S)
<1> DEFINE N == Len(q)
           R == [kept : Seq(H1!SendBuf), sent : Seq(S)]
           z == [kept |-> <<>>, sent |-> <<>>]
           Step(b, n) == WalkTurn(q, ifp, table, b, n)
           Eqn(w) == w = [n \in 0 .. N |->
                            IF n = 0 THEN z ELSE Step(w[n - 1], n)]
           W == CHOOSE w : Eqn(w)
           g == [x \in R \X (1 .. N) |-> Step(x[1], x[2])]
<1>1. N \in Nat
  OBVIOUS
<1>2. z \in R
  OBVIOUS
<1>3. ASSUME NEW b \in R, NEW n \in 1 .. N
      PROVE  Step(b, n) \in R
  <2> DEFINE tx == [ifp |-> ifp, eh |-> [dst |-> table[IPHASH[q[n].nextip]].macaddr,
                      src |-> q[n].shost, type |-> "IP", pl |-> q[n].pkt]]
             known == table[IPHASH[q[n].nextip]].ip_addr = q[n].nextip
  <2>1. CASE known
    <3>1. tx \in S
      BY <2>1 DEF Walkable
    <3>2. Step(b, n) = [kept |-> b.kept, sent |-> Append(b.sent, tx)]
      BY <2>1 DEF WalkTurn
    <3> HIDE DEF tx
    <3>3. b.kept \in Seq(H1!SendBuf) /\ Append(b.sent, tx) \in Seq(S)
      BY <3>1
    <3> QED
      BY <3>2, <3>3
  <2>2. CASE ~ known
    <3>1. b.sent \in Seq(S) /\ Append(b.kept, q[n]) \in Seq(H1!SendBuf)
      OBVIOUS
    <3>2. Step(b, n) = [kept |-> Append(b.kept, q[n]), sent |-> b.sent]
      BY <2>2 DEF WalkTurn
    <3> QED
      BY <3>1, <3>2
  <2> QED
    BY <2>1, <2>2
<1>4. At(h)!WalkList(q, ifp, table) = W[N]
  BY DEF At!WalkList, At!Found, At!MacFor, At!ether_output, At!IpFrame, WalkTurn
<1> HIDE DEF Step, z, R, N
<1>5. g \in [R \X (1 .. N) -> R]
  <2>1. ASSUME NEW x \in R \X (1 .. N)
        PROVE  Step(x[1], x[2]) \in R
    BY <1>3
  <2> QED
    BY <2>1
<1>6. \E w : Eqn(w)
  <2>1. PICK f \in [0 .. N -> R] : Solves(f, N, z, g)
    <3> HIDE DEF g
    <3> QED
      BY <1>1, <1>2, <1>5, IntervalRecursion
  <2>2. ASSUME NEW n \in 0 .. N, n # 0
        PROVE  g[<<f[n - 1], n>>] = Step(f[n - 1], n)
    <3>1. n \in 1 .. N /\ n - 1 \in 0 .. N
      BY <1>1, <2>2
    <3>2. <<f[n - 1], n>> \in R \X (1 .. N)
      BY <3>1
    <3> QED
      BY <3>2
  <2> HIDE DEF g
  <2>3. Eqn(f)
    BY <2>1, <2>2 DEF Solves
  <2> QED
    BY <2>3
<1>7. Eqn(W)
  <2> HIDE DEF Eqn
  <2> QED
    BY <1>6
<1>8. W[0] = z /\ \A n \in 1 .. N : W[n] = Step(W[n - 1], n)
  <2> HIDE DEF W
  <2> QED
    BY <1>1, <1>7
<1> HIDE DEF W
<1>9. ASSUME NEW n \in 0 .. N
      PROVE  W[n] \in R
  <2>1. \A m \in 1 .. n : W[m - 1] \in R => W[m] \in R
    BY <1>1, <1>3, <1>8
  <2> QED
    BY <1>1, <1>2, <1>8, <2>1, IntervalInduction
<1> QED
  BY <1>4, <1>8, <1>9 DEF Walked, R, N, z, Step

\* A packet weighs as much when it is sent, o, as it did in the buffer, g.
Matched(g, o, S) ==
  \A e \in H1!SendBuf, x \in S : x.eh.pl = e.pkt => o[x] = g[e]

\* The loop neither loses weight nor gains any.
WalkWeighed(walked, q, S, g, o) ==
  /\ walked.kept \in Seq(H1!SendBuf) /\ walked.sent \in Seq(S)
  /\ Total(walked.kept, g) + Total(walked.sent, o) = Total(q, g)

\* So it is for the walk of each host: a packet is kept or sent.
LEMMA WalkWeighs ==
  ASSUME NEW h \in Hosts, NEW q \in Seq(H1!SendBuf), NEW ifp, NEW table, NEW S,
         Walkable(q, ifp, table, S),
         NEW T, S \subseteq T,
         NEW g \in [H1!SendBuf -> Nat], NEW o \in [T -> Nat],
         Matched(g, o, S)
  PROVE  WalkWeighed(At(h)!WalkList(q, ifp, table), q, S, g, o)
<1>1. PICK w : Walked(w, h, q, ifp, table, S)
  BY WalkTurnsAt
<1> DEFINE f == [i \in DOMAIN q |-> g[q[i]]]
           weight(b) == Total(b.kept, g) + Total(b.sent, o)
           same == [n \in 0 .. Len(q) |-> IF weight(w[n]) = Sum(f, n) THEN 1 ELSE 0]
           One == {1}
<1>2. Len(q) \in Nat /\ \A i \in 1 .. Len(q) : q[i] \in H1!SendBuf /\ f[i] = g[q[i]] /\ f[i] \in Nat
  OBVIOUS
<1> HIDE DEF f
<1>3. same[0] \in One
  <2>1. Total(<<>>, g) = 0 /\ Total(<<>>, o) = 0 /\ Sum(f, 0) = 0
    <3>1. Sum(f, 0) = 0
      BY SumLast
    <3>2. Total(<<>>, g) = 0 /\ Total(<<>>, o) = 0
      BY TotalNone
    <3> QED
      BY <3>1, <3>2
  <2>2. w[0].kept = <<>> /\ w[0].sent = <<>>
    BY <1>1 DEF Walked
  <2> QED
    BY <1>2, <2>1, <2>2
<1>4. ASSUME NEW n \in 1 .. Len(q), same[n - 1] \in One
      PROVE  same[n] \in One
  <2>1. weight(w[n - 1]) = Sum(f, n - 1)
    BY <1>4
  <2>2. Sum(f, n) = Sum(f, n - 1) + f[n] /\ f[n] = g[q[n]]
    <3>1. n \in Nat /\ n # 0 /\ \A i \in 1 .. n : i \in 1 .. Len(q)
      BY <1>2
    <3>2. \A i \in 1 .. n : f[i] \in Nat
      BY <1>2, <3>1
    <3> QED
      BY <1>2, <3>1, <3>2, SumLast
  <2> DEFINE a == w[n - 1]
             b == w[n]
             e == q[n]
             tx == [ifp |-> ifp, eh |-> [dst |-> table[IPHASH[e.nextip]].macaddr,
                      src |-> e.shost, type |-> "IP", pl |-> e.pkt]]
  <2>3. a \in [kept : Seq(H1!SendBuf), sent : Seq(S)] /\ e \in H1!SendBuf
    BY <1>1, <1>2 DEF Walked
  <2>4. b = WalkTurn(q, ifp, table, a, n)
    BY <1>1 DEF Walked
  <2>5. a.kept \in Seq(H1!SendBuf) /\ a.sent \in Seq(T)
    <3>1. a.kept \in Seq(H1!SendBuf) /\ a.sent \in Seq(S)
      BY <2>3
    <3> HIDE DEF a
    <3> QED
      BY <3>1
  <2>6. Total(a.kept, g) \in Nat /\ Total(a.sent, o) \in Nat
    <3> HIDE DEF a
    <3> QED
      BY <2>5, TotalType
  <2>7. CASE table[IPHASH[e.nextip]].ip_addr = e.nextip
    <3>1. tx \in S /\ tx \in T
      BY <2>7 DEF Walkable
    <3>2. tx.eh.pl = e.pkt
      OBVIOUS
    <3>3. b.kept = a.kept /\ b.sent = Append(a.sent, tx)
      BY <2>3, <2>4, <2>7 DEF WalkTurn
    <3> HIDE DEF tx, a, e
    <3>4. o[tx] = g[e]
      BY <2>3, <3>1, <3>2 DEF Matched
    <3>5. Total(Append(a.sent, tx), o) = Total(a.sent, o) + o[tx]
      BY <2>5, <3>1, TotalAppend
    <3>6. weight(b) = weight(a) + g[e]
      BY <2>3, <2>6, <3>3, <3>4, <3>5
    <3> QED
      BY <2>1, <2>2, <3>6 DEF a, e
  <2>8. CASE table[IPHASH[e.nextip]].ip_addr # e.nextip
    <3>1. b.sent = a.sent /\ b.kept = Append(a.kept, e)
      BY <2>3, <2>4, <2>8 DEF WalkTurn
    <3> HIDE DEF a, e
    <3>2. Total(Append(a.kept, e), g) = Total(a.kept, g) + g[e]
      BY <2>3, <2>5, TotalAppend
    <3>3. weight(b) = weight(a) + g[e]
      BY <2>3, <2>6, <3>1, <3>2
    <3> QED
      BY <2>1, <2>2, <3>3 DEF a, e
  <2> QED
    BY <2>7, <2>8
<1>5. same[Len(q)] \in One
  <2> HIDE DEF same, One
  <2> QED
    BY <1>2, <1>3, <1>4, IntervalInduction
<1>6. weight(w[Len(q)]) = Sum(f, Len(q))
  BY <1>2, <1>5
<1>7. Sum(f, Len(q)) = Total(q, g)
  BY DEF Total, f
<1>8. w[Len(q)] \in [kept : Seq(H1!SendBuf), sent : Seq(S)]
      /\ w[Len(q)] = At(h)!WalkList(q, ifp, table)
  BY <1>1, <1>2 DEF Walked
<1> QED
  BY <1>6, <1>7, <1>8 DEF WalkWeighed

-----------------------------------------------------------------------------
\* Packets weighed.

\* A weight v for packets, such that a link uses up c of it, a hop no more than
\* the packet has, and u is left for the transport layer.
Weighing(v, c, u) ==
  /\ v \in [H1!IpPacket -> Nat] /\ c \in Nat /\ u \in Nat
  /\ \A p \in H1!IpPacket : u + c <= v[p]
  /\ \A p \in H1!IpPacket : p.ttl > 1 => v[Older(p)] + c <= v[p]

\* What a packet weighs in the send buffer, when it is sent, when it has
\* arrived, and on a link.
InBuffer(v) == [e \in H1!SendBuf |-> v[e.pkt]]
Sending(v) == [tx \in H1!Transmission |-> IF tx.eh.type = "IP" THEN v[tx.eh.pl] ELSE 0]
Upward(u) == [p \in H1!IpPacket |-> u]
OnLink(v, c) == [f \in H1!Frame |-> IF f.type = "IP" THEN v[f.pl] - c ELSE 0]

\* Each weight is a natural number.
LEMMA WeightTypes ==
  ASSUME NEW v, NEW c, NEW u, Weighing(v, c, u)
  PROVE  /\ InBuffer(v) \in [H1!SendBuf -> Nat]
         /\ Sending(v) \in [H1!Transmission -> Nat]
         /\ Upward(u) \in [H1!IpPacket -> Nat]
         /\ OnLink(v, c) \in [H1!Frame -> Nat]
<1>1. \A p \in H1!IpPacket : v[p] \in Nat /\ v[p] - c \in Nat
  BY DEF Weighing
<1>2. \A f \in H1!Frame : f.type = "IP" => f.pl \in H1!IpPacket
  BY DEF H1!Frame
<1>3. \A tx \in H1!Transmission : tx.eh \in H1!Frame
  BY DEF H1!Transmission
<1>4. \A e \in H1!SendBuf : e.pkt \in H1!IpPacket
  BY DEF H1!SendBuf
<1>5. InBuffer(v) \in [H1!SendBuf -> Nat]
  BY <1>1, <1>4 DEF InBuffer
<1>6. Sending(v) \in [H1!Transmission -> Nat]
  BY <1>1, <1>2, <1>3 DEF Sending
<1>7. Upward(u) \in [H1!IpPacket -> Nat]
  BY DEF Upward, Weighing
<1>8. OnLink(v, c) \in [H1!Frame -> Nat]
  BY <1>1, <1>2 DEF OnLink
<1> QED
  BY <1>5, <1>6, <1>7, <1>8

\* The frames that may leave are frames with an interface to leave from.
LEMMA LeavingSent ==
  ASSUME NEW h \in Hosts, NEW own, Owners(own), CardsOK(h, own)
  PROVE  /\ Leaving(h, own) \subseteq H1!Transmission
         /\ \A tx \in Leaving(h, own) : tx.eh \in Truthful(own) /\ tx.ifp \in DOMAIN ifs[h]
<1> SUFFICES ASSUME NEW tx \in Leaving(h, own)
             PROVE  /\ tx \in H1!Transmission
                    /\ tx.eh \in Truthful(own) /\ tx.ifp \in DOMAIN ifs[h]
  OBVIOUS
<1>1. tx.eh \in Truthful(own) /\ tx.ifp \in DOMAIN ifs[h] /\ tx = [ifp |-> tx.ifp, eh |-> tx.eh]
  BY DEF Leaving
<1>2. tx.eh \in H1!Frame /\ tx.ifp \in Nat \ {0}
  BY <1>1, InterfaceAt DEF Truthful
<1> QED
  BY <1>1, <1>2 DEF H1!Transmission, H1!NULL

\* A bridge of no more than two ports passes a frame on once at most, and a frame
\* for the interface itself not at all.
NoCopies(h, c) == flags[h].l2 => c = 0 /\ Len(ifs[h]) <= 2

\* What a bridge sends on weighs no more than what came in on the link.
LEMMA BridgeWeighs ==
  ASSUME NEW h \in Hosts, NEW own, Owners(own), CardsOK(h, own), BridgeOK(h),
         NEW v, NEW c, NEW u, Weighing(v, c, u),
         NEW ifp \in DOMAIN ifs[h], NEW eh \in Truthful(own)
  PROVE  /\ NoCopies(h, c) =>
              Total(At(h)!BridgeSends(ifp, eh), Sending(v)) <= OnLink(v, c)[eh]
         /\ eh.type = "IP" /\ At(h)!ForUs(ifp, eh) => At(h)!BridgeSends(ifp, eh) = <<>>
<1> DEFINE sends == At(h)!BridgeSends(ifp, eh)
<1>1. eh \in H1!Frame
  BY DEF Truthful
<1>2. Total(<<>>, Sending(v)) = 0 /\ OnLink(v, c)[eh] \in Nat
  BY <1>1, TotalNone, WeightTypes
<1>3. eh.type = "IP" /\ At(h)!ForUs(ifp, eh) => At(h)!BridgeSends(ifp, eh) = <<>>
  BY DEF Truthful, At!ForUs, At!BridgeSends, At!Bridged
<1>4. ASSUME NoCopies(h, c)
      PROVE  Total(sends, Sending(v)) <= OnLink(v, c)[eh]
  <2>1. CASE ~ flags[h].l2
    <3>1. sends = <<>>
      BY <2>1 DEF At!BridgeSends, At!Bridged, At!IS_L2BRIDGE
    <3> HIDE DEF sends
    <3> QED
      BY <1>2, <3>1
  <2>2. CASE flags[h].l2
    <3>1. c = 0 /\ Len(ifs[h]) <= 2
      BY <1>4, <2>2 DEF NoCopies
    <3>2. sends \in Seq(Leaving(h, own))
      BY BridgeSendsAt
    <3>3. Len(sends) <= 1 /\ \A i \in DOMAIN sends : sends[i].eh = eh
      <4>1. Len(ifs[h]) \in Nat
        BY DEF CardsOK
      <4>2. /\ Len(At(h)!flood(ifp, eh)) = Len(ifs[h]) - 1
            /\ \A i \in DOMAIN At(h)!flood(ifp, eh) : At(h)!flood(ifp, eh)[i].eh = eh
        <5>1. Len(ifs[h]) - 1 \in Nat
          BY <4>1, InterfaceAt
        <5> QED
          BY <5>1 DEF At!flood, At!ether_output
      <4>3. \A j : /\ Len(<<At(h)!ether_output(j, eh)>>) = 1
                   /\ \A i \in DOMAIN <<At(h)!ether_output(j, eh)>> :
                        <<At(h)!ether_output(j, eh)>>[i].eh = eh
        BY DEF At!ether_output
      <4>4. Len(<<>>) = 0 /\ DOMAIN <<>> = {}
        OBVIOUS
      <4> QED
        BY <3>1, <4>1, <4>2, <4>3, <4>4 DEF At!BridgeSends
    <3> HIDE DEF sends
    <3>4. CASE sends = <<>>
      BY <1>2, <3>4
    <3>5. CASE sends # <<>>
      <4> DEFINE tx == sends[1]
      <4>1. Len(sends) = 1 /\ 1 \in DOMAIN sends /\ sends = <<tx>> /\ tx \in Leaving(h, own)
        <5>1. Len(sends) \in Nat /\ DOMAIN sends = 1 .. Len(sends) /\ Len(sends) # 0
          BY <3>2, <3>5
        <5>2. Len(sends) = 1 /\ 1 \in DOMAIN sends
          BY <3>3, <5>1
        <5>3. tx \in Leaving(h, own)
          BY <3>2, <5>2
        <5> QED
          BY <3>2, <5>2, <5>3
      <4>2. tx.eh = eh /\ tx \in H1!Transmission
        BY <3>3, <4>1, LeavingSent
      <4> HIDE DEF tx
      <4>3. Total(<<tx>>, Sending(v)) = Sending(v)[tx]
        BY <4>2, WeightTypes, TotalFew
      <4>4. Sending(v)[tx] = OnLink(v, c)[eh]
        <5>1. eh.type = "IP" => v[eh.pl] \in Nat
          BY <1>1 DEF H1!Frame, Weighing
        <5>2. eh.type = "IP" => v[eh.pl] - c = v[eh.pl]
          BY <3>1, <5>1
        <5> QED
          BY <1>1, <4>2, <5>2 DEF Sending, OnLink
      <4> QED
        BY <1>2, <4>1, <4>3, <4>4
    <3> QED
      BY <3>4, <3>5
  <2> QED
    BY <2>1, <2>2
<1> QED
  BY <1>3, <1>4

\* What a packet on its way through the host costs.
LEMMA HandledWeighs ==
  ASSUME NEW h \in Hosts, NEW own, Owners(own), CardsOK(h, own),
         NEW v, NEW c, NEW u, Weighing(v, c, u),
         NEW pkt \in H1!IpPacket, NEW hop \in H1!IpPacket, NEW r,
         Handled(h, own, pkt, hop, r),
         NEW paid \in Nat, u <= paid,
         r.sent # <<>> => v[hop] <= paid
  PROVE  /\ r.queue \in Seq(H1!SendBuf) /\ r.sent \in Seq(Leaving(h, own))
         /\ r.up \in {<<>>, <<pkt>>}
         /\ Total(r.queue, InBuffer(v)) + Total(r.sent, Sending(v))
              + Total(r.up, Upward(u)) <= paid
<1>1. /\ Total(<<>>, InBuffer(v)) = 0 /\ Total(<<>>, Sending(v)) = 0
      /\ Total(<<>>, Upward(u)) = 0 /\ Total(<<pkt>>, Upward(u)) = u
  BY TotalNone, TotalFew, WeightTypes DEF Upward
<1>2. u \in Nat /\ v[hop] \in Nat
  BY DEF Weighing
<1>3. CASE r.queue = <<>> /\ r.sent = <<>> /\ r.up \in {<<>>, <<pkt>>}
  BY <1>1, <1>2, <1>3
<1>4. ASSUME NEW tx \in Leaving(h, own),
             r.queue = <<>>, r.sent = <<tx>>, r.up = <<>>,
             tx.eh.type = "IP", tx.eh.pl = hop
      PROVE  /\ r.queue \in Seq(H1!SendBuf) /\ r.sent \in Seq(Leaving(h, own))
             /\ r.up \in {<<>>, <<pkt>>}
             /\ Total(r.queue, InBuffer(v)) + Total(r.sent, Sending(v))
                  + Total(r.up, Upward(u)) <= paid
  <2>1. tx \in H1!Transmission
    BY LeavingSent
  <2>2. Total(<<tx>>, Sending(v)) = Sending(v)[tx]
    BY <2>1, WeightTypes, TotalFew
  <2>3. Sending(v)[tx] = v[hop]
    BY <1>4, <2>1 DEF Sending
  <2>4. v[hop] <= paid
    BY <1>4
  <2>5. r.queue \in Seq(H1!SendBuf) /\ r.sent \in Seq(Leaving(h, own))
    BY <1>4
  <2> QED
    BY <1>1, <1>2, <1>4, <2>2, <2>3, <2>4, <2>5
<1>5. ASSUME NEW tx \in Leaving(h, own), NEW e \in H1!SendBuf,
             r.queue = <<e>>, r.sent = <<tx>>, r.up = <<>>,
             tx.eh.type = "ARP", e.pkt = hop
      PROVE  /\ r.queue \in Seq(H1!SendBuf) /\ r.sent \in Seq(Leaving(h, own))
             /\ r.up \in {<<>>, <<pkt>>}
             /\ Total(r.queue, InBuffer(v)) + Total(r.sent, Sending(v))
                  + Total(r.up, Upward(u)) <= paid
  <2>1. tx \in H1!Transmission
    BY LeavingSent
  <2>2. /\ Total(<<tx>>, Sending(v)) = Sending(v)[tx]
        /\ Total(<<e>>, InBuffer(v)) = InBuffer(v)[e]
    BY <2>1, WeightTypes, TotalFew
  <2>3. Sending(v)[tx] = 0 /\ InBuffer(v)[e] = v[hop]
    BY <1>5, <2>1 DEF Sending, InBuffer
  <2>4. v[hop] <= paid
    BY <1>5
  <2>5. r.queue \in Seq(H1!SendBuf) /\ r.sent \in Seq(Leaving(h, own))
    BY <1>5
  <2> QED
    BY <1>1, <1>2, <1>5, <2>2, <2>3, <2>4, <2>5
<1> QED
  BY <1>3, <1>4, <1>5 DEF Handled

\* A frame of type ARP costs nothing, and no more does none.
LEMMA ArpWeighs ==
  ASSUME NEW h \in Hosts, NEW own, Owners(own), CardsOK(h, own),
         NEW v, NEW c, NEW u, Weighing(v, c, u),
         NEW ifp \in DOMAIN ifs[h], NEW eh \in Truthful(own), eh.type = "ARP"
  PROVE  /\ At(h)!ArpAnswer(ifp, eh.pl) \in Seq(Leaving(h, own))
         /\ Total(At(h)!ArpAnswer(ifp, eh.pl), Sending(v)) = 0
<1>1. PICK tx \in Leaving(h, own) :
        tx.eh.type = "ARP" /\ At(h)!ArpAnswer(ifp, eh.pl) \in {<<>>, <<tx>>}
  BY AnswersAt
<1>2. tx \in H1!Transmission
  BY LeavingSent
<1>3. Total(<<>>, Sending(v)) = 0 /\ Total(<<tx>>, Sending(v)) = Sending(v)[tx]
  BY <1>2, TotalNone, TotalFew, WeightTypes
<1>4. Sending(v)[tx] = 0
  BY <1>1, <1>2 DEF Sending
<1>5. <<>> \in Seq(Leaving(h, own)) /\ <<tx>> \in Seq(Leaving(h, own))
  OBVIOUS
<1> QED
  BY <1>1, <1>3, <1>4, <1>5

\* What is sent for a reply, and kept.
LEMMA WalkHandles ==
  ASSUME NEW h \in Hosts, NEW own, Owners(own), CardsOK(h, own), ArpOK(h, own),
         NEW v, NEW c, NEW u, Weighing(v, c, u), NEW ifp \in DOMAIN ifs[h],
         NEW table \in [Slots -> [ip_addr : Addr, macaddr : Mac]],
         \A s \in Slots : Known(table[s], own)
  PROVE  LET walked == At(h)!Walk(ifp, table)
         IN  /\ walked.kept \in Seq(H1!SendBuf) /\ walked.sent \in Seq(Leaving(h, own))
             /\ Total(walked.kept, InBuffer(v)) + Total(walked.sent, Sending(v))
                  = Total(sbuf[h], InBuffer(v))
<1> DEFINE S == {tx \in Leaving(h, own) : tx.eh.type = "IP"}
<1>1. sbuf[h] \in Seq(H1!SendBuf)
  BY DEF ArpOK
<1>2. Walkable(sbuf[h], ifp, table, S)
  <2> SUFFICES ASSUME NEW n \in 1 .. Len(sbuf[h])
               PROVE  [ifp |-> ifp,
                       eh |-> [dst |-> table[IPHASH[sbuf[h][n].nextip]].macaddr,
                               src |-> sbuf[h][n].shost, type |-> "IP",
                               pl |-> sbuf[h][n].pkt]] \in S
    BY DEF Walkable
  <2> DEFINE e == sbuf[h][n]
             dst == table[IPHASH[e.nextip]].macaddr
             f == [dst |-> dst, src |-> e.shost, type |-> "IP", pl |-> e.pkt]
  <2>1. e \in H1!SendBuf
    BY <1>1
  <2> HIDE DEF e
  <2>2. e.nextip \in Addr /\ e.shost \in Mac /\ e.pkt \in H1!IpPacket
    BY <2>1 DEF H1!SendBuf, Addr
  <2>3. dst \in Mac /\ dst # BROADCAST
    BY <2>2, NextHopAt
  <2> HIDE DEF dst
  <2>4. f \in Truthful(own)
    BY <2>2, <2>3, FramesAt
  <2>5. f.type = "IP"
    OBVIOUS
  <2> HIDE DEF f
  <2>6. [ifp |-> ifp, eh |-> f] \in S
    BY <2>4, <2>5 DEF Leaving
  <2> QED
    BY <2>6 DEF f, dst, e
<1>3. S \subseteq H1!Transmission
  BY LeavingSent
<1>4. \A e \in H1!SendBuf, x \in S : x.eh.pl = e.pkt => Sending(v)[x] = InBuffer(v)[e]
  BY <1>3 DEF Sending, InBuffer
<1>5. S \subseteq Leaving(h, own)
  OBVIOUS
<1> DEFINE walked == At(h)!WalkList(sbuf[h], ifp, table)
<1> HIDE DEF S
<1>6. InBuffer(v) \in [H1!SendBuf -> Nat] /\ Sending(v) \in [H1!Transmission -> Nat]
  BY WeightTypes
<1>7. /\ walked.kept \in Seq(H1!SendBuf) /\ walked.sent \in Seq(S)
      /\ Total(walked.kept, InBuffer(v)) + Total(walked.sent, Sending(v))
           = Total(sbuf[h], InBuffer(v))
  <2>1. Matched(InBuffer(v), Sending(v), S)
    BY <1>4 DEF Matched
  <2>2. WalkWeighed(walked, sbuf[h], S, InBuffer(v), Sending(v))
    BY <1>1, <1>2, <1>3, <1>6, <2>1, WalkWeighs
  <2> QED
    BY <2>2 DEF WalkWeighed
<1>8. At(h)!Walk(ifp, table) = walked
  BY DEF At!Walk
<1> HIDE DEF walked
<1>9. walked.sent \in Seq(Leaving(h, own))
  BY <1>5, <1>7
<1> QED
  BY <1>7, <1>8, <1>9

-----------------------------------------------------------------------------
\* The events.

\* Host h is still in order, what it sent may leave, and packets weigh no more
\* than before and what was paid for them.
Outcome(h, own, v, c, u, paid) ==
  /\ HostOK(h, own)' /\ ifs'[h] = ifs[h]
  /\ sent' \in Seq(Leaving(h, own)) /\ delivered' \in Seq(H1!IpPacket)
  /\ rx' \in H1!Event
  /\ NoCopies(h, c) =>
       Total(sbuf'[h], InBuffer(v)) + Total(sent', Sending(v))
         + Total(delivered', Upward(u)) <= Total(sbuf[h], InBuffer(v)) + paid

\* A frame comes in: what was on the link is paid.
LEMMA RecvAt ==
  ASSUME NEW h \in Hosts, NEW own, Owners(own), HostOK(h, own),
         NEW v, NEW c, NEW u, Weighing(v, c, u),
         NEW ifp \in DOMAIN ifs[h], NEW eh \in Truthful(own),
         NEW paid, paid = OnLink(v, c)[eh],
         At(h)!Recv(ifp, eh)
  PROVE  Outcome(h, own, v, c, u, paid)
<1> USE DEF HostOK
<1> DEFINE sends == At(h)!BridgeSends(ifp, eh)
           wait == Total(sbuf[h], InBuffer(v))
<1>1. eh \in H1!Frame /\ paid \in Nat
  BY WeightTypes DEF Truthful
<1>2. /\ sends \in Seq(Leaving(h, own))
      /\ NoCopies(h, c) => Total(sends, Sending(v)) <= paid
      /\ eh.type = "IP" /\ At(h)!ForUs(ifp, eh) => sends = <<>>
  BY BridgeSendsAt, BridgeWeighs
<1>3. sbuf[h] \in Seq(H1!SendBuf)
  BY DEF ArpOK
<1>4. wait \in Nat /\ Total(<<>>, Upward(u)) = 0
  BY <1>3, WeightTypes, TotalType, TotalNone
<1>5. <<>> \in Seq(H1!IpPacket)
  OBVIOUS
<1>6. \A s \in Seq(Leaving(h, own)), t \in Seq(Leaving(h, own)) :
        /\ s \o t \in Seq(Leaving(h, own))
        /\ Total(s \o t, Sending(v)) = Total(s, Sending(v)) + Total(t, Sending(v))
        /\ Total(s, Sending(v)) \in Nat
  <2> SUFFICES ASSUME NEW s \in Seq(Leaving(h, own)), NEW t \in Seq(Leaving(h, own))
               PROVE  /\ s \o t \in Seq(Leaving(h, own))
                      /\ Total(s \o t, Sending(v)) = Total(s, Sending(v)) + Total(t, Sending(v))
                      /\ Total(s, Sending(v)) \in Nat
    OBVIOUS
  <2>1. s \in Seq(H1!Transmission) /\ t \in Seq(H1!Transmission)
    <3>1. Leaving(h, own) \subseteq H1!Transmission
      BY LeavingSent
    <3> QED
      BY <3>1
  <2>2. s \o t \in Seq(Leaving(h, own))
    OBVIOUS
  <2> QED
    BY <2>1, <2>2, WeightTypes, TotalConcat, TotalType
<1>7. ASSUME At(h)!Received(ifp, eh)
      PROVE  /\ ifs'[h] = ifs[h] /\ CardsOK(h, own)' /\ BridgeOK(h)'
             /\ RoutesOK(h)' /\ rx' \in H1!Event
  <2>1. /\ ifs'[h] = ifs[h] /\ CardsOK(h, own)' /\ BridgeOK(h)'
        /\ rib'[h] = rib[h] /\ fib_n'[h] = fib_n[h] /\ fib'[h] = fib[h]
        /\ rx' \in H1!Event
    BY <1>7, BridgeLearnsAt
  <2> QED
    BY <2>1 DEF RoutesOK
<1> HIDE DEF sends, wait
<1>all. ASSUME At(h)!Received(ifp, eh), ArpOK(h, own)',
               sent' \in Seq(Leaving(h, own)), delivered' \in Seq(H1!IpPacket),
               NoCopies(h, c) =>
                 Total(sbuf'[h], InBuffer(v)) + Total(sent', Sending(v))
                   + Total(delivered', Upward(u)) <= wait + paid
        PROVE  Outcome(h, own, v, c, u, paid)
  BY <1>7, <1>all DEF Outcome, wait
<1>8. ASSUME At(h)!Received(ifp, eh), sent' = sends, delivered' = <<>>,
             UNCHANGED <<arptable[h], sbuf[h]>>
      PROVE  Outcome(h, own, v, c, u, paid)
  <2>1. ArpOK(h, own)'
    BY <1>8 DEF ArpOK
  <2>2. NoCopies(h, c) =>
          Total(sbuf'[h], InBuffer(v)) + Total(sent', Sending(v))
            + Total(delivered', Upward(u)) <= wait + paid
    <3>1. sbuf'[h] = sbuf[h]
      BY <1>8
    <3> QED
      BY <1>1, <1>2, <1>4, <1>6, <1>8, <3>1 DEF wait
  <2> QED
    BY <1>2, <1>5, <1>8, <1>all, <2>1, <2>2
<1>9. CASE At(h)!RecvBridged(ifp, eh)
  <2>1. At(h)!Received(ifp, eh) /\ sent' = sends /\ delivered' = <<>>
        /\ UNCHANGED <<arptable[h], sbuf[h]>>
    BY <1>9 DEF At!RecvBridged, sends
  <2> QED
    BY <1>8, <2>1
<1>10. CASE At(h)!RecvArpOther(ifp, eh)
  <2>1. At(h)!Received(ifp, eh) /\ sent' = sends /\ delivered' = <<>>
        /\ UNCHANGED <<arptable[h], sbuf[h]>>
    BY <1>10 DEF At!RecvArpOther, sends
  <2> QED
    BY <1>8, <2>1
<1>11. CASE At(h)!RecvArpRequest(ifp, eh)
  <2> DEFINE table == At(h)!add2arptable(eh.pl.spa, eh.pl.sha)
             answer == At(h)!ArpAnswer(ifp, eh.pl)
  <2>1. /\ eh.type = "ARP" /\ At(h)!Received(ifp, eh)
        /\ arptable[h]' = table /\ sent' = sends \o answer
        /\ delivered' = <<>> /\ sbuf[h]' = sbuf[h]
    BY <1>11 DEF At!RecvArpRequest, sends
  <2>2. /\ table \in [Slots -> [ip_addr : Addr, macaddr : Mac]]
        /\ \A s \in Slots : Known(table[s], own)
    BY <2>1, LearnsAt
  <2>3. answer \in Seq(Leaving(h, own)) /\ Total(answer, Sending(v)) = 0
    BY <2>1, ArpWeighs
  <2> HIDE DEF table, answer
  <2>4. ArpOK(h, own)'
    BY <1>3, <2>1, <2>2 DEF ArpOK
  <2>5. sent' \in Seq(Leaving(h, own)) /\ Total(sent', Sending(v)) = Total(sends, Sending(v))
    BY <1>2, <1>6, <2>1, <2>3
  <2>6. NoCopies(h, c) =>
          Total(sbuf'[h], InBuffer(v)) + Total(sent', Sending(v))
            + Total(delivered', Upward(u)) <= wait + paid
    <3>1. Total(sbuf'[h], InBuffer(v)) = wait
      BY <2>1 DEF wait
    <3>2. Total(delivered', Upward(u)) = 0
      BY <1>4, <2>1
    <3>3. Total(sends, Sending(v)) \in Nat
      BY <1>2, <1>6
    <3> QED
      BY <1>1, <1>2, <1>4, <2>5, <3>1, <3>2, <3>3
  <2> QED
    BY <1>5, <1>all, <2>1, <2>4, <2>5, <2>6
<1>12. CASE At(h)!RecvArpReply(ifp, eh)
  <2> DEFINE table == At(h)!add2arptable(eh.pl.spa, eh.pl.sha)
             walked == At(h)!Walk(ifp, table)
  <2>1. /\ eh.type = "ARP" /\ At(h)!Received(ifp, eh)
        /\ arptable[h]' = table
        /\ sbuf[h]' = walked.kept /\ sent' = sends \o walked.sent
        /\ delivered' = <<>>
    BY <1>12 DEF At!RecvArpReply, sends
  <2>2. /\ table \in [Slots -> [ip_addr : Addr, macaddr : Mac]]
        /\ \A s \in Slots : Known(table[s], own)
    BY <2>1, LearnsAt
  <2>3. /\ walked.kept \in Seq(H1!SendBuf) /\ walked.sent \in Seq(Leaving(h, own))
        /\ Total(walked.kept, InBuffer(v)) + Total(walked.sent, Sending(v)) = wait
    <3> HIDE DEF table
    <3> QED
      BY <2>2, WalkHandles DEF wait
  <2> HIDE DEF table, walked
  <2>4. ArpOK(h, own)'
    BY <2>1, <2>2, <2>3 DEF ArpOK
  <2>5. /\ sent' \in Seq(Leaving(h, own))
        /\ Total(sent', Sending(v)) = Total(sends, Sending(v)) + Total(walked.sent, Sending(v))
    BY <1>2, <1>6, <2>1, <2>3
  <2>6. Total(walked.kept, InBuffer(v)) \in Nat
    BY <2>3, WeightTypes, TotalType
  <2>7. NoCopies(h, c) =>
          Total(sbuf'[h], InBuffer(v)) + Total(sent', Sending(v))
            + Total(delivered', Upward(u)) <= wait + paid
    <3> DEFINE kept == Total(walked.kept, InBuffer(v))
               out1 == Total(walked.sent, Sending(v))
               out2 == Total(sends, Sending(v))
    <3>1. Total(sbuf'[h], InBuffer(v)) = kept
      BY <2>1
    <3>2. Total(delivered', Upward(u)) = 0
      BY <1>4, <2>1
    <3>3. /\ kept \in Nat /\ out1 \in Nat /\ out2 \in Nat /\ kept + out1 = wait
          /\ Total(sent', Sending(v)) = out2 + out1
      BY <1>2, <1>6, <2>3, <2>5, <2>6
    <3>4. NoCopies(h, c) => out2 <= paid
      BY <1>2
    <3> HIDE DEF kept, out1, out2
    <3> QED
      BY <1>1, <1>4, <3>1, <3>2, <3>3, <3>4
  <2> QED
    BY <1>5, <1>all, <2>1, <2>4, <2>5, <2>7
<1>13. CASE At(h)!RecvIp(ifp, eh)
  <2> DEFINE pkt == eh.pl
             r == At(h)!ipv4_input(pkt)
             hop == Older(pkt)
  <2>1. /\ eh.type = "IP" /\ At(h)!ForUs(ifp, eh) /\ At(h)!Received(ifp, eh)
        /\ sbuf[h]' = r.queue \o sbuf[h] /\ sent' = sends \o r.sent
        /\ delivered' = r.up /\ arptable[h]' = arptable[h]
    BY <1>13 DEF At!RecvIp, sends
  <2>2. pkt \in H1!IpPacket /\ sends = <<>>
    BY <1>1, <1>2, <2>1 DEF H1!Frame
  <2>3. Handled(h, own, pkt, hop, r) /\ (pkt.ttl <= 1 => r.sent = <<>>)
    BY <2>2, PathsHandle
  <2>4. paid = v[pkt] - c /\ u <= paid
    BY <1>1, <2>1, <2>2 DEF OnLink, Weighing
  <2>5. pkt.ttl \in 0 .. 255
    BY <2>2 DEF H1!IpPacket
  <2>6. r.sent # <<>> => v[hop] <= paid /\ pkt.ttl > 1
    <3>1. r.sent # <<>> => pkt.ttl > 1
      <4>1. pkt.ttl <= 1 \/ pkt.ttl > 1
        BY <2>5
      <4>2. pkt.ttl <= 1 => r.sent = <<>>
        BY <2>3
      <4> HIDE DEF r, pkt
      <4> QED
        BY <4>1, <4>2
    <3>2. pkt.ttl > 1 => v[hop] + c <= v[pkt] /\ hop \in H1!IpPacket
      <4>1. pkt.ttl > 1 => pkt.ttl - 1 \in 0 .. 255
        BY <2>5
      <4> QED
        BY <2>2, <4>1 DEF Weighing, Older, H1!IpPacket
    <3> HIDE DEF r, hop
    <3> QED
      BY <2>2, <2>4, <3>1, <3>2 DEF Weighing
  <2> HIDE DEF r
  <2>7. /\ r.queue \in Seq(H1!SendBuf) /\ r.sent \in Seq(Leaving(h, own))
        /\ r.up \in {<<>>, <<pkt>>}
        /\ Total(r.queue, InBuffer(v)) + Total(r.sent, Sending(v))
             + Total(r.up, Upward(u)) <= paid
    <3>1. CASE r.sent = <<>>
      <4>1. Handled(h, own, pkt, pkt, r)
        BY <2>3, <3>1 DEF Handled
      <4> HIDE DEF pkt
      <4> QED
        BY <1>1, <2>2, <2>4, <3>1, <4>1, HandledWeighs
    <3>2. CASE r.sent # <<>>
      <4>1. hop \in H1!IpPacket
        <5>1. pkt.ttl - 1 \in 0 .. 255
          BY <2>5, <2>6, <3>2
        <5> QED
          BY <2>2, <5>1 DEF Older, H1!IpPacket
      <4> HIDE DEF pkt, hop
      <4> QED
        BY <1>1, <2>2, <2>3, <2>4, <2>6, <4>1, HandledWeighs
    <3> QED
      BY <3>1, <3>2
  <2> HIDE DEF pkt
  <2>8. r.queue \o sbuf[h] \in Seq(H1!SendBuf)
    BY <1>3, <2>7
  <2>9. /\ Total(r.queue \o sbuf[h], InBuffer(v)) = Total(r.queue, InBuffer(v)) + wait
        /\ Total(r.queue, InBuffer(v)) \in Nat
    BY <1>3, <2>7, WeightTypes, TotalConcat, TotalType DEF wait
  <2>10. ArpOK(h, own)'
    BY <2>1, <2>8 DEF ArpOK
  <2>11. sent' = r.sent
    BY <2>1, <2>2, <2>7
  <2>12. delivered' \in Seq(H1!IpPacket)
    <3>1. <<>> \in Seq(H1!IpPacket) /\ <<pkt>> \in Seq(H1!IpPacket)
      BY <2>2
    <3> QED
      BY <2>1, <2>7, <3>1
  <2>13. Total(r.up, Upward(u)) \in Nat
    BY <2>1, <2>12, WeightTypes, TotalType
  <2>14. NoCopies(h, c) =>
          Total(sbuf'[h], InBuffer(v)) + Total(sent', Sending(v))
            + Total(delivered', Upward(u)) <= wait + paid
    <3>1. sbuf'[h] = r.queue \o sbuf[h]
      BY <2>1
    <3>2. Total(r.sent, Sending(v)) \in Nat
      BY <1>6, <2>7
    <3> QED
      BY <1>1, <1>4, <2>1, <2>7, <2>9, <2>11, <2>13, <3>1, <3>2
  <2> QED
    BY <1>all, <2>1, <2>7, <2>10, <2>11, <2>12, <2>14
<1> QED
  BY <1>9, <1>10, <1>11, <1>12, <1>13 DEF At!Recv

\* A SYN is typed: it is worth b when it leaves the host, and when it does not.
LEMMA TcpPays ==
  ASSUME NEW h \in Hosts, NEW own, Owners(own), HostOK(h, own),
         NEW v, NEW c, NEW u, Weighing(v, c, u),
         NEW b \in Nat, u <= b,
         \A p \in H1!IpPacket : p.ttl = 31 => v[p] <= b,
         NEW ifp \in DOMAIN ifs[h], NEW dst \in Addr,
         At(h)!Tcp(ifp, dst)
  PROVE  Outcome(h, own, v, c, u, b)
<1> USE DEF HostOK
<1> DEFINE pkt == [src |-> ifs[h][ifp].addr, dst |-> dst, ttl |-> 0, proto |-> "TCP"]
           first == [pkt EXCEPT !.ttl = 32]
           hop == [pkt EXCEPT !.ttl = 31]
           r == At(h)!ipv4_output(pkt)
           wait == Total(sbuf[h], InBuffer(v))
<1>1. pkt \in H1!IpPacket /\ first \in H1!IpPacket /\ hop \in H1!IpPacket /\ hop.ttl = 31
  <2>1. ifs[h][ifp].addr \in Addr
    BY InterfaceAt
  <2> QED
    BY <2>1 DEF H1!IpPacket, Addr
<1>2. /\ rx' = [kind |-> "tcp", pkt |-> pkt]
      /\ sbuf[h]' = r.queue \o sbuf[h] /\ sent' = r.sent /\ delivered' = r.up
      /\ ifs[h]' = ifs[h] /\ flags[h]' = flags[h] /\ rib[h]' = rib[h]
      /\ fib_n[h]' = fib_n[h] /\ fib[h]' = fib[h]
      /\ mactable[h]' = mactable[h] /\ arptable[h]' = arptable[h]
  BY DEF At!Tcp, At!TcpSyn, At!Tables
<1>3. sbuf[h] \in Seq(H1!SendBuf)
  BY DEF ArpOK
<1>4. Handled(h, own, first, hop, r)
  BY <1>1, PathsHandle
<1>5. v[hop] <= b
  BY <1>1
<1>6. rx' \in H1!Event
  <2> HIDE DEF pkt
  <2> QED
    BY <1>1, <1>2 DEF H1!Event
<1> HIDE DEF pkt, first, hop, r
<1>7. /\ r.queue \in Seq(H1!SendBuf) /\ r.sent \in Seq(Leaving(h, own))
      /\ r.up \in {<<>>, <<first>>}
      /\ Total(r.queue, InBuffer(v)) + Total(r.sent, Sending(v))
           + Total(r.up, Upward(u)) <= b
  BY <1>1, <1>4, <1>5, HandledWeighs
<1>8. r.queue \o sbuf[h] \in Seq(H1!SendBuf)
  BY <1>3, <1>7
<1>9. /\ Total(r.queue \o sbuf[h], InBuffer(v)) = Total(r.queue, InBuffer(v)) + wait
      /\ Total(r.queue, InBuffer(v)) \in Nat /\ wait \in Nat
  BY <1>3, <1>7, WeightTypes, TotalConcat, TotalType
<1>10. delivered' \in Seq(H1!IpPacket)
  <2>1. <<>> \in Seq(H1!IpPacket) /\ <<first>> \in Seq(H1!IpPacket)
    BY <1>1
  <2> QED
    BY <1>2, <1>7, <2>1
<1>11. Total(r.up, Upward(u)) \in Nat
  BY <1>2, <1>10, WeightTypes, TotalType
<1>12. Total(r.sent, Sending(v)) \in Nat
  <2>1. Leaving(h, own) \subseteq H1!Transmission
    BY LeavingSent
  <2>2. r.sent \in Seq(H1!Transmission)
    BY <1>7, <2>1
  <2> QED
    BY <2>2, WeightTypes, TotalType
<1> HIDE DEF wait
<1>13. Total(sbuf'[h], InBuffer(v)) + Total(sent', Sending(v))
         + Total(delivered', Upward(u)) <= wait + b
  <2>1. sbuf'[h] = r.queue \o sbuf[h]
    BY <1>2
  <2> QED
    BY <1>2, <1>7, <1>9, <1>11, <1>12, <2>1
<1>14. HostOK(h, own)'
  <2>1. CardsOK(h, own)' /\ BridgeOK(h)' /\ RoutesOK(h)'
    BY <1>2 DEF CardsOK, BridgeOK, RoutesOK
  <2>2. ArpOK(h, own)'
    BY <1>2, <1>8 DEF ArpOK
  <2> QED
    BY <2>1, <2>2
<1> QED
  BY <1>2, <1>6, <1>7, <1>10, <1>13, <1>14 DEF Outcome, wait

\* The commands that send nothing.
Silent(h) ==
  /\ sbuf'[h] = sbuf[h] /\ sent' = <<>> /\ delivered' = <<>> /\ rx' \in H1!Event

\* The flags are set.
LEMMA FwdctlKeeps ==
  ASSUME NEW h \in Hosts, NEW own, HostOK(h, own),
         NEW new \in [l2 : BOOLEAN, l3 : BOOLEAN], At(h)!Fwdctl(new)
  PROVE  HostOK(h, own)' /\ ifs'[h] = ifs[h] /\ Silent(h)
<1>1. /\ flags[h]' = new /\ rx' = [kind |-> "command"]
      /\ sent' = <<>> /\ delivered' = <<>>
      /\ ifs[h]' = ifs[h] /\ mactable[h]' = mactable[h] /\ arptable[h]' = arptable[h]
      /\ sbuf[h]' = sbuf[h] /\ rib[h]' = rib[h] /\ fib_n[h]' = fib_n[h]
      /\ fib[h]' = fib[h]
  BY DEF At!Fwdctl
<1>2. HostOK(h, own)'
  BY <1>1 DEF HostOK, CardsOK, ArpOK, RoutesOK, BridgeOK
<1> QED
  BY <1>1, <1>2 DEF Silent, H1!Event

\* A route is added, if there is room for it.
LEMMA RouteKeeps ==
  ASSUME NEW h \in Hosts, NEW own, Owners(own), HostOK(h, own),
         NEW ifp \in DOMAIN ifs[h], NEW cmd, cmd.next \in Addr, cmd.dst \in H1!Prefix,
         At(h)!RouteAdd(ifp, cmd)
  PROVE  HostOK(h, own)' /\ ifs'[h] = ifs[h] /\ Silent(h)
<1>1. /\ At(h)!route_add(ifp, cmd.next, cmd.dst) /\ rx' = [kind |-> "command"]
      /\ sent' = <<>> /\ delivered' = <<>>
      /\ ifs[h]' = ifs[h] /\ mactable[h]' = mactable[h] /\ arptable[h]' = arptable[h]
      /\ sbuf[h]' = sbuf[h] /\ flags[h]' = flags[h]
  BY DEF At!RouteAdd
<1>2. RoutesOK(h)'
  <2>1. ifp \in Nat \ {0} /\ ifs'[h] = ifs[h]
    BY <1>1, InterfaceAt DEF HostOK
  <2> QED
    BY <1>1, <2>1, RouteAddKeeps DEF HostOK
<1>3. HostOK(h, own)'
  BY <1>1, <1>2 DEF HostOK, CardsOK, ArpOK, BridgeOK
<1> QED
  BY <1>1, <1>3 DEF Silent, H1!Event

\* An interface is created, and its owner becomes known.
LEMMA CreateKeeps ==
  ASSUME NEW h \in Hosts, NEW own, Owners(own), HostOK(h, own),
         NEW more, Owners(more), \A a \in Addr : own[a] \subseteq more[a],
         NEW card \in H1!Card, card.mac \in more[card.addr],
         At(h)!Create(card)
  PROVE  HostOK(h, more)' /\ ifs'[h] = Append(ifs[h], card) /\ Silent(h)
<1> DEFINE N == Len(ifs[h])
<1>1. /\ ifs[h]' = Append(ifs[h], card) /\ rx' = [kind |-> "command"]
      /\ sent' = <<>> /\ delivered' = <<>>
      /\ mactable[h]' = mactable[h] /\ arptable[h]' = arptable[h]
      /\ sbuf[h]' = sbuf[h] /\ flags[h]' = flags[h]
      /\ \/ UNCHANGED <<rib[h], fib_n[h], fib[h]>>
         \/ At(h)!route_add(N + 1, At(h)!INADDR_ANY, At(h)!Connected(card))
  BY DEF At!Create
<1>2. ifs[h] \in Seq(H1!Card) /\ N \in Nat /\ HostOK(h, more)
  BY OwnersGrow DEF HostOK, CardsOK
<1>3. /\ ifs[h]' \in Seq(H1!Card) /\ Len(ifs[h]') = N + 1
      /\ DOMAIN ifs[h]' = 1 .. N + 1 /\ DOMAIN ifs[h] = 1 .. N
      /\ ifs[h]'[N + 1] = card /\ \A i \in 1 .. N : ifs[h]'[i] = ifs[h][i]
  BY <1>1, <1>2
<1> HIDE DEF N
<1>4. CardsOK(h, more)'
  <2>1. \A i \in DOMAIN ifs[h] : ifs[h][i].mac \in more[ifs[h][i].addr]
    BY <1>2 DEF HostOK, CardsOK
  <2>2. ASSUME NEW i \in 1 .. N + 1
        PROVE  ifs[h]'[i].mac \in more[ifs[h]'[i].addr]
    <3>1. CASE i = N + 1
      BY <1>3, <3>1
    <3>2. CASE i # N + 1
      <4>1. i \in 1 .. N
        BY <1>2, <3>2
      <4> QED
        BY <1>3, <2>1, <4>1
    <3> QED
      BY <3>1, <3>2
  <2> QED
    BY <1>3, <2>2 DEF CardsOK
<1>5. ArpOK(h, more)'
  BY <1>1, <1>2 DEF HostOK, ArpOK
<1>6. BridgeOK(h)'
  <2>1. mactable[h] \in [Slots -> [addr : Mac, ifp : 0 .. N]] /\ 0 .. N \subseteq 0 .. N + 1
    BY <1>2 DEF HostOK, BridgeOK, N
  <2>2. mactable[h] \in [Slots -> [addr : Mac, ifp : 0 .. N + 1]]
    BY <2>1
  <2>3. flags[h]' \in [l2 : BOOLEAN, l3 : BOOLEAN]
    BY <1>1 DEF HostOK, BridgeOK
  <2> QED
    BY <1>1, <1>3, <2>2, <2>3 DEF BridgeOK
<1>7. RoutesOK(h)'
  <2>1. RoutesOK(h) /\ \A i \in DOMAIN ifs[h] : i \in DOMAIN ifs'[h]
    BY <1>2, <1>3 DEF HostOK
  <2>2. CASE UNCHANGED <<rib[h], fib_n[h], fib[h]>>
    BY <2>1, <2>2 DEF RoutesOK
  <2>3. CASE At(h)!route_add(N + 1, At(h)!INADDR_ANY, At(h)!Connected(card))
    <3>1. N + 1 \in DOMAIN ifs'[h] /\ N + 1 \in Nat \ {0}
      BY <1>2, <1>3
    <3>2. At(h)!INADDR_ANY \in Addr
      BY DEF At!INADDR_ANY, Addr, H1!Addr
    <3>3. At(h)!Connected(card) \in H1!Prefix
      <4> DEFINE net == [i \in 1 .. Width |-> IF i <= card.plen THEN card.addr[i] ELSE 0]
      <4>1. card.addr \in [1 .. Width -> {0, 1}] /\ card.plen \in 1 .. Width
        BY DEF H1!Card, H1!Addr
      <4>2. net \in [1 .. Width -> {0, 1}] /\ card.plen \in 0 .. Width
        <5>1. \A i \in 1 .. Width : card.addr[i] \in {0, 1}
          BY <4>1
        <5>2. net \in [1 .. Width -> {0, 1}]
          BY <5>1
        <5>3. card.plen \in 0 .. Width
          BY <4>1, NetworkAssumption
        <5> QED
          BY <5>2, <5>3
      <4>3. [i \in 1 .. Width |-> IF i <= card.plen THEN net[i] ELSE 0] = net
        BY <4>1
      <4>4. At(h)!Connected(card) = [net |-> net, plen |-> card.plen]
        BY DEF At!Connected, At!PrefixOf, At!Mask
      <4> HIDE DEF net
      <4> DEFINE p == [net |-> net, plen |-> card.plen]
      <4>5. p \in [net : H1!Addr, plen : 0 .. Width] /\ H1!Mask(p.net, p.plen) = p.net
        BY <4>2, <4>3 DEF H1!Addr, H1!Mask
      <4>6. p \in H1!Prefix
        BY <4>5 DEF H1!Prefix
      <4> QED
        BY <4>4, <4>6
    <3> QED
      BY <2>1, <2>3, <3>1, <3>2, <3>3, RouteAddKeeps
  <2> QED
    BY <1>1, <2>2, <2>3
<1> QED
  BY <1>1, <1>4, <1>5, <1>6, <1>7 DEF HostOK, Silent, H1!Event

\* A process that has just started, or started again.
Started(h) ==
  /\ ifs[h] = <<>> /\ flags[h] = [l2 |-> FALSE, l3 |-> FALSE]
  /\ mactable[h] = [s \in Slots |-> [addr |-> ZeroMac, ifp |-> 0]]
  /\ arptable[h] = [s \in Slots |-> [ip_addr |-> INADDR_ANY, macaddr |-> ZeroMac]]
  /\ sbuf[h] = <<>> /\ DOMAIN rib[h] = {} /\ fib_n[h] = 1 /\ fib[h] = <<>>
  /\ sent = <<>> /\ delivered = <<>> /\ rx \in H1!Event

\* A host that has just started is in order, whoever owns what.
LEMMA StartKeeps ==
  ASSUME NEW h \in Hosts, NEW own, Owners(own)
  PROVE  /\ At(h)!Init => Started(h) /\ HostOK(h, own)
         /\ At(h)!Restart => Started(h)' /\ HostOK(h, own)'
<1>1. At(h)!INADDR_ANY = INADDR_ANY /\ INADDR_ANY \in Addr
  BY DEF At!INADDR_ANY, INADDR_ANY, H1!INADDR_ANY, Addr, H1!Addr
<1>2. At(h)!Init => Started(h)
  BY <1>1 DEF At!Init, Started, At!NULL, H1!Event
<1>3. At(h)!Restart => Started(h)'
  BY <1>1 DEF At!Restart, Started, At!NULL, H1!Event
<1>4. Started(h) => HostOK(h, own)
  BY <1>1, NetworkAssumption DEF Started, HostOK, CardsOK, ArpOK, RoutesOK, BridgeOK, Known
<1>5. Started(h)' => HostOK(h, own)'
  BY <1>1, NetworkAssumption DEF Started, HostOK, CardsOK, ArpOK, RoutesOK, BridgeOK, Known
<1> QED
  BY <1>2, <1>3, <1>4, <1>5

-----------------------------------------------------------------------------
\* The sockets.

\* The weight in the sockets of a host, and in all.
Load(qs, w) == Sum([i \in DOMAIN qs |-> Total(qs[i], w)], Len(qs))
Carry(queues, w) == Load(queues[1], w) + Load(queues[2], w) + Load(queues[3], w)

\* What the sockets of a host hold weighs a natural number.
LEMMA LoadType ==
  ASSUME NEW B, NEW qs \in Seq(Seq(B)), NEW w \in [B -> Nat]
  PROVE  Load(qs, w) \in Nat
<1> DEFINE f == [i \in DOMAIN qs |-> Total(qs[i], w)]
<1>1. Len(qs) \in Nat /\ \A i \in 1 .. Len(qs) : qs[i] \in Seq(B) /\ f[i] = Total(qs[i], w)
  OBVIOUS
<1> HIDE DEF f
<1>2. \A i \in 1 .. Len(qs) : f[i] \in Nat
  BY <1>1, TotalType
<1>3. Sum(f, Len(qs)) \in Nat
  BY <1>1, <1>2, SumType
<1> QED
  BY <1>3 DEF Load, f

\* One queue becomes another.
LEMMA LoadPut ==
  ASSUME NEW B, NEW qs \in Seq(Seq(B)), NEW w \in [B -> Nat],
         NEW j \in DOMAIN qs, NEW q \in Seq(B)
  PROVE  /\ [qs EXCEPT ![j] = q] \in Seq(Seq(B))
         /\ Len([qs EXCEPT ![j] = q]) = Len(qs)
         /\ Load([qs EXCEPT ![j] = q], w) + Total(qs[j], w) = Load(qs, w) + Total(q, w)
<1> DEFINE rs == [qs EXCEPT ![j] = q]
           f == [i \in DOMAIN qs |-> Total(qs[i], w)]
           g == [i \in DOMAIN rs |-> Total(rs[i], w)]
           n == Len(qs)
<1>1. /\ n \in Nat /\ DOMAIN qs = 1 .. n /\ DOMAIN rs = 1 .. n
      /\ rs[j] = q /\ \A i \in 1 .. n : i # j => rs[i] = qs[i]
  OBVIOUS
<1>2. rs \in Seq(Seq(B)) /\ Len(rs) = n
  <2>1. \A i \in 1 .. n : rs[i] \in Seq(B)
    BY <1>1
  <2> QED
    BY <1>1, <2>1
<1> HIDE DEF rs
<1>3. \A i \in 1 .. n : f[i] = Total(qs[i], w) /\ g[i] = Total(rs[i], w)
  BY <1>1
<1> HIDE DEF f, g
<1>4. \A i \in 1 .. n : f[i] \in Nat /\ g[i] \in Nat
  <2>1. \A i \in 1 .. n : qs[i] \in Seq(B) /\ rs[i] \in Seq(B)
    BY <1>1, <1>2
  <2> QED
    BY <1>3, <2>1, TotalType
<1>5. \A i \in 1 .. n : i # j => g[i] = f[i]
  BY <1>1, <1>3
<1>6. j \in 1 .. n
  BY <1>1
<1> HIDE DEF n
<1>7. Sum(g, n) + f[j] = Sum(f, n) + g[j]
  <2>1. /\ n \in Nat /\ j \in 1 .. n
        /\ \A k \in 1 .. n : f[k] \in Nat /\ g[k] \in Nat
        /\ \A k \in 1 .. n : k # j => g[k] = f[k]
    BY <1>1, <1>4, <1>5, <1>6
  <2>2. Exchanged(f, g, j, n)
    BY <2>1, SumChange
  <2> QED
    BY <2>2 DEF Exchanged
<1>8. f[j] = Total(qs[j], w) /\ g[j] = Total(q, w)
  BY <1>1, <1>3, <1>6
<1>9. Load(qs, w) = Sum(f, n) /\ Load(rs, w) = Sum(g, n)
  BY <1>2 DEF Load, f, g, n
<1> QED
  BY <1>2, <1>7, <1>8, <1>9 DEF rs, n

\* A new socket is empty, and so is a host without sockets.
LEMMA LoadNew ==
  ASSUME NEW B, NEW qs \in Seq(Seq(B)), NEW w \in [B -> Nat]
  PROVE  /\ Append(qs, <<>>) \in Seq(Seq(B))
         /\ Load(Append(qs, <<>>), w) = Load(qs, w)
         /\ Load(<<>>, w) = 0
<1> DEFINE rs == Append(qs, <<>>)
           f == [i \in DOMAIN qs |-> Total(qs[i], w)]
           g == [i \in DOMAIN rs |-> Total(rs[i], w)]
           z == [i \in DOMAIN <<>> |-> Total(<<>>[i], w)]
           n == Len(qs)
           m == n + 1
<1>1. /\ n \in Nat /\ DOMAIN qs = 1 .. n /\ DOMAIN rs = 1 .. m /\ Len(rs) = m
      /\ rs[m] = <<>> /\ \A i \in 1 .. n : rs[i] = qs[i]
      /\ <<>> \in Seq(B) /\ rs \in Seq(Seq(B))
  OBVIOUS
<1> HIDE DEF rs
<1>2. /\ \A i \in 1 .. n : f[i] = Total(qs[i], w) /\ g[i] = f[i]
      /\ g[m] = 0
  <2>1. Total(<<>>, w) = 0
    BY TotalNone
  <2> QED
    BY <1>1, <2>1
<1> HIDE DEF f, g
<1>3. \A i \in 1 .. n : f[i] \in Nat
  <2>1. \A i \in 1 .. n : qs[i] \in Seq(B)
    BY <1>1
  <2> QED
    BY <1>2, <2>1, TotalType
<1>4. Sum(g, n) = Sum(f, n) /\ Sum(f, n) \in Nat
  <2>1. \A i \in 1 .. n : f[i] \in Nat /\ g[i] = f[i]
    BY <1>2, <1>3
  <2> HIDE DEF n
  <2> QED
    BY <1>1, <2>1, SumAgree, SumType
<1>5. Sum(g, m) = Sum(g, n) + g[m]
  <2>1. m \in Nat /\ m # 0 /\ m - 1 = n
    BY <1>1
  <2>2. \A i \in 1 .. m : g[i] \in Nat
    <3>1. \A i \in 1 .. m : i = m \/ i \in 1 .. n
      BY <1>1
    <3> QED
      BY <1>2, <1>3, <3>1
  <2> HIDE DEF m, n
  <2>3. Sum(g, m) = Sum(g, m - 1) + g[m]
    BY <2>1, <2>2, SumLast
  <2> QED
    BY <2>1, <2>3
<1>6. Load(rs, w) = Load(qs, w)
  BY <1>1, <1>2, <1>4, <1>5 DEF Load, f, g
<1>7. Load(<<>>, w) = 0
  <2>1. Sum(z, 0) = 0
    <3> HIDE DEF z
    <3> QED
      BY SumLast
  <2>2. Len(<<>>) = 0
    OBVIOUS
  <2> QED
    BY <2>1, <2>2 DEF Load
<1> QED
  BY <1>1, <1>6, <1>7 DEF rs

\* So does what all sockets hold.
LEMMA CarryType ==
  ASSUME NEW B, NEW queues \in [Hosts -> Seq(Seq(B))], NEW w \in [B -> Nat]
  PROVE  Carry(queues, w) \in Nat
<1>1. \A h \in Hosts : Load(queues[h], w) \in Nat
  BY LoadType
<1> QED
  BY <1>1 DEF Carry, Hosts

\* The sockets of one host become others.
HostSwapped(queues, w, h, qs) ==
  Carry([queues EXCEPT ![h] = qs], w) + Load(queues[h], w)
    = Carry(queues, w) + Load(qs, w)

\* Only that host counts in the difference.
LEMMA CarryHost ==
  ASSUME NEW B, NEW queues \in [Hosts -> Seq(Seq(B))], NEW w \in [B -> Nat],
         NEW h \in Hosts, NEW qs \in Seq(Seq(B))
  PROVE  /\ [queues EXCEPT ![h] = qs] \in [Hosts -> Seq(Seq(B))]
         /\ HostSwapped(queues, w, h, qs)
<1> DEFINE L(g) == Load(queues[g], w)
           M(g) == Load([queues EXCEPT ![h] = qs][g], w)
<1>1. \A g \in Hosts : L(g) \in Nat
  BY LoadType
<1>2. Load(qs, w) \in Nat
  BY LoadType
<1>3. \A g \in Hosts : M(g) = IF g = h THEN Load(qs, w) ELSE L(g)
  OBVIOUS
<1>4. /\ Carry(queues, w) = L(1) + L(2) + L(3)
      /\ Carry([queues EXCEPT ![h] = qs], w) = M(1) + M(2) + M(3)
  BY DEF Carry
<1>5. h \in {1, 2, 3} /\ Hosts = {1, 2, 3}
  BY DEF Hosts
<1>6. [queues EXCEPT ![h] = qs] \in [Hosts -> Seq(Seq(B))]
  OBVIOUS
<1> HIDE DEF L, M
<1>7. Carry([queues EXCEPT ![h] = qs], w) + L(h) = Carry(queues, w) + Load(qs, w)
  <2>1. /\ L(1) \in Nat /\ L(2) \in Nat /\ L(3) \in Nat
        /\ M(1) = IF h = 1 THEN Load(qs, w) ELSE L(1)
        /\ M(2) = IF h = 2 THEN Load(qs, w) ELSE L(2)
        /\ M(3) = IF h = 3 THEN Load(qs, w) ELSE L(3)
    BY <1>1, <1>3, <1>5
  <2>2. CASE h = 1
    BY <1>2, <1>4, <2>1, <2>2
  <2>3. CASE h = 2
    BY <1>2, <1>4, <2>1, <2>3
  <2>4. CASE h = 3
    BY <1>2, <1>4, <2>1, <2>4
  <2> QED
    BY <1>5, <2>2, <2>3, <2>4
<1> QED
  BY <1>6, <1>7 DEF L, HostSwapped

\* One queue of one host becomes another.
QueueSwapped(queues, w, h, j, q) ==
  Carry([queues EXCEPT ![h][j] = q], w) + Total(queues[h][j], w)
    = Carry(queues, w) + Total(q, w)

\* Only that queue counts in the difference.
LEMMA CarryPut ==
  ASSUME NEW B, NEW queues \in [Hosts -> Seq(Seq(B))], NEW w \in [B -> Nat],
         NEW h \in Hosts, NEW j \in DOMAIN queues[h], NEW q \in Seq(B)
  PROVE  /\ [queues EXCEPT ![h][j] = q] \in [Hosts -> Seq(Seq(B))]
         /\ \A g \in Hosts : Len([queues EXCEPT ![h][j] = q][g]) = Len(queues[g])
         /\ QueueSwapped(queues, w, h, j, q)
<1> DEFINE qs == [queues[h] EXCEPT ![j] = q]
<1>1. queues[h] \in Seq(Seq(B)) /\ queues[h][j] \in Seq(B)
  OBVIOUS
<1>2. /\ qs \in Seq(Seq(B)) /\ Len(qs) = Len(queues[h])
      /\ Load(qs, w) + Total(queues[h][j], w) = Load(queues[h], w) + Total(q, w)
  BY <1>1, LoadPut
<1>3. [queues EXCEPT ![h][j] = q] = [queues EXCEPT ![h] = qs]
  OBVIOUS
<1> HIDE DEF qs
<1>4. /\ [queues EXCEPT ![h] = qs] \in [Hosts -> Seq(Seq(B))]
      /\ Carry([queues EXCEPT ![h] = qs], w) + Load(queues[h], w)
           = Carry(queues, w) + Load(qs, w)
  <2>1. qs \in Seq(Seq(B))
    BY <1>2
  <2>2. [queues EXCEPT ![h] = qs] \in [Hosts -> Seq(Seq(B))]
        /\ HostSwapped(queues, w, h, qs)
    BY <2>1, CarryHost
  <2> QED
    BY <2>2 DEF HostSwapped
<1>5. /\ Load(queues[h], w) \in Nat /\ Load(qs, w) \in Nat
      /\ Total(queues[h][j], w) \in Nat /\ Total(q, w) \in Nat
  BY <1>1, <1>2, LoadType, TotalType
<1>6. Carry(queues, w) \in Nat /\ Carry([queues EXCEPT ![h] = qs], w) \in Nat
  BY <1>4, CarryType
<1>7. Carry([queues EXCEPT ![h] = qs], w) + Total(queues[h][j], w)
        = Carry(queues, w) + Total(q, w)
  <2> DEFINE a == Carry([queues EXCEPT ![h] = qs], w)
             b == Carry(queues, w)
             c == Load(queues[h], w)
             d == Load(qs, w)
             e == Total(queues[h][j], w)
             f == Total(q, w)
  <2>1. /\ a \in Nat /\ b \in Nat /\ c \in Nat /\ d \in Nat /\ e \in Nat /\ f \in Nat
        /\ d + e = c + f /\ a + c = b + d
    BY <1>2, <1>4, <1>5, <1>6
  <2> HIDE DEF a, b, c, d, e, f
  <2>2. a + e = b + f
    BY <2>1
  <2> QED
    BY <2>2 DEF a, b, e, f
<1>8. \A g \in Hosts : Len([queues EXCEPT ![h] = qs][g]) = Len(queues[g])
  BY <1>2
<1> QED
  BY <1>3, <1>4, <1>7, <1>8 DEF QueueSwapped

\* What the sockets may hold: as many queues as before, none too long.
Boxes(B, n, queues) ==
  {q \in [Hosts -> Seq(Seq(B))] :
     \A g \in Hosts : /\ Len(q[g]) = Len(queues[g])
                      /\ \A i \in DOMAIN q[g] : Len(q[g][i]) <= n}

\* The files lead to sockets that are there.
Directed(h, queues) ==
  /\ out'[h] \in Seq(Path)
  /\ \A p \in Path : file'[p] \in {Nobody} \cup (Hosts \X Nat)
  /\ \A p \in Path : file'[p] # Nobody => file'[p][2] \in 1 .. Len(queues[file'[p][1]])

\* One frame, sent or lost.
LEMMA SendtoKeeps ==
  ASSUME NEW h \in Hosts, NEW B, NEW n \in Nat, space = n, NEW shape,
         NEW queues \in Boxes(B, n, shape), Directed(h, shape),
         NEW tx, tx.ifp \in DOMAIN out'[h], tx.eh \in B,
         NEW w \in [B -> Nat]
  PROVE  /\ sendto(h, queues, tx) \in Boxes(B, n, shape)
         /\ Carry(sendto(h, queues, tx), w) <= Carry(queues, w) + w[tx.eh]
<1> DEFINE to == file'[out'[h][tx.ifp]]
           q == Append(queues[to[1]][to[2]], tx.eh)
           put == [queues EXCEPT ![to[1]][to[2]] = q]
<1>1. queues \in [Hosts -> Seq(Seq(B))] /\ Carry(queues, w) \in Nat /\ w[tx.eh] \in Nat
  <2>1. queues \in [Hosts -> Seq(Seq(B))]
    BY DEF Boxes
  <2>2. Carry(queues, w) \in Nat
    BY <2>1, CarryType
  <2>3. w[tx.eh] \in Nat
    OBVIOUS
  <2> QED
    BY <2>1, <2>2, <2>3
<1>2. out'[h][tx.ifp] \in Path
  BY DEF Directed
<1>3. CASE to = Nobody \/ Len(queues[to[1]][to[2]]) >= space
  <2>1. sendto(h, queues, tx) = queues
    BY <1>3 DEF sendto
  <2> QED
    BY <1>1, <2>1
<1>4. CASE ~ (to = Nobody \/ Len(queues[to[1]][to[2]]) >= space)
  <2>1. sendto(h, queues, tx) = put
    BY <1>4 DEF sendto
  <2>2. to \in Hosts \X Nat /\ to[2] \in 1 .. Len(shape[to[1]])
    BY <1>2, <1>4 DEF Directed
  <2> HIDE DEF to
  <2>3. to[1] \in Hosts /\ to[2] \in DOMAIN queues[to[1]]
    <3>1. to[1] \in Hosts /\ Len(queues[to[1]]) = Len(shape[to[1]])
      BY <2>2 DEF Boxes
    <3> QED
      BY <1>1, <2>2, <3>1
  <2>4. queues[to[1]][to[2]] \in Seq(B)
    BY <1>1, <2>3
  <2>5. /\ q \in Seq(B) /\ Len(q) = Len(queues[to[1]][to[2]]) + 1
        /\ Len(queues[to[1]][to[2]]) \in Nat
    BY <2>4
  <2>6. Total(q, w) = Total(queues[to[1]][to[2]], w) + w[tx.eh]
        /\ Total(queues[to[1]][to[2]], w) \in Nat
    BY <2>4, TotalAppend, TotalType
  <2> HIDE DEF q
  <2>7. /\ put \in [Hosts -> Seq(Seq(B))]
        /\ \A g \in Hosts : Len(put[g]) = Len(queues[g])
        /\ QueueSwapped(queues, w, to[1], to[2], q)
    BY <1>1, <2>3, <2>5, CarryPut
  <2>8. Carry(put, w) <= Carry(queues, w) + w[tx.eh]
    <3>1. Carry(put, w) \in Nat
      BY <2>7, CarryType
    <3>2. Carry(put, w) + Total(queues[to[1]][to[2]], w) = Carry(queues, w) + Total(q, w)
      BY <2>7 DEF QueueSwapped
    <3> DEFINE a == Carry(put, w)
               b == Carry(queues, w)
               c == Total(queues[to[1]][to[2]], w)
               d == w[tx.eh]
               e == Total(q, w)
    <3>3. /\ a \in Nat /\ b \in Nat /\ c \in Nat /\ d \in Nat
          /\ a + c = b + e /\ e = c + d
      BY <1>1, <2>6, <3>1, <3>2
    <3> HIDE DEF a, b, c, d, e
    <3>4. a <= b + d
      BY <3>3
    <3> QED
      BY <3>4 DEF a, b, d
  <2>9. ASSUME NEW g \in Hosts, NEW i \in DOMAIN put[g]
        PROVE  Len(put[g][i]) <= n
    <3>1. i \in DOMAIN queues[g] /\ Len(queues[g][i]) <= n
      BY DEF Boxes
    <3>2. put[g][i] = IF g = to[1] /\ i = to[2] THEN q ELSE queues[g][i]
      BY <1>1, <2>3, <3>1
    <3>3. Len(q) <= n
      <4> HIDE DEF put
      <4>1. ~ (Len(queues[to[1]][to[2]]) >= n)
        BY <1>4 DEF to
      <4> QED
        BY <2>5, <4>1
    <3> QED
      BY <3>1, <3>2, <3>3
  <2>10. put \in Boxes(B, n, shape)
    <3> HIDE DEF put
    <3> QED
      BY <2>7, <2>9 DEF Boxes
  <2> QED
    BY <2>1, <2>8, <2>10
<1> QED
  BY <1>3, <1>4

\* All the frames of an event.
LEMMA SendAllKeeps ==
  ASSUME NEW h \in Hosts, NEW B, NEW n \in Nat, space = n,
         NEW queues, queues \in Boxes(B, n, queues), Directed(h, queues),
         NEW T, sent' \in Seq(T), \A tx \in T : tx.ifp \in DOMAIN out'[h] /\ tx.eh \in B,
         NEW w \in [B -> Nat], SendAll(h, queues)
  PROVE  /\ sock' \in Boxes(B, n, queues)
         /\ Carry(sock', w) <= Carry(queues, w)
                                + Sum([i \in DOMAIN sent' |-> w[sent'[i].eh]], Len(sent'))
<1> DEFINE N == Len(sent')
           R == Boxes(B, n, queues)
           Step(q, k) == sendto(h, q, sent'[k])
           Eqn(s) == s = [k \in 0 .. N |-> IF k = 0 THEN queues ELSE Step(s[k - 1], k)]
           A == CHOOSE s : Eqn(s)
           step == [x \in R \X (1 .. N) |-> Step(x[1], x[2])]
           f == [i \in DOMAIN sent' |-> w[sent'[i].eh]]
<1>1. N \in Nat /\ queues \in R
  OBVIOUS
<1>2. ASSUME NEW k \in 1 .. N
      PROVE  /\ sent'[k].ifp \in DOMAIN out'[h] /\ sent'[k].eh \in B
             /\ f[k] = w[sent'[k].eh] /\ f[k] \in Nat
  <2>1. sent'[k] \in T /\ k \in DOMAIN sent'
    OBVIOUS
  <2>2. sent'[k].ifp \in DOMAIN out'[h] /\ sent'[k].eh \in B
    BY <2>1
  <2> QED
    BY <2>1, <2>2
<1>3. ASSUME NEW q \in R, NEW k \in 1 .. N
      PROVE  /\ Step(q, k) \in R
             /\ Carry(Step(q, k), w) <= Carry(q, w) + f[k]
  <2> DEFINE tx == sent'[k]
  <2>1. tx.ifp \in DOMAIN out'[h] /\ tx.eh \in B /\ f[k] = w[tx.eh]
    BY <1>2
  <2> HIDE DEF tx, f
  <2>2. /\ sendto(h, q, tx) \in R
        /\ Carry(sendto(h, q, tx), w) <= Carry(q, w) + w[tx.eh]
    BY <2>1, SendtoKeeps
  <2> QED
    BY <2>1, <2>2 DEF tx
<1>4. sock' = A[N]
  BY DEF SendAll
<1> HIDE DEF Step, R, N, f
<1>5. step \in [R \X (1 .. N) -> R]
  <2>1. ASSUME NEW x \in R \X (1 .. N)
        PROVE  Step(x[1], x[2]) \in R
    BY <1>3
  <2> QED
    BY <2>1
<1>6. \E s : Eqn(s)
  <2>1. PICK s \in [0 .. N -> R] : Solves(s, N, queues, step)
    <3> HIDE DEF step
    <3> QED
      BY <1>1, <1>5, IntervalRecursion
  <2>2. ASSUME NEW k \in 0 .. N, k # 0
        PROVE  step[<<s[k - 1], k>>] = Step(s[k - 1], k)
    <3>1. k \in 1 .. N /\ k - 1 \in 0 .. N
      BY <1>1, <2>2
    <3>2. <<s[k - 1], k>> \in R \X (1 .. N)
      BY <3>1
    <3> QED
      BY <3>2
  <2> HIDE DEF step
  <2>3. Eqn(s)
    BY <2>1, <2>2 DEF Solves
  <2> QED
    BY <2>3
<1>7. Eqn(A)
  <2> HIDE DEF Eqn
  <2> QED
    BY <1>6
<1>8. A[0] = queues /\ \A k \in 1 .. N : A[k] = Step(A[k - 1], k)
  <2> HIDE DEF A
  <2> QED
    BY <1>1, <1>7
<1> HIDE DEF A
<1>9. ASSUME NEW q \in R
      PROVE  Carry(q, w) \in Nat
  <2>1. q \in [Hosts -> Seq(Seq(B))]
    BY DEF Boxes, R
  <2> QED
    BY <2>1, CarryType
<1> DEFINE good(k) == A[k] \in R /\ Carry(A[k], w) <= Carry(queues, w) + Sum(f, k)
           mark == [k \in 0 .. N |-> IF good(k) THEN 1 ELSE 0]
           One == {1}
<1>10. mark[0] \in One
  <2>1. Sum(f, 0) = 0
    BY SumLast
  <2>2. good(0)
    BY <1>1, <1>8, <1>9, <2>1
  <2> HIDE DEF good
  <2> QED
    BY <1>1, <2>2
<1>11. ASSUME NEW k \in 1 .. N, mark[k - 1] \in One
       PROVE  mark[k] \in One
  <2>1. good(k - 1)
    <3>1. k - 1 \in 0 .. N
      BY <1>1
    <3> HIDE DEF good
    <3> QED
      BY <1>11, <3>1
  <2>2. A[k] = Step(A[k - 1], k)
    BY <1>8
  <2>3. /\ A[k] \in R
        /\ Carry(A[k], w) <= Carry(A[k - 1], w) + f[k]
    BY <1>3, <2>1, <2>2
  <2>4. Sum(f, k) = Sum(f, k - 1) + f[k] /\ Sum(f, k - 1) \in Nat /\ f[k] \in Nat
    <3>1. /\ k \in Nat /\ k # 0 /\ k - 1 \in Nat
          /\ \A i \in 1 .. k : i \in 1 .. N
          /\ \A i \in 1 .. k - 1 : i \in 1 .. N
      BY <1>1
    <3>2. /\ \A i \in 1 .. k : f[i] \in Nat
          /\ \A i \in 1 .. k - 1 : f[i] \in Nat
      BY <1>2, <3>1
    <3> QED
      BY <1>2, <3>1, <3>2, SumLast, SumType
  <2>5. Carry(A[k], w) \in Nat /\ Carry(A[k - 1], w) \in Nat /\ Carry(queues, w) \in Nat
    BY <1>1, <1>9, <2>1, <2>3
  <2>6. good(k)
    BY <2>1, <2>3, <2>4, <2>5
  <2> HIDE DEF good
  <2> QED
    BY <1>1, <2>6
<1>12. mark[N] \in One
  <2> HIDE DEF mark, One
  <2> QED
    BY <1>1, <1>10, <1>11, IntervalInduction
<1>13. good(N)
  <2> HIDE DEF good
  <2> QED
    BY <1>1, <1>12
<1> QED
  BY <1>4, <1>13 DEF R, N, f

-----------------------------------------------------------------------------
\* The steps of the network are events of one host.

\* The other hosts do nothing.
Others(h) ==
  \A g \in Hosts : g # h =>
    /\ ifs'[g] = ifs[g] /\ flags'[g] = flags[g] /\ mactable'[g] = mactable[g]
    /\ arptable'[g] = arptable[g] /\ sbuf'[g] = sbuf[g] /\ rib'[g] = rib[g]
    /\ fib_n'[g] = fib_n[g] /\ fib'[g] = fib[g]

\* The variables of the other hosts are unchanged in every event.
LEMMA OthersIdle ==
  /\ UNCHANGED <<host2, host3>> => Others(1)
  /\ UNCHANGED <<host1, host3>> => Others(2)
  /\ UNCHANGED <<host1, host2>> => Others(3)
BY DEF Others, Hosts, host1, host2, host3, ifs, flags, mactable, arptable, sbuf, rib,
   fib_n, fib

\* A frame is taken from a socket.
LEMMA ReceiveIs ==
  ASSUME NEW h \in Hosts, NEW ifp, Receive(h, ifp)
  PROVE  /\ ifp <= Len(sock[h]) /\ sock[h][ifp] # <<>>
         /\ At(h)!Recv(ifp, Head(sock[h][ifp])) /\ Others(h)
         /\ UNCHANGED <<script, file, out>>
         /\ SendAll(h, [sock EXCEPT ![h][ifp] = Tail(@)])
<1> DEFINE eh == Head(sock[h][ifp])
<1>1. /\ ifp <= Len(sock[h]) /\ sock[h][ifp] # <<>>
      /\ \/ h = 1 /\ H1!Recv(ifp, eh) /\ UNCHANGED <<host2, host3>>
         \/ h = 2 /\ H2!Recv(ifp, eh) /\ UNCHANGED <<host1, host3>>
         \/ h = 3 /\ H3!Recv(ifp, eh) /\ UNCHANGED <<host1, host2>>
      /\ UNCHANGED <<script, file, out>>
      /\ SendAll(h, [sock EXCEPT ![h][ifp] = Tail(@)])
  BY DEF Receive
<1> HIDE DEF eh
<1>2. CASE h = 1 /\ H1!Recv(ifp, eh) /\ UNCHANGED <<host2, host3>>
  <2>1. At(1)!Recv(ifp, eh) /\ Others(1)
    BY <1>2, OthersIdle, RecvBridgedAt, RecvIpAt, RecvRequestAt, RecvReplyAt, RecvOtherAt
       DEF H1!Recv, At!Recv
  <2> QED
    BY <1>1, <1>2, <2>1 DEF eh
<1>3. CASE h = 2 /\ H2!Recv(ifp, eh) /\ UNCHANGED <<host1, host3>>
  <2>1. At(2)!Recv(ifp, eh) /\ Others(2)
    BY <1>3, OthersIdle, RecvBridgedAt, RecvIpAt, RecvRequestAt, RecvReplyAt, RecvOtherAt
       DEF H2!Recv, At!Recv
  <2> QED
    BY <1>1, <1>3, <2>1 DEF eh
<1>4. CASE h = 3 /\ H3!Recv(ifp, eh) /\ UNCHANGED <<host1, host2>>
  <2>1. At(3)!Recv(ifp, eh) /\ Others(3)
    BY <1>4, OthersIdle, RecvBridgedAt, RecvIpAt, RecvRequestAt, RecvReplyAt, RecvOtherAt
       DEF H3!Recv, At!Recv
  <2> QED
    BY <1>1, <1>4, <2>1 DEF eh
<1> QED
  BY <1>1, <1>2, <1>3, <1>4

\* A command is the next line of the script.
LEMMA TypedIs ==
  ASSUME NEW h \in Hosts, NEW kind, Typed(h, kind), script \in [Hosts -> Seq(Command)]
  PROVE  /\ Head(script[h]) \in Command /\ Head(script[h]).cmd = kind
         /\ script' \in [Hosts -> Seq(Command)]
<1>1. /\ script[h] # <<>> /\ Head(script[h]).cmd = kind
      /\ script' = [script EXCEPT ![h] = Tail(@)]
  BY DEF Typed
<1>2. Head(script[h]) \in Command /\ Tail(script[h]) \in Seq(Command)
  BY <1>1
<1> QED
  BY <1>1, <1>2

\* What the lines of each kind hold.
LEMMA CommandFields ==
  ASSUME NEW c \in Command
  PROVE  /\ c.cmd = "create" => /\ c.card \in H1!Card /\ c.card.mac \notin {BROADCAST, ZeroMac}
                                /\ c.in \in Path /\ c.out \in Path
         /\ c.cmd = "tcp" => c.dst \in Addr
         /\ c.cmd = "route" => c.dst \in H1!Prefix /\ c.next \in Addr
         /\ c.cmd = "fwdctl" => c.flags \in [l2 : BOOLEAN, l3 : BOOLEAN]
BY DEF Command, Addr

\* create is typed.
LEMMA CreateIs ==
  ASSUME NEW h \in Hosts, TypeCreate(h)
  PROVE  /\ At(h)!Create(Head(script[h]).card) /\ Others(h) /\ bind(h, Head(script[h]))
         /\ Typed(h, "create")
<1> DEFINE c == Head(script[h])
<1>1. /\ \/ h = 1 /\ H1!Create(c.card) /\ UNCHANGED <<host2, host3>>
         \/ h = 2 /\ H2!Create(c.card) /\ UNCHANGED <<host1, host3>>
         \/ h = 3 /\ H3!Create(c.card) /\ UNCHANGED <<host1, host2>>
      /\ bind(h, c) /\ Typed(h, "create")
  BY DEF TypeCreate
<1> HIDE DEF c
<1>2. At(h)!Create(c.card) /\ Others(h)
  <2>1. CASE h = 1 /\ H1!Create(c.card) /\ UNCHANGED <<host2, host3>>
    BY <2>1, OthersIdle, CreateAt
  <2>2. CASE h = 2 /\ H2!Create(c.card) /\ UNCHANGED <<host1, host3>>
    BY <2>2, OthersIdle, CreateAt
  <2>3. CASE h = 3 /\ H3!Create(c.card) /\ UNCHANGED <<host1, host2>>
    BY <2>3, OthersIdle, CreateAt
  <2> QED
    BY <1>1, <2>1, <2>2, <2>3
<1> QED
  BY <1>1, <1>2 DEF c

\* tcp is typed, with an interface that exists.
LEMMA TcpIs ==
  ASSUME NEW h \in Hosts, TypeTcp(h)
  PROVE  /\ At(h)!Tcp(Head(script[h]).ifp, Head(script[h]).dst) /\ Others(h)
         /\ Head(script[h]).ifp \in DOMAIN ifs[h]
         /\ Typed(h, "tcp") /\ UNCHANGED <<file, out>> /\ SendAll(h, sock)
<1> DEFINE c == Head(script[h])
<1>1. /\ \/ h = 1 /\ H1!Tcp(c.ifp, c.dst) /\ UNCHANGED <<host2, host3>>
         \/ h = 2 /\ H2!Tcp(c.ifp, c.dst) /\ UNCHANGED <<host1, host3>>
         \/ h = 3 /\ H3!Tcp(c.ifp, c.dst) /\ UNCHANGED <<host1, host2>>
      /\ c.ifp \in DOMAIN ifs[h]
      /\ Typed(h, "tcp") /\ UNCHANGED <<file, out>> /\ SendAll(h, sock)
  BY DEF TypeTcp, find_if
<1> HIDE DEF c
<1>2. At(h)!Tcp(c.ifp, c.dst) /\ Others(h)
  <2>1. CASE h = 1 /\ H1!Tcp(c.ifp, c.dst) /\ UNCHANGED <<host2, host3>>
    BY <2>1, OthersIdle, TcpAt
  <2>2. CASE h = 2 /\ H2!Tcp(c.ifp, c.dst) /\ UNCHANGED <<host1, host3>>
    BY <2>2, OthersIdle, TcpAt
  <2>3. CASE h = 3 /\ H3!Tcp(c.ifp, c.dst) /\ UNCHANGED <<host1, host2>>
    BY <2>3, OthersIdle, TcpAt
  <2> QED
    BY <1>1, <2>1, <2>2, <2>3
<1> QED
  BY <1>1, <1>2 DEF c

\* fwdctl is typed.
LEMMA FwdctlIs ==
  ASSUME NEW h \in Hosts, TypeFwdctl(h)
  PROVE  /\ At(h)!Fwdctl(Head(script[h]).flags) /\ Others(h)
         /\ Typed(h, "fwdctl") /\ UNCHANGED medium
<1> DEFINE c == Head(script[h])
<1>1. /\ \/ h = 1 /\ H1!Fwdctl(c.flags) /\ UNCHANGED <<host2, host3>>
         \/ h = 2 /\ H2!Fwdctl(c.flags) /\ UNCHANGED <<host1, host3>>
         \/ h = 3 /\ H3!Fwdctl(c.flags) /\ UNCHANGED <<host1, host2>>
      /\ Typed(h, "fwdctl") /\ UNCHANGED medium
  BY DEF TypeFwdctl
<1> HIDE DEF c
<1>2. At(h)!Fwdctl(c.flags) /\ Others(h)
  <2>1. CASE h = 1 /\ H1!Fwdctl(c.flags) /\ UNCHANGED <<host2, host3>>
    BY <2>1, OthersIdle, FwdctlAt
  <2>2. CASE h = 2 /\ H2!Fwdctl(c.flags) /\ UNCHANGED <<host1, host3>>
    BY <2>2, OthersIdle, FwdctlAt
  <2>3. CASE h = 3 /\ H3!Fwdctl(c.flags) /\ UNCHANGED <<host1, host2>>
    BY <2>3, OthersIdle, FwdctlAt
  <2> QED
    BY <1>1, <2>1, <2>2, <2>3
<1> QED
  BY <1>1, <1>2 DEF c

\* route is typed, with an interface that exists.
LEMMA RouteIs ==
  ASSUME NEW h \in Hosts, TypeRoute(h)
  PROVE  /\ At(h)!RouteAdd(Head(script[h]).ifp, Head(script[h])) /\ Others(h)
         /\ Head(script[h]).ifp \in DOMAIN ifs[h]
         /\ Typed(h, "route") /\ UNCHANGED medium
<1> DEFINE c == Head(script[h])
<1>1. /\ \/ h = 1 /\ H1!RouteAdd(c.ifp, c) /\ UNCHANGED <<host2, host3>>
         \/ h = 2 /\ H2!RouteAdd(c.ifp, c) /\ UNCHANGED <<host1, host3>>
         \/ h = 3 /\ H3!RouteAdd(c.ifp, c) /\ UNCHANGED <<host1, host2>>
      /\ c.ifp \in DOMAIN ifs[h]
      /\ Typed(h, "route") /\ UNCHANGED medium
  BY DEF TypeRoute, find_if
<1> HIDE DEF c
<1>2. At(h)!RouteAdd(c.ifp, c) /\ Others(h)
  <2>0. /\ H1!RouteAdd(c.ifp, c) => At(1)!RouteAdd(c.ifp, c)
        /\ H2!RouteAdd(c.ifp, c) => At(2)!RouteAdd(c.ifp, c)
        /\ H3!RouteAdd(c.ifp, c) => At(3)!RouteAdd(c.ifp, c)
    BY DEF ifs, flags, mactable, arptable, sbuf, rib, fib_n, fib, At!RouteAdd,
       H1!RouteAdd, H2!RouteAdd, H3!RouteAdd, At!route_add, H1!route_add,
       H2!route_add, H3!route_add
  <2>1. CASE h = 1 /\ H1!RouteAdd(c.ifp, c) /\ UNCHANGED <<host2, host3>>
    BY <2>0, <2>1, OthersIdle
  <2>2. CASE h = 2 /\ H2!RouteAdd(c.ifp, c) /\ UNCHANGED <<host1, host3>>
    BY <2>0, <2>2, OthersIdle
  <2>3. CASE h = 3 /\ H3!RouteAdd(c.ifp, c) /\ UNCHANGED <<host1, host2>>
    BY <2>0, <2>3, OthersIdle
  <2> QED
    BY <1>1, <2>1, <2>2, <2>3
<1> QED
  BY <1>1, <1>2 DEF c

\* exit is typed.
LEMMA ExitIs ==
  ASSUME NEW h \in Hosts, TypeExit(h)
  PROVE  At(h)!Restart /\ Others(h) /\ Typed(h, "exit") /\ close(h)
<1>1. /\ \/ h = 1 /\ H1!Restart /\ UNCHANGED <<host2, host3>>
         \/ h = 2 /\ H2!Restart /\ UNCHANGED <<host1, host3>>
         \/ h = 3 /\ H3!Restart /\ UNCHANGED <<host1, host2>>
      /\ Typed(h, "exit") /\ close(h)
  BY DEF TypeExit
<1>2. CASE h = 1 /\ H1!Restart /\ UNCHANGED <<host2, host3>>
  BY <1>1, <1>2, OthersIdle, RestartAt
<1>3. CASE h = 2 /\ H2!Restart /\ UNCHANGED <<host1, host3>>
  BY <1>1, <1>3, OthersIdle, RestartAt
<1>4. CASE h = 3 /\ H3!Restart /\ UNCHANGED <<host1, host2>>
  BY <1>1, <1>4, OthersIdle, RestartAt
<1> QED
  BY <1>1, <1>2, <1>3, <1>4

\* tcp or route without the interface: nothing happens at any host.
LEMMA RefusedIs ==
  ASSUME NEW h \in Hosts, TypeRefused(h)
  PROVE  /\ Others(1) /\ Others(2) /\ Others(3) /\ UNCHANGED medium
         /\ sent' = <<>> /\ delivered' = <<>> /\ rx' \in H1!Event
         /\ Typed(h, "tcp") \/ Typed(h, "route")
BY OthersIdle DEF TypeRefused, H1!Event

-----------------------------------------------------------------------------
\* What holds of the network.

\* The files and the sockets.
MediumOK(own) ==
  /\ space \in Nat
  /\ sock \in Boxes(Truthful(own), space, sock)
  /\ file \in [Path -> {Nobody} \cup (Hosts \X Nat)]
  /\ \A p \in Path : file[p] # Nobody => file[p][2] \in 1 .. Len(sock[file[p][1]])
  /\ out \in [Hosts -> Seq(Path)]
  /\ \A h \in Hosts : Len(out[h]) = Len(ifs[h]) /\ Len(sock[h]) = Len(ifs[h])

\* The last event.
LastOK ==
  /\ sent \in Seq(H1!Transmission) /\ delivered \in Seq(H1!IpPacket)
  /\ rx \in H1!Event

\* A network in order.
NetOK(own) ==
  /\ \A h \in Hosts : HostOK(h, own)
  /\ MediumOK(own) /\ LastOK
  /\ script \in [Hosts -> Seq(Command)]

\* What the packets in the sockets and in the send buffers weigh.
Stored(v) ==
  Total(sbuf[1], InBuffer(v)) + Total(sbuf[2], InBuffer(v)) + Total(sbuf[3], InBuffer(v))
Burden(v, c) == Carry(sock, OnLink(v, c)) + Stored(v)

\* What the frames of the event use up on their links.
Linking(c) == [tx \in H1!Transmission |-> IF tx.eh.type = "IP" THEN c ELSE 0]

\* Where no bridge makes copies, the step costs no more than was paid.
Pays(v, c, u, paid) ==
  (\A h \in Hosts : NoCopies(h, c)) =>
    Burden(v, c)' + Total(sent', Linking(c)) + Total(delivered', Upward(u))
      <= Burden(v, c) + paid

\* The hosts that do nothing stay as they are.
LEMMA OthersKeep ==
  ASSUME NEW h \in Hosts, NEW own, Others(h),
         \A g \in Hosts : HostOK(g, own), HostOK(h, own)'
  PROVE  \A g \in Hosts : HostOK(g, own)'
<1> SUFFICES ASSUME NEW g \in Hosts, g # h
             PROVE  HostOK(g, own)'
  OBVIOUS
<1>1. /\ ifs'[g] = ifs[g] /\ flags'[g] = flags[g] /\ mactable'[g] = mactable[g]
      /\ arptable'[g] = arptable[g] /\ sbuf'[g] = sbuf[g] /\ rib'[g] = rib[g]
      /\ fib_n'[g] = fib_n[g] /\ fib'[g] = fib[g]
  BY DEF Others
<1>2. HostOK(g, own)
  OBVIOUS
<1> QED
  BY <1>1, <1>2 DEF HostOK, CardsOK, ArpOK, RoutesOK, BridgeOK

\* What is known of the owners stays true in the next state, when more are.
LEMMA HostsGrow ==
  ASSUME NEW own, NEW more, Owners(own), Owners(more),
         \A a \in Addr : own[a] \subseteq more[a],
         NEW h \in Hosts, HostOK(h, own)'
  PROVE  HostOK(h, more)'
<1>1. CardsOK(h, more)'
  <2>1. ASSUME NEW i \in DOMAIN ifs'[h]
        PROVE  ifs'[h][i].addr \in Addr
    <3>1. ifs'[h][i] \in H1!Card
      BY DEF HostOK, CardsOK
    <3> QED
      BY <3>1 DEF H1!Card, Addr
  <2> QED
    BY <2>1 DEF HostOK, CardsOK
<1>2. ArpOK(h, more)'
  BY DEF HostOK, ArpOK, Known
<1> QED
  BY <1>1, <1>2 DEF HostOK

\* What fits among few frames fits among more.
LEMMA BoxesGrow ==
  ASSUME NEW A, NEW B, A \subseteq B, NEW n, NEW shape, NEW q \in Boxes(A, n, shape)
  PROVE  q \in Boxes(B, n, shape)
<1>1. q \in [Hosts -> Seq(Seq(A))]
  BY DEF Boxes
<1>2. \A h \in Hosts : q[h] \in Seq(Seq(B))
  <2> SUFFICES ASSUME NEW h \in Hosts
               PROVE  q[h] \in Seq(Seq(B))
    OBVIOUS
  <2>1. q[h] \in Seq(Seq(A))
    BY <1>1
  <2>2. Seq(A) \subseteq Seq(B)
    OBVIOUS
  <2> QED
    BY <2>1, <2>2
<1> QED
  BY <1>1, <1>2 DEF Boxes

\* The sockets, too, stay in order when there are more owners.
LEMMA MediumGrows ==
  ASSUME NEW own, NEW more, Owners(own), Owners(more),
         \A a \in Addr : own[a] \subseteq more[a], MediumOK(own)'
  PROVE  MediumOK(more)'
<1>1. Truthful(own) \subseteq Truthful(more)
  BY OwnersGrow
<1>2. sock' \in Boxes(Truthful(own), space', sock')
  BY DEF MediumOK
<1>3. sock' \in Boxes(Truthful(more), space', sock')
  BY <1>1, <1>2, BoxesGrow
<1> QED
  BY <1>3 DEF MediumOK

\* The weights of the packets that are sent: what the links use up, and the rest.
Split(s, f, g, e) == Total(s, f) = Total(s, g) + Total(s, e)

\* A weight that is the sum of two gives a total that is.
LEMMA TotalSplit ==
  ASSUME NEW B, NEW s \in Seq(B),
         NEW f \in [B -> Nat], NEW g \in [B -> Nat], NEW e \in [B -> Nat],
         \A x \in B : f[x] = g[x] + e[x]
  PROVE  Split(s, f, g, e)
<1> DEFINE F == [i \in DOMAIN s |-> f[s[i]]]
           G == [i \in DOMAIN s |-> g[s[i]]]
           E == [i \in DOMAIN s |-> e[s[i]]]
           N == Len(s)
           same == [k \in 0 .. N |-> IF Sum(F, k) = Sum(G, k) + Sum(E, k) THEN 1 ELSE 0]
           One == {1}
<1>1. /\ N \in Nat
      /\ \A i \in 1 .. N : /\ F[i] \in Nat /\ G[i] \in Nat /\ E[i] \in Nat
                           /\ F[i] = G[i] + E[i]
  OBVIOUS
<1>2. Total(s, f) = Sum(F, N) /\ Total(s, g) = Sum(G, N) /\ Total(s, e) = Sum(E, N)
  BY DEF Total
<1> HIDE DEF F, G, E, N
<1>3. ASSUME NEW k \in 0 .. N
      PROVE  /\ Sum(F, k) \in Nat /\ Sum(G, k) \in Nat /\ Sum(E, k) \in Nat
             /\ Sum(F, 0) = 0 /\ Sum(G, 0) = 0 /\ Sum(E, 0) = 0
             /\ k # 0 => /\ Sum(F, k) = Sum(F, k - 1) + F[k]
                         /\ Sum(G, k) = Sum(G, k - 1) + G[k]
                         /\ Sum(E, k) = Sum(E, k - 1) + E[k]
  <2>1. k \in Nat /\ \A i \in 1 .. k : i \in 1 .. N
    BY <1>1
  <2>2. \A i \in 1 .. k : F[i] \in Nat /\ G[i] \in Nat /\ E[i] \in Nat
    BY <1>1, <2>1
  <2> QED
    BY <2>1, <2>2, SumLast, SumType
<1>4. same[0] \in One
  <2>1. 0 \in 0 .. N
    BY <1>1
  <2> QED
    BY <1>3, <2>1
<1>5. ASSUME NEW k \in 1 .. N, same[k - 1] \in One
      PROVE  same[k] \in One
  <2>1. k \in 0 .. N /\ k - 1 \in 0 .. N /\ k # 0
    BY <1>1
  <2>2. Sum(F, k - 1) = Sum(G, k - 1) + Sum(E, k - 1)
    BY <1>5, <2>1
  <2>3. Sum(F, k) = Sum(G, k) + Sum(E, k)
    <3>1. /\ Sum(F, k) = Sum(F, k - 1) + F[k] /\ Sum(G, k) = Sum(G, k - 1) + G[k]
          /\ Sum(E, k) = Sum(E, k - 1) + E[k]
          /\ Sum(G, k - 1) \in Nat /\ Sum(E, k - 1) \in Nat
      BY <1>3, <2>1
    <3>2. G[k] \in Nat /\ E[k] \in Nat /\ F[k] = G[k] + E[k]
      BY <1>1
    <3> QED
      BY <2>2, <3>1, <3>2
  <2> QED
    BY <2>1, <2>3
<1>6. same[N] \in One
  <2> HIDE DEF same, One
  <2> QED
    BY <1>1, <1>4, <1>5, IntervalInduction
<1>7. Sum(F, N) = Sum(G, N) + Sum(E, N)
  BY <1>1, <1>6
<1> QED
  BY <1>2, <1>7 DEF Split

\* The frames of an event in the sockets.
LEMMA MediumKeeps ==
  ASSUME NEW h \in Hosts, NEW own, Owners(own), CardsOK(h, own),
         NEW v, NEW c, NEW u, Weighing(v, c, u), space \in Nat,
         NEW queues, queues \in Boxes(Truthful(own), space, queues), Directed(h, queues),
         sent' \in Seq(Leaving(h, own)), \A i \in DOMAIN ifs[h] : i \in DOMAIN out'[h],
         SendAll(h, queues)
  PROVE  /\ sock' \in Boxes(Truthful(own), space, queues)
         /\ Carry(sock', OnLink(v, c)) + Total(sent', Linking(c))
              <= Carry(queues, OnLink(v, c)) + Total(sent', Sending(v))
         /\ Carry(sock', OnLink(v, c)) \in Nat /\ Total(sent', Linking(c)) \in Nat
         /\ Carry(queues, OnLink(v, c)) \in Nat /\ Total(sent', Sending(v)) \in Nat
<1> DEFINE w == OnLink(v, c)
           T == Leaving(h, own)
           B == Truthful(own)
           zero == [f \in B |-> 0]
           rest == [tx \in H1!Transmission |-> w[tx.eh]]
<1>1. \A tx \in T : tx.ifp \in DOMAIN out'[h] /\ tx.eh \in B /\ tx.eh \in H1!Frame
  <2>1. \A tx \in T : tx.eh \in B /\ tx.ifp \in DOMAIN ifs[h]
    BY LeavingSent
  <2>2. \A f \in B : f \in H1!Frame
    BY DEF Truthful
  <2> HIDE DEF T, B
  <2> QED
    BY <2>1, <2>2
<1>2. zero \in [B -> Nat] /\ w \in [H1!Frame -> Nat]
  BY WeightTypes
<1>3. queues \in Boxes(H1!Frame, space, queues)
  <2>1. B \subseteq H1!Frame
    BY DEF Truthful
  <2> QED
    BY <2>1, BoxesGrow
<1>4. sent' \in Seq(T) /\ queues \in Boxes(B, space, queues)
  OBVIOUS
<1> HIDE DEF T, B, w, zero
<1>5. sock' \in Boxes(B, space, queues)
  BY <1>1, <1>2, <1>4, SendAllKeeps
<1>6. /\ sock' \in Boxes(H1!Frame, space, queues)
      /\ Carry(sock', w) <= Carry(queues, w)
                             + Sum([i \in DOMAIN sent' |-> w[sent'[i].eh]], Len(sent'))
  BY <1>1, <1>2, <1>3, <1>4, SendAllKeeps
<1>7. sent' \in Seq(H1!Transmission)
  <2>1. T \subseteq H1!Transmission
    BY LeavingSent DEF T
  <2> QED
    BY <1>4, <2>1
<1>8. /\ rest \in [H1!Transmission -> Nat] /\ Linking(c) \in [H1!Transmission -> Nat]
      /\ Sending(v) \in [H1!Transmission -> Nat]
      /\ \A tx \in H1!Transmission : Sending(v)[tx] = rest[tx] + Linking(c)[tx]
  <2>1. \A tx \in H1!Transmission : tx.eh \in H1!Frame
    BY DEF H1!Transmission
  <2>2. \A f \in H1!Frame : f.type = "IP" => f.pl \in H1!IpPacket
    BY DEF H1!Frame
  <2>3. \A p \in H1!IpPacket : v[p] \in Nat /\ v[p] - c + c = v[p]
    BY DEF Weighing
  <2>4. rest \in [H1!Transmission -> Nat]
    BY <1>2, <2>1
  <2>5. c \in Nat
    BY DEF Weighing
  <2>6. Linking(c) \in [H1!Transmission -> Nat]
    BY <2>5 DEF Linking
  <2>7. ASSUME NEW tx \in H1!Transmission
        PROVE  Sending(v)[tx] = rest[tx] + Linking(c)[tx]
    BY <2>1, <2>2, <2>3 DEF Sending, Linking, OnLink, w
  <2> QED
    BY <2>4, <2>6, <2>7, WeightTypes
<1>9. Sum([i \in DOMAIN sent' |-> w[sent'[i].eh]], Len(sent')) = Total(sent', rest)
  <2>1. \A i \in DOMAIN sent' : rest[sent'[i]] = w[sent'[i].eh]
    BY <1>7
  <2>2. [i \in DOMAIN sent' |-> w[sent'[i].eh]] = [i \in DOMAIN sent' |-> rest[sent'[i]]]
    BY <2>1
  <2> QED
    BY <2>2 DEF Total
<1> HIDE DEF rest
<1>10. Total(sent', Sending(v)) = Total(sent', rest) + Total(sent', Linking(c))
  <2>1. Split(sent', Sending(v), rest, Linking(c))
    BY <1>7, <1>8, TotalSplit
  <2> QED
    BY <2>1 DEF Split
<1>11. /\ Total(sent', rest) \in Nat /\ Total(sent', Linking(c)) \in Nat
       /\ Total(sent', Sending(v)) \in Nat
  BY <1>7, <1>8, TotalType
<1>12. Carry(sock', w) \in Nat /\ Carry(queues, w) \in Nat
  <2>1. /\ sock' \in [Hosts -> Seq(Seq(H1!Frame))]
        /\ queues \in [Hosts -> Seq(Seq(H1!Frame))]
    BY <1>3, <1>6 DEF Boxes
  <2> QED
    BY <1>2, <2>1, CarryType
<1>13. Carry(sock', w) + Total(sent', Linking(c)) <= Carry(queues, w) + Total(sent', Sending(v))
  BY <1>6, <1>9, <1>10, <1>11, <1>12
<1> QED
  BY <1>5, <1>11, <1>12, <1>13 DEF w, B

-----------------------------------------------------------------------------
\* Every step keeps the network in order, and pays for what it does.

\* One host's buffer changes.
SwapStored(v, h) ==
  Stored(v)' + Total(sbuf[h], InBuffer(v)) = Stored(v) + Total(sbuf'[h], InBuffer(v))

\* Only the buffer of the host of the event counts in the difference.
LEMMA StoredKeeps ==
  ASSUME NEW h \in Hosts, Others(h), NEW v, NEW c, NEW u, Weighing(v, c, u),
         \A g \in Hosts : sbuf[g] \in Seq(H1!SendBuf),
         \A g \in Hosts : sbuf'[g] \in Seq(H1!SendBuf)
  PROVE  /\ SwapStored(v, h) /\ Stored(v) \in Nat /\ Stored(v)' \in Nat
         /\ \A g \in Hosts : /\ Total(sbuf[g], InBuffer(v)) \in Nat
                             /\ Total(sbuf'[g], InBuffer(v)) \in Nat
<1> DEFINE L(g) == Total(sbuf[g], InBuffer(v))
           M(g) == Total(sbuf'[g], InBuffer(v))
<1>1. InBuffer(v) \in [H1!SendBuf -> Nat]
  BY WeightTypes
<1>2. \A g \in Hosts : L(g) \in Nat /\ M(g) \in Nat
  BY <1>1, TotalType
<1>3. \A g \in Hosts : g # h => M(g) = L(g)
  BY DEF Others
<1>4. Stored(v) = L(1) + L(2) + L(3) /\ Stored(v)' = M(1) + M(2) + M(3)
  BY DEF Stored, InBuffer
<1>5. h \in {1, 2, 3} /\ Hosts = {1, 2, 3}
  BY DEF Hosts
<1> HIDE DEF L, M
<1>6. /\ L(1) \in Nat /\ L(2) \in Nat /\ L(3) \in Nat
      /\ M(1) \in Nat /\ M(2) \in Nat /\ M(3) \in Nat
      /\ h # 1 => M(1) = L(1)
      /\ h # 2 => M(2) = L(2)
      /\ h # 3 => M(3) = L(3)
  BY <1>2, <1>3, <1>5
<1>7. Stored(v) \in Nat /\ Stored(v)' \in Nat
  <2>1. L(1) + L(2) + L(3) \in Nat
    BY <1>6
  <2>2. M(1) + M(2) + M(3) \in Nat
    BY <1>6
  <2> QED
    BY <1>4, <2>1, <2>2
<1>8. Stored(v)' + L(h) = Stored(v) + M(h)
  <2>1. CASE h = 1
    BY <1>4, <1>6, <2>1
  <2>2. CASE h = 2
    BY <1>4, <1>6, <2>2
  <2>3. CASE h = 3
    BY <1>4, <1>6, <2>3
  <2> QED
    BY <1>5, <2>1, <2>2, <2>3
<1> QED
  BY <1>2, <1>7, <1>8 DEF SwapStored, L, M

\* An outcome, and its frames in the sockets.
LEMMA OutcomePays ==
  ASSUME NEW h \in Hosts, NEW own, Owners(own), NetOK(own), Others(h),
         NEW v, NEW c, NEW u, Weighing(v, c, u),
         NEW cost \in Nat, Outcome(h, own, v, c, u, cost),
         NEW queues, queues \in Boxes(Truthful(own), space, queues),
         \A g \in Hosts : Len(queues[g]) = Len(sock[g]),
         NEW paid \in Nat,
         Carry(queues, OnLink(v, c)) + cost <= Carry(sock, OnLink(v, c)) + paid,
         UNCHANGED <<file, out, space>>, SendAll(h, queues),
         script' \in [Hosts -> Seq(Command)]
  PROVE  /\ NetOK(own)' /\ \A g \in Hosts : ifs'[g] = ifs[g]
         /\ Pays(v, c, u, paid)
<1>1. /\ \A g \in Hosts : HostOK(g, own)
      /\ MediumOK(own) /\ HostOK(h, own)' /\ CardsOK(h, own)
      /\ sent' \in Seq(Leaving(h, own))
  BY DEF NetOK, Outcome, HostOK
<1>2. \A g \in Hosts : HostOK(g, own)'
  BY <1>1, OthersKeep
<1>3. \A g \in Hosts : ifs'[g] = ifs[g]
  BY DEF Others, Outcome
<1>4. LastOK'
  <2>1. Leaving(h, own) \subseteq H1!Transmission
    BY <1>1, LeavingSent
  <2>2. sent' \in Seq(H1!Transmission)
    BY <1>1, <2>1
  <2> QED
    BY <2>2 DEF Outcome, LastOK
<1>5. Directed(h, queues)
  BY <1>1 DEF MediumOK, Directed
<1>6. \A i \in DOMAIN ifs[h] : i \in DOMAIN out'[h]
  <2>1. ifs[h] \in Seq(H1!Card) /\ out'[h] \in Seq(Path) /\ Len(out'[h]) = Len(ifs[h])
    BY <1>1 DEF CardsOK, MediumOK
  <2> QED
    BY <2>1
<1>7. space \in Nat
  BY <1>1 DEF MediumOK
<1>8. /\ sock' \in Boxes(Truthful(own), space, queues)
      /\ Carry(sock', OnLink(v, c)) + Total(sent', Linking(c))
           <= Carry(queues, OnLink(v, c)) + Total(sent', Sending(v))
      /\ Carry(sock', OnLink(v, c)) \in Nat /\ Total(sent', Linking(c)) \in Nat
      /\ Carry(queues, OnLink(v, c)) \in Nat /\ Total(sent', Sending(v)) \in Nat
  BY <1>1, <1>5, <1>6, <1>7, MediumKeeps
<1>9. MediumOK(own)'
  <2>1. sock' \in Boxes(Truthful(own), space', sock')
    BY <1>8 DEF Boxes
  <2>2. \A g \in Hosts : Len(sock'[g]) = Len(sock[g])
    BY <1>8 DEF Boxes
  <2> QED
    BY <1>1, <1>3, <2>1, <2>2 DEF MediumOK
<1>10. Pays(v, c, u, paid)
  <2> SUFFICES ASSUME \A g \in Hosts : NoCopies(g, c)
               PROVE  Burden(v, c)' + Total(sent', Linking(c)) + Total(delivered', Upward(u))
                        <= Burden(v, c) + paid
    BY DEF Pays
  <2>1. Total(sbuf'[h], InBuffer(v)) + Total(sent', Sending(v))
          + Total(delivered', Upward(u)) <= Total(sbuf[h], InBuffer(v)) + cost
    BY DEF Outcome
  <2>2. Total(delivered', Upward(u)) \in Nat
    <3>1. delivered' \in Seq(H1!IpPacket)
      BY DEF Outcome
    <3> QED
      BY <3>1, WeightTypes, TotalType
  <2>3. /\ \A g \in Hosts : sbuf[g] \in Seq(H1!SendBuf)
        /\ \A g \in Hosts : sbuf'[g] \in Seq(H1!SendBuf)
    BY <1>1, <1>2 DEF HostOK, ArpOK
  <2>4. /\ Stored(v)' + Total(sbuf[h], InBuffer(v)) = Stored(v) + Total(sbuf'[h], InBuffer(v))
        /\ Stored(v) \in Nat /\ Stored(v)' \in Nat
        /\ Total(sbuf[h], InBuffer(v)) \in Nat /\ Total(sbuf'[h], InBuffer(v)) \in Nat
    BY <2>3, StoredKeeps DEF SwapStored
  <2>5. Burden(v, c) = Carry(sock, OnLink(v, c)) + Stored(v)
        /\ Burden(v, c)' = Carry(sock', OnLink(v, c)) + Stored(v)'
    BY DEF Burden, OnLink
  <2>6. Carry(sock, OnLink(v, c)) \in Nat
    <3>1. sock \in Boxes(Truthful(own), space, sock)
      BY <1>1 DEF MediumOK
    <3>2. Truthful(own) \subseteq H1!Frame
      BY DEF Truthful
    <3>3. sock \in Boxes(H1!Frame, space, sock)
      BY <3>1, <3>2, BoxesGrow
    <3>4. sock \in [Hosts -> Seq(Seq(H1!Frame))]
      BY <3>3 DEF Boxes
    <3> QED
      BY <3>4, WeightTypes, CarryType
  <2> DEFINE a == Carry(sock, OnLink(v, c))
             a1 == Carry(sock', OnLink(v, c))
             q == Carry(queues, OnLink(v, c))
             s == Stored(v)
             s1 == Stored(v)'
             t == Total(sbuf[h], InBuffer(v))
             t1 == Total(sbuf'[h], InBuffer(v))
             x == Total(sent', Sending(v))
             l == Total(sent', Linking(c))
             d == Total(delivered', Upward(u))
  <2>7. /\ a \in Nat /\ a1 \in Nat /\ q \in Nat /\ s \in Nat /\ s1 \in Nat
        /\ t \in Nat /\ t1 \in Nat /\ x \in Nat /\ l \in Nat /\ d \in Nat
        /\ a1 + l <= q + x /\ t1 + x + d <= t + cost /\ s1 + t = s + t1
        /\ q + cost <= a + paid
    BY <1>8, <2>1, <2>2, <2>4, <2>6
  <2> HIDE DEF a, a1, q, s, s1, t, t1, x, l, d
  <2>8. a1 + s1 + l + d <= a + s + paid
    BY <2>7
  <2> QED
    BY <2>5, <2>8 DEF a, a1, s, s1, l, d
<1>11. NetOK(own)'
  BY <1>2, <1>4, <1>9 DEF NetOK
<1> QED
  BY <1>3, <1>10, <1>11

\* The frame is a value of the state it is taken in.
LEMMA RecvOfHead ==
  ASSUME NEW h \in Hosts, NEW ifp, At(h)!Recv(ifp, Head(sock[h][ifp])),
         NEW e, e = Head(sock[h][ifp])
  PROVE  At(h)!Recv(ifp, e)
<1> DEFINE eh == Head(sock[h][ifp])
<1> HIDE DEF eh
<1>1. e = eh
  BY DEF eh
<1>2. \/ At(h)!RecvBridged(ifp, eh) \/ At(h)!RecvIp(ifp, eh)
      \/ At(h)!RecvArpRequest(ifp, eh) \/ At(h)!RecvArpReply(ifp, eh)
      \/ At(h)!RecvArpOther(ifp, eh)
  BY DEF At!Recv, eh
<1>3. CASE At(h)!RecvBridged(ifp, eh)
  <2>1. At(h)!RecvBridged(ifp, e)
    BY <1>1, <1>3 DEF At!RecvBridged, At!Received, At!bridge_input
  <2> QED
    BY <2>1 DEF At!Recv
<1>4. CASE At(h)!RecvIp(ifp, eh)
  <2>1. At(h)!RecvIp(ifp, e)
    BY <1>1, <1>4 DEF At!RecvIp, At!Received, At!bridge_input
  <2> QED
    BY <2>1 DEF At!Recv
<1>5. CASE At(h)!RecvArpRequest(ifp, eh)
  <2>1. At(h)!RecvArpRequest(ifp, e)
    BY <1>1, <1>5 DEF At!RecvArpRequest, At!Received, At!bridge_input
  <2> QED
    BY <2>1 DEF At!Recv
<1>6. CASE At(h)!RecvArpReply(ifp, eh)
  <2>1. At(h)!RecvArpReply(ifp, e)
    BY <1>1, <1>6 DEF At!RecvArpReply, At!Received, At!bridge_input
  <2> QED
    BY <2>1 DEF At!Recv
<1>7. CASE At(h)!RecvArpOther(ifp, eh)
  <2>1. At(h)!RecvArpOther(ifp, e)
    BY <1>1, <1>7 DEF At!RecvArpOther, At!Received, At!bridge_input
  <2> QED
    BY <2>1 DEF At!Recv
<1> QED
  BY <1>2, <1>3, <1>4, <1>5, <1>6, <1>7

\* A frame is taken from a socket.
LEMMA ReceiveStep ==
  ASSUME NEW h \in Hosts, NEW own, Owners(own), NetOK(own),
         NEW v, NEW c, NEW u, Weighing(v, c, u),
         NEW ifp \in 1 .. MaxIf, Receive(h, ifp), UNCHANGED space
  PROVE  /\ NetOK(own)' /\ \A g \in Hosts : ifs'[g] = ifs[g]
         /\ Pays(v, c, u, 0)
<1> DEFINE q == sock[h][ifp]
           eh == Head(q)
           queues == [sock EXCEPT ![h][ifp] = Tail(q)]
           w == OnLink(v, c)
           B == Truthful(own)
<1>1. /\ ifp <= Len(sock[h]) /\ q # <<>> /\ At(h)!Recv(ifp, eh) /\ Others(h)
      /\ UNCHANGED <<script, file, out>> /\ SendAll(h, queues)
  BY ReceiveIs
<1>2. /\ HostOK(h, own) /\ sock \in Boxes(B, space, sock) /\ Len(sock[h]) = Len(ifs[h])
      /\ space \in Nat /\ script \in [Hosts -> Seq(Command)] /\ ifs[h] \in Seq(H1!Card)
      /\ sock \in [Hosts -> Seq(Seq(B))]
  BY DEF NetOK, MediumOK, HostOK, CardsOK, Boxes
<1>3. ifp \in DOMAIN ifs[h] /\ ifp \in DOMAIN sock[h]
  <2>1. ifp \in Nat /\ ifp # 0
    BY NetworkAssumption
  <2>2. sock[h] \in Seq(Seq(B)) /\ ifs[h] \in Seq(H1!Card)
    BY <1>2
  <2> QED
    BY <1>1, <1>2, <2>1, <2>2
<1>4. q \in Seq(B) /\ eh \in B /\ Tail(q) \in Seq(B) /\ Len(Tail(q)) <= Len(q)
  <2>1. q \in Seq(B)
    BY <1>2, <1>3
  <2> QED
    BY <1>1, <2>1
<1>0. PICK cost : cost = w[eh]
  OBVIOUS
<1>5. Outcome(h, own, v, c, u, cost)
  <2>1. PICK e \in B : e = eh
    BY <1>4
  <2>2. At(h)!Recv(ifp, e)
    BY <1>1, <2>1, RecvOfHead
  <2>3. cost = w[e] /\ HostOK(h, own) /\ ifp \in DOMAIN ifs[h]
    BY <1>0, <1>2, <1>3, <2>1
  <2> QED
    BY <2>2, <2>3, RecvAt
<1>6. B \subseteq H1!Frame /\ w \in [H1!Frame -> Nat]
  BY WeightTypes DEF Truthful
<1>7. w[eh] \in Nat /\ cost \in Nat
  BY <1>0, <1>4, <1>6
<1> HIDE DEF w, B
<1>8. /\ queues \in [Hosts -> Seq(Seq(B))]
      /\ \A g \in Hosts : Len(queues[g]) = Len(sock[g])
  <2>1. sock[h] \in Seq(Seq(B)) /\ [sock[h] EXCEPT ![ifp] = Tail(q)] \in Seq(Seq(B))
        /\ Len([sock[h] EXCEPT ![ifp] = Tail(q)]) = Len(sock[h])
    BY <1>2, <1>3, <1>4
  <2> QED
    BY <1>2, <2>1
<1>9. queues \in Boxes(B, space, queues)
  <2>1. ASSUME NEW g \in Hosts, NEW i \in DOMAIN queues[g]
        PROVE  Len(queues[g][i]) <= space
    <3>1. i \in DOMAIN sock[g] /\ Len(sock[g][i]) <= space /\ sock[g][i] \in Seq(B)
      BY <1>2 DEF Boxes
    <3>2. queues[g][i] = IF g = h /\ i = ifp THEN Tail(q) ELSE sock[g][i]
      BY <1>2, <1>3, <3>1
    <3>3. Len(Tail(q)) \in Nat /\ Len(q) \in Nat
      BY <1>4
    <3> QED
      BY <1>2, <1>4, <3>1, <3>2, <3>3
  <2> HIDE DEF queues
  <2> QED
    BY <1>8, <2>1 DEF Boxes
<1>10. Carry(queues, w) + w[eh] <= Carry(sock, w) + 0
  <2>1. sock \in [Hosts -> Seq(Seq(H1!Frame))]
    BY <1>2, <1>6, BoxesGrow DEF Boxes
  <2>2. q \in Seq(H1!Frame)
    BY <1>4, <1>6
  <2>3. /\ Tail(q) \in Seq(H1!Frame) /\ Total(q, w) = w[eh] + Total(Tail(q), w)
    BY <1>1, <1>6, <2>2, TotalHead
  <2>4. QueueSwapped(sock, w, h, ifp, Tail(q)) /\ queues \in [Hosts -> Seq(Seq(H1!Frame))]
    <3> DEFINE r == Tail(q)
    <3>1. r \in Seq(H1!Frame)
      BY <2>3
    <3> HIDE DEF q, r
    <3>2. QueueSwapped(sock, w, h, ifp, r) /\ [sock EXCEPT ![h][ifp] = r] \in [Hosts -> Seq(Seq(H1!Frame))]
      BY <1>3, <1>6, <2>1, <3>1, CarryPut
    <3> QED
      BY <3>2 DEF r
  <2>5. Carry(queues, w) + Total(q, w) = Carry(sock, w) + Total(Tail(q), w)
    BY <2>4 DEF QueueSwapped
  <2>6. /\ Carry(queues, w) \in Nat /\ Carry(sock, w) \in Nat
        /\ Total(Tail(q), w) \in Nat
    BY <1>6, <2>1, <2>3, <2>4, CarryType, TotalType
  <2> DEFINE a == Carry(queues, w)
             b == Carry(sock, w)
             t == Total(Tail(q), w)
             x == w[eh]
             y == Total(q, w)
  <2>7. /\ a \in Nat /\ b \in Nat /\ t \in Nat /\ x \in Nat
        /\ a + y = b + t /\ y = x + t
    BY <1>7, <2>3, <2>5, <2>6
  <2> HIDE DEF a, b, t, x, y
  <2>8. a + x <= b + 0
    BY <2>7
  <2> QED
    BY <2>8 DEF a, b, x
<1>11. script' \in [Hosts -> Seq(Command)]
  BY <1>1, <1>2
<1>12. UNCHANGED <<file, out, space>>
  BY <1>1
<1>13. Carry(queues, w) + cost <= Carry(sock, w) + 0
  BY <1>0, <1>10
<1> HIDE DEF queues, eh, q
<1> QED
  BY <1>1, <1>5, <1>7, <1>8, <1>9, <1>11, <1>12, <1>13, OutcomePays DEF w, B

\* A SYN is typed.
LEMMA TcpStep ==
  ASSUME NEW h \in Hosts, NEW own, Owners(own), NetOK(own),
         NEW v, NEW c, NEW u, Weighing(v, c, u),
         NEW b \in Nat, u <= b, \A p \in H1!IpPacket : p.ttl = 31 => v[p] <= b,
         TypeTcp(h), UNCHANGED space
  PROVE  /\ NetOK(own)' /\ \A g \in Hosts : ifs'[g] = ifs[g]
         /\ Pays(v, c, u, b)
<1> DEFINE ifp == Head(script[h]).ifp
           dst == Head(script[h]).dst
<1>1. /\ At(h)!Tcp(ifp, dst) /\ Others(h) /\ ifp \in DOMAIN ifs[h]
      /\ Typed(h, "tcp") /\ UNCHANGED <<file, out>> /\ SendAll(h, sock)
  BY TcpIs
<1>2. script \in [Hosts -> Seq(Command)] /\ HostOK(h, own)
      /\ sock \in Boxes(Truthful(own), space, sock)
  BY DEF NetOK, MediumOK
<1>3. /\ Head(script[h]) \in Command /\ Head(script[h]).cmd = "tcp"
      /\ script' \in [Hosts -> Seq(Command)]
  BY <1>1, <1>2, TypedIs
<1>4. dst \in Addr
  BY <1>3, CommandFields
<1> HIDE DEF ifp, dst
<1>5. Outcome(h, own, v, c, u, b)
  BY <1>1, <1>2, <1>4, TcpPays
<1>6. Carry(sock, OnLink(v, c)) + b <= Carry(sock, OnLink(v, c)) + b
  <2>1. Truthful(own) \subseteq H1!Frame
    BY DEF Truthful
  <2>2. sock \in [Hosts -> Seq(Seq(H1!Frame))]
    BY <1>2, <2>1, BoxesGrow DEF Boxes
  <2>3. Carry(sock, OnLink(v, c)) \in Nat
    BY <2>2, WeightTypes, CarryType
  <2> QED
    BY <2>3
<1>7. UNCHANGED <<file, out, space>>
  BY <1>1
<1> QED
  BY <1>1, <1>2, <1>3, <1>5, <1>6, <1>7, OutcomePays

\* A command that sends nothing costs nothing.
LEMMA QuietPays ==
  ASSUME NEW h \in Hosts, NEW own, Owners(own), NetOK(own), Others(h),
         NEW v, NEW c, NEW u, Weighing(v, c, u),
         HostOK(h, own)', ifs'[h] = ifs[h], Silent(h),
         UNCHANGED medium, UNCHANGED space, script' \in [Hosts -> Seq(Command)]
  PROVE  /\ NetOK(own)' /\ \A g \in Hosts : ifs'[g] = ifs[g]
         /\ Pays(v, c, u, 0)
<1>1. /\ \A g \in Hosts : HostOK(g, own)
      /\ MediumOK(own) /\ UNCHANGED <<file, out, sock>>
  BY DEF NetOK, medium
<1>2. \A g \in Hosts : HostOK(g, own)'
  BY <1>1, OthersKeep
<1>3. \A g \in Hosts : ifs'[g] = ifs[g]
  BY DEF Others
<1>4. LastOK'
  <2>1. <<>> \in Seq(H1!Transmission) /\ <<>> \in Seq(H1!IpPacket)
    OBVIOUS
  <2> QED
    BY <2>1 DEF Silent, LastOK
<1>5. MediumOK(own)'
  BY <1>1, <1>3 DEF MediumOK, Boxes
<1>6. NetOK(own)'
  BY <1>2, <1>4, <1>5 DEF NetOK
<1>7. Burden(v, c)' = Burden(v, c) /\ Burden(v, c) \in Nat
  <2>1. \A g \in Hosts : sbuf'[g] = sbuf[g] /\ sbuf[g] \in Seq(H1!SendBuf)
    BY <1>1 DEF Others, Silent, HostOK, ArpOK
  <2>2. Stored(v)' = Stored(v) /\ Stored(v) \in Nat
    <3>1. \A g \in Hosts : Total(sbuf[g], InBuffer(v)) \in Nat
      BY <2>1, WeightTypes, TotalType
    <3>2. /\ sbuf'[1] = sbuf[1] /\ sbuf'[2] = sbuf[2] /\ sbuf'[3] = sbuf[3]
          /\ Total(sbuf[1], InBuffer(v)) \in Nat /\ Total(sbuf[2], InBuffer(v)) \in Nat
          /\ Total(sbuf[3], InBuffer(v)) \in Nat
      BY <2>1, <3>1 DEF Hosts
    <3> QED
      BY <3>2 DEF Stored, InBuffer
  <2>3. Carry(sock, OnLink(v, c)) \in Nat
    <3>1. sock \in Boxes(Truthful(own), space, sock)
      BY <1>1 DEF MediumOK
    <3>2. Truthful(own) \subseteq H1!Frame
      BY DEF Truthful
    <3>3. sock \in Boxes(H1!Frame, space, sock)
      BY <3>1, <3>2, BoxesGrow
    <3>4. sock \in [Hosts -> Seq(Seq(H1!Frame))]
      BY <3>3 DEF Boxes
    <3> QED
      BY <3>4, WeightTypes, CarryType
  <2>4. sock' = sock
    BY <1>1
  <2>5. Burden(v, c)' = Carry(sock', OnLink(v, c)) + Stored(v)'
    BY DEF Burden, OnLink
  <2> QED
    BY <2>2, <2>3, <2>4, <2>5 DEF Burden
<1>8. Total(sent', Linking(c)) = 0 /\ Total(delivered', Upward(u)) = 0
  BY TotalNone DEF Silent
<1>9. Pays(v, c, u, 0)
  BY <1>7, <1>8 DEF Pays
<1> QED
  BY <1>3, <1>6, <1>9

\* The flags are set.
LEMMA FwdctlStep ==
  ASSUME NEW h \in Hosts, NEW own, Owners(own), NetOK(own),
         NEW v, NEW c, NEW u, Weighing(v, c, u), TypeFwdctl(h), UNCHANGED space
  PROVE  /\ NetOK(own)' /\ \A g \in Hosts : ifs'[g] = ifs[g]
         /\ Pays(v, c, u, 0)
<1> DEFINE new == Head(script[h]).flags
<1>1. At(h)!Fwdctl(new) /\ Others(h) /\ Typed(h, "fwdctl") /\ UNCHANGED medium
  BY FwdctlIs
<1>2. script \in [Hosts -> Seq(Command)] /\ HostOK(h, own)
  BY DEF NetOK
<1>3. /\ Head(script[h]) \in Command /\ Head(script[h]).cmd = "fwdctl"
      /\ script' \in [Hosts -> Seq(Command)]
  BY <1>1, <1>2, TypedIs
<1>4. new \in [l2 : BOOLEAN, l3 : BOOLEAN]
  BY <1>3, CommandFields
<1> HIDE DEF new
<1>5. HostOK(h, own)' /\ ifs'[h] = ifs[h] /\ Silent(h)
  BY <1>1, <1>2, <1>4, FwdctlKeeps
<1> QED
  BY <1>1, <1>3, <1>5, QuietPays

\* The line typed is a value of the state it is typed in.
LEMMA RouteOfHead ==
  ASSUME NEW h \in Hosts, At(h)!RouteAdd(Head(script[h]).ifp, Head(script[h])),
         NEW ifp, ifp = Head(script[h]).ifp, NEW cmd, cmd = Head(script[h])
  PROVE  At(h)!RouteAdd(ifp, cmd)
<1> DEFINE l == Head(script[h])
           i == l.ifp
<1>1. At(h)!RouteAdd(i, l) /\ ifp = i /\ cmd = l
  OBVIOUS
<1> HIDE DEF l, i
<1> QED
  BY <1>1 DEF At!RouteAdd, At!route_add

\* A route is typed.
LEMMA RouteStep ==
  ASSUME NEW h \in Hosts, NEW own, Owners(own), NetOK(own),
         NEW v, NEW c, NEW u, Weighing(v, c, u), TypeRoute(h), UNCHANGED space
  PROVE  /\ NetOK(own)' /\ \A g \in Hosts : ifs'[g] = ifs[g]
         /\ Pays(v, c, u, 0)
<1>1. /\ At(h)!RouteAdd(Head(script[h]).ifp, Head(script[h])) /\ Others(h)
      /\ Head(script[h]).ifp \in DOMAIN ifs[h]
      /\ Typed(h, "route") /\ UNCHANGED medium
  BY RouteIs
<1>2. script \in [Hosts -> Seq(Command)] /\ HostOK(h, own)
  BY DEF NetOK
<1>3. /\ Head(script[h]) \in Command /\ Head(script[h]).cmd = "route"
      /\ script' \in [Hosts -> Seq(Command)]
  BY <1>1, <1>2, TypedIs
<1>4. PICK cmd \in Command : cmd = Head(script[h])
  BY <1>3
<1>5. PICK ifp \in DOMAIN ifs[h] : ifp = Head(script[h]).ifp
  BY <1>1
<1>6. At(h)!RouteAdd(ifp, cmd)
  BY <1>1, <1>4, <1>5, RouteOfHead
<1>7. cmd.next \in Addr /\ cmd.dst \in H1!Prefix
  BY <1>3, <1>4, CommandFields
<1>8. HostOK(h, own)' /\ ifs'[h] = ifs[h] /\ Silent(h)
  BY <1>2, <1>6, <1>7, RouteKeeps
<1> QED
  BY <1>1, <1>3, <1>8, QuietPays

\* A command is refused.
LEMMA RefusedStep ==
  ASSUME NEW h \in Hosts, NEW own, Owners(own), NetOK(own),
         NEW v, NEW c, NEW u, Weighing(v, c, u), TypeRefused(h), UNCHANGED space
  PROVE  /\ NetOK(own)' /\ \A g \in Hosts : ifs'[g] = ifs[g]
         /\ Pays(v, c, u, 0)
<1>1. /\ Others(1) /\ Others(2) /\ Others(3) /\ UNCHANGED medium
      /\ sent' = <<>> /\ delivered' = <<>> /\ rx' \in H1!Event
      /\ Typed(h, "tcp") \/ Typed(h, "route")
  BY RefusedIs
<1>2. script \in [Hosts -> Seq(Command)] /\ HostOK(h, own)
  BY DEF NetOK
<1>3. script' \in [Hosts -> Seq(Command)]
  BY <1>1, <1>2, TypedIs
<1>4. h \in {1, 2, 3}
  BY DEF Hosts
<1>5. Others(h)
  BY <1>1, <1>4
<1>6. PICK g \in Hosts : g # h /\ Others(g)
  BY <1>1 DEF Hosts
<1>7. /\ ifs'[h] = ifs[h] /\ flags'[h] = flags[h] /\ mactable'[h] = mactable[h]
      /\ arptable'[h] = arptable[h] /\ sbuf'[h] = sbuf[h] /\ rib'[h] = rib[h]
      /\ fib_n'[h] = fib_n[h] /\ fib'[h] = fib[h]
  BY <1>6 DEF Others
<1>8. HostOK(h, own)' /\ Silent(h)
  BY <1>1, <1>2, <1>7 DEF HostOK, CardsOK, ArpOK, RoutesOK, BridgeOK, Silent
<1> QED
  BY <1>1, <1>3, <1>5, <1>7, <1>8, QuietPays

\* The card typed is a value of the state it is typed in.
LEMMA CreateOfHead ==
  ASSUME NEW h \in Hosts, At(h)!Create(Head(script[h]).card),
         NEW card, card = Head(script[h]).card
  PROVE  At(h)!Create(card)
<1> DEFINE l == Head(script[h]).card
<1>1. At(h)!Create(l) /\ card = l
  OBVIOUS
<1> HIDE DEF l
<1> QED
  BY <1>1 DEF At!Create, At!route_add

\* The socket of a new interface, and the file that leads to it.
LEMMA BindKeeps ==
  ASSUME NEW h \in Hosts, NEW own, Owners(own), NetOK(own),
         NEW v, NEW c, NEW u, Weighing(v, c, u),
         NEW l \in Command, l.cmd = "create", bind(h, l), sent' = <<>>, UNCHANGED space,
         NEW card, ifs'[h] = Append(ifs[h], card), \A g \in Hosts : g # h => ifs'[g] = ifs[g]
  PROVE  /\ MediumOK(own)'
         /\ Carry(sock', OnLink(v, c)) <= Carry(sock, OnLink(v, c))
         /\ Carry(sock', OnLink(v, c)) \in Nat /\ Carry(sock, OnLink(v, c)) \in Nat
         /\ Total(sent', Linking(c)) = 0
<1> DEFINE w == OnLink(v, c)
           B == Truthful(own)
           qs == Append(sock[h], <<>>)
           queues == [sock EXCEPT ![h] = Append(@, <<>>)]
<1>1. /\ file' = [file EXCEPT ![l.in] = <<h, Len(sock[h]) + 1>>]
      /\ out' = [out EXCEPT ![h] = Append(@, l.out)]
      /\ SendAll(h, queues)
  BY DEF bind
<1>2. /\ space \in Nat /\ sock \in Boxes(B, space, sock)
      /\ file \in [Path -> {Nobody} \cup (Hosts \X Nat)]
      /\ \A p \in Path : file[p] # Nobody => file[p][2] \in 1 .. Len(sock[file[p][1]])
      /\ out \in [Hosts -> Seq(Path)]
      /\ \A g \in Hosts : Len(out[g]) = Len(ifs[g]) /\ Len(sock[g]) = Len(ifs[g])
      /\ CardsOK(h, own)
  BY DEF NetOK, MediumOK, HostOK
<1>3. l.in \in Path /\ l.out \in Path
  BY CommandFields
<1>4. /\ sock \in [Hosts -> Seq(Seq(B))] /\ sock[h] \in Seq(Seq(B))
      /\ \A g \in Hosts : \A i \in DOMAIN sock[g] : Len(sock[g][i]) <= space
  BY <1>2 DEF Boxes
<1>5. /\ qs \in Seq(Seq(B)) /\ Len(qs) = Len(sock[h]) + 1
      /\ DOMAIN qs = 1 .. Len(sock[h]) + 1 /\ Len(sock[h]) \in Nat
      /\ qs[Len(sock[h]) + 1] = <<>>
      /\ \A i \in 1 .. Len(sock[h]) : i \in DOMAIN sock[h] /\ qs[i] = sock[h][i]
  <2>1. <<>> \in Seq(B)
    OBVIOUS
  <2> HIDE DEF B
  <2> QED
    BY <1>4, <2>1
<1>6. queues = [sock EXCEPT ![h] = qs]
  OBVIOUS
<1>7. /\ queues \in [Hosts -> Seq(Seq(B))] /\ queues[h] = qs
      /\ \A g \in Hosts : g # h => queues[g] = sock[g]
  BY <1>4, <1>5, <1>6
<1>8. queues \in Boxes(B, space, queues)
  <2>1. ASSUME NEW i \in DOMAIN qs
        PROVE  Len(qs[i]) <= space
    <3>1. CASE i = Len(sock[h]) + 1
      <4>1. qs[i] = <<>> /\ Len(<<>>) = 0
        BY <1>5, <3>1
      <4> QED
        BY <1>2, <4>1
    <3>2. CASE i # Len(sock[h]) + 1
      <4>1. i \in 1 .. Len(sock[h])
        BY <1>5, <3>2
      <4> QED
        BY <1>4, <1>5, <4>1
    <3> QED
      BY <3>1, <3>2
  <2> HIDE DEF queues, qs, B
  <2> QED
    BY <1>4, <1>7, <2>1 DEF Boxes
<1> HIDE DEF queues, qs
<1>9. /\ out' \in [Hosts -> Seq(Path)]
      /\ Len(out'[h]) = Len(ifs[h]) + 1 /\ \A i \in 1 .. Len(ifs[h]) : i \in DOMAIN out'[h]
      /\ \A g \in Hosts : g # h => out'[g] = out[g]
  <2>1. /\ Append(out[h], l.out) \in Seq(Path)
        /\ Len(Append(out[h], l.out)) = Len(out[h]) + 1
        /\ DOMAIN Append(out[h], l.out) = 1 .. Len(out[h]) + 1 /\ Len(out[h]) \in Nat
    BY <1>2, <1>3
  <2> QED
    BY <1>1, <1>2, <2>1
<1>10. Directed(h, queues) /\ file' \in [Path -> {Nobody} \cup (Hosts \X Nat)]
  <2>1. <<h, Len(sock[h]) + 1>> \in Hosts \X Nat
    BY <1>5
  <2>2. file' \in [Path -> {Nobody} \cup (Hosts \X Nat)]
    BY <1>1, <1>2, <1>3, <2>1
  <2>3. ASSUME NEW p \in Path, file'[p] # Nobody
        PROVE  file'[p][2] \in 1 .. Len(queues[file'[p][1]])
    <3>1. CASE p = l.in
      <4>1. file'[p] = <<h, Len(sock[h]) + 1>>
        BY <1>1, <1>2, <3>1
      <4> QED
        BY <1>5, <1>7, <4>1
    <3>2. CASE p # l.in
      <4>1. file'[p] = file[p]
        BY <1>1, <1>2, <3>2
      <4>2. file[p] \in Hosts \X Nat
        BY <1>2, <2>3, <4>1
      <4>3. file[p][1] \in Hosts /\ file[p][2] \in 1 .. Len(sock[file[p][1]])
        BY <1>2, <2>3, <4>1, <4>2
      <4>4. CASE file[p][1] = h
        BY <1>5, <1>7, <4>1, <4>3, <4>4
      <4>5. CASE file[p][1] # h
        BY <1>7, <4>1, <4>3, <4>5
      <4> QED
        BY <4>4, <4>5
    <3> QED
      BY <3>1, <3>2
  <2> QED
    BY <1>9, <2>2, <2>3 DEF Directed
<1>11. sent' \in Seq(Leaving(h, own)) /\ DOMAIN ifs[h] = 1 .. Len(ifs[h])
  <2>1. <<>> \in Seq(Leaving(h, own))
    OBVIOUS
  <2>2. ifs[h] \in Seq(H1!Card)
    BY <1>2 DEF CardsOK
  <2> QED
    BY <2>1, <2>2
<1>12. /\ sock' \in Boxes(B, space, queues)
       /\ Carry(sock', w) + Total(sent', Linking(c))
            <= Carry(queues, w) + Total(sent', Sending(v))
       /\ Carry(sock', w) \in Nat /\ Carry(queues, w) \in Nat
  <2> HIDE DEF B
  <2> QED
    BY <1>1, <1>2, <1>8, <1>9, <1>10, <1>11, MediumKeeps DEF B
<1>13. MediumOK(own)'
  <2>1. sock' \in Boxes(B, space', sock')
    BY <1>12 DEF Boxes
  <2>2. /\ Len(sock'[h]) = Len(sock[h]) + 1 /\ Len(queues[h]) = Len(sock'[h])
        /\ \A g \in Hosts : g # h => Len(sock'[g]) = Len(sock[g])
    BY <1>5, <1>7, <1>12 DEF Boxes
  <2>3. /\ \A g \in Hosts : Len(queues[g]) = Len(sock'[g])
        /\ \A p \in Path : file'[p] # Nobody => file'[p][1] \in Hosts
    <3>1. \A p \in Path : file'[p] # Nobody => file'[p] \in Hosts \X Nat
      BY <1>10
    <3> QED
      BY <1>12, <3>1 DEF Boxes
  <2>4. \A p \in Path : file'[p] # Nobody => file'[p][2] \in 1 .. Len(sock'[file'[p][1]])
    BY <1>10, <2>3 DEF Directed
  <2>5. Len(ifs'[h]) = Len(ifs[h]) + 1
    <3>1. ifs[h] \in Seq(H1!Card)
      BY <1>2 DEF CardsOK
    <3> QED
      BY <3>1
  <2>6. \A g \in Hosts : Len(out'[g]) = Len(ifs'[g]) /\ Len(sock'[g]) = Len(ifs'[g])
    BY <1>2, <1>9, <2>2, <2>5
  <2> QED
    BY <1>2, <1>9, <1>10, <2>1, <2>4, <2>6 DEF MediumOK
<1>14. w \in [H1!Frame -> Nat] /\ sock \in [Hosts -> Seq(Seq(H1!Frame))]
  <2>1. B \subseteq H1!Frame
    BY DEF Truthful
  <2> QED
    BY <1>2, <2>1, WeightTypes, BoxesGrow DEF Boxes
<1>15. Carry(queues, w) = Carry(sock, w) /\ Carry(sock, w) \in Nat
  <2> HIDE DEF w
  <2>1. sock[h] \in Seq(Seq(H1!Frame))
    BY <1>14
  <2>2. qs \in Seq(Seq(H1!Frame)) /\ Load(qs, w) = Load(sock[h], w)
    BY <1>14, <2>1, LoadNew DEF qs
  <2>3. HostSwapped(sock, w, h, qs) /\ [sock EXCEPT ![h] = qs] \in [Hosts -> Seq(Seq(H1!Frame))]
    BY <1>14, <2>2, CarryHost
  <2>4. Carry([sock EXCEPT ![h] = qs], w) + Load(sock[h], w) = Carry(sock, w) + Load(qs, w)
    BY <2>3 DEF HostSwapped
  <2>5. /\ Carry([sock EXCEPT ![h] = qs], w) \in Nat /\ Carry(sock, w) \in Nat
        /\ Load(qs, w) \in Nat /\ Load(sock[h], w) \in Nat
    BY <1>14, <2>1, <2>2, <2>3, CarryType, LoadType
  <2> DEFINE a == Carry([sock EXCEPT ![h] = qs], w)
             b == Carry(sock, w)
             d == Load(qs, w)
  <2>6. a \in Nat /\ b \in Nat /\ d \in Nat /\ a + d = b + d
    BY <2>2, <2>4, <2>5
  <2> HIDE DEF a, b, d
  <2>7. a = b /\ b \in Nat
    BY <2>6
  <2> QED
    BY <1>6, <2>7 DEF a, b
<1>16. Total(sent', Linking(c)) = 0 /\ Total(sent', Sending(v)) = 0
  BY TotalNone
<1> QED
  BY <1>12, <1>13, <1>15, <1>16

\* A step that leaves the packets where they are, except those in the sockets.
LEMMA LighterPays ==
  ASSUME NEW v, NEW c, NEW u,
         Carry(sock', OnLink(v, c)) <= Carry(sock, OnLink(v, c)),
         Carry(sock', OnLink(v, c)) \in Nat, Carry(sock, OnLink(v, c)) \in Nat,
         Stored(v)' \in Nat, Stored(v) \in Nat, Stored(v)' <= Stored(v),
         Total(sent', Linking(c)) = 0, Total(delivered', Upward(u)) = 0
  PROVE  Pays(v, c, u, 0)
<1>1. /\ Burden(v, c) = Carry(sock, OnLink(v, c)) + Stored(v)
      /\ Burden(v, c)' = Carry(sock', OnLink(v, c)) + Stored(v)'
  BY DEF Burden, OnLink
<1> DEFINE a == Carry(sock, OnLink(v, c))
           b == Carry(sock', OnLink(v, c))
           d == Stored(v)
           e == Stored(v)'
           x == Total(sent', Linking(c))
           y == Total(delivered', Upward(u))
<1>2. /\ a \in Nat /\ b \in Nat /\ d \in Nat /\ e \in Nat /\ x = 0 /\ y = 0
      /\ b <= a /\ e <= d
  OBVIOUS
<1> HIDE DEF a, b, d, e, x, y
<1>3. b + e + x + y <= a + d + 0
  BY <1>2
<1> QED
  BY <1>1, <1>3 DEF Pays, a, b, d, e, x, y

\* An interface is created.
LEMMA CreateStep ==
  ASSUME NEW h \in Hosts, NEW own, Owners(own), NetOK(own),
         NEW more, Owners(more), \A a \in Addr : own[a] \subseteq more[a],
         NEW v, NEW c, NEW u, Weighing(v, c, u),
         NEW card, card = Head(script[h]).card, card.mac \in more[card.addr],
         TypeCreate(h), UNCHANGED space
  PROVE  NetOK(more)' /\ Pays(v, c, u, 0)
<1>1. /\ At(h)!Create(Head(script[h]).card) /\ Others(h) /\ bind(h, Head(script[h]))
      /\ Typed(h, "create")
  BY CreateIs
<1>2. script \in [Hosts -> Seq(Command)] /\ \A g \in Hosts : HostOK(g, own)
  BY DEF NetOK
<1>3. /\ Head(script[h]) \in Command /\ Head(script[h]).cmd = "create"
      /\ script' \in [Hosts -> Seq(Command)]
  BY <1>1, <1>2, TypedIs
<1>4. PICK l \in Command : l = Head(script[h])
  BY <1>3
<1>5. card \in H1!Card /\ l.cmd = "create"
  BY <1>3, <1>4, CommandFields
<1>6. At(h)!Create(card)
  BY <1>1, CreateOfHead
<1>7. HostOK(h, more)' /\ ifs'[h] = Append(ifs[h], card) /\ Silent(h)
  BY <1>2, <1>5, <1>6, CreateKeeps
<1>8. \A g \in Hosts : HostOK(g, more)
  BY <1>2, OwnersGrow
<1>9. \A g \in Hosts : HostOK(g, more)'
  BY <1>1, <1>7, <1>8, OthersKeep
<1>10. /\ \A g \in Hosts : g # h => ifs'[g] = ifs[g]
       /\ \A g \in Hosts : sbuf'[g] = sbuf[g] /\ sbuf[g] \in Seq(H1!SendBuf)
  BY <1>1, <1>2, <1>7 DEF Others, Silent, HostOK, ArpOK
<1>11. bind(h, l)
  BY <1>1, <1>4 DEF bind
<1>12. sent' = <<>> /\ delivered' = <<>> /\ rx' \in H1!Event
  BY <1>7 DEF Silent
<1>13. /\ MediumOK(own)'
       /\ Carry(sock', OnLink(v, c)) <= Carry(sock, OnLink(v, c))
       /\ Carry(sock', OnLink(v, c)) \in Nat /\ Carry(sock, OnLink(v, c)) \in Nat
       /\ Total(sent', Linking(c)) = 0
  BY <1>5, <1>7, <1>10, <1>11, <1>12, BindKeeps
<1>14. MediumOK(more)'
  BY <1>13, MediumGrows
<1>15. LastOK'
  <2>1. <<>> \in Seq(H1!Transmission) /\ <<>> \in Seq(H1!IpPacket)
    OBVIOUS
  <2> QED
    BY <1>12, <2>1 DEF LastOK
<1>16. NetOK(more)'
  BY <1>3, <1>9, <1>14, <1>15 DEF NetOK
<1>17. Stored(v)' = Stored(v) /\ Stored(v) \in Nat
  <2>1. \A g \in Hosts : Total(sbuf[g], InBuffer(v)) \in Nat
    BY <1>10, WeightTypes, TotalType
  <2>2. /\ sbuf'[1] = sbuf[1] /\ sbuf'[2] = sbuf[2] /\ sbuf'[3] = sbuf[3]
        /\ Total(sbuf[1], InBuffer(v)) \in Nat /\ Total(sbuf[2], InBuffer(v)) \in Nat
        /\ Total(sbuf[3], InBuffer(v)) \in Nat
    BY <1>10, <2>1 DEF Hosts
  <2> QED
    BY <2>2 DEF Stored, InBuffer
<1>18. Total(delivered', Upward(u)) = 0
  BY <1>12, TotalNone
<1>19. Pays(v, c, u, 0)
  <2>1. Stored(v)' \in Nat /\ Stored(v)' <= Stored(v)
    BY <1>17
  <2> QED
    BY <1>13, <1>17, <1>18, <2>1, LighterPays
<1> QED
  BY <1>16, <1>19

\* A program ends, and what it held is gone.
LEMMA ExitStep ==
  ASSUME NEW h \in Hosts, NEW own, Owners(own), NetOK(own),
         NEW v, NEW c, NEW u, Weighing(v, c, u), TypeExit(h), UNCHANGED space
  PROVE  /\ NetOK(own)' /\ Pays(v, c, u, 0)
         /\ ifs'[h] = <<>> /\ \A g \in Hosts : g # h => ifs'[g] = ifs[g]
<1> DEFINE w == OnLink(v, c)
           B == Truthful(own)
<1>1. At(h)!Restart /\ Others(h) /\ Typed(h, "exit") /\ close(h)
  BY ExitIs
<1>2. /\ script \in [Hosts -> Seq(Command)] /\ \A g \in Hosts : HostOK(g, own)
      /\ space \in Nat /\ sock \in Boxes(B, space, sock)
      /\ file \in [Path -> {Nobody} \cup (Hosts \X Nat)]
      /\ \A p \in Path : file[p] # Nobody => file[p][2] \in 1 .. Len(sock[file[p][1]])
      /\ out \in [Hosts -> Seq(Path)]
      /\ \A g \in Hosts : Len(out[g]) = Len(ifs[g]) /\ Len(sock[g]) = Len(ifs[g])
  BY DEF NetOK, MediumOK
<1>3. script' \in [Hosts -> Seq(Command)]
  BY <1>1, <1>2, TypedIs
<1>4. Started(h)' /\ HostOK(h, own)'
  BY <1>1, StartKeeps
<1>5. /\ ifs'[h] = <<>> /\ sbuf'[h] = <<>> /\ sent' = <<>> /\ delivered' = <<>>
      /\ rx' \in H1!Event
  BY <1>4 DEF Started
<1>6. /\ \A g \in Hosts : HostOK(g, own)'
      /\ \A g \in Hosts : g # h => ifs'[g] = ifs[g] /\ sbuf'[g] = sbuf[g]
  BY <1>1, <1>2, <1>4, OthersKeep DEF Others
<1>7. /\ file' = [p \in Path |-> IF file[p] # Nobody /\ file[p][1] = h THEN Nobody
                                 ELSE file[p]]
      /\ out' = [out EXCEPT ![h] = <<>>] /\ sock' = [sock EXCEPT ![h] = <<>>]
  BY <1>1 DEF close
<1>8. /\ sock \in [Hosts -> Seq(Seq(B))]
      /\ \A g \in Hosts : \A i \in DOMAIN sock[g] : Len(sock[g][i]) <= space
  BY <1>2 DEF Boxes
<1>9. LastOK'
  <2>1. <<>> \in Seq(H1!Transmission) /\ <<>> \in Seq(H1!IpPacket)
    OBVIOUS
  <2> QED
    BY <1>5, <2>1 DEF LastOK
<1>10. MediumOK(own)'
  <2>1. /\ <<>> \in Seq(Seq(B)) /\ <<>> \in Seq(Path) /\ DOMAIN <<>> = {}
        /\ Len(<<>>) = 0
    OBVIOUS
  <2>2. /\ sock' \in [Hosts -> Seq(Seq(B))] /\ sock'[h] = <<>>
        /\ \A g \in Hosts : g # h => sock'[g] = sock[g]
    BY <1>7, <1>8, <2>1
  <2>3. \A g \in Hosts : \A i \in DOMAIN sock'[g] : Len(sock'[g][i]) <= space
    BY <1>8, <2>1, <2>2
  <2>4. sock' \in Boxes(B, space', sock')
    BY <2>2, <2>3 DEF Boxes
  <2>5. /\ out' \in [Hosts -> Seq(Path)] /\ out'[h] = <<>>
        /\ \A g \in Hosts : g # h => out'[g] = out[g]
    BY <1>2, <1>7, <2>1
  <2>6. \A g \in Hosts : Len(out'[g]) = Len(ifs'[g]) /\ Len(sock'[g]) = Len(ifs'[g])
    BY <1>2, <1>5, <1>6, <2>2, <2>5
  <2>7. file' \in [Path -> {Nobody} \cup (Hosts \X Nat)]
    BY <1>2, <1>7
  <2>8. ASSUME NEW p \in Path, file'[p] # Nobody
        PROVE  file'[p][2] \in 1 .. Len(sock'[file'[p][1]])
    <3>1. file'[p] = file[p] /\ file[p] # Nobody /\ file[p][1] # h
      BY <1>7, <2>8
    <3>2. file[p] \in Hosts \X Nat
      BY <1>2, <3>1
    <3>3. file[p][1] \in Hosts /\ file[p][2] \in 1 .. Len(sock[file[p][1]])
      BY <1>2, <3>1, <3>2
    <3> QED
      BY <2>2, <3>1, <3>3
  <2> QED
    BY <1>2, <2>4, <2>5, <2>6, <2>7, <2>8 DEF MediumOK
<1>11. NetOK(own)'
  BY <1>3, <1>6, <1>9, <1>10 DEF NetOK
<1>12. w \in [H1!Frame -> Nat] /\ sock \in [Hosts -> Seq(Seq(H1!Frame))]
  <2>1. B \subseteq H1!Frame
    BY DEF Truthful
  <2> QED
    BY <1>2, <2>1, WeightTypes, BoxesGrow DEF Boxes
<1> HIDE DEF w, B
<1>13. Carry(sock', w) <= Carry(sock, w) /\ Carry(sock', w) \in Nat /\ Carry(sock, w) \in Nat
  <2> DEFINE qs == <<>>
  <2>1. qs \in Seq(Seq(H1!Frame)) /\ sock[h] \in Seq(Seq(H1!Frame))
    BY <1>12
  <2>2. Load(qs, w) = 0
    BY <1>12, <2>1, LoadNew
  <2> HIDE DEF qs
  <2>3. HostSwapped(sock, w, h, qs) /\ [sock EXCEPT ![h] = qs] \in [Hosts -> Seq(Seq(H1!Frame))]
    BY <1>12, <2>1, CarryHost
  <2>4. Carry([sock EXCEPT ![h] = qs], w) + Load(sock[h], w) = Carry(sock, w) + Load(qs, w)
    BY <2>3 DEF HostSwapped
  <2>5. /\ Carry([sock EXCEPT ![h] = qs], w) \in Nat /\ Carry(sock, w) \in Nat
        /\ Load(sock[h], w) \in Nat
    BY <1>12, <2>1, <2>3, CarryType, LoadType
  <2> DEFINE a == Carry([sock EXCEPT ![h] = qs], w)
             b == Carry(sock, w)
             d == Load(sock[h], w)
  <2>6. a \in Nat /\ b \in Nat /\ d \in Nat /\ a + d = b + 0
    BY <2>2, <2>4, <2>5
  <2> HIDE DEF a, b, d
  <2>7. a <= b /\ a \in Nat /\ b \in Nat
    BY <2>6
  <2>8. sock' = [sock EXCEPT ![h] = qs]
    BY <1>7 DEF qs
  <2> QED
    BY <2>7, <2>8 DEF a, b
<1>14. /\ SwapStored(v, h) /\ Stored(v) \in Nat /\ Stored(v)' \in Nat
       /\ \A g \in Hosts : /\ Total(sbuf[g], InBuffer(v)) \in Nat
                           /\ Total(sbuf'[g], InBuffer(v)) \in Nat
  <2>1. /\ \A g \in Hosts : sbuf[g] \in Seq(H1!SendBuf)
        /\ \A g \in Hosts : sbuf'[g] \in Seq(H1!SendBuf)
    BY <1>2, <1>6 DEF HostOK, ArpOK
  <2> QED
    BY <1>1, <2>1, StoredKeeps
<1>15. Stored(v)' <= Stored(v)
  <2>1. Total(sbuf'[h], InBuffer(v)) = 0
    BY <1>5, TotalNone
  <2>2. Stored(v)' + Total(sbuf[h], InBuffer(v)) = Stored(v) + Total(sbuf'[h], InBuffer(v))
    BY <1>14 DEF SwapStored
  <2> DEFINE a == Stored(v)'
             b == Stored(v)
             d == Total(sbuf[h], InBuffer(v))
  <2>3. a \in Nat /\ b \in Nat /\ d \in Nat /\ a + d = b + 0
    BY <1>14, <2>1, <2>2
  <2> HIDE DEF a, b, d
  <2>4. a <= b
    BY <2>3
  <2> QED
    BY <2>4 DEF a, b
<1>16. Total(sent', Linking(c)) = 0 /\ Total(delivered', Upward(u)) = 0
  BY <1>5, TotalNone
<1>17. Pays(v, c, u, 0)
  BY <1>13, <1>14, <1>15, <1>16, LighterPays DEF w
<1> QED
  BY <1>5, <1>6, <1>11, <1>17

-----------------------------------------------------------------------------
\* The owners of addresses.

\* What an interface may be.
Stations == {card \in H1!Card : card.mac # BROADCAST}

\* The interfaces of a host that is in order.
LEMMA CardsAre ==
  ASSUME NEW h \in Hosts, NEW own, Owners(own), HostOK(h, own)
  PROVE  ifs[h] \in Seq(Stations)
<1>1. ifs[h] \in Seq(H1!Card) /\ \A i \in DOMAIN ifs[h] : ifs[h][i].mac \in own[ifs[h][i].addr]
  BY DEF HostOK, CardsOK
<1>2. \A i \in DOMAIN ifs[h] : ifs[h][i] \in H1!Card /\ ifs[h][i].addr \in Addr
  <2>1. \A i \in DOMAIN ifs[h] : ifs[h][i] \in H1!Card
    BY <1>1
  <2> QED
    BY <2>1 DEF H1!Card, Addr
<1>3. \A i \in DOMAIN ifs[h] : ifs[h][i] \in Stations
  BY <1>1, <1>2 DEF Stations, Owners
<1> QED
  BY <1>1, <1>3

\* The interfaces that are there become owners, and no owner is forgotten.
LEMMA OwnedGrows ==
  ASSUME NEW own, own = owned, Owners(own), NEW more, more = owned',
         \A h \in Hosts : ifs'[h] \in Seq(Stations),
         owned' = [a \in Addr |->
                     owned[a] \cup {x[2].mac : x \in {y \in Live' : y[2].addr = a}}]
  PROVE  /\ Owners(more) /\ \A a \in Addr : own[a] \subseteq more[a]
         /\ \A h \in Hosts : \A i \in DOMAIN ifs'[h] :
              ifs'[h][i].mac \in more[ifs'[h][i].addr]
<1> DEFINE new(a) == {x[2].mac : x \in {y \in Live' : y[2].addr = a}}
<1>1. Live' = UNION {{<<h, ifs'[h][i]>> : i \in DOMAIN ifs'[h]} : h \in Hosts}
  BY DEF Live
<1>2. \A h \in Hosts : \A i \in DOMAIN ifs'[h] : ifs'[h][i] \in Stations
  OBVIOUS
<1>3. ASSUME NEW a \in Addr
      PROVE  new(a) \subseteq Mac /\ BROADCAST \notin new(a)
  <2>1. ASSUME NEW y \in Live'
        PROVE  y[2].mac \in Mac \ {BROADCAST}
    <3>1. PICK h \in Hosts : \E i \in DOMAIN ifs'[h] : y = <<h, ifs'[h][i]>>
      BY <1>1
    <3>2. PICK i \in DOMAIN ifs'[h] : y = <<h, ifs'[h][i]>>
      BY <3>1
    <3>3. y[2] \in Stations
      BY <1>2, <3>2
    <3> QED
      BY <3>3 DEF Stations, H1!Card
  <2> QED
    BY <2>1
<1>4. more = [a \in Addr |-> own[a] \cup new(a)]
  OBVIOUS
<1>5. ASSUME NEW h \in Hosts, NEW i \in DOMAIN ifs'[h]
      PROVE  ifs'[h][i].mac \in more[ifs'[h][i].addr]
  <2> DEFINE y == <<h, ifs'[h][i]>>
             a == ifs'[h][i].addr
  <2>1. y \in Live' /\ y[2] = ifs'[h][i]
    BY <1>1
  <2>2. y \in {z \in Live' : z[2].addr = a}
    BY <2>1
  <2>3. y[2].mac \in new(a)
    BY <2>2
  <2>4. a \in Addr
    <3>1. ifs'[h][i] \in Stations
      BY <1>2
    <3> QED
      BY <3>1 DEF Stations, H1!Card, Addr
  <2> HIDE DEF y, a, new
  <2>5. y[2].mac \in more[a]
    BY <1>4, <2>3, <2>4
  <2> QED
    BY <2>1, <2>5 DEF a
<1> HIDE DEF new
<1>6. Owners(more)
  BY <1>3, <1>4 DEF Owners
<1> QED
  BY <1>4, <1>5, <1>6

\* What a step of the network makes of its interfaces.
LEMMA InterfacesStay ==
  ASSUME NEW h \in Hosts, NEW own, Owners(own), NetOK(own), Type(h)
  PROVE  \A g \in Hosts : ifs'[g] \in Seq(Stations)
<1>1. \A g \in Hosts : ifs[g] \in Seq(Stations)
  BY CardsAre DEF NetOK
<1>2. script \in [Hosts -> Seq(Command)]
  BY DEF NetOK
<1>3. CASE TypeCreate(h)
  <2>1. /\ At(h)!Create(Head(script[h]).card) /\ Others(h) /\ Typed(h, "create")
    BY <1>3, CreateIs
  <2>2. Head(script[h]) \in Command /\ Head(script[h]).cmd = "create"
    BY <1>2, <2>1, TypedIs
  <2>3. Head(script[h]).card \in Stations
    BY <2>2, CommandFields DEF Stations
  <2>4. ifs'[h] = Append(ifs[h], Head(script[h]).card)
    BY <2>1 DEF At!Create
  <2>5. ifs'[h] \in Seq(Stations)
    BY <1>1, <2>3, <2>4
  <2>6. \A g \in Hosts : g # h => ifs'[g] = ifs[g]
    BY <2>1 DEF Others
  <2> QED
    BY <1>1, <2>5, <2>6
<1>4. CASE TypeTcp(h)
  <2>1. At(h)!Tcp(Head(script[h]).ifp, Head(script[h]).dst) /\ Others(h)
    BY <1>4, TcpIs
  <2>2. ifs'[h] = ifs[h]
    BY <2>1 DEF At!Tcp, At!Tables
  <2> QED
    BY <1>1, <2>1, <2>2 DEF Others
<1>5. CASE TypeFwdctl(h)
  <2>1. At(h)!Fwdctl(Head(script[h]).flags) /\ Others(h)
    BY <1>5, FwdctlIs
  <2>2. ifs'[h] = ifs[h]
    BY <2>1 DEF At!Fwdctl
  <2> QED
    BY <1>1, <2>1, <2>2 DEF Others
<1>6. CASE TypeRoute(h)
  <2>1. At(h)!RouteAdd(Head(script[h]).ifp, Head(script[h])) /\ Others(h)
    BY <1>6, RouteIs
  <2>2. ifs'[h] = ifs[h]
    BY <2>1 DEF At!RouteAdd
  <2> QED
    BY <1>1, <2>1, <2>2 DEF Others
<1>7. CASE TypeRefused(h)
  <2>1. Others(1) /\ Others(2)
    BY <1>7, RefusedIs
  <2> QED
    BY <1>1, <2>1 DEF Others, Hosts
<1>8. CASE TypeExit(h)
  <2>1. At(h)!Restart /\ Others(h)
    BY <1>8, ExitIs
  <2>2. ifs'[h] = <<>>
    BY <2>1 DEF At!Restart
  <2>3. <<>> \in Seq(Stations)
    OBVIOUS
  <2> QED
    BY <1>1, <2>1, <2>2, <2>3 DEF Others
<1> QED
  BY <1>3, <1>4, <1>5, <1>6, <1>7, <1>8 DEF Type

\* What b packets' worth pays for: nothing, or a SYN.
Bill(v, c, u, b) == Pays(v, c, u, 0) \/ (rx'.kind = "tcp" /\ Pays(v, c, u, b))

\* Every step keeps the network in order.
LEMMA NetStep ==
  ASSUME NEW own, own = owned, Owners(own), NetOK(own), NEW more, more = owned', HNext,
         NEW v, NEW c, NEW u, Weighing(v, c, u),
         NEW b \in Nat, u <= b, \A p \in H1!IpPacket : p.ttl = 31 => v[p] <= b
  PROVE  Owners(more) /\ NetOK(more)' /\ Bill(v, c, u, b)
<1>1. /\ \/ \E h \in Hosts : Type(h)
         \/ \E h \in Hosts, ifp \in 1 .. MaxIf : Receive(h, ifp)
      /\ UNCHANGED space
      /\ owned' = [a \in Addr |->
                     owned[a] \cup {x[2].mac : x \in {y \in Live' : y[2].addr = a}}]
  BY DEF HNext, Next
<1>2. \A h \in Hosts : ifs[h] \in Seq(Stations)
  BY CardsAre DEF NetOK
<1>3. ASSUME \A h \in Hosts : ifs'[h] \in Seq(Stations)
      PROVE  /\ Owners(more) /\ \A a \in Addr : own[a] \subseteq more[a]
             /\ \A h \in Hosts : \A i \in DOMAIN ifs'[h] :
                  ifs'[h][i].mac \in more[ifs'[h][i].addr]
  BY <1>1, <1>3, OwnedGrows
<1>4. ASSUME NetOK(own)', Owners(more), \A a \in Addr : own[a] \subseteq more[a]
      PROVE  NetOK(more)'
  <2>1. \A h \in Hosts : HostOK(h, own)'
    BY <1>4 DEF NetOK
  <2>2. \A h \in Hosts : HostOK(h, more)'
    BY <1>4, <2>1, HostsGrow
  <2>3. MediumOK(own)'
    BY <1>4 DEF NetOK
  <2>4. MediumOK(more)'
    BY <1>4, <2>3, MediumGrows
  <2> QED
    BY <1>4, <2>2, <2>4 DEF NetOK
<1>5. ASSUME NEW h \in Hosts, NEW ifp \in 1 .. MaxIf, Receive(h, ifp)
      PROVE  Owners(more) /\ NetOK(more)' /\ Bill(v, c, u, b)
  <2>1. /\ NetOK(own)' /\ \A g \in Hosts : ifs'[g] = ifs[g]
        /\ Pays(v, c, u, 0)
    BY <1>1, <1>5, ReceiveStep
  <2>2. \A g \in Hosts : ifs'[g] \in Seq(Stations)
    BY <1>2, <2>1
  <2>3. Owners(more) /\ \A a \in Addr : own[a] \subseteq more[a]
    BY <1>3, <2>2
  <2> QED
    BY <1>4, <2>1, <2>3 DEF Bill
<1>6. ASSUME NEW h \in Hosts, Type(h)
      PROVE  Owners(more) /\ NetOK(more)' /\ Bill(v, c, u, b)
  <2>1. \A g \in Hosts : ifs'[g] \in Seq(Stations)
    BY <1>6, InterfacesStay
  <2>2. /\ Owners(more) /\ \A a \in Addr : own[a] \subseteq more[a]
        /\ \A g \in Hosts : \A i \in DOMAIN ifs'[g] :
             ifs'[g][i].mac \in more[ifs'[g][i].addr]
    BY <1>3, <2>1
  <2>3. CASE TypeCreate(h)
    <3>1. At(h)!Create(Head(script[h]).card)
      BY <2>3, CreateIs
    <3>2. PICK card : card = Head(script[h]).card
      OBVIOUS
    <3>3. ifs'[h] = Append(ifs[h], card) /\ ifs[h] \in Seq(Stations)
      BY <1>2, <3>1, <3>2 DEF At!Create
    <3>4. Len(ifs[h]) + 1 \in DOMAIN ifs'[h] /\ ifs'[h][Len(ifs[h]) + 1] = card
      BY <3>3
    <3>5. card.mac \in more[card.addr]
      BY <2>2, <3>4
    <3>6. NetOK(more)' /\ Pays(v, c, u, 0)
      BY <1>1, <2>2, <2>3, <3>2, <3>5, CreateStep
    <3> QED
      BY <2>2, <3>6 DEF Bill
  <2>4. CASE TypeTcp(h)
    <3>1. NetOK(own)' /\ Pays(v, c, u, b)
      <4>1. h \in Hosts /\ TypeTcp(h)
        BY <1>6, <2>4
      <4> QED
        BY <1>1, <4>1, TcpStep
    <3>2. rx'.kind = "tcp"
      <4>1. At(h)!Tcp(Head(script[h]).ifp, Head(script[h]).dst)
        BY <2>4, TcpIs
      <4> QED
        BY <4>1 DEF At!Tcp
    <3> QED
      BY <1>4, <2>2, <3>1, <3>2 DEF Bill
  <2>5. CASE TypeFwdctl(h)
    <3>1. NetOK(own)' /\ Pays(v, c, u, 0)
      BY <1>1, <2>5, FwdctlStep
    <3> QED
      BY <1>4, <2>2, <3>1 DEF Bill
  <2>6. CASE TypeRoute(h)
    <3>1. NetOK(own)' /\ Pays(v, c, u, 0)
      BY <1>1, <2>6, RouteStep
    <3> QED
      BY <1>4, <2>2, <3>1 DEF Bill
  <2>7. CASE TypeRefused(h)
    <3>1. NetOK(own)' /\ Pays(v, c, u, 0)
      BY <1>1, <2>7, RefusedStep
    <3> QED
      BY <1>4, <2>2, <3>1 DEF Bill
  <2>8. CASE TypeExit(h)
    <3>1. NetOK(own)' /\ Pays(v, c, u, 0)
      BY <1>1, <2>8, ExitStep
    <3> QED
      BY <1>4, <2>2, <3>1 DEF Bill
  <2> QED
    BY <1>6, <2>3, <2>4, <2>5, <2>6, <2>7, <2>8 DEF Type
<1> QED
  BY <1>1, <1>5, <1>6

-----------------------------------------------------------------------------
\* The inductive invariant: the tables, the frames on their way and the sockets
\* are in order, for the owners that the addresses have had so far.
NetInv == \E own : own = owned /\ Owners(own) /\ NetOK(own)

\* The processes start with nothing owned, sent or queued.
LEMMA NetInit == HInit => NetInv
<1> SUFFICES ASSUME HInit
             PROVE  NetInv
  OBVIOUS
<1>1. PICK own : own = owned
  OBVIOUS
<1>2. Owners(own)
  <2>1. own = [a \in Addr |-> {}]
    BY <1>1 DEF HInit
  <2> QED
    BY <2>1 DEF Owners
<1>3. /\ H1!Init /\ H2!Init /\ H3!Init
      /\ script \in [Hosts -> Seq(Command)] /\ space \in Nat
      /\ file = [p \in Path |-> Nobody]
      /\ out = [h \in Hosts |-> <<>>] /\ sock = [h \in Hosts |-> <<>>]
  <2>1. PICK s \in Scenarios : script = s.script /\ space = s.space
    BY DEF HInit, Init
  <2>2. s \in [script : [Hosts -> Seq(Command)], space : Nat]
    BY NetworkAssumption
  <2> QED
    BY <2>1, <2>2 DEF HInit, Init
<1>4. \A h \in Hosts : Started(h) /\ HostOK(h, own)
  <2>1. At(1)!Init /\ At(2)!Init /\ At(3)!Init
    BY <1>3, RestartAt
  <2>2. 1 \in Hosts /\ 2 \in Hosts /\ 3 \in Hosts /\ \A h \in Hosts : h \in {1, 2, 3}
    BY DEF Hosts
  <2>3. /\ Started(1) /\ HostOK(1, own) /\ Started(2) /\ HostOK(2, own)
        /\ Started(3) /\ HostOK(3, own)
    BY <1>2, <2>1, <2>2, StartKeeps
  <2> QED
    BY <2>2, <2>3
<1>5. LastOK
  <2>1. Started(1)
    BY <1>4 DEF Hosts
  <2>2. <<>> \in Seq(H1!Transmission) /\ <<>> \in Seq(H1!IpPacket)
    OBVIOUS
  <2> QED
    BY <2>1, <2>2 DEF Started, LastOK
<1>6. MediumOK(own)
  <2> DEFINE B == Truthful(own)
  <2>1. <<>> \in Seq(Seq(B)) /\ <<>> \in Seq(Path) /\ DOMAIN <<>> = {} /\ Len(<<>>) = 0
    OBVIOUS
  <2> HIDE DEF B
  <2>2. sock \in Boxes(B, space, sock)
    BY <1>3, <2>1 DEF Boxes
  <2>3. \A h \in Hosts : Len(out[h]) = Len(ifs[h]) /\ Len(sock[h]) = Len(ifs[h])
    BY <1>3, <1>4 DEF Started
  <2> QED
    BY <1>3, <2>1, <2>2, <2>3 DEF MediumOK, B
<1> QED
  BY <1>1, <1>2, <1>3, <1>4, <1>5, <1>6 DEF NetInv, NetOK

\* Nothing changes when nothing is done.
LEMMA NetStutter ==
  ASSUME NetInv, UNCHANGED allVars
  PROVE  NetInv'
<1>1. PICK own : own = owned /\ Owners(own) /\ NetOK(own)
  BY DEF NetInv
<1>2. /\ UNCHANGED <<host1, host2, host3>> /\ UNCHANGED <<sent, delivered, rx>>
      /\ UNCHANGED <<script, space>> /\ UNCHANGED medium /\ owned' = owned
  BY DEF allVars, vars, hvars
<1>3. \A g \in Hosts :
        /\ ifs'[g] = ifs[g] /\ flags'[g] = flags[g] /\ mactable'[g] = mactable[g]
        /\ arptable'[g] = arptable[g] /\ sbuf'[g] = sbuf[g] /\ rib'[g] = rib[g]
        /\ fib_n'[g] = fib_n[g] /\ fib'[g] = fib[g]
  BY <1>2, OthersIdle DEF Others, Hosts
<1>4. \A g \in Hosts : HostOK(g, own)'
  <2>1. \A g \in Hosts : HostOK(g, own)
    BY <1>1 DEF NetOK
  <2> QED
    BY <1>3, <2>1 DEF HostOK, CardsOK, ArpOK, RoutesOK, BridgeOK
<1>5. MediumOK(own)'
  BY <1>1, <1>2, <1>3 DEF NetOK, MediumOK, Boxes, medium
<1>6. LastOK'
  BY <1>1, <1>2 DEF NetOK, LastOK
<1>7. NetOK(own)'
  BY <1>1, <1>2, <1>4, <1>5, <1>6 DEF NetOK
<1> QED
  BY <1>1, <1>2, <1>7 DEF NetInv

\* What holds after a step of the network, whatever packets are worth.
LEMMA NetNext ==
  ASSUME NetInv, HNext,
         NEW v, NEW c, NEW u, Weighing(v, c, u),
         NEW b \in Nat, u <= b, \A p \in H1!IpPacket : p.ttl = 31 => v[p] <= b
  PROVE  NetInv' /\ Bill(v, c, u, b)
<1>1. PICK own : own = owned /\ Owners(own) /\ NetOK(own)
  BY DEF NetInv
<1>2. PICK more : more = owned'
  OBVIOUS
<1>3. Owners(more) /\ NetOK(more)' /\ Bill(v, c, u, b)
  BY <1>1, <1>2, NetStep
<1> QED
  BY <1>2, <1>3 DEF NetInv

\* The network is always in order.
LEMMA NetInvariant == HSpec => []NetInv
<1>1. NetInv /\ [HNext]_allVars => NetInv'
  <2>1. ASSUME NetInv, HNext
        PROVE  NetInv'
    <3> DEFINE v == [p \in H1!IpPacket |-> 0]
    <3>1. Weighing(v, 0, 0) /\ \A p \in H1!IpPacket : v[p] <= 0
      <4>1. \A p \in H1!IpPacket : p.ttl > 1 => Older(p) \in H1!IpPacket
        <5> SUFFICES ASSUME NEW p \in H1!IpPacket, p.ttl > 1
                     PROVE  Older(p) \in H1!IpPacket
          OBVIOUS
        <5>1. p.ttl \in 0 .. 255 /\ p.ttl - 1 \in 0 .. 255
          BY DEF H1!IpPacket
        <5> QED
          BY <5>1 DEF Older, H1!IpPacket
      <4> QED
        BY <4>1 DEF Weighing
    <3> HIDE DEF v
    <3> QED
      BY <2>1, <3>1, NetNext
  <2> QED
    BY <2>1, NetStutter
<1> QED
  BY <1>1, NetInit, PTL DEF HSpec

\* What the hosts' tables and frames are made of is the same at each.
LEMMA SetsAt ==
  /\ H2!Card = H1!Card /\ H3!Card = H1!Card
  /\ H2!Transmission = H1!Transmission /\ H3!Transmission = H1!Transmission
  /\ H2!Addr = H1!Addr /\ H3!Addr = H1!Addr
  /\ H2!SendBuf = H1!SendBuf /\ H3!SendBuf = H1!SendBuf
  /\ H2!Prefix = H1!Prefix /\ H3!Prefix = H1!Prefix
  /\ H2!FibEntry = H1!FibEntry /\ H3!FibEntry = H1!FibEntry
  /\ H2!IpPacket = H1!IpPacket /\ H3!IpPacket = H1!IpPacket
  /\ H2!Event = H1!Event /\ H3!Event = H1!Event
<1>1. H2!Addr = H1!Addr /\ H3!Addr = H1!Addr /\ H2!NULL = H1!NULL /\ H3!NULL = H1!NULL
  BY DEF H1!Addr, H2!Addr, H3!Addr, H1!NULL, H2!NULL, H3!NULL
<1>2. H2!IpPacket = H1!IpPacket /\ H3!IpPacket = H1!IpPacket
  BY <1>1 DEF H1!IpPacket, H2!IpPacket, H3!IpPacket
<1>3. H2!Frame = H1!Frame /\ H3!Frame = H1!Frame
  BY <1>1, <1>2 DEF H1!Frame, H2!Frame, H3!Frame, H1!ArpPacket, H2!ArpPacket, H3!ArpPacket
<1>4. H2!Prefix = H1!Prefix /\ H3!Prefix = H1!Prefix
  BY <1>1 DEF H1!Prefix, H2!Prefix, H3!Prefix, H1!Mask, H2!Mask, H3!Mask
<1>5. H2!FibEntry = H1!FibEntry /\ H3!FibEntry = H1!FibEntry
  BY <1>1, <1>4 DEF H1!FibEntry, H2!FibEntry, H3!FibEntry
<1>6. H2!Event = H1!Event /\ H3!Event = H1!Event
  BY <1>1, <1>2, <1>3 DEF H1!Event, H2!Event, H3!Event
<1>7. H2!SendBuf = H1!SendBuf /\ H3!SendBuf = H1!SendBuf
  BY <1>1, <1>2 DEF H1!SendBuf, H2!SendBuf, H3!SendBuf
<1>8. H2!Transmission = H1!Transmission /\ H3!Transmission = H1!Transmission
  BY <1>1, <1>3 DEF H1!Transmission, H2!Transmission, H3!Transmission
<1>9. H2!Card = H1!Card /\ H3!Card = H1!Card
  BY <1>1 DEF H1!Card, H2!Card, H3!Card
<1> QED
  BY <1>1, <1>2, <1>4, <1>5, <1>6, <1>7, <1>8, <1>9

\* The tables and the queues of every host, its packets and its sockets have
\* their types, no socket holds more datagrams than it has room for, and every
\* file leads to a socket that is there, whatever is typed and lost.
THEOREM TypeCorrect == HSpec => []TypeOK
<1>1. NetInv => TypeOK
  <2> SUFFICES ASSUME NetInv
               PROVE  TypeOK
    OBVIOUS
  <2>1. PICK own : Owners(own) /\ NetOK(own)
    BY DEF NetInv
  <2>2. /\ HostOK(1, own) /\ HostOK(2, own) /\ HostOK(3, own)
        /\ MediumOK(own) /\ LastOK
    BY <2>1 DEF NetOK, Hosts
  <2>3. \A h \in Hosts : \A p \in DOMAIN rib[h] : DOMAIN ifs[h] = 1 .. Len(ifs[h])
    <3>1. \A h \in Hosts : ifs[h] \in Seq(H1!Card)
      BY <2>1 DEF NetOK, HostOK, CardsOK
    <3> QED
      BY <3>1
  <2>4. H1!TypeOK
    BY <2>2, <2>3 DEF HostOK, CardsOK, ArpOK, RoutesOK, BridgeOK, LastOK, H1!TypeOK,
       H1!IfTypeOK, H1!EtherTypeOK, H1!ArpTypeOK, H1!IpTypeOK, H1!Interfaces, ifs,
       flags, mactable, arptable, sbuf, rib, fib_n, fib, Addr, Hosts
  <2>5. H2!TypeOK
    BY <2>2, <2>3, SetsAt DEF HostOK, CardsOK, ArpOK, RoutesOK, BridgeOK, LastOK, H2!TypeOK,
       H2!IfTypeOK, H2!EtherTypeOK, H2!ArpTypeOK, H2!IpTypeOK, H2!Interfaces, ifs,
       flags, mactable, arptable, sbuf, rib, fib_n, fib, Addr, Hosts
  <2>6. H3!TypeOK
    BY <2>2, <2>3, SetsAt DEF HostOK, CardsOK, ArpOK, RoutesOK, BridgeOK, LastOK, H3!TypeOK,
       H3!IfTypeOK, H3!EtherTypeOK, H3!ArpTypeOK, H3!IpTypeOK, H3!Interfaces, ifs,
       flags, mactable, arptable, sbuf, rib, fib_n, fib, Addr, Hosts
  <2>7. sock \in [Hosts -> Seq(Seq(Truthful(own)))]
        /\ \A h \in Hosts : \A i \in DOMAIN sock[h] : Len(sock[h][i]) <= space
    BY <2>2 DEF MediumOK, Boxes
  <2>8. \A h \in Hosts : /\ DOMAIN sock[h] = 1 .. Len(sock[h])
                         /\ \A i \in DOMAIN sock[h] : sock[h][i] \in Seq(H1!Frame)
    <3> SUFFICES ASSUME NEW h \in Hosts
                 PROVE  /\ DOMAIN sock[h] = 1 .. Len(sock[h])
                        /\ \A i \in DOMAIN sock[h] : sock[h][i] \in Seq(H1!Frame)
      OBVIOUS
    <3>1. sock[h] \in Seq(Seq(Truthful(own))) /\ Truthful(own) \subseteq H1!Frame
      BY <2>7 DEF Truthful
    <3>2. \A i \in DOMAIN sock[h] : sock[h][i] \in Seq(Truthful(own))
      BY <3>1
    <3> QED
      BY <3>1, <3>2
  <2>9. \A p \in Path : file[p] # Nobody => file[p][2] \in DOMAIN sock[file[p][1]]
    <3> SUFFICES ASSUME NEW p \in Path, file[p] # Nobody
                 PROVE  file[p][2] \in DOMAIN sock[file[p][1]]
      OBVIOUS
    <3>1. file[p] \in Hosts \X Nat /\ file[p][2] \in 1 .. Len(sock[file[p][1]])
      BY <2>2 DEF MediumOK
    <3> QED
      BY <2>8, <3>1
  <2> QED
    BY <2>2, <2>4, <2>5, <2>6, <2>7, <2>8, <2>9 DEF TypeOK, MediumOK
<1> QED
  BY <1>1, NetInvariant, PTL

\* What the ARP tables say was true of the address at some time, across bridges
\* and restarts of the hosts.
THEOREM EntriesTrue == HSpec => []EntriesAreTrue
<1>1. NetInv => EntriesAreTrue
  <2> SUFFICES ASSUME NetInv, NEW h \in Hosts, NEW a \in Addr \ {INADDR_ANY},
                      arptable[h][IPHASH[a]].ip_addr = a
               PROVE  arptable[h][IPHASH[a]].macaddr \in owned[a]
    BY DEF EntriesAreTrue
  <2>1. PICK own : own = owned /\ Owners(own) /\ NetOK(own)
    BY DEF NetInv
  <2>2. IPHASH[a] \in Slots
    BY NetworkAssumption DEF Addr
  <2>3. Known(arptable[h][IPHASH[a]], own)
    BY <2>1, <2>2 DEF NetOK, HostOK, ArpOK
  <2> QED
    BY <2>1, <2>3 DEF Known
<1> QED
  BY <1>1, NetInvariant, PTL

-----------------------------------------------------------------------------
\* No packet is doubled.

\* Every packet is worth as much as the next.
Ones == [p \in H1!IpPacket |-> 1]

\* That is a weight: a packet is never worth more than it was.
LEMMA OneWeighs ==
  Weighing(Ones, 0, 1) /\ \A p \in H1!IpPacket : Ones[p] = 1 /\ Ones[p] <= 1
<1>1. \A p \in H1!IpPacket : p.ttl > 1 => Older(p) \in H1!IpPacket
  <2> SUFFICES ASSUME NEW p \in H1!IpPacket, p.ttl > 1
               PROVE  Older(p) \in H1!IpPacket
    OBVIOUS
  <2>1. p.ttl \in 0 .. 255 /\ p.ttl - 1 \in 0 .. 255
    BY DEF H1!IpPacket
  <2> QED
    BY <2>1 DEF Older, H1!IpPacket
<1>2. /\ Ones \in [H1!IpPacket -> Nat] /\ \A p \in H1!IpPacket : Ones[p] = 1
      /\ 0 \in Nat /\ 1 \in Nat
  BY DEF Ones
<1>3. \A p \in H1!IpPacket : 1 + 0 <= Ones[p]
  BY <1>2
<1>4. \A p \in H1!IpPacket : p.ttl > 1 => Ones[Older(p)] + 0 <= Ones[p]
  BY <1>1, <1>2
<1> QED
  BY <1>2, <1>3, <1>4 DEF Weighing

\* The packets in the sockets and the buffers are counted by what they are worth.
LEMMA Counted ==
  ASSUME NetInv
  PROVE  /\ OnWire = Carry(sock, OnLink(Ones, 0)) /\ Waiting = Stored(Ones)
         /\ OnWire \in Nat /\ Waiting \in Nat
<1> DEFINE w == OnLink(Ones, 0)
           f == [h \in Hosts |-> Load(sock[h], w)]
           g == [h \in Hosts |-> Sum([i \in DOMAIN sock[h] |-> Packets(sock[h][i])], Len(sock[h]))]
<1>1. PICK own : Owners(own) /\ NetOK(own)
  BY DEF NetInv
<1>2. w \in [H1!Frame -> Nat] /\ \A x \in H1!Frame : w[x] = IF x.type = "IP" THEN 1 ELSE 0
  <2>1. w \in [H1!Frame -> Nat]
    BY OneWeighs, WeightTypes
  <2>2. \A x \in H1!Frame : x.type = "IP" => x.pl \in H1!IpPacket
    BY DEF H1!Frame
  <2>3. \A x \in H1!Frame : w[x] = IF x.type = "IP" THEN Ones[x.pl] - 0 ELSE 0
    BY DEF OnLink
  <2>4. \A p \in H1!IpPacket : Ones[p] - 0 = 1
    BY OneWeighs
  <2> HIDE DEF w
  <2> QED
    BY <2>1, <2>2, <2>3, <2>4
<1>3. sock \in [Hosts -> Seq(Seq(H1!Frame))]
  <2>1. sock \in Boxes(Truthful(own), space, sock) /\ Truthful(own) \subseteq H1!Frame
    BY <1>1 DEF NetOK, MediumOK, Truthful
  <2> QED
    BY <2>1, BoxesGrow DEF Boxes
<1> HIDE DEF w
<1>4. ASSUME NEW q, q \in Seq(H1!Frame)
      PROVE  Packets(q) = Total(q, w)
  <2>1. \A k \in DOMAIN q : q[k] \in H1!Frame
    BY <1>4
  <2>2. [k \in DOMAIN q |-> IF q[k].type = "IP" THEN 1 ELSE 0] = [k \in DOMAIN q |-> w[q[k]]]
    BY <1>2, <2>1
  <2> QED
    BY <2>2 DEF Packets, Total
<1>5. ASSUME NEW h \in Hosts
      PROVE  /\ Sum([i \in DOMAIN sock[h] |-> Packets(sock[h][i])], Len(sock[h])) = Load(sock[h], w)
             /\ Load(sock[h], w) \in Nat
  <2>1. sock[h] \in Seq(Seq(H1!Frame))
    BY <1>3
  <2>2. \A i \in DOMAIN sock[h] : Packets(sock[h][i]) = Total(sock[h][i], w)
    BY <1>4, <2>1
  <2>3. [i \in DOMAIN sock[h] |-> Packets(sock[h][i])] = [i \in DOMAIN sock[h] |-> Total(sock[h][i], w)]
    BY <2>2
  <2> QED
    BY <1>2, <2>1, <2>3, LoadType DEF Load
<1>6. g = f
  BY <1>5
<1>7. OnWire = Sum(f, 3)
  BY <1>6 DEF OnWire
<1>8. Sum(f, 3) = f[1] + f[2] + f[3] /\ \A k \in 1 .. 3 : f[k] \in Nat
  <2>1. \A k \in 1 .. 3 : f[k] \in Nat
    BY <1>5 DEF Hosts
  <2> HIDE DEF f
  <2>2. (\A k \in 1 .. 1 : f[k] \in Nat) /\ (\A k \in 1 .. 2 : f[k] \in Nat)
    BY <2>1
  <2>3. Sum(f, 0) = 0 /\ Sum(f, 1) = Sum(f, 1 - 1) + f[1]
    BY <2>2, SumLast
  <2>4. Sum(f, 2) = Sum(f, 2 - 1) + f[2]
    BY <2>2, SumLast
  <2>5. Sum(f, 3) = Sum(f, 3 - 1) + f[3]
    BY <2>1, SumLast
  <2>6. 1 - 1 = 0 /\ 2 - 1 = 1 /\ 3 - 1 = 2
    OBVIOUS
  <2>7. f[1] \in Nat /\ f[2] \in Nat /\ f[3] \in Nat
    BY <2>1
  <2> QED
    BY <2>1, <2>3, <2>4, <2>5, <2>6, <2>7
<1>9. OnWire = Carry(sock, w) /\ OnWire \in Nat
  <2>1. f[1] = Load(sock[1], w) /\ f[2] = Load(sock[2], w) /\ f[3] = Load(sock[3], w)
    BY DEF Hosts
  <2>2. f[1] \in Nat /\ f[2] \in Nat /\ f[3] \in Nat
    BY <1>8
  <2> HIDE DEF f
  <2> QED
    BY <1>7, <1>8, <2>1, <2>2 DEF Carry
<1>10. \A h \in Hosts : Total(sbuf[h], InBuffer(Ones)) = Len(sbuf[h]) /\ Len(sbuf[h]) \in Nat
  <2>1. \A h \in Hosts : sbuf[h] \in Seq(H1!SendBuf)
    BY <1>1 DEF NetOK, HostOK, ArpOK
  <2>2. \A e \in H1!SendBuf : InBuffer(Ones)[e] = 1
    BY OneWeighs DEF InBuffer, H1!SendBuf
  <2>3. InBuffer(Ones) \in [H1!SendBuf -> Nat]
    BY OneWeighs, WeightTypes
  <2> QED
    BY <2>1, <2>2, <2>3, TotalOnes
<1>11. Waiting = Stored(Ones) /\ Waiting \in Nat
  <2>1. /\ Total(sbuf[1], InBuffer(Ones)) = Len(sbuf[1]) /\ Len(sbuf[1]) \in Nat
        /\ Total(sbuf[2], InBuffer(Ones)) = Len(sbuf[2]) /\ Len(sbuf[2]) \in Nat
        /\ Total(sbuf[3], InBuffer(Ones)) = Len(sbuf[3]) /\ Len(sbuf[3]) \in Nat
    BY <1>10 DEF Hosts
  <2>2. Waiting = Len(sbuf[1]) + Len(sbuf[2]) + Len(sbuf[3])
    BY DEF Waiting
  <2> DEFINE x == Len(sbuf[1])
             y == Len(sbuf[2])
             z == Len(sbuf[3])
  <2>3. x \in Nat /\ y \in Nat /\ z \in Nat /\ Stored(Ones) = x + y + z /\ Waiting = x + y + z
    BY <2>1, <2>2, Zenon DEF Stored
  <2> HIDE DEF x, y, z
  <2> QED
    BY <2>3
<1> QED
  BY <1>9, <1>11 DEF w

\* What packets weigh is a number, before a step and after it.
LEMMA BurdenType ==
  ASSUME NetInv, NetInv', NEW v, NEW c, NEW u, Weighing(v, c, u)
  PROVE  Burden(v, c) \in Nat /\ Burden(v, c)' \in Nat
<1>1. PICK own : NetOK(own)
  BY DEF NetInv
<1>2. PICK more : NetOK(more)'
  BY DEF NetInv
<1>3. Truthful(own) \subseteq H1!Frame /\ Truthful(more) \subseteq H1!Frame
  BY DEF Truthful
<1>4. /\ sock \in Boxes(Truthful(own), space, sock)
      /\ sock' \in Boxes(Truthful(more), space', sock')
  BY <1>1, <1>2 DEF NetOK, MediumOK
<1>5. /\ sock \in [Hosts -> Seq(Seq(H1!Frame))] /\ sock' \in [Hosts -> Seq(Seq(H1!Frame))]
  <2>1. /\ sock \in Boxes(H1!Frame, space, sock) /\ sock' \in Boxes(H1!Frame, space', sock')
    BY <1>3, <1>4, BoxesGrow
  <2> QED
    BY <2>1 DEF Boxes
<1>6. Carry(sock, OnLink(v, c)) \in Nat /\ Carry(sock', OnLink(v, c)) \in Nat
  BY <1>5, WeightTypes, CarryType
<1>7. \A h \in Hosts : sbuf[h] \in Seq(H1!SendBuf) /\ sbuf'[h] \in Seq(H1!SendBuf)
  BY <1>1, <1>2 DEF NetOK, HostOK, ArpOK
<1>8. \A h \in Hosts : /\ Total(sbuf[h], InBuffer(v)) \in Nat
                       /\ Total(sbuf'[h], InBuffer(v)) \in Nat
  BY <1>7, WeightTypes, TotalType
<1>9. /\ Total(sbuf[1], InBuffer(v)) \in Nat /\ Total(sbuf'[1], InBuffer(v)) \in Nat
      /\ Total(sbuf[2], InBuffer(v)) \in Nat /\ Total(sbuf'[2], InBuffer(v)) \in Nat
      /\ Total(sbuf[3], InBuffer(v)) \in Nat /\ Total(sbuf'[3], InBuffer(v)) \in Nat
  BY <1>8 DEF Hosts
<1>10. Stored(v) \in Nat /\ Stored(v)' \in Nat
  BY <1>9 DEF Stored, InBuffer
<1>11. Burden(v, c)' = Carry(sock', OnLink(v, c)) + Stored(v)'
  BY DEF Burden, OnLink
<1> QED
  BY <1>6, <1>10, <1>11 DEF Burden

\* No bridge has more than two ports.
TwoPorts == \A h \in Hosts : flags[h].l2 => Len(ifs[h]) <= 2

\* What has arrived, and what is still on its way, was typed.
OnceInv ==
  /\ typed \in Nat /\ arrived \in Nat
  /\ arrived + Burden(Ones, 0) <= typed

\* Nothing was typed yet, and nothing is on its way.
LEMMA OnceInit == HInit => OnceInv
<1> SUFFICES ASSUME HInit
             PROVE  OnceInv
  OBVIOUS
<1>1. NetInv /\ typed = 0 /\ arrived = 0
  BY NetInit DEF HInit
<1>2. sock = [h \in Hosts |-> <<>>] /\ sbuf[1] = <<>> /\ sbuf[2] = <<>> /\ sbuf[3] = <<>>
  BY DEF HInit, Init, sbuf, H1!Init, H2!Init, H3!Init
<1>3. Stored(Ones) = 0
  BY <1>2, TotalNone DEF Stored
<1>4. Carry(sock, OnLink(Ones, 0)) = 0
  <2>1. Load(<<>>, OnLink(Ones, 0)) = 0
    <3>1. <<>> \in Seq(Seq(H1!Frame)) /\ OnLink(Ones, 0) \in [H1!Frame -> Nat]
      BY OneWeighs, WeightTypes
    <3> QED
      BY <3>1, LoadNew
  <2> QED
    BY <1>2, <2>1 DEF Carry, Hosts
<1>5. Burden(Ones, 0) = 0
  BY <1>3, <1>4 DEF Burden
<1> QED
  BY <1>1, <1>5 DEF OnceInv

\* A step moves packets, loses them, or adds the one that was typed.
LEMMA OnceNext ==
  ASSUME NetInv, OnceInv, TwoPorts, HNext
  PROVE  OnceInv'
<1>1. Weighing(Ones, 0, 1) /\ \A p \in H1!IpPacket : p.ttl = 31 => Ones[p] <= 1
  BY OneWeighs
<1>2. NetInv' /\ Bill(Ones, 0, 1, 1)
  BY <1>1, NetNext
<1>3. \A h \in Hosts : NoCopies(h, 0)
  BY DEF TwoPorts, NoCopies
<1>4. /\ Burden(Ones, 0) \in Nat /\ Burden(Ones, 0)' \in Nat
  BY <1>1, <1>2, BurdenType
<1>5. delivered' \in Seq(H1!IpPacket) /\ sent' \in Seq(H1!Transmission)
  BY <1>2 DEF NetInv, NetOK, LastOK
<1>6. Total(delivered', Upward(1)) = Len(delivered') /\ Len(delivered') \in Nat
  <2>1. Upward(1) \in [H1!IpPacket -> Nat] /\ \A p \in H1!IpPacket : Upward(1)[p] = 1
    BY DEF Upward
  <2> QED
    BY <1>5, <2>1, TotalOnes
<1>7. Total(sent', Linking(0)) \in Nat
  <2>1. Linking(0) \in [H1!Transmission -> Nat]
    BY DEF Linking
  <2> QED
    BY <1>5, <2>1, TotalType
<1>8. /\ arrived' = arrived + Len(delivered')
      /\ \/ rx'.kind = "tcp" /\ typed' = typed + 1
         \/ rx'.kind # "tcp" /\ typed' = typed
  BY DEF HNext
<1> DEFINE a == arrived
           b == Burden(Ones, 0)
           b1 == Burden(Ones, 0)'
           d == Total(delivered', Upward(1))
           l == Total(sent', Linking(0))
           t == typed
<1>9. /\ a \in Nat /\ b \in Nat /\ b1 \in Nat /\ d \in Nat /\ l \in Nat /\ t \in Nat
      /\ a + b <= t
  BY <1>4, <1>6, <1>7 DEF OnceInv
<1>10. arrived' = a + d
  BY <1>6, <1>8
<1>11. \/ b1 + l + d <= b + 0 /\ (typed' = t \/ typed' = t + 1)
       \/ b1 + l + d <= b + 1 /\ typed' = t + 1
  BY <1>2, <1>3, <1>8 DEF Bill, Pays
<1> HIDE DEF a, b, b1, d, l, t
<1>12. (a + d) + b1 <= typed' /\ typed' \in Nat /\ a + d \in Nat
  BY <1>9, <1>11
<1> QED
  BY <1>10, <1>12 DEF OnceInv, b1

\* As long as no bridge has more than two ports, a packet is in one place at
\* most over the three hosts: what has arrived, is in a socket or waits for an
\* address was typed, whatever is lost, restarted or routed in circles.
THEOREM PacketsOnce == HSpec /\ []TwoPorts => []NoPacketTwice
<1>1. NetInv /\ OnceInv => NoPacketTwice
  <2> SUFFICES ASSUME NetInv, OnceInv
               PROVE  NoPacketTwice
    OBVIOUS
  <2>1. /\ OnWire = Carry(sock, OnLink(Ones, 0)) /\ Waiting = Stored(Ones)
        /\ OnWire \in Nat /\ Waiting \in Nat
    BY Counted
  <2>2. arrived \in Nat /\ typed \in Nat /\ arrived + (OnWire + Waiting) <= typed
    BY <2>1 DEF OnceInv, Burden
  <2> QED
    BY <2>1, <2>2 DEF NoPacketTwice
<1>2. NetInv /\ OnceInv /\ TwoPorts /\ [HNext]_allVars => OnceInv'
  <2>1. ASSUME OnceInv, UNCHANGED allVars
        PROVE  OnceInv'
    <3>1. /\ typed' = typed /\ arrived' = arrived /\ sock' = sock
          /\ sbuf' = sbuf
      BY <2>1 DEF allVars, vars, hvars, host1, host2, host3, medium, sbuf
    <3>2. Burden(Ones, 0)' = Burden(Ones, 0)
      BY <3>1 DEF Burden, Stored, InBuffer, OnLink, Ones
    <3> QED
      BY <2>1, <3>1, <3>2 DEF OnceInv
  <2> QED
    BY <2>1, OnceNext
<1> QED
  BY <1>1, <1>2, NetInvariant, OnceInit, PTL DEF HSpec

-----------------------------------------------------------------------------
\* The hop count.

\* A packet is worth the links it may still be sent over.
Ttl == [p \in H1!IpPacket |-> IF p.ttl = 0 THEN 1 ELSE p.ttl]

\* That is a weight: a link costs one, and a hop takes one from it.
LEMMA TtlWeighs ==
  Weighing(Ttl, 1, 0) /\ \A p \in H1!IpPacket : p.ttl = 31 => Ttl[p] <= 31
<1>1. \A p \in H1!IpPacket : p.ttl \in 0 .. 255 /\ Ttl[p] = IF p.ttl = 0 THEN 1 ELSE p.ttl
  BY DEF Ttl, H1!IpPacket
<1>2. Ttl \in [H1!IpPacket -> Nat] /\ \A p \in H1!IpPacket : 0 + 1 <= Ttl[p]
  <2>1. \A p \in H1!IpPacket : Ttl[p] \in Nat /\ 0 + 1 <= Ttl[p]
    BY <1>1
  <2>2. Ttl = [p \in H1!IpPacket |-> Ttl[p]]
    BY DEF Ttl
  <2> QED
    BY <2>1, <2>2
<1>3. ASSUME NEW p \in H1!IpPacket, p.ttl > 1
      PROVE  Ttl[Older(p)] + 1 <= Ttl[p]
  <2>1. p.ttl \in 0 .. 255 /\ p.ttl - 1 \in 0 .. 255 /\ p.ttl - 1 # 0
    BY <1>1, <1>3
  <2>2. Older(p) \in H1!IpPacket /\ Older(p).ttl = p.ttl - 1
    BY <2>1 DEF Older, H1!IpPacket
  <2>3. Ttl[Older(p)] = p.ttl - 1 /\ Ttl[p] = p.ttl
    BY <1>1, <1>3, <2>1, <2>2
  <2> QED
    BY <2>1, <2>3
<1>4. \A p \in H1!IpPacket : p.ttl = 31 => Ttl[p] <= 31
  BY <1>1
<1> QED
  BY <1>2, <1>3, <1>4 DEF Weighing

\* No host is a bridge.
Unbridged == \A h \in Hosts : ~ flags[h].l2

\* What was carried, and what the packets on their way may still be, was paid.
HopsInv ==
  /\ typed \in Nat /\ carried \in Nat
  /\ carried + Burden(Ttl, 1) <= 31 * typed

\* Nothing was typed yet, and nothing is on its way.
LEMMA HopsInit == HInit => HopsInv
<1> SUFFICES ASSUME HInit
             PROVE  HopsInv
  OBVIOUS
<1>1. typed = 0 /\ carried = 0
  BY DEF HInit
<1>2. sock = [h \in Hosts |-> <<>>] /\ sbuf[1] = <<>> /\ sbuf[2] = <<>> /\ sbuf[3] = <<>>
  BY DEF HInit, Init, sbuf, H1!Init, H2!Init, H3!Init
<1>3. Stored(Ttl) = 0
  BY <1>2, TotalNone DEF Stored
<1>4. Carry(sock, OnLink(Ttl, 1)) = 0
  <2>1. Load(<<>>, OnLink(Ttl, 1)) = 0
    <3>1. <<>> \in Seq(Seq(H1!Frame)) /\ OnLink(Ttl, 1) \in [H1!Frame -> Nat]
      BY TtlWeighs, WeightTypes
    <3> QED
      BY <3>1, LoadNew
  <2> QED
    BY <1>2, <2>1 DEF Carry, Hosts
<1>5. Burden(Ttl, 1) = 0
  BY <1>3, <1>4 DEF Burden
<1> QED
  BY <1>1, <1>5 DEF HopsInv

\* The frames that carry packets, counted by what they use up.
LEMMA Linked ==
  ASSUME sent' \in Seq(H1!Transmission)
  PROVE  /\ Packets([i \in DOMAIN sent' |-> sent'[i].eh]) = Total(sent', Linking(1))
         /\ Total(sent', Linking(1)) \in Nat
<1> DEFINE q == [i \in DOMAIN sent' |-> sent'[i].eh]
<1>1. /\ DOMAIN sent' = 1 .. Len(sent') /\ Len(sent') \in Nat
      /\ \A i \in DOMAIN sent' : sent'[i] \in H1!Transmission
  OBVIOUS
<1>2. DOMAIN q = DOMAIN sent' /\ Len(q) = Len(sent') /\ \A i \in DOMAIN sent' : q[i] = sent'[i].eh
  <2>1. q = [i \in 1 .. Len(sent') |-> sent'[i].eh]
    BY <1>1
  <2> QED
    BY <1>1, <2>1
<1>3. [k \in DOMAIN q |-> IF q[k].type = "IP" THEN 1 ELSE 0]
        = [k \in DOMAIN sent' |-> Linking(1)[sent'[k]]]
  <2>1. \A k \in DOMAIN sent' : Linking(1)[sent'[k]] = IF q[k].type = "IP" THEN 1 ELSE 0
    BY <1>1, <1>2 DEF Linking
  <2> HIDE DEF q
  <2> QED
    BY <1>2, <2>1
<1>4. Linking(1) \in [H1!Transmission -> Nat]
  BY DEF Linking
<1> HIDE DEF q
<1>5. Packets(q) = Total(sent', Linking(1))
  BY <1>2, <1>3 DEF Packets, Total
<1> QED
  BY <1>4, <1>5, TotalType DEF q

\* What a frame costs on its link is taken from the packet it carries.
LEMMA HopsNext ==
  ASSUME NetInv, HopsInv, Unbridged, HNext
  PROVE  HopsInv'
<1>1. Weighing(Ttl, 1, 0) /\ \A p \in H1!IpPacket : p.ttl = 31 => Ttl[p] <= 31
  BY TtlWeighs
<1>2. NetInv' /\ Bill(Ttl, 1, 0, 31)
  <2>1. 31 \in Nat /\ 0 <= 31
    OBVIOUS
  <2> QED
    BY <1>1, <2>1, NetNext
<1>3. \A h \in Hosts : NoCopies(h, 1)
  BY DEF Unbridged, NoCopies
<1>4. Burden(Ttl, 1) \in Nat /\ Burden(Ttl, 1)' \in Nat
  BY <1>1, <1>2, BurdenType
<1>5. delivered' \in Seq(H1!IpPacket) /\ sent' \in Seq(H1!Transmission)
  BY <1>2 DEF NetInv, NetOK, LastOK
<1>6. Total(delivered', Upward(0)) \in Nat
  BY <1>1, <1>5, WeightTypes, TotalType
<1>7. /\ carried' = Min({31 * typed' + 1, carried + Total(sent', Linking(1))})
      /\ Total(sent', Linking(1)) \in Nat
  BY <1>5, Linked DEF HNext
<1>8. \/ rx'.kind = "tcp" /\ typed' = typed + 1
      \/ rx'.kind # "tcp" /\ typed' = typed
  BY DEF HNext
<1>9. typed \in Nat /\ carried \in Nat /\ typed' \in Nat /\ carried + Burden(Ttl, 1) <= 31 * typed
  BY <1>8 DEF HopsInv
<1>10. ASSUME NEW x \in Nat, NEW y \in Nat
       PROVE  Min({x, y}) \in Nat /\ Min({x, y}) <= y
  <2>1. \E m \in {x, y} : \A n \in {x, y} : m <= n
    <3>1. CASE x <= y
      BY <3>1
    <3>2. CASE ~ (x <= y)
      BY <3>2
    <3> QED
      BY <3>1, <3>2
  <2>2. Min({x, y}) \in {x, y} /\ \A n \in {x, y} : Min({x, y}) <= n
    BY <2>1 DEF Min
  <2> QED
    BY <2>2
<1> DEFINE a == carried
           a1 == carried'
           b == Burden(Ttl, 1)
           b1 == Burden(Ttl, 1)'
           d == Total(delivered', Upward(0))
           l == Total(sent', Linking(1))
           t == typed
           t1 == typed'
<1>11. /\ a \in Nat /\ b \in Nat /\ b1 \in Nat /\ d \in Nat /\ l \in Nat /\ t \in Nat
       /\ t1 \in Nat /\ a + b <= 31 * t /\ a1 = Min({31 * t1 + 1, a + l})
  BY <1>4, <1>6, <1>7, <1>9
<1>12. \/ b1 + l + d <= b + 0 /\ (t1 = t \/ t1 = t + 1)
       \/ b1 + l + d <= b + 31 /\ t1 = t + 1
  BY <1>2, <1>3, <1>8 DEF Bill, Pays
<1> HIDE DEF a, a1, b, b1, d, l, t, t1
<1>13. a1 \in Nat /\ a1 <= a + l
  <2>1. 31 * t1 + 1 \in Nat /\ a + l \in Nat
    BY <1>11
  <2> QED
    BY <1>10, <1>11, <2>1
<1>14. a1 + b1 <= 31 * t1
  <2>1. a1 + b1 <= a + l + b1
    BY <1>11, <1>13
  <2>2. CASE b1 + l + d <= b + 0 /\ (t1 = t \/ t1 = t + 1)
    BY <1>11, <1>13, <2>1, <2>2
  <2>3. CASE b1 + l + d <= b + 31 /\ t1 = t + 1
    BY <1>11, <1>13, <2>1, <2>3
  <2> QED
    BY <1>12, <2>2, <2>3
<1> QED
  BY <1>9, <1>13, <1>14 DEF HopsInv, a1, b1, t1

\* As long as no host is a bridge, the time to live that a SYN sets out with
\* bounds the way of its packet: no more than 31 links, even where the routes of
\* the three hosts lead in a circle.
THEOREM HopsBounded == HSpec /\ []Unbridged => []TtlBoundsHops
<1>1. NetInv /\ HopsInv => TtlBoundsHops
  <2> SUFFICES ASSUME NetInv, HopsInv
               PROVE  TtlBoundsHops
    OBVIOUS
  <2>1. PICK own : NetOK(own)
    BY DEF NetInv
  <2>2. Burden(Ttl, 1) \in Nat
    <3>1. sock \in [Hosts -> Seq(Seq(H1!Frame))]
      <4>1. sock \in Boxes(Truthful(own), space, sock) /\ Truthful(own) \subseteq H1!Frame
        BY <2>1 DEF NetOK, MediumOK, Truthful
      <4> QED
        BY <4>1, BoxesGrow DEF Boxes
    <3>2. Carry(sock, OnLink(Ttl, 1)) \in Nat
      BY <3>1, TtlWeighs, WeightTypes, CarryType
    <3>3. \A h \in Hosts : sbuf[h] \in Seq(H1!SendBuf)
      BY <2>1 DEF NetOK, HostOK, ArpOK
    <3>4. \A h \in Hosts : Total(sbuf[h], InBuffer(Ttl)) \in Nat
      BY <3>3, TtlWeighs, WeightTypes, TotalType
    <3>5. /\ Total(sbuf[1], InBuffer(Ttl)) \in Nat /\ Total(sbuf[2], InBuffer(Ttl)) \in Nat
          /\ Total(sbuf[3], InBuffer(Ttl)) \in Nat
      BY <3>4 DEF Hosts
    <3>6. Stored(Ttl) \in Nat
      BY <3>5 DEF Stored
    <3> QED
      BY <3>2, <3>6 DEF Burden
  <2> QED
    BY <2>2 DEF HopsInv, TtlBoundsHops
<1>2. NetInv /\ HopsInv /\ Unbridged /\ [HNext]_allVars => HopsInv'
  <2>1. ASSUME HopsInv, UNCHANGED allVars
        PROVE  HopsInv'
    <3>1. /\ typed' = typed /\ carried' = carried /\ sock' = sock
          /\ sbuf' = sbuf
      BY <2>1 DEF allVars, vars, hvars, host1, host2, host3, medium, sbuf
    <3>2. Burden(Ttl, 1)' = Burden(Ttl, 1)
      BY <3>1 DEF Burden, Stored, InBuffer, OnLink, Ttl
    <3> QED
      BY <2>1, <3>1, <3>2 DEF HopsInv
  <2> QED
    BY <2>1, HopsNext
<1> QED
  BY <1>1, <1>2, NetInvariant, HopsInit, PTL DEF HSpec
=============================================================================
