--------------------------------- MODULE Arp --------------------------------
(***************************************************************************)
(* arp.c: the ARP table, and the list sbuf of IPv4 packets that wait for   *)
(* their next hop's MAC address.  Both are global to the host.             *)
(***************************************************************************)
EXTENDS Ether

CONSTANT IPHASH         \* the XOR of the four bytes

ASSUME ArpAssumption == IPHASH \in [Addr -> Slots]

VARIABLES
  arptable,     \* slot -> the last IPv4 address and MAC address stored there
  sbuf          \* waiting packets, the newest first

\* What add2sendbuf saves: the destination MAC is not yet part of it.
SendBuf == [nextip : Addr, shost : Mac, pkt : IpPacket]

ArpTypeOK ==
  /\ arptable \in [Slots -> [ip_addr : Addr, macaddr : Mac]]
  /\ sbuf \in Seq(SendBuf)

\* find_mac(addr) returns a slot, not NULL.
Found(table, addr) == table[IPHASH[addr]].ip_addr = addr
MacFor(table, addr) == table[IPHASH[addr]].macaddr

\* Mutant: a known address keeps its first MAC address.
add2arptable_Once(addr, macaddr) ==
  IF Found(arptable, addr) THEN arptable
  ELSE [arptable EXCEPT ![IPHASH[addr]] =
          [ip_addr |-> addr, macaddr |-> macaddr]]

add2arptable(addr, macaddr) ==
  [arptable EXCEPT ![IPHASH[addr]] = [ip_addr |-> addr, macaddr |-> macaddr]]

\* The frame that carries an ARP packet, and the one that carries an IPv4
\* packet from shost, to the MAC address the table has for its next hop.
ArpFrame(src, dst, arp) == [dst |-> dst, src |-> src, type |-> "ARP", pl |-> arp]
IpFrame(shost, dhost, pkt) ==
  [dst |-> dhost, src |-> shost, type |-> "IP", pl |-> pkt]

arp_req(ifp, addr) ==
  ether_output(ifp, ArpFrame(ifs[ifp].mac, BROADCAST,
    [op |-> "request", sha |-> ifs[ifp].mac, spa |-> ifs[ifp].addr, tpa |-> addr]))

\* Mutant: the sender's MAC address stays that of the request.
ArpAnswer_SameSha(ifp, arp) ==
  IF arp.tpa # ifs[ifp].addr THEN <<>>
  ELSE <<ether_output(ifp, ArpFrame(ifs[ifp].mac, arp.sha,
           [op |-> "reply", sha |-> arp.sha, spa |-> ifs[ifp].addr,
            tpa |-> arp.spa]))>>

\* What arp_req_input answers: nothing when another address is asked for.
ArpAnswer(ifp, arp) ==
  IF arp.tpa # ifs[ifp].addr THEN <<>>
  ELSE <<ether_output(ifp, ArpFrame(ifs[ifp].mac, arp.sha,
           [op |-> "reply", sha |-> ifs[ifp].mac, spa |-> ifs[ifp].addr,
            tpa |-> arp.spa]))>>

\* The loop of arp_reply_input over the list q: an entry whose next hop the
\* table knows is sent on ifp, where the reply came in, and freed.
WalkList(q, ifp, table) ==
  LET walk[n \in 0 .. Len(q)] ==
        IF n = 0 THEN [kept |-> <<>>, sent |-> <<>>]
        ELSE LET e == q[n]
                 before == walk[n - 1]
             IN  IF Found(table, e.nextip)
                 THEN [before EXCEPT !.sent = Append(@, ether_output(ifp,
                        IpFrame(e.shost, MacFor(table, e.nextip), e.pkt)))]
                 ELSE [before EXCEPT !.kept = Append(@, e)]
  IN  walk[Len(q)]

\* Mutants: the walk before the table is updated; a loop that ends at the last
\* entry and keeps it; one that ends there and cuts it off; one that sends the
\* entries and forgets to unlink them.
Walk_BeforeLearning(ifp, table) == WalkList(sbuf, ifp, arptable)
Walk_AllButLast(ifp, table) ==
  IF sbuf = <<>> THEN WalkList(sbuf, ifp, table)
  ELSE LET w == WalkList(SubSeq(sbuf, 1, Len(sbuf) - 1), ifp, table)
       IN  [w EXCEPT !.kept = Append(@, sbuf[Len(sbuf)])]
Walk_CutLast(ifp, table) ==
  WalkList(SubSeq(sbuf, 1, Len(sbuf) - 1), ifp, table)

Walk_NoUnlink(ifp, table) == [WalkList(sbuf, ifp, table) EXCEPT !.kept = sbuf]

Walk(ifp, table) == WalkList(sbuf, ifp, table)
=============================================================================
