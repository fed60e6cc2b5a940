-------------------------------- MODULE Ether -------------------------------
(***************************************************************************)
(* ether.c and flags.c: Ethernet frames, the learning bridge and its MAC   *)
(* address table, and the two forwarding flags.  ether_output is a sendto  *)
(* on the interface's datagram socket: the frames one event sends are the  *)
(* sequence sent, in the order of the calls.                               *)
(***************************************************************************)
EXTENDS Ifnet

CONSTANTS
  BROADCAST,    \* FF-FF-FF-FF-FF-FF
  ZeroMac,      \* 00-00-00-00-00-00, what a zeroed table slot holds
  Slots,        \* indices of the two hash tables, 256 in the program
  MACHASH       \* the XOR of the six bytes

ASSUME EtherAssumption ==
  /\ BROADCAST \in Mac /\ ZeroMac \in Mac
  /\ MACHASH \in [Mac -> Slots]
  /\ MACHASH[BROADCAST] = MACHASH[ZeroMac]
  /\ \A c \in Cards : c.mac \notin {BROADCAST, ZeroMac}

IpPacket == [src : Addr, dst : Addr, ttl : 0 .. 255, proto : {"TCP", "UDP", "other"}]
ArpPacket == [op : {"request", "reply", "other"}, sha : Mac, spa : Addr, tpa : Addr]

\* type "other" stands for IPv6, whose handler is empty, and unknown types.
Frame ==
       [dst : Mac, src : Mac, type : {"IP"}, pl : IpPacket]
  \cup [dst : Mac, src : Mac, type : {"ARP"}, pl : ArpPacket]
  \cup [dst : Mac, src : Mac, type : {"other"}]

Transmission == [ifp : Nat \ {NULL}, eh : Frame]

VARIABLES
  bridge_flags, \* the L2 bridge and IPv4 routing bits
  mactable,     \* MAC address table: slot -> address and interface
  sent          \* what the last event passed to sendto

EtherTypeOK ==
  /\ bridge_flags \in [l2 : BOOLEAN, l3 : BOOLEAN]
  /\ mactable \in [Slots -> [addr : Mac, ifp : 0 .. Len(ifs)]]
  /\ sent \in Seq(Transmission)

IS_L2BRIDGE == bridge_flags.l2
IS_L3BRIDGE == bridge_flags.l3

ether_output(ifp, eh) == [ifp |-> ifp, eh |-> eh]

\* Mutant: the slot is not compared with the whole address.
find_interface_NoCompare(dst) == mactable[MACHASH[dst]].ifp

find_interface(dst) ==
  IF mactable[MACHASH[dst]].addr = dst THEN mactable[MACHASH[dst]].ifp ELSE NULL

\* Mutants: broadcast is learnt like a station; a station never moves.
add2mactable_Broadcast(ifp, src) ==
  [mactable EXCEPT ![MACHASH[src]] = [addr |-> src, ifp |-> ifp]]
add2mactable_Once(ifp, src) ==
  IF src = BROADCAST \/ find_interface(src) # NULL
  THEN mactable
  ELSE [mactable EXCEPT ![MACHASH[src]] = [addr |-> src, ifp |-> ifp]]

add2mactable(ifp, src) ==
  IF src = BROADCAST
  THEN mactable
  ELSE [mactable EXCEPT ![MACHASH[src]] = [addr |-> src, ifp |-> ifp]]

\* Every interface but ifp, from the head of the list: newest first.
flood(ifp, eh) ==
  [k \in 1 .. (Len(ifs) - 1) |->
     LET i == Len(ifs) - k + 1
     IN  ether_output(IF i > ifp THEN i ELSE i - 1, eh)]

\* The two tests of ether_input on the destination address.
Bridged(ifp, eh) == IS_L2BRIDGE /\ eh.dst # ifs[ifp].mac
ForUs(ifp, eh) == eh.dst \in {BROADCAST, ifs[ifp].mac}

\* The frames bridge_input sends: the table is read before it learns.
BridgeSends(ifp, eh) ==
  IF ~ Bridged(ifp, eh) THEN <<>>
  ELSE IF find_interface(eh.dst) # NULL
       THEN <<ether_output(find_interface(eh.dst), eh)>>
       ELSE flood(ifp, eh)

bridge_input(ifp, eh) ==
  mactable' = IF Bridged(ifp, eh) THEN add2mactable(ifp, eh.src) ELSE mactable
=============================================================================
