-------------------------------- MODULE Ifnet -------------------------------
(***************************************************************************)
(* my_ifnet.c: the interfaces of the host.  The list ifs of the code is    *)
(* head-inserted and nothing is ever removed, so the sequence ifs below,   *)
(* in creation order, is that list read from its tail; the position in it  *)
(* stands for the pointer to a struct my_ifnet (IF# is the position minus  *)
(* one, numif is the length).                                              *)
(***************************************************************************)
EXTENDS Prefix, Sequences

CONSTANTS
  Mac,          \* the MAC addresses, BROADCAST and ZeroMac among them
  Cards,        \* what a create command may make: address, length, random MAC
  MaxIf         \* bound: interfaces created

NULL == 0       \* the null interface pointer

Card == [mac : Mac, addr : Addr, plen : 1 .. Width]

ASSUME IfnetAssumption ==
  /\ Cards \subseteq Card
  /\ MaxIf \in Nat

VARIABLE ifs

Interfaces == 1 .. Len(ifs)

IfTypeOK == ifs \in Seq(Card)

\* ip.c: is some interface of this host called addr?
is_to_me(addr) == \E i \in Interfaces : ifs[i].addr = addr

\* The network an interface is connected to.
Connected(card) == PrefixOf(card.addr, card.plen)
=============================================================================
