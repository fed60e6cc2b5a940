------------------------------- MODULE Prefix -------------------------------
(***************************************************************************)
(* IPv4 addresses and prefixes.  An address is a string of Width bits, the *)
(* most significant first (32 in the program; small in the model checks),  *)
(* so that masking and matching are the bitwise operations of the C code.  *)
(***************************************************************************)
EXTENDS Naturals

CONSTANT Width          \* bits of an address

ASSUME WidthAssumption == Width \in Nat \ {0}

Addr == [1 .. Width -> {0, 1}]

INADDR_ANY == [i \in 1 .. Width |-> 0]

\* The network part of an address: addr & ~((1 << (Width - len)) - 1).
Mask(addr, len) == [i \in 1 .. Width |-> IF i <= len THEN addr[i] ELSE 0]

\* A prefix is a network address without host bits, and its length.
Prefix ==
  {p \in [net : Addr, plen : 0 .. Width] : Mask(p.net, p.plen) = p.net}

Covers(p, addr) == Mask(addr, p.plen) = p.net

\* The prefix that starts an address.
PrefixOf(addr, len) == [net |-> Mask(addr, len), plen |-> len]

\* The longest of the prefixes P that cover addr: none, or exactly one.
Longest(P, addr) ==
  {p \in P : /\ Covers(p, addr)
             /\ \A q \in P : Covers(q, addr) => q.plen <= p.plen}
=============================================================================
