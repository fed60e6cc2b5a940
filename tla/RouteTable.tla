----------------------------- MODULE RouteTable -----------------------------
(***************************************************************************)
(* What a routing table promises (the declarations of poptrie.h): a map    *)
(* from prefixes to next hops, changed one route at a time, and looked up  *)
(* by the longest match.  A request that cannot be met changes nothing.    *)
(***************************************************************************)
EXTENDS Prefix

CONSTANT NextHop        \* pointers to next hops

VARIABLE table          \* prefix -> next hop, for the routes there are

TableInit == table = [p \in {} |-> p]

Put(p, h) ==
  table' = [q \in DOMAIN table \cup {p} |-> IF q = p THEN h ELSE table[q]]

Add(p, h) == p \notin DOMAIN table /\ Put(p, h)

Change(p, h) == p \in DOMAIN table /\ Put(p, h)

Delete(p) ==
  /\ p \in DOMAIN table
  /\ table' = [q \in DOMAIN table \ {p} |-> table[q]]

TableNext ==
  \E p \in Prefix :
    \/ \E h \in NextHop : Add(p, h) \/ Change(p, h)
    \/ Delete(p)

TableSpec == TableInit /\ [][TableNext]_table

\* The next hop of the longest prefix that covers the address, if any.
Lookup(addr) == {table[p] : p \in Longest(DOMAIN table, addr)}
=============================================================================
