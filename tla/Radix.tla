-------------------------------- MODULE Radix -------------------------------
(***************************************************************************)
(* The route database of poptrie.c: the binary radix tree, and the table   *)
(* of next hops.  Every node of the tree caches in ext the nearest route   *)
(* at or above it, NULL if there is none; the multibit trie is filled from *)
(* these caches, so that they have to be right after every change.         *)
(*                                                                         *)
(* A node is named by the prefix its path from the root spells.  What a    *)
(* recursive walk of the code reaches is said here by a condition on the   *)
(* nodes between its start and the node reached.                           *)
(***************************************************************************)
EXTENDS Prefix, Sequences

CONSTANTS
  NULL,
  NextHop,      \* the pointers routes are added with
  Routes,       \* the prefixes the callers use
  FibSize       \* entries of the next hop table, entry 0 included

ASSUME RadixAssumption ==
  /\ NULL \notin Prefix
  /\ Routes \subseteq Prefix
  /\ FibSize \in Nat \ {0}

VARIABLES
  nodes,        \* the nodes allocated: nothing is ever freed
  route,        \* valid node -> its index in the next hop table
  ext,          \* node -> the node of the route that applies there, or NULL
  fib           \* fib.entries without entry 0, which is NULL

vars == <<nodes, route, ext, fib>>

valid == DOMAIN route

TypeOK ==
  /\ nodes \subseteq Prefix
  /\ valid \subseteq nodes
  /\ fib \in Seq(NextHop)
  /\ route \in [valid -> 1 .. Len(fib)]
  /\ ext \in [nodes -> nodes \cup {NULL}]

Init ==
  /\ nodes = {}
  /\ route = [p \in {} |-> 0]
  /\ ext = [p \in {} |-> NULL]
  /\ fib = <<>>

\* Node p is x or one of its ancestors.
Above(p, x) == p.plen <= x.plen /\ Mask(x.net, p.plen) = p.net

Path(p) == {PrefixOf(p.net, l) : l \in 0 .. p.plen}

\* The argument ext of the recursive calls when they get to node x: the last
\* valid node they came through on the way from the root.
Passed(x) == {v \in valid : v.plen < x.plen /\ Above(v, x)}
Nearest(x) ==
  IF Passed(x) = {} THEN NULL
  ELSE CHOOSE v \in Passed(x) : \A w \in Passed(x) : w.plen <= v.plen

(***************************************************************************)
(* The next hop table.                                                     *)
(***************************************************************************)
Known(h) == \E i \in DOMAIN fib : fib[i] = h

\* Mutant: the pointer is not stored.
fibWith_Same(h) == fib

fibWith(h) == IF Known(h) THEN fib ELSE Append(fib, h)

\* Mutant: a pointer that is known gets the number of the last one.
Slot_Last(h) == Len(fibWith(h))

Slot(h) ==
  IF Known(h) THEN CHOOSE i \in DOMAIN fib : fib[i] = h ELSE Len(fib) + 1

\* Mutant: the last entry but one is taken for the last.
HasRoom_OneMore(h) == Known(h) \/ Len(fib) < FibSize

\* The test poptrie_route_add makes, and the others do not.
HasRoom(h) == Known(h) \/ Len(fib) + 1 < FibSize

(***************************************************************************)
(* _route_add and its propagation.                                         *)
(***************************************************************************)
\* Mutant: a new node starts with an empty cache.
Descended_Fresh(x) == IF x \in nodes THEN ext[x] ELSE NULL

\* The cache of a node after the descent, which creates the missing nodes.
Descended(x) == IF x \in nodes THEN ext[x] ELSE Nearest(x)

\* Mutant: a node below is only updated when it had no route.
Propagated_Empty(p, x) == Above(p, x) /\ (x # p => Descended(x) = NULL)

\* _route_add_propagate from the new route p stops at a node that has a route
\* of its own length or longer, and does not go below it.
Propagated(p, x) ==
  /\ Above(p, x)
  /\ \A y \in nodes :
       Above(p, y) /\ Above(y, x) =>
         Descended(y) = NULL \/ Descended(y).plen < p.plen

InsertRoute(p, n) ==
  /\ nodes' = nodes \cup Path(p)
  /\ route' = [q \in valid \cup {p} |-> IF q = p THEN n ELSE route[q]]
  /\ ext' = [x \in nodes \cup Path(p) |->
               IF Propagated(p, x) THEN p ELSE Descended(x)]

\* _route_change: the caches point to the node, whose next hop is overwritten.
ReplaceHop(p, n) ==
  /\ route' = [route EXCEPT ![p] = n]
  /\ UNCHANGED <<nodes, ext>>

(***************************************************************************)
(* The operations.                                                         *)
(***************************************************************************)
\* poptrie_route_add: the slot is taken even when the prefix has a route.
RouteAdd(p, h) ==
  /\ HasRoom(h)
  /\ fib' = fibWith(h)
  /\ IF p \in valid
     THEN UNCHANGED <<nodes, route, ext>>
     ELSE InsertRoute(p, Slot(h))

\* poptrie_route_update: overwrites the route if there is one.  It appends to the
\* table whether there is room or not, as does poptrie_route_change.
RouteUpdate(p, h) ==
  /\ fib' = fibWith(h)
  /\ IF p \in valid THEN ReplaceHop(p, Slot(h)) ELSE InsertRoute(p, Slot(h))

\* poptrie_route_change: fails when there is no route, but keeps the slot.
RouteChange(p, h) ==
  /\ fib' = fibWith(h)
  /\ IF p \in valid
     THEN ReplaceHop(p, Slot(h))
     ELSE UNCHANGED <<nodes, route, ext>>

\* Mutant: the routes below go with the one deleted.
RouteDel_Subtree(p) ==
  /\ p \in valid
  /\ ext' = [x \in nodes |-> IF Above(p, x) THEN Nearest(p) ELSE ext[x]]
  /\ route' = [q \in {v \in valid : ~ Above(p, v)} |-> route[q]]
  /\ UNCHANGED <<nodes, fib>>

\* poptrie_route_del: every cache of the route falls back to the route above
\* it.  The nodes stay: the one that held the route is kept, and an ancestor
\* that the code would free has at least the child it came back from.
RouteDel(p) ==
  /\ p \in valid
  /\ ext' = [x \in nodes |->
               IF Above(p, x) /\ ext[x] = p THEN Nearest(p) ELSE ext[x]]
  /\ route' = [q \in valid \ {p} |-> route[q]]
  /\ UNCHANGED <<nodes, fib>>

\* _route_add or _route_update runs out of memory for the node at depth k: the
\* nodes above it have been made, and stay.
OutOfMemory(p, h, k) ==
  /\ PrefixOf(p.net, k) \notin nodes
  /\ fib' = fibWith(h)
  /\ LET made == {PrefixOf(p.net, l) : l \in 0 .. k - 1}
     IN  /\ nodes' = nodes \cup made
         /\ ext' = [x \in nodes \cup made |-> Descended(x)]
  /\ UNCHANGED route

Next ==
  \E p \in Routes :
    \/ \E h \in NextHop :
         \/ RouteAdd(p, h)
         \/ RouteUpdate(p, h)
         \/ RouteChange(p, h)
         \/ \E k \in 0 .. p.plen : OutOfMemory(p, h, k)
    \/ RouteDel(p)

Spec == Init /\ [][Next]_vars

(***************************************************************************)
(* The lookups.                                                            *)
(***************************************************************************)
\* The nodes a walk from the root visits for an address: the path as far as
\* there are nodes.
Visited(addr) ==
  {x \in nodes : /\ Covers(x, addr)
                 /\ \A l \in 0 .. x.plen : PrefixOf(addr, l) \in nodes}

\* EXT_NH: the next hop index the cache of a node stands for.
EXT_NH(x) == IF ext[x] = NULL THEN 0 ELSE route[ext[x]]

\* _rib_lookup: the last valid node on the way.
rib_lookup(addr) ==
  IF Visited(addr) \cap valid = {} THEN 0
  ELSE route[CHOOSE v \in Visited(addr) \cap valid :
               \A w \in Visited(addr) \cap valid : w.plen <= v.plen]

\* What the multibit trie is given for an address: the cache of the last node.
ext_lookup(addr) ==
  IF Visited(addr) = {} THEN 0
  ELSE EXT_NH(CHOOSE x \in Visited(addr) :
                \A y \in Visited(addr) : y.plen <= x.plen)

(***************************************************************************)
(* Properties.                                                             *)
(***************************************************************************)
\* The tree has no gaps: the ancestors of a node are nodes.
PathsClosed == \A x \in nodes : Path(x) \subseteq nodes

\* The cache of every node is the nearest route at or above it, after any
\* sequence of additions, changes, deletions and failed additions.
ExtIsNearestRoute ==
  \A x \in nodes :
    IF ext[x] = NULL
    THEN \A v \in valid : ~ Above(v, x)
    ELSE /\ ext[x] \in valid
         /\ Above(ext[x], x)
         /\ \A v \in valid : Above(v, x) => v.plen <= ext[x].plen

\* Both lookups return the next hop of the longest match: the walk over the
\* routes (poptrie_rib_lookup) and the caches the trie is filled from.
LookupsAgree ==
  \A a \in Addr :
    /\ ext_lookup(a) = rib_lookup(a)
    /\ {rib_lookup(a)} =
         IF Longest(valid, a) = {} THEN {0} ELSE {route[p] : p \in Longest(valid, a)}

\* The next hop table is not overrun, and no pointer takes a second entry of it:
\* poptrie_route_add stops at the last one.
TableFits ==
  /\ Len(fib) < FibSize
  /\ \A i, j \in DOMAIN fib : fib[i] = fib[j] => i = j

\* A route that was added, updated or changed leads to the next hop it was given,
\* whichever slots of the table the pointers share.
RouteGetsItsHop ==
  [][\A p \in Routes, h \in NextHop :
       (\/ RouteAdd(p, h) /\ p \notin valid
        \/ RouteUpdate(p, h)
        \/ RouteChange(p, h) /\ p \in valid)
       => fib'[route'[p]] = h]_vars

\* The tree and its table of next hops implement a routing table.
Table == INSTANCE RouteTable
           WITH table <- [p \in valid |-> fib[route[p]]]

ImplementsRouteTable == Table!TableSpec
=============================================================================
