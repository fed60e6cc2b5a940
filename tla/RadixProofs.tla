----------------------------- MODULE RadixProofs ----------------------------
(***************************************************************************)
(* The route database for every address width, set of prefixes and size of *)
(* the next hop table: the types, and the caches of the nodes.             *)
(***************************************************************************)
EXTENDS Radix, PrefixLemmas

-----------------------------------------------------------------------------
\* The order of the nodes.

\* A node is above itself.
LEMMA AboveReflexive ==
  ASSUME NEW x \in Prefix
  PROVE  Above(x, x)
<1>1. Mask(x.net, x.plen) = x.net /\ x.plen \in 0 .. Width
  BY PrefixType
<1> QED
  BY <1>1, WidthAssumption DEF Above

\* What is above a node is above the nodes below it.
LEMMA AboveTransitive ==
  ASSUME NEW p \in Prefix, NEW y \in Prefix, NEW x \in Prefix,
         Above(p, y), Above(y, x)
  PROVE  Above(p, x)
<1>1. /\ x.net \in Addr /\ x.plen \in 0 .. Width
      /\ y.plen \in 0 .. Width /\ p.plen \in 0 .. Width
  BY PrefixType
<1>2. y.plen <= x.plen /\ Mask(x.net, y.plen) = y.net
      /\ p.plen <= y.plen /\ Mask(y.net, p.plen) = p.net
  BY DEF Above
<1>3. p.plen \in 0 .. y.plen /\ p.plen <= x.plen
  BY <1>1, <1>2, WidthAssumption
<1>4. Mask(Mask(x.net, y.plen), p.plen) = Mask(x.net, p.plen)
  BY <1>1, <1>3, MaskOfMask
<1> QED
  BY <1>2, <1>3, <1>4 DEF Above

\* Of two nodes above the same node, the shorter is above the longer.
LEMMA AboveLinear ==
  ASSUME NEW p \in Prefix, NEW q \in Prefix, NEW x \in Prefix,
         Above(p, x), Above(q, x), p.plen <= q.plen
  PROVE  Above(p, q)
<1>1. /\ x.net \in Addr
      /\ q.plen \in 0 .. Width /\ p.plen \in 0 .. Width
  BY PrefixType
<1>2. Mask(x.net, q.plen) = q.net /\ Mask(x.net, p.plen) = p.net
  BY DEF Above
<1>3. p.plen \in 0 .. q.plen
  BY <1>1, WidthAssumption
<1>4. Mask(Mask(x.net, q.plen), p.plen) = Mask(x.net, p.plen)
  BY <1>1, <1>3, MaskOfMask
<1> QED
  BY <1>2, <1>4 DEF Above

\* They are one when they have the same length.
LEMMA AboveSameLength ==
  ASSUME NEW p \in Prefix, NEW q \in Prefix, NEW x \in Prefix,
         Above(p, x), Above(q, x), p.plen = q.plen
  PROVE  p = q
<1>1. p = [net |-> p.net, plen |-> p.plen] /\ q = [net |-> q.net, plen |-> q.plen]
  BY PrefixType
<1>2. p.net = q.net
  BY DEF Above
<1> QED
  BY <1>1, <1>2

\* The path to a prefix consists of prefixes, the prefix itself among them.
LEMMA PathType ==
  ASSUME NEW p \in Prefix
  PROVE  Path(p) \subseteq Prefix /\ p \in Path(p)
<1>1. p.net \in Addr /\ p.plen \in 0 .. Width /\ Mask(p.net, p.plen) = p.net
      /\ p = [net |-> p.net, plen |-> p.plen]
  BY PrefixType
<1>2. ASSUME NEW l \in 0 .. p.plen
      PROVE  PrefixOf(p.net, l) \in Prefix
  <2>1. l \in 0 .. Width
    BY <1>1, WidthAssumption
  <2> QED
    BY <1>1, <2>1, PrefixOfType
<1>3. p.plen \in 0 .. p.plen
  BY <1>1, WidthAssumption
<1>4. PrefixOf(p.net, p.plen) = p
  BY <1>1 DEF PrefixOf
<1> QED
  BY <1>2, <1>3, <1>4 DEF Path

\* The descent passes on the longest of the routes strictly above a node.
LEMMA NearestSpec ==
  ASSUME valid \subseteq Prefix, NEW x
  PROVE  \/ Nearest(x) = NULL /\ Passed(x) = {}
         \/ /\ Nearest(x) \in Passed(x)
            /\ \A w \in Passed(x) : w.plen <= Nearest(x).plen
<1>1. CASE Passed(x) = {}
  BY <1>1 DEF Nearest
<1>2. CASE Passed(x) # {}
  <2>1. Passed(x) \subseteq Prefix
    BY DEF Passed
  <2>2. \E v \in Passed(x) : \A w \in Passed(x) : w.plen <= v.plen
    BY <1>2, <2>1, LongestExists
  <2> QED
    BY <1>2, <2>2 DEF Nearest
<1> QED
  BY <1>1, <1>2

-----------------------------------------------------------------------------
\* The caches, as a predicate of any set of routes.

CacheOf(e, V, x) ==
  IF e = NULL
  THEN \A v \in V : ~ Above(v, x)
  ELSE /\ e \in V
       /\ Above(e, x)
       /\ \A v \in V : Above(v, x) => v.plen <= e.plen

IInv == TypeOK /\ ExtIsNearestRoute

\* A new node, which has no route of its own, is given the right cache.
LEMMA NearestIsCache ==
  ASSUME TypeOK, NEW x \in Prefix, x \notin valid
  PROVE  CacheOf(Nearest(x), valid, x)
<1>1. valid \subseteq Prefix
  BY DEF TypeOK
<1>2. ASSUME NEW v \in valid, Above(v, x)
      PROVE  v \in Passed(x)
  <2>1. v.plen \in 0 .. Width /\ x.plen \in 0 .. Width /\ v.plen <= x.plen
    BY <1>1, <1>2, PrefixType DEF Above
  <2>2. CASE v.plen = x.plen
    <3>1. v = x
      BY <1>1, <1>2, <2>2, AboveReflexive, AboveSameLength
    <3> QED
      BY <3>1
  <2>3. CASE v.plen < x.plen
    BY <1>2, <2>3 DEF Passed
  <2> QED
    BY <2>1, <2>2, <2>3, WidthAssumption
<1>3. CASE Nearest(x) = NULL /\ Passed(x) = {}
  BY <1>2, <1>3 DEF CacheOf
<1>4. CASE /\ Nearest(x) \in Passed(x)
           /\ \A w \in Passed(x) : w.plen <= Nearest(x).plen
  <2>1. Nearest(x) \in valid /\ Above(Nearest(x), x)
    BY <1>4 DEF Passed
  <2>2. Nearest(x) # NULL
    BY <1>1, <2>1, RadixAssumption
  <2> QED
    BY <1>2, <1>4, <2>1, <2>2 DEF CacheOf
<1> QED
  BY <1>1, <1>3, <1>4, NearestSpec

\* After the descent every node has the right cache for the routes there were.
LEMMA DescendedIsCache ==
  ASSUME IInv, NEW x \in Prefix
  PROVE  /\ CacheOf(Descended(x), valid, x)
         /\ Descended(x) \in nodes \cup {NULL}
<1>1. CASE x \in nodes
  <2>1. Descended(x) = ext[x] /\ ext[x] \in nodes \cup {NULL}
    BY <1>1 DEF IInv, TypeOK, Descended
  <2> QED
    BY <1>1, <2>1 DEF IInv, ExtIsNearestRoute, CacheOf
<1>2. CASE x \notin nodes
  <2>1. x \notin valid /\ TypeOK
    BY <1>2 DEF IInv, TypeOK
  <2>2. CacheOf(Nearest(x), valid, x)
    BY <2>1, NearestIsCache
  <2>3. Nearest(x) \in nodes \cup {NULL}
    BY <2>1, <2>2 DEF CacheOf, TypeOK
  <2> QED
    BY <1>2, <2>2, <2>3 DEF Descended
<1> QED
  BY <1>1, <1>2

-----------------------------------------------------------------------------
\* The next hop table.

\* A pointer has a slot in the table with it.
LEMMA SlotSpec ==
  ASSUME TypeOK, NEW h \in NextHop
  PROVE  /\ fibWith(h) \in Seq(NextHop)
         /\ Len(fib) <= Len(fibWith(h))
         /\ Slot(h) \in 1 .. Len(fibWith(h))
<1>1. CASE Known(h)
  BY <1>1 DEF TypeOK, Known, fibWith, Slot
<1>2. CASE ~ Known(h)
  BY <1>2 DEF TypeOK, fibWith, Slot
<1> QED
  BY <1>1, <1>2

\* The next hops of the routes that stay are still in the table when it grows.
LEMMA GrowType ==
  ASSUME TypeOK, NEW h \in NextHop, fib' = fibWith(h)
  PROVE  /\ fib' \in Seq(NextHop)
         /\ Slot(h) \in 1 .. Len(fib')
         /\ route \in [valid -> 1 .. Len(fib')]
<1>1. /\ fib' \in Seq(NextHop)
      /\ Len(fib) <= Len(fib') /\ Slot(h) \in 1 .. Len(fib')
  BY SlotSpec
<1>2. route \in [valid -> 1 .. Len(fib)] /\ fib \in Seq(NextHop)
  BY DEF TypeOK
<1>3. Len(fib) \in Nat /\ Len(fib') \in Nat
  BY <1>1, <1>2
<1> QED
  BY <1>1, <1>2, <1>3

-----------------------------------------------------------------------------
\* One lemma for each way the tree changes.

\* A new route is put into the caches below it, where nothing longer applies.
LEMMA InsertKeeps ==
  ASSUME IInv, NEW p \in Prefix, NEW n, InsertRoute(p, n)
  PROVE  /\ nodes' \subseteq Prefix /\ valid' = valid \cup {p}
         /\ valid' \subseteq nodes'
         /\ ext' \in [nodes' -> nodes' \cup {NULL}]
         /\ ExtIsNearestRoute'
<1>1. /\ nodes' = nodes \cup Path(p) /\ valid' = valid \cup {p}
      /\ ext' = [x \in nodes' |-> IF Propagated(p, x) THEN p ELSE Descended(x)]
  BY DEF InsertRoute, valid
<1>2. nodes \subseteq Prefix /\ valid \subseteq nodes
  BY DEF IInv, TypeOK
<1>3. nodes' \subseteq Prefix /\ p \in nodes'
  BY <1>1, <1>2, PathType
<1>4. ASSUME NEW x \in nodes'
      PROVE  CacheOf(ext'[x], valid', x) /\ ext'[x] \in nodes' \cup {NULL}
  <2>1. /\ CacheOf(Descended(x), valid, x)
        /\ Descended(x) \in nodes \cup {NULL}
    BY <1>3, DescendedIsCache
  <2>2. x \in Prefix
    BY <1>3
  <2>3. CASE Propagated(p, x)
    <3>1. ext'[x] = p /\ Above(p, x) /\ p # NULL
      BY <1>1, <2>3, RadixAssumption DEF Propagated
    <3>2. ASSUME NEW v \in valid, Above(v, x), ~ (v.plen <= p.plen)
          PROVE  FALSE
      <4>1. v \in Prefix /\ v \in nodes
        BY <1>2
      <4>2. v.plen \in 0 .. Width /\ p.plen \in 0 .. Width
        BY <4>1, PrefixType
      <4>3. Above(p, v)
        BY <2>2, <3>1, <3>2, <4>1, <4>2, AboveLinear, WidthAssumption
      <4>4. Descended(v) = NULL \/ Descended(v).plen < p.plen
        BY <2>3, <3>2, <4>1, <4>3 DEF Propagated
      <4>5. CacheOf(Descended(v), valid, v) /\ Above(v, v)
        BY <4>1, DescendedIsCache, AboveReflexive
      <4>6. Descended(v) # NULL /\ v.plen <= Descended(v).plen
            /\ Descended(v) \in Prefix
        BY <1>2, <4>5 DEF CacheOf
      <4>7. Descended(v).plen \in 0 .. Width
        BY <4>6, PrefixType
      <4> QED
        BY <3>2, <4>2, <4>4, <4>6, <4>7, WidthAssumption
    <3>3. p.plen <= p.plen
      BY PrefixType, WidthAssumption
    <3> QED
      BY <1>1, <1>3, <3>1, <3>2, <3>3 DEF CacheOf
  <2>4. CASE ~ Propagated(p, x)
    <3>1. ext'[x] = Descended(x)
      BY <1>1, <2>4
    <3>2. CASE ~ Above(p, x)
      BY <1>1, <2>1, <3>1, <3>2 DEF CacheOf
    <3>3. CASE Above(p, x)
      <4>1. PICK y \in nodes :
              /\ Above(p, y) /\ Above(y, x)
              /\ Descended(y) # NULL /\ ~ (Descended(y).plen < p.plen)
        BY <2>4, <3>3 DEF Propagated
      <4>2. y \in Prefix /\ CacheOf(Descended(y), valid, y)
        BY <1>2, DescendedIsCache
      <4>3. /\ Descended(y) \in valid /\ Descended(y) \in Prefix
            /\ Above(Descended(y), y)
        BY <1>2, <4>1, <4>2 DEF CacheOf
      <4>4. Above(Descended(y), x)
        BY <2>2, <4>1, <4>2, <4>3, AboveTransitive
      <4>5. /\ Descended(x) # NULL /\ Descended(x) \in Prefix
            /\ Descended(y).plen <= Descended(x).plen
        BY <1>2, <2>1, <4>3, <4>4 DEF CacheOf
      <4>6. /\ Descended(y).plen \in 0 .. Width
            /\ Descended(x).plen \in 0 .. Width
            /\ p.plen \in 0 .. Width
        BY <4>3, <4>5, PrefixType
      <4>7. p.plen <= Descended(x).plen
        BY <4>1, <4>5, <4>6, WidthAssumption
      <4> QED
        BY <1>1, <2>1, <3>1, <4>5, <4>7 DEF CacheOf
    <3> QED
      BY <1>1, <2>1, <3>1, <3>2, <3>3
  <2> QED
    BY <2>3, <2>4
<1>5. ext' \in [nodes' -> nodes' \cup {NULL}]
  BY <1>1, <1>4
<1>6. ExtIsNearestRoute'
  BY <1>4 DEF ExtIsNearestRoute, CacheOf
<1> QED
  BY <1>1, <1>2, <1>3, <1>5, <1>6

\* The nodes an addition left behind have the right caches too.
LEMMA DescendKeeps ==
  ASSUME IInv, NEW M, M \subseteq Prefix,
         nodes' = nodes \cup M, ext' = [x \in nodes \cup M |-> Descended(x)],
         route' = route
  PROVE  /\ nodes' \subseteq Prefix /\ valid' = valid
         /\ valid' \subseteq nodes'
         /\ ext' \in [nodes' -> nodes' \cup {NULL}]
         /\ ExtIsNearestRoute'
<1>1. nodes' \subseteq Prefix /\ valid' = valid /\ valid' \subseteq nodes'
  BY DEF IInv, TypeOK, valid
<1>2. ASSUME NEW x \in nodes'
      PROVE  CacheOf(ext'[x], valid', x) /\ ext'[x] \in nodes' \cup {NULL}
  BY <1>1, DescendedIsCache
<1>3. ext' \in [nodes' -> nodes' \cup {NULL}]
  BY <1>2
<1>4. ExtIsNearestRoute'
  BY <1>2 DEF ExtIsNearestRoute, CacheOf
<1> QED
  BY <1>1, <1>3, <1>4

\* When a route goes, its caches fall back to the route above it.
LEMMA DeleteKeeps ==
  ASSUME IInv, NEW p \in Prefix, RouteDel(p)
  PROVE  TypeOK' /\ ExtIsNearestRoute'
<1>1. /\ valid' = valid \ {p} /\ nodes' = nodes /\ fib' = fib
      /\ route' = [q \in valid \ {p} |-> route[q]]
      /\ ext' = [x \in nodes |->
                   IF Above(p, x) /\ ext[x] = p THEN Nearest(p) ELSE ext[x]]
  BY DEF RouteDel, valid
<1>2. /\ TypeOK /\ nodes \subseteq Prefix /\ valid \subseteq Prefix
      /\ valid \subseteq nodes /\ p \in valid
  BY DEF IInv, TypeOK, RouteDel
<1>3. ASSUME NEW x \in nodes
      PROVE  CacheOf(ext'[x], valid', x) /\ ext'[x] \in nodes \cup {NULL}
  <2>1. CacheOf(ext[x], valid, x) /\ ext[x] \in nodes \cup {NULL} /\ x \in Prefix
    BY <1>2 DEF IInv, TypeOK, ExtIsNearestRoute, CacheOf
  <2>2. CASE ext[x] = p
    <3>1. Above(p, x) /\ p # NULL
      BY <1>2, <2>1, <2>2, RadixAssumption DEF CacheOf
    <3>2. ext'[x] = Nearest(p)
      BY <1>1, <2>2, <3>1
    <3>3. ASSUME NEW w \in valid', Above(w, x)
          PROVE  w \in Passed(p)
      <4>1. w \in valid /\ w \in Prefix /\ w # p
        BY <1>1, <1>2
      <4>2. w.plen <= p.plen
        BY <2>1, <2>2, <3>1, <3>3, <4>1 DEF CacheOf
      <4>3. w.plen # p.plen
        BY <2>1, <3>1, <3>3, <4>1, AboveSameLength
      <4>4. Above(w, p)
        BY <2>1, <3>1, <3>3, <4>1, <4>2, AboveLinear
      <4>5. w.plen \in 0 .. Width /\ p.plen \in 0 .. Width
        BY <4>1, PrefixType
      <4> QED
        BY <4>1, <4>2, <4>3, <4>4, <4>5, WidthAssumption DEF Passed
    <3>4. CASE Nearest(p) = NULL /\ Passed(p) = {}
      BY <3>2, <3>3, <3>4 DEF CacheOf
    <3>5. CASE /\ Nearest(p) \in Passed(p)
               /\ \A w \in Passed(p) : w.plen <= Nearest(p).plen
      <4>1. /\ Nearest(p) \in valid /\ Nearest(p) \in Prefix
            /\ Nearest(p).plen < p.plen /\ Above(Nearest(p), p)
        BY <1>2, <3>5 DEF Passed
      <4>2. Nearest(p).plen \in 0 .. Width /\ p.plen \in 0 .. Width
        BY <4>1, PrefixType
      <4>3. Nearest(p) # p
        BY <4>1, <4>2, WidthAssumption
      <4>4. Nearest(p) \in valid' /\ Nearest(p) # NULL /\ Nearest(p) \in nodes
        BY <1>1, <1>2, <4>1, <4>3, RadixAssumption
      <4>5. Above(Nearest(p), x)
        BY <2>1, <3>1, <4>1, AboveTransitive
      <4> QED
        BY <3>2, <3>3, <3>5, <4>4, <4>5 DEF CacheOf
    <3> QED
      BY <1>2, <3>4, <3>5, NearestSpec
  <2>3. CASE ext[x] # p
    <3>1. ext'[x] = ext[x]
      BY <1>1, <2>3
    <3> QED
      BY <1>1, <2>1, <2>3, <3>1 DEF CacheOf
  <2> QED
    BY <2>2, <2>3
<1>4. ext' \in [nodes' -> nodes' \cup {NULL}]
  BY <1>1, <1>3
<1>5. ExtIsNearestRoute'
  BY <1>1, <1>3 DEF ExtIsNearestRoute, CacheOf
<1>6. route' \in [valid' -> 1 .. Len(fib')]
  BY <1>1, <1>2 DEF TypeOK
<1>7. TypeOK'
  BY <1>1, <1>2, <1>4, <1>6 DEF TypeOK
<1> QED
  BY <1>5, <1>7

-----------------------------------------------------------------------------
\* Every step keeps the types and the caches: one step for each operation.
LEMMA StepKeeps ==
  ASSUME IInv, NEW p \in Prefix, NEW h \in NextHop
  PROVE  /\ RouteAdd(p, h) => IInv'
         /\ RouteUpdate(p, h) => IInv'
         /\ RouteChange(p, h) => IInv'
         /\ \A k \in 0 .. p.plen : OutOfMemory(p, h, k) => IInv'
         /\ RouteDel(p) => IInv'
<1>1. TypeOK /\ ExtIsNearestRoute
  BY DEF IInv
<1>2. ASSUME fib' = fibWith(h), InsertRoute(p, Slot(h))
      PROVE  IInv'
  <2>1. /\ nodes' \subseteq Prefix /\ valid' = valid \cup {p}
        /\ valid' \subseteq nodes'
        /\ ext' \in [nodes' -> nodes' \cup {NULL}]
        /\ ExtIsNearestRoute'
    BY <1>2, InsertKeeps
  <2>2. /\ fib' \in Seq(NextHop)
        /\ Slot(h) \in 1 .. Len(fib')
        /\ route \in [valid -> 1 .. Len(fib')]
    BY <1>1, <1>2, GrowType
  <2>3. route' \in [valid' -> 1 .. Len(fib')]
    BY <1>2, <2>1, <2>2 DEF InsertRoute
  <2> QED
    BY <2>1, <2>2, <2>3 DEF IInv, TypeOK
<1>3. ASSUME fib' = fibWith(h), p \in valid, ReplaceHop(p, Slot(h))
      PROVE  IInv'
  <2>1. /\ fib' \in Seq(NextHop)
        /\ Slot(h) \in 1 .. Len(fib')
        /\ route \in [valid -> 1 .. Len(fib')]
    BY <1>1, <1>3, GrowType
  <2>2. valid' = valid /\ nodes' = nodes /\ ext' = ext
        /\ route' \in [valid' -> 1 .. Len(fib')]
    BY <1>3, <2>1 DEF ReplaceHop, valid
  <2> QED
    BY <1>1, <2>1, <2>2 DEF IInv, TypeOK, ExtIsNearestRoute
<1>4. ASSUME fib' = fibWith(h), UNCHANGED <<nodes, route, ext>>
      PROVE  IInv'
  <2>1. /\ fib' \in Seq(NextHop)
        /\ route' \in [valid' -> 1 .. Len(fib')]
    BY <1>1, <1>4, GrowType DEF valid
  <2> QED
    BY <1>1, <1>4, <2>1 DEF IInv, TypeOK, ExtIsNearestRoute
<1>5. RouteAdd(p, h) => IInv'
  BY <1>2, <1>4 DEF RouteAdd
<1>6. RouteUpdate(p, h) => IInv'
  BY <1>2, <1>3 DEF RouteUpdate
<1>7. RouteChange(p, h) => IInv'
  BY <1>3, <1>4 DEF RouteChange
<1>8. ASSUME NEW k \in 0 .. p.plen, OutOfMemory(p, h, k)
      PROVE  IInv'
  <2> DEFINE M == {PrefixOf(p.net, l) : l \in 0 .. k - 1}
  <2>1. M \subseteq Path(p)
    BY PrefixType, WidthAssumption DEF Path
  <2>2. M \subseteq Prefix
    BY <2>1, PathType
  <2>3. /\ fib' = fibWith(h) /\ route' = route
        /\ nodes' = nodes \cup M
        /\ ext' = [x \in nodes \cup M |-> Descended(x)]
    BY <1>8 DEF OutOfMemory
  <2> HIDE DEF M
  <2>4. /\ nodes' \subseteq Prefix /\ valid' = valid
        /\ valid' \subseteq nodes'
        /\ ext' \in [nodes' -> nodes' \cup {NULL}]
        /\ ExtIsNearestRoute'
    BY <2>2, <2>3, DescendKeeps
  <2>5. /\ fib' \in Seq(NextHop)
        /\ route' \in [valid' -> 1 .. Len(fib')]
    BY <1>1, <2>3, GrowType DEF valid
  <2> QED
    BY <2>4, <2>5 DEF IInv, TypeOK
<1>9. RouteDel(p) => IInv'
  BY DeleteKeeps DEF IInv
<1> QED
  BY <1>5, <1>6, <1>7, <1>8, <1>9

\* The inductive invariant: with the types, the caches are an invariant that
\* needs no further strengthening.
THEOREM Invariance == Spec => []IInv
<1>1. Init => IInv
  BY RadixAssumption
     DEF Init, IInv, TypeOK, ExtIsNearestRoute, valid
<1>2. IInv /\ [Next]_vars => IInv'
  <2> SUFFICES ASSUME IInv, [Next]_vars
               PROVE  IInv'
    OBVIOUS
  <2>1. CASE UNCHANGED vars
    BY <2>1 DEF vars, IInv, TypeOK, ExtIsNearestRoute, valid
  <2>2. CASE Next
    <3>1. PICK p \in Routes :
            \/ \E h \in NextHop :
                 \/ RouteAdd(p, h)
                 \/ RouteUpdate(p, h)
                 \/ RouteChange(p, h)
                 \/ \E k \in 0 .. p.plen : OutOfMemory(p, h, k)
            \/ RouteDel(p)
      BY <2>2 DEF Next
    <3>2. p \in Prefix
      BY RadixAssumption
    <3>3. CASE RouteDel(p)
      BY <3>2, <3>3, DeleteKeeps DEF IInv
    <3>4. CASE \E h \in NextHop :
                 \/ RouteAdd(p, h)
                 \/ RouteUpdate(p, h)
                 \/ RouteChange(p, h)
                 \/ \E k \in 0 .. p.plen : OutOfMemory(p, h, k)
      BY <3>2, <3>4, StepKeeps
    <3> QED
      BY <3>1, <3>3, <3>4
  <2> QED
    BY <2>1, <2>2
<1> QED
  BY <1>1, <1>2, PTL DEF Spec

\* Type correctness of the route database.
THEOREM TypeCorrect == Spec => []TypeOK
<1>1. IInv => TypeOK
  BY DEF IInv
<1> QED
  BY <1>1, Invariance, PTL

\* The cache of every node is the nearest route at or above it, whatever routes
\* were added, updated, changed and deleted, and whichever additions failed.
THEOREM CachesCorrect == Spec => []ExtIsNearestRoute
<1>1. IInv => ExtIsNearestRoute
  BY DEF IInv
<1> QED
  BY <1>1, Invariance, PTL

-----------------------------------------------------------------------------
\* The routing table that the tree stands for.

abstract == [q \in valid |-> fib[route[q]]]

\* Growing the table moves no next hop, and puts the new one where Slot says.
LEMMA SlotHolds ==
  ASSUME TypeOK, NEW h \in NextHop
  PROVE  /\ fibWith(h)[Slot(h)] = h
         /\ \A i \in 1 .. Len(fib) : fibWith(h)[i] = fib[i]
<1>1. fib \in Seq(NextHop)
  BY DEF TypeOK
<1>2. CASE Known(h)
  BY <1>1, <1>2 DEF Known, fibWith, Slot
<1>3. CASE ~ Known(h)
  BY <1>1, <1>3 DEF fibWith, Slot
<1> QED
  BY <1>2, <1>3

\* A route written with the slot of h is that route in the table, and no other
\* route of the table changes.
LEMMA PutRoute ==
  ASSUME TypeOK, NEW p, NEW h \in NextHop, fib' = fibWith(h),
         valid' = valid \cup {p}, route'[p] = Slot(h),
         \A q \in valid \ {p} : route'[q] = route[q]
  PROVE  abstract' = [q \in DOMAIN abstract \cup {p} |->
                        IF q = p THEN h ELSE abstract[q]]
<1>1. fib'[route'[p]] = h
  BY SlotHolds
<1>2. ASSUME NEW q \in valid \ {p}
      PROVE  fib'[route'[q]] = fib[route[q]]
  <2>1. route[q] \in 1 .. Len(fib)
    BY DEF TypeOK
  <2> QED
    BY <2>1, SlotHolds
<1> QED
  BY <1>1, <1>2 DEF abstract

\* So it is when nothing but the table of next hops grows.
LEMMA GrowOnly ==
  ASSUME TypeOK, NEW h \in NextHop, fib' = fibWith(h), route' = route
  PROVE  abstract' = abstract
<1>1. ASSUME NEW q \in valid
      PROVE  fib'[route'[q]] = fib[route[q]]
  <2>1. route[q] \in 1 .. Len(fib)
    BY DEF TypeOK
  <2> QED
    BY <2>1, SlotHolds
<1> QED
  BY <1>1 DEF abstract, valid

\* Whatever slots of the table the pointers share, a route leads to the next hop
\* it was last given.
THEOREM HopsCorrect == Spec => RouteGetsItsHop
<1> DEFINE Given(p, h) == \/ RouteAdd(p, h) /\ p \notin valid
                          \/ RouteUpdate(p, h)
                          \/ RouteChange(p, h) /\ p \in valid
<1>1. ASSUME TypeOK, NEW p \in Routes, NEW h \in NextHop, Given(p, h)
      PROVE  fib'[route'[p]] = h
  <2>1. CASE fib' = fibWith(h) /\ InsertRoute(p, Slot(h))
    <3>1. route'[p] = Slot(h)
      BY <2>1 DEF InsertRoute
    <3> QED
      BY <1>1, <2>1, <3>1, SlotHolds
  <2>2. CASE fib' = fibWith(h) /\ ReplaceHop(p, Slot(h)) /\ p \in valid
    <3>1. route'[p] = Slot(h)
      BY <1>1, <2>2 DEF ReplaceHop, TypeOK, valid
    <3> QED
      BY <1>1, <2>2, <3>1, SlotHolds
  <2> QED
    BY <1>1, <2>1, <2>2 DEF RouteAdd, RouteUpdate, RouteChange
<1>2. TypeOK /\ [Next]_vars =>
        [\A p \in Routes, h \in NextHop :
           (\/ RouteAdd(p, h) /\ p \notin valid
            \/ RouteUpdate(p, h)
            \/ RouteChange(p, h) /\ p \in valid)
           => fib'[route'[p]] = h]_vars
  BY <1>1
<1> QED
  BY <1>2, TypeCorrect, PTL DEF Spec, RouteGetsItsHop

\* Every operation is one of the routing table, or is seen by nobody.
LEMMA StepImplements ==
  ASSUME TypeOK, NEW p \in Prefix, NEW h \in NextHop
  PROVE  /\ RouteAdd(p, h) => Table!Add(p, h) \/ abstract' = abstract
         /\ RouteUpdate(p, h) => Table!Add(p, h) \/ Table!Change(p, h)
         /\ RouteChange(p, h) => Table!Change(p, h) \/ abstract' = abstract
         /\ \A k \in 0 .. p.plen :
              OutOfMemory(p, h, k) => abstract' = abstract
         /\ RouteDel(p) => Table!Delete(p)
<1>1. DOMAIN abstract = valid
  BY DEF abstract
<1>2. ASSUME fib' = fibWith(h), InsertRoute(p, Slot(h)), p \notin valid
      PROVE  Table!Add(p, h)
  <2>1. valid' = valid \cup {p} /\ route'[p] = Slot(h)
        /\ \A q \in valid \ {p} : route'[q] = route[q]
    BY <1>2 DEF InsertRoute, valid
  <2> QED
    BY <1>1, <1>2, <2>1, PutRoute DEF Table!Add, Table!Put, abstract
<1>3. ASSUME fib' = fibWith(h), ReplaceHop(p, Slot(h)), p \in valid
      PROVE  Table!Change(p, h)
  <2>1. valid' = valid \cup {p} /\ route'[p] = Slot(h)
        /\ \A q \in valid \ {p} : route'[q] = route[q]
    BY <1>3 DEF ReplaceHop, TypeOK, valid
  <2> QED
    BY <1>1, <1>3, <2>1, PutRoute DEF Table!Change, Table!Put, abstract
<1>4. RouteAdd(p, h) => Table!Add(p, h) \/ abstract' = abstract
  BY <1>2, GrowOnly DEF RouteAdd
<1>5. RouteUpdate(p, h) => Table!Add(p, h) \/ Table!Change(p, h)
  BY <1>2, <1>3 DEF RouteUpdate
<1>6. RouteChange(p, h) => Table!Change(p, h) \/ abstract' = abstract
  BY <1>3, GrowOnly DEF RouteChange
<1>7. \A k \in 0 .. p.plen : OutOfMemory(p, h, k) => abstract' = abstract
  BY GrowOnly DEF OutOfMemory
<1>8. RouteDel(p) => Table!Delete(p)
  <2> SUFFICES ASSUME RouteDel(p)
               PROVE  Table!Delete(p)
    OBVIOUS
  <2>1. /\ p \in valid /\ fib' = fib /\ valid' = valid \ {p}
        /\ \A q \in valid \ {p} : route'[q] = route[q]
    BY DEF RouteDel, valid
  <2>2. abstract' = [q \in DOMAIN abstract \ {p} |-> abstract[q]]
    BY <1>1, <2>1 DEF abstract
  <2> QED
    BY <1>1, <2>1, <2>2 DEF Table!Delete, abstract
<1> QED
  BY <1>4, <1>5, <1>6, <1>7, <1>8

\* The tree with its caches and its table of next hops implements a routing
\* table: each operation adds, changes or deletes the one route it was asked
\* for, or fails without a change to any route.
THEOREM Refinement == Spec => ImplementsRouteTable
<1>1. Init => Table!TableInit
  BY DEF Init, Table!TableInit, valid
<1>2. TypeOK /\ [Next]_vars => [Table!TableNext]_abstract
  <2> SUFFICES ASSUME TypeOK, [Next]_vars
               PROVE  Table!TableNext \/ abstract' = abstract
    OBVIOUS
  <2>1. CASE UNCHANGED vars
    BY <2>1 DEF vars, abstract, valid
  <2>2. CASE Next
    <3>1. PICK p \in Routes :
            \/ \E h \in NextHop :
                 \/ RouteAdd(p, h)
                 \/ RouteUpdate(p, h)
                 \/ RouteChange(p, h)
                 \/ \E k \in 0 .. p.plen : OutOfMemory(p, h, k)
            \/ RouteDel(p)
      BY <2>2 DEF Next
    <3>2. p \in Prefix
      BY RadixAssumption
    <3>5. p \in Table!Prefix
      BY <3>2 DEF Table!Prefix, Table!Addr, Table!Mask, Prefix, Addr, Mask
    <3>3. CASE RouteDel(p)
      <4>1. /\ p \in valid /\ fib' = fib /\ valid' = valid \ {p}
            /\ \A q \in valid \ {p} : route'[q] = route[q]
        BY <3>3 DEF RouteDel, valid
      <4>2. DOMAIN abstract = valid
        BY DEF abstract
      <4>3. abstract' = [q \in DOMAIN abstract \ {p} |-> abstract[q]]
        BY <4>1, <4>2 DEF abstract
      <4>4. Table!Delete(p)
        BY <4>1, <4>2, <4>3 DEF Table!Delete, abstract
      <4> QED
        BY <3>5, <4>4 DEF Table!TableNext
    <3>4. CASE \E h \in NextHop :
                 \/ RouteAdd(p, h)
                 \/ RouteUpdate(p, h)
                 \/ RouteChange(p, h)
                 \/ \E k \in 0 .. p.plen : OutOfMemory(p, h, k)
      <4>1. PICK h \in NextHop :
              \/ RouteAdd(p, h)
              \/ RouteUpdate(p, h)
              \/ RouteChange(p, h)
              \/ \E k \in 0 .. p.plen : OutOfMemory(p, h, k)
        BY <3>4
      <4>2. \/ Table!Add(p, h) \/ Table!Change(p, h)
            \/ abstract' = abstract
        BY <3>2, <4>1, StepImplements
      <4> QED
        BY <3>5, <4>2 DEF Table!TableNext
    <3> QED
      BY <3>1, <3>3, <3>4
  <2> QED
    BY <2>1, <2>2
<1>3. TypeOK /\ [Next]_vars
        => [Table!TableNext]_[p \in valid |-> fib[route[p]]]
  BY <1>2 DEF abstract
<1> QED
  BY <1>1, <1>3, TypeCorrect, PTL DEF Spec, ImplementsRouteTable, Table!TableSpec

-----------------------------------------------------------------------------
\* The lookups.

\* The start of the start of a prefix is its start.
LEMMA StartOfStart ==
  ASSUME NEW a \in Addr, NEW m \in 0 .. Width, NEW l \in 0 .. m
  PROVE  PrefixOf(PrefixOf(a, m).net, l) = PrefixOf(a, l)
BY MaskOfMask DEF PrefixOf

\* Every operation that adds nodes adds a path from the root, or its beginning.
LEMMA PathsStayClosed == TypeOK /\ PathsClosed /\ [Next]_vars => PathsClosed'
<1> SUFFICES ASSUME TypeOK, PathsClosed, [Next]_vars
             PROVE  PathsClosed'
  OBVIOUS
<1>1. ASSUME NEW p \in Prefix, NEW k \in 0 .. p.plen + 1,
             nodes' = nodes \cup {PrefixOf(p.net, l) : l \in 0 .. k - 1}
      PROVE  PathsClosed'
  <2> SUFFICES ASSUME NEW x \in nodes', NEW l \in 0 .. x.plen
               PROVE  PrefixOf(x.net, l) \in nodes'
    BY DEF PathsClosed, Path
  <2>1. CASE x \in nodes
    BY <1>1, <2>1 DEF PathsClosed, Path
  <2>2. CASE x \notin nodes
    <3>1. PICK m \in 0 .. k - 1 : x = PrefixOf(p.net, m)
      BY <1>1, <2>2
    <3>2. /\ p.net \in Addr /\ m \in 0 .. Width /\ x.plen = m
          /\ l \in 0 .. m /\ l \in 0 .. k - 1
      BY <3>1, PrefixType, WidthAssumption DEF PrefixOf
    <3>3. PrefixOf(x.net, l) = PrefixOf(p.net, l)
      BY <3>1, <3>2, StartOfStart
    <3> QED
      BY <1>1, <3>2, <3>3
  <2> QED
    BY <2>1, <2>2
<1>2. CASE nodes' = nodes
  BY <1>2 DEF PathsClosed
<1>3. ASSUME NEW p \in Prefix, NEW n, InsertRoute(p, n)
      PROVE  PathsClosed'
  <2>1. p.plen \in Nat
    BY PrefixType, WidthAssumption
  <2> DEFINE k == p.plen + 1
  <2>2. nodes' = nodes \cup {PrefixOf(p.net, l) : l \in 0 .. k - 1}
    BY <1>3, <2>1 DEF InsertRoute, Path
  <2>3. k \in 0 .. p.plen + 1
    BY <2>1
  <2> HIDE DEF k
  <2> QED
    BY <1>1, <2>2, <2>3
<1>4. ASSUME NEW p \in Prefix, NEW h, NEW k \in 0 .. p.plen, OutOfMemory(p, h, k)
      PROVE  PathsClosed'
  <2>1. k \in 0 .. p.plen + 1
    BY PrefixType, WidthAssumption
  <2>2. nodes' = nodes \cup {PrefixOf(p.net, l) : l \in 0 .. k - 1}
    BY <1>4 DEF OutOfMemory
  <2> QED
    BY <1>1, <2>1, <2>2
<1>5. CASE UNCHANGED vars
  BY <1>2, <1>5 DEF vars
<1>6. CASE Next
  <2>1. PICK p \in Prefix :
          \/ \E h \in NextHop :
               \/ RouteAdd(p, h)
               \/ RouteUpdate(p, h)
               \/ RouteChange(p, h)
               \/ \E k \in 0 .. p.plen : OutOfMemory(p, h, k)
          \/ RouteDel(p)
    BY <1>6, RadixAssumption DEF Next
  <2> QED
    BY <1>2, <1>3, <1>4, <2>1
       DEF RouteAdd, RouteUpdate, RouteChange, RouteDel, ReplaceHop
<1> QED
  BY <1>5, <1>6

\* A prefix that covers an address is the start of it.
LEMMA CoverIsStart ==
  ASSUME NEW a \in Addr, NEW x \in Prefix, Covers(x, a)
  PROVE  /\ x = PrefixOf(a, x.plen)
         /\ \A l \in 0 .. x.plen : PrefixOf(x.net, l) = PrefixOf(a, l)
<1>1. x = [net |-> x.net, plen |-> x.plen] /\ x.plen \in 0 .. Width
  BY PrefixType
<1>2. x = PrefixOf(a, x.plen)
  BY <1>1 DEF Covers, PrefixOf
<1> QED
  BY <1>1, <1>2, StartOfStart

\* The nodes a lookup visits are ordered, closed upwards, and comprise every
\* route that covers the address.
LEMMA VisitedFacts ==
  ASSUME TypeOK, PathsClosed, NEW a \in Addr
  PROVE  /\ Visited(a) \subseteq nodes
         /\ \A x \in Visited(a), y \in Visited(a) : y.plen <= x.plen => Above(y, x)
         /\ \A x \in Visited(a), v \in nodes : Above(v, x) => v \in Visited(a)
         /\ Visited(a) \cap valid = {v \in valid : Covers(v, a)}
<1>1. nodes \subseteq Prefix /\ valid \subseteq nodes
  BY DEF TypeOK
<1>2. ASSUME NEW x \in Visited(a), NEW y \in Visited(a), y.plen <= x.plen
      PROVE  Above(y, x)
  <2>1. /\ x \in Prefix /\ y \in Prefix /\ Covers(x, a) /\ Covers(y, a)
    BY <1>1 DEF Visited
  <2>2. y.plen \in 0 .. x.plen
    BY <1>2, <2>1, PrefixType, WidthAssumption
  <2>3. PrefixOf(x.net, y.plen) = PrefixOf(a, y.plen) /\ y = PrefixOf(a, y.plen)
    BY <2>1, <2>2, CoverIsStart
  <2>4. Mask(x.net, y.plen) = y.net
    BY <2>3 DEF PrefixOf
  <2> QED
    BY <1>2, <2>4 DEF Above
<1>3. ASSUME NEW x \in Visited(a), NEW v \in nodes, Above(v, x)
      PROVE  v \in Visited(a)
  <2>1. /\ x \in Prefix /\ v \in Prefix /\ Covers(x, a)
        /\ \A l \in 0 .. x.plen : PrefixOf(a, l) \in nodes
    BY <1>1 DEF Visited
  <2>2. v.plen \in 0 .. x.plen /\ x.plen \in Nat /\ v.plen \in Nat
    BY <1>3, <2>1, PrefixType, WidthAssumption DEF Above
  <2>3. PrefixOf(x.net, v.plen) = PrefixOf(a, v.plen)
    BY <2>1, <2>2, CoverIsStart
  <2>4. Covers(v, a)
    BY <1>3, <2>3 DEF Above, Covers, PrefixOf
  <2>5. \A l \in 0 .. v.plen : PrefixOf(a, l) \in nodes
    BY <2>1, <2>2
  <2> QED
    BY <2>4, <2>5 DEF Visited
<1>4. ASSUME NEW v \in valid, Covers(v, a)
      PROVE  v \in Visited(a)
  <2>1. \A l \in 0 .. v.plen : PrefixOf(v.net, l) \in nodes
    BY <1>1 DEF PathsClosed, Path
  <2>2. \A l \in 0 .. v.plen : PrefixOf(a, l) \in nodes
    BY <1>1, <1>4, <2>1, CoverIsStart
  <2> QED
    BY <1>1, <1>4, <2>2 DEF Visited
<1>5. Visited(a) \subseteq nodes /\ \A v \in Visited(a) : Covers(v, a)
  BY DEF Visited
<1> QED
  BY <1>2, <1>3, <1>4, <1>5

\* The walk over the routes and the caches give the longest match.
LEMMA LookupsMatch ==
  ASSUME IInv, PathsClosed, NEW a \in Addr
  PROVE  /\ ext_lookup(a) = rib_lookup(a)
         /\ {rib_lookup(a)} =
              IF Longest(valid, a) = {} THEN {0}
              ELSE {route[p] : p \in Longest(valid, a)}
<1> DEFINE V == Visited(a)
           S == V \cap valid
           top == CHOOSE x \in V : \A y \in V : y.plen <= x.plen
<1>1. TypeOK /\ ExtIsNearestRoute
  BY DEF IInv
<1>2. nodes \subseteq Prefix /\ valid \subseteq nodes
  BY <1>1 DEF TypeOK
<1>3. /\ V \subseteq nodes
      /\ \A x \in V, y \in V : y.plen <= x.plen => Above(y, x)
      /\ \A x \in V, v \in nodes : Above(v, x) => v \in V
      /\ S = {v \in valid : Covers(v, a)}
  BY <1>1, VisitedFacts
<1>4. \A x \in S, y \in S : x.plen = y.plen => x = y
  BY <1>2, <1>3, CoverIsStart
<1>5. V # {} => top \in V /\ \A y \in V : y.plen <= top.plen
  <2>1. V \subseteq Prefix
    BY <1>2, <1>3
  <2> HIDE DEF V
  <2>2. V # {} => \E x \in V : \A y \in V : y.plen <= x.plen
    BY <2>1, LongestExists
  <2> QED
    BY <2>2
<1>6. Longest(valid, a) = {p \in S : \A q \in S : q.plen <= p.plen}
  BY <1>3 DEF Longest
<1>7. ext_lookup(a) = IF V = {} THEN 0 ELSE EXT_NH(top)
  BY DEF ext_lookup
<1>8. rib_lookup(a) = IF S = {} THEN 0
        ELSE route[CHOOSE v \in S : \A w \in S : w.plen <= v.plen]
  BY DEF rib_lookup
<1>9. V # {} /\ ext[top] # NULL =>
        /\ ext[top] \in S
        /\ \A v \in S : v.plen <= ext[top].plen
  <2> SUFFICES ASSUME V # {}, ext[top] # NULL
               PROVE  /\ ext[top] \in S
                      /\ \A v \in S : v.plen <= ext[top].plen
    OBVIOUS
  <2>1. top \in nodes /\ top \in V /\ \A y \in V : y.plen <= top.plen
    BY <1>3, <1>5
  <2> HIDE DEF top, V
  <2>2. /\ ext[top] \in valid /\ Above(ext[top], top)
        /\ \A v \in valid : Above(v, top) => v.plen <= ext[top].plen
    BY <1>1, <2>1 DEF ExtIsNearestRoute
  <2>3. ext[top] \in V
    BY <1>2, <1>3, <2>1, <2>2
  <2> QED
    BY <1>3, <2>1, <2>2, <2>3
<1>10. CASE S = {}
  <2>1. V # {} => ext[top] = NULL
    BY <1>9, <1>10
  <2>2. ext_lookup(a) = 0
    BY <1>7, <2>1 DEF EXT_NH
  <2> HIDE DEF S
  <2> QED
    BY <1>6, <1>8, <1>10, <2>2
<1>11. CASE S # {}
  <2>1. S \subseteq Prefix
    BY <1>2
  <2>2. V # {}
    BY <1>11
  <2>3. top \in nodes /\ top \in V /\ \A y \in V : y.plen <= top.plen
    BY <1>3, <1>5, <2>2
  <2> HIDE DEF top
  <2>4. PICK t \in S : \A q \in S : q.plen <= t.plen
    <3> HIDE DEF S
    <3> QED
      BY <1>11, <2>1, LongestExists
  <2>5. ext[top] # NULL
    <3>1. t \in valid /\ Above(t, top)
      BY <1>3, <2>3, <2>4
    <3> HIDE DEF V, S
    <3> QED
      BY <1>1, <2>3, <3>1 DEF ExtIsNearestRoute
  <2> HIDE DEF V, S
  <2>6. \A p \in S : (\A q \in S : q.plen <= p.plen) => p = t
    <3> SUFFICES ASSUME NEW p \in S, \A q \in S : q.plen <= p.plen
                 PROVE  p = t
      OBVIOUS
    <3>1. p.plen \in 0 .. Width /\ t.plen \in 0 .. Width
      BY <2>1, PrefixType
    <3>2. p.plen <= t.plen /\ t.plen <= p.plen
      BY <2>4
    <3>3. p.plen = t.plen
      BY <3>1, <3>2, WidthAssumption
    <3> QED
      BY <1>4, <3>3
  <2>7. ext[top] = t
    BY <1>9, <2>2, <2>5, <2>6
  <2>8. Longest(valid, a) = {t}
    BY <1>6, <2>4, <2>6
  <2>9. rib_lookup(a) = route[t]
    <3>1. (CHOOSE v \in S : \A w \in S : w.plen <= v.plen) = t
      BY <2>4, <2>6
    <3> QED
      BY <1>8, <1>11, <3>1
  <2>10. ext_lookup(a) = route[t]
    BY <1>7, <2>2, <2>5, <2>7 DEF EXT_NH
  <2> QED
    BY <2>8, <2>9, <2>10
<1> QED
  BY <1>10, <1>11

\* After any sequence of operations, both lookups return the next hop of the
\* longest route that covers the address.
THEOREM LookupsCorrect == Spec => []LookupsAgree
<1>1. Init => PathsClosed
  BY DEF Init, PathsClosed
<1>2. IInv /\ PathsClosed => LookupsAgree
  BY LookupsMatch DEF LookupsAgree
<1> QED
  BY <1>1, <1>2, PathsStayClosed, TypeCorrect, Invariance, PTL DEF Spec
=============================================================================
