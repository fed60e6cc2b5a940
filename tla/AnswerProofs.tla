---------------------------- MODULE AnswerProofs ----------------------------
(***************************************************************************)
(* What the trie answers, and the trie for IPv6.                           *)
(***************************************************************************)
EXTENDS PoptrieProofs, Poptrie6

-----------------------------------------------------------------------------
\* Where the walk of a lookup ends.

\* The block y is on the way of the address, and there is a node for it.
OnTheWay(m, y, a) == y \in Blocks /\ Covers(y, a) /\ m.pos[y] # NULL

\* The slot of the address there has no child.
EndsAt(m, y, a) == OnTheWay(m, y, a) /\ INDEX(a, y.plen) \notin NodeAt(m, y).vector

\* The bits of an address below a block above it are those of the block.
LEMMA IndexOn ==
  ASSUME NEW a \in Addr, NEW z \in Prefix, Covers(z, a), NEW s \in Nat, s + K <= z.plen
  PROVE  INDEX(z.net, s) = INDEX(a, s)
<1>1. z.net = Mask(a, z.plen) /\ z.plen \in 0 .. Width /\ z.plen \in Nat
  BY PrefixType, Lengths DEF Covers
<1>2. ASSUME NEW k \in 1 .. K, s + k <= Width
      PROVE  z.net[s + k] = a[s + k]
  <2>1. s + k \in 1 .. Width /\ s + k <= z.plen
    BY <1>1, <1>2, Lengths
  <2> QED
    BY <1>1, <2>1 DEF Mask
<1> QED
  BY <1>2 DEF INDEX

\* The entry of an address.
LEMMA EntryOf ==
  ASSUME NEW a \in Addr, NEW e, e = PrefixOf(a, S)
  PROVE  e \in Index /\ e \in Blocks /\ e \in Prefix /\ e.plen = S /\ Covers(e, a)
<1>1. e \in Index
  BY DEF Index
<1>2. e \in Blocks /\ e \in Prefix /\ e.plen = S
  BY <1>1, BlocksAre, Lengths
<1> QED
  BY <1>1, <1>2 DEF Covers, PrefixOf

\* Prefixes of one address are above each other, and are one if equally long.
LEMMA CoverOrder ==
  ASSUME NEW a \in Addr, NEW y \in Prefix, NEW z \in Prefix, Covers(y, a), Covers(z, a),
         y.plen <= z.plen
  PROVE  /\ Above(y, z)
         /\ y.plen = z.plen => y = z
         /\ y = PrefixOf(a, y.plen)
<1>1. y.plen \in 0 .. Width /\ z.plen \in 0 .. Width /\ y.plen \in 0 .. z.plen
  BY PrefixType, Lengths
<1>2. y = PrefixOf(a, y.plen) /\ z = PrefixOf(a, z.plen)
  BY CoverIsStart
<1>3. Mask(z.net, y.plen) = y.net
  BY <1>1, MaskOfMask DEF Covers
<1> QED
  BY <1>2, <1>3 DEF Above

\* What is above a prefix of an address covers the address.
LEMMA AboveCovers ==
  ASSUME NEW a \in Addr, NEW y \in Prefix, NEW z \in Prefix, Above(y, z), Covers(z, a)
  PROVE  Covers(y, a)
<1>1. y.plen \in 0 .. z.plen /\ z.plen \in 0 .. Width
  BY PrefixType, Lengths DEF Above
<1> QED
  BY <1>1, MaskOfMask DEF Above, Covers

\* The child on the way of an address.
LEMMA KidOnWay ==
  ASSUME NEW a \in Addr, NEW y \in Prefix, Covers(y, a), y.plen + K <= Width
  PROVE  /\ Kid(y, INDEX(a, y.plen)) = PrefixOf(a, y.plen + K)
         /\ Covers(Kid(y, INDEX(a, y.plen)), a)
<1>1. y = PrefixOf(a, y.plen) /\ y.plen \in 0 .. Width /\ y.plen \in Nat
  BY CoverIsStart, PrefixType, Lengths
<1>2. K \in 0 .. K
  BY Lengths
<1>3. Kid(y, INDEX(a, y.plen)) = PrefixOf(a, y.plen + K)
  BY <1>1, <1>2, UnderOnWay DEF Kid
<1> QED
  BY <1>3 DEF Covers, PrefixOf

\* Nodes are K bits apart.
LEMMA PositionAligned ==
  ASSUME NEW m, NEW H, HeapOK(m, H)
  PROVE  \A y \in Blocks : m.pos[y] # NULL => \E l \in Nat : y.plen = S + l * K
<1> DEFINE T == {y \in Blocks : m.pos[y] # NULL => \E l \in Nat : y.plen = S + l * K}
<1>1. m = Heap(m.dir, m.nodes, m.leaves)
  BY DEF HeapOK
<1>2. ASSUME NEW y \in Index
      PROVE  y \in T
  <2>1. y \in Blocks /\ y.plen = S + 0 * K
    BY BlocksAre, Lengths
  <2> QED
    BY <2>1
<1>3. ASSUME NEW y \in Blocks, y.plen # S, y.plen < S + K
      PROVE  y \in T
  BY <1>1, <1>3, Walk
<1>4. ASSUME NEW y \in Blocks, y.plen >= S + K, Over(y) \in T
      PROVE  y \in T
  <2> SUFFICES ASSUME m.pos[y] # NULL
               PROVE  \E l \in Nat : y.plen = S + l * K
    OBVIOUS
  <2>1. /\ Over(y) \in Blocks /\ y.plen >= K
        /\ m.pos[y] = Child(NodeAt(m, Over(y)), INDEX(y.net, y.plen - K))
    BY <1>1, <1>4, Walk
  <2>2. m.pos[Over(y)] # NULL
    <3>1. INDEX(y.net, y.plen - K) \in NodeAt(m, Over(y)).vector
      BY <2>1 DEF Child
    <3> QED
      BY <2>1, <3>1, KidThere
  <2>3. PICK l \in Nat : Over(y).plen = S + l * K
    BY <1>4, <2>2
  <2>4. y.plen \in Nat /\ Over(y).plen = y.plen - K
    BY <2>1, BlockType, OverType
  <2>5. l * K \in Nat /\ (l + 1) * K = l * K + K
    BY Multiples
  <2>6. y.plen = S + (l + 1) * K
    BY <2>3, <2>4, <2>5, Lengths
  <2> QED
    BY <2>6
<1>5. Blocks \subseteq T
  <2> HIDE DEF T
  <2> QED
    BY <1>2, <1>3, <1>4, BlockInduction
<1> QED
  BY <1>5

\* A node above another is above the one that leads to it, or is that one.
LEMMA NoneBetween ==
  ASSUME NEW m, NEW H, HeapOK(m, H), NEW y \in Blocks, m.pos[y] # NULL,
         NEW z \in Blocks, m.pos[z] # NULL, y.plen < z.plen
  PROVE  /\ z.plen >= S + K /\ Over(z) \in Blocks /\ m.pos[Over(z)] # NULL
         /\ INDEX(z.net, z.plen - K) \in NodeAt(m, Over(z)).vector
         /\ y.plen <= Over(z).plen /\ Over(z).plen = z.plen - K
<1>1. y.plen \in Nat /\ z.plen \in Nat /\ S <= y.plen /\ S \in Nat /\ K \in Nat
  BY BlockType, Lengths
<1>2. m = Heap(m.dir, m.nodes, m.leaves)
  BY DEF HeapOK
<1>3. z.plen >= S + K
  BY <1>1, <1>2, Walk
<1>4. /\ Over(z) \in Blocks /\ z.plen >= K
      /\ m.pos[z] = Child(NodeAt(m, Over(z)), INDEX(z.net, z.plen - K))
  BY <1>2, <1>3, Walk
<1>5. INDEX(z.net, z.plen - K) \in NodeAt(m, Over(z)).vector
  BY <1>4 DEF Child
<1>6. m.pos[Over(z)] # NULL
  BY <1>4, <1>5, KidThere
<1>7. Over(z).plen = z.plen - K
  BY <1>4, BlockType, OverType
<1>8. y.plen <= Over(z).plen
  <2>1. PICK k \in Nat : y.plen = S + k * K
    BY PositionAligned
  <2>2. PICK l \in Nat : Over(z).plen = S + l * K
    BY <1>4, <1>6, PositionAligned
  <2>3. k * K \in Nat /\ l * K \in Nat
    BY Multiples
  <2>4. k * K < l * K + K
    BY <1>1, <1>7, <2>1, <2>2, <2>3
  <2>5. k * K <= l * K
    BY <2>4, Multiples
  <2> QED
    BY <1>1, <2>1, <2>2, <2>3, <2>5
<1> QED
  BY <1>3, <1>4, <1>5, <1>6, <1>7, <1>8

\* A node leads to those below it.
LEMMA LeadsDown ==
  ASSUME NEW m, NEW H, HeapOK(m, H), NEW y \in Blocks, m.pos[y] # NULL
  PROVE  \A z \in Blocks : m.pos[z] # NULL /\ Above(y, z) /\ y.plen < z.plen
           => INDEX(z.net, y.plen) \in NodeAt(m, y).vector
<1> DEFINE T == {z \in Blocks : m.pos[z] # NULL /\ Above(y, z) /\ y.plen < z.plen
                                  => INDEX(z.net, y.plen) \in NodeAt(m, y).vector}
<1>1. y.plen \in Nat /\ S <= y.plen /\ S \in Nat /\ K \in Nat \ {0} /\ y \in Prefix
  BY BlockType, Lengths
<1>2. ASSUME NEW z \in Blocks, m.pos[z] # NULL, Above(y, z), y.plen < z.plen, Over(z) \in T
      PROVE  INDEX(z.net, y.plen) \in NodeAt(m, y).vector
  <2>1. /\ z.plen >= S + K /\ Over(z) \in Blocks /\ m.pos[Over(z)] # NULL
        /\ INDEX(z.net, z.plen - K) \in NodeAt(m, Over(z)).vector
        /\ y.plen <= Over(z).plen /\ Over(z).plen = z.plen - K
    BY <1>2, NoneBetween
  <2>2. z \in Prefix /\ z.plen \in Nat /\ z.net \in Addr /\ Over(z) \in Prefix
    BY <2>1, BlockType
  <2>3. Above(Over(z), z)
    BY <1>1, <2>1, <2>2, OverType
  <2>4. Above(y, Over(z))
    BY <1>1, <1>2, <2>1, <2>2, <2>3, AboveLinear
  <2>5. CASE y.plen = Over(z).plen
    <3>1. y = Over(z)
      BY <1>1, <1>2, <2>2, <2>3, <2>5, AboveSameLength
    <3> QED
      BY <2>1, <3>1
  <2>6. CASE y.plen # Over(z).plen
    <3>1. y.plen < Over(z).plen /\ Over(z).plen \in Nat
      BY <1>1, <2>1, <2>2, <2>6
    <3>2. INDEX(Over(z).net, y.plen) \in NodeAt(m, y).vector
      BY <1>2, <2>1, <2>4, <3>1
    <3>3. y.plen + K <= Over(z).plen
      <4>1. /\ y.plen <= Over(Over(z)).plen
            /\ Over(Over(z)).plen = Over(z).plen - K
        BY <2>1, <3>1, NoneBetween
      <4> QED
        BY <1>1, <3>1, <4>1
    <3>4. INDEX(Over(z).net, y.plen) = INDEX(z.net, y.plen)
      BY <1>1, <2>1, <3>3, IndexOver
    <3> QED
      BY <3>2, <3>4
  <2> QED
    BY <2>5, <2>6
<1>3. Index \subseteq T
  <2> SUFFICES ASSUME NEW z \in Index
               PROVE  z \in T
    OBVIOUS
  <2>1. z \in Blocks /\ z.plen = S
    BY BlocksAre, Lengths
  <2> QED
    BY <1>1, <2>1
<1>4. \A z \in Blocks : z.plen # S /\ z.plen < S + K => z \in T
  <2>1. m = Heap(m.dir, m.nodes, m.leaves)
    BY DEF HeapOK
  <2> QED
    BY <2>1, Walk
<1>5. \A z \in Blocks : z.plen >= S + K /\ Over(z) \in T => z \in T
  BY <1>2
<1>6. Blocks \subseteq T
  <2> HIDE DEF T
  <2> QED
    BY <1>3, <1>4, <1>5, BlockInduction
<1> QED
  BY <1>6

\* The walk ends at one block at most.
LEMMA OneEnd ==
  ASSUME NEW m, NEW H, HeapOK(m, H), NEW a \in Addr, NEW y, EndsAt(m, y, a),
         NEW z, EndsAt(m, z, a)
  PROVE  y = z
<1>1. ASSUME NEW u, EndsAt(m, u, a), NEW v, EndsAt(m, v, a), u.plen < v.plen
      PROVE  FALSE
  <2>1. /\ u \in Blocks /\ u \in Prefix /\ u.plen \in Nat /\ Covers(u, a) /\ m.pos[u] # NULL
        /\ v \in Blocks /\ v \in Prefix /\ v.plen \in Nat /\ Covers(v, a) /\ m.pos[v] # NULL
    BY <1>1, BlockType DEF EndsAt, OnTheWay
  <2>2. Above(u, v)
    BY <1>1, <2>1, CoverOrder
  <2>3. INDEX(v.net, u.plen) \in NodeAt(m, u).vector
    BY <1>1, <2>1, <2>2, LeadsDown
  <2>4. u.plen + K <= v.plen
    <3>1. u.plen <= Over(v).plen /\ Over(v).plen = v.plen - K
      BY <1>1, <2>1, NoneBetween
    <3> QED
      BY <2>1, <3>1, Lengths
  <2>5. INDEX(v.net, u.plen) = INDEX(a, u.plen)
    BY <2>1, <2>4, IndexOn
  <2> QED
    BY <1>1, <2>3, <2>5 DEF EndsAt
<1>2. /\ y \in Prefix /\ y.plen \in Nat /\ Covers(y, a)
      /\ z \in Prefix /\ z.plen \in Nat /\ Covers(z, a)
  BY BlockType DEF EndsAt, OnTheWay
<1>3. y.plen = z.plen
  BY <1>1, <1>2
<1> QED
  BY <1>2, <1>3, CoverOrder

\* It ends somewhere, if the entry of the address leads to a node.
LEMMA EndExists ==
  ASSUME NEW m, NEW H, HeapOK(m, H), NEW a \in Addr, m.pos[PrefixOf(a, S)] # NULL
  PROVE  \E y : EndsAt(m, y, a)
<1> DEFINE P == {y \in Blocks : OnTheWay(m, y, a)}
<1>1. P \subseteq Prefix /\ PrefixOf(a, S) \in P
  <2>1. PrefixOf(a, S) \in Blocks /\ Covers(PrefixOf(a, S), a)
    BY EntryOf
  <2> QED
    BY <2>1, BlockType DEF OnTheWay
<1>2. PICK y \in P : \A z \in P : z.plen <= y.plen
  BY <1>1, LongestExists
<1>3. y \in Blocks /\ y \in Prefix /\ Covers(y, a) /\ y.plen \in Nat
  BY BlockType DEF OnTheWay
<1>4. ASSUME INDEX(a, y.plen) \in NodeAt(m, y).vector
      PROVE  FALSE
  <2> DEFINE k == Kid(y, INDEX(a, y.plen))
  <2>1. INDEX(a, y.plen) \in Slots /\ y.plen + K < Width /\ k \in Blocks /\ m.pos[k] # NULL
    BY <1>3, <1>4, KidThere
  <2>2. k.plen = y.plen + K
    BY <1>3, <2>1, KidType
  <2>3. Covers(k, a)
    BY <1>3, <2>1, KidOnWay, Lengths
  <2>4. k \in P
    BY <2>1, <2>3 DEF OnTheWay
  <2> QED
    BY <1>2, <1>3, <2>2, <2>4, Lengths
<1> QED
  BY <1>2, <1>4 DEF EndsAt

\* The lookup finds the block where the walk ends.
LEMMA LastIs ==
  ASSUME NEW m, NEW H, HeapOK(m, H), NEW a \in Addr, NEW y, EndsAt(m, y, a)
  PROVE  LastBlock(m, a) = y
<1> DEFINE E == {PrefixOf(a, l) : l \in S .. Width}
           stops(z) == m.pos[z] # NULL /\ INDEX(a, z.plen) \notin NodeAt(m, z).vector
<1>1. y \in Blocks /\ y \in Prefix /\ y.plen \in S .. Width /\ y.plen \in Nat /\ Covers(y, a)
  BY BlockType DEF EndsAt, OnTheWay
<1>2. y \in E /\ stops(y)
  <2>1. y = PrefixOf(a, y.plen)
    BY <1>1, CoverOrder
  <2> QED
    BY <1>1, <2>1 DEF EndsAt, OnTheWay
<1>3. \A z \in E : stops(z) => z = y
  <2> SUFFICES ASSUME NEW l \in S .. Width, NEW z, z = PrefixOf(a, l), stops(z)
               PROVE  z = y
    OBVIOUS
  <2>1. z \in Blocks /\ Covers(z, a)
    BY DEF Blocks, Covers, PrefixOf
  <2> QED
    BY <2>1, OneEnd DEF EndsAt, OnTheWay
<1>4. LastBlock(m, a) = CHOOSE z \in E : stops(z)
  BY DEF LastBlock
<1> HIDE DEF E, stops
<1> QED
  BY <1>2, <1>3, <1>4

\* It answers with the leaf there.
LEMMA LookupIs ==
  ASSUME NEW m, NEW H, HeapOK(m, H), NEW a \in Addr, NEW y, EndsAt(m, y, a)
  PROVE  Lookup(m, a) = Leaf(m, NodeAt(m, y), INDEX(a, y.plen))
<1> DEFINE e == PrefixOf(a, S)
<1>1. y \in Blocks /\ y \in Prefix /\ y.plen \in S .. Width /\ y.plen \in Nat /\ Covers(y, a)
  BY BlockType DEF EndsAt, OnTheWay
<1>2. m.dir[e].kind # "leaf"
  <2>1. m.pos[PrefixOf(y.net, S)] # NULL
    BY <1>1, EntryUp DEF EndsAt, OnTheWay
  <2>2. PrefixOf(y.net, S) = e
    <3>1. S \in 0 .. y.plen
      BY <1>1, Lengths
    <3> QED
      BY <1>1, <3>1, CoverIsStart
  <2>3. e \in Index /\ e \in Blocks /\ e.plen = S
    BY EntryOf
  <2>4. m.pos[e] = Entry(m, e)
    BY <2>3, Walk DEF HeapOK
  <2> QED
    BY <2>1, <2>2, <2>4 DEF Entry
<1> QED
  BY <1>2, LastIs DEF Lookup

\* The entry of an address is a next hop, or the walk ends below it.
LEMMA LookupCases ==
  ASSUME NEW m, NEW H, HeapOK(m, H), NEW a \in Addr, NEW e, e = PrefixOf(a, S)
  PROVE  /\ e \in Index /\ e \in Blocks /\ e.plen = S /\ Covers(e, a)
         /\ \/ m.dir[e].kind = "leaf" /\ Lookup(m, a) = m.dir[e].hop
            \/ m.dir[e].kind = "root" /\ \E y : EndsAt(m, y, a)
<1>1. e \in Index /\ e \in Blocks /\ e.plen = S /\ Covers(e, a)
  BY EntryOf
<1>2. EntryOK(m, e, H)
  BY <1>1 DEF HeapOK
<1>3. CASE m.dir[e].kind = "leaf"
  BY <1>1, <1>3 DEF Lookup
<1>4. CASE m.dir[e].kind # "leaf"
  <2>1. m.dir[e].kind = "root" /\ Entry(m, e) = <<m.dir[e].base, 1>>
        /\ Named(m.dir[e].base, "root", e)
    BY <1>2, <1>4, EntrySays, PoptrieAssumption
  <2>2. m.pos[e] = <<m.dir[e].base, 1>>
    BY <1>1, <2>1, Walk DEF HeapOK
  <2>3. m.pos[e] # NULL
    BY <1>1, <2>1, <2>2, NamesType
  <2> QED
    BY <1>1, <2>1, <2>3, EndExists
<1> QED
  BY <1>3, <1>4

-----------------------------------------------------------------------------
\* What a change says of an address.

\* The next hops of its entry, and of its slots.
Told(b, a) ==
  {b.leaf[e] : e \in {PrefixOf(a, S)} \cap DOMAIN b.leaf}
  \cup {b.hops[y][INDEX(a, y.plen)] :
          y \in {z \in DOMAIN b.hops : Covers(z, a) /\ INDEX(a, z.plen) \in DOMAIN b.hops[z]}}

\* What answers for the address was not made anew.
Untouched(m, b, f, a) ==
  \/ PrefixOf(a, S) \notin DOMAIN b.leaf \cup b.roots /\ m.dir[PrefixOf(a, S)].kind = "leaf"
  \/ \E y : EndsAt(m, y, a) /\ EndsAt(f, y, a) /\ y \notin DOMAIN b.hops

\* The leaf of a slot in an array that was made for it.
LEMMA NewLeaf ==
  ASSUME NEW m, NEW H, HeapOK(m, H), NEW b, GoodChange(m, b, H), NEW n, n = Linked(m, b),
         NEW f, \A x \in DOMAIN f.leaves : f.leaves[x] = n.leaves[x],
         NEW y \in DOMAIN b.hops, NEW d, d = Made(m, b, y), NodeOK(f, y, d),
         NEW i \in Slots \ d.vector
  PROVE  i \in DOMAIN b.hops[y] /\ Leaf(f, d, i) = b.hops[y][i]
<1>1. d.vector = VectorOf(m, b, y) /\ d.leafvec = Changes(b.hops[y])
      /\ d.base0 = NewLeaves(m, b, y)
  BY MadeIs
<1>2. DOMAIN b.hops[y] = Slots \ VectorOf(m, b, y)
  BY DEF GoodChange, GoodHops
<1>3. i \in DOMAIN b.hops[y] /\ DOMAIN b.hops[y] \subseteq Slots
  BY <1>1, <1>2
<1>4. n.leaves[NewLeaves(m, b, y)] = InOrder(b.hops[y], Changes(b.hops[y]))
  <2>1. LeavesThere(m, b, n)
    BY LinkedNew
  <2> QED
    BY <1>3, <2>1 DEF LeavesThere
<1>5. d.base0 \in DOMAIN f.leaves
  BY DEF NodeOK, LeavesOK
<1>6. f.leaves[d.base0] = InOrder(b.hops[y], Changes(b.hops[y]))
  BY <1>1, <1>4, <1>5
<1>7. InOrder(b.hops[y], Changes(b.hops[y]))[Rank(Changes(b.hops[y]), i)] = b.hops[y][i]
  BY <1>3, LeafCompression
<1> QED
  BY <1>1, <1>3, <1>6, <1>7 DEF Leaf

\* The leaf of a slot in an array that was there.
LEMMA OldLeaf ==
  ASSUME NEW m, NEW H, HeapOK(m, H), NEW b, GoodChange(m, b, H), NEW n, n = Linked(m, b),
         NEW f, \A x \in DOMAIN f.leaves : f.leaves[x] = n.leaves[x],
         NEW y \in Blocks, y \notin DOMAIN b.hops, m.pos[y] # NULL,
         NEW d, d = Made(m, b, y), NodeOK(f, y, d),
         NEW i \in Slots \ d.vector
  PROVE  i \notin NodeAt(m, y).vector /\ Leaf(f, d, i) = Leaf(m, NodeAt(m, y), i)
<1> DEFINE o == NodeAt(m, y)
<1>1. d.vector = VectorOf(m, b, y) /\ d.leafvec = o.leafvec /\ d.base0 = o.base0
  BY MadeIs
<1>2. VectorOf(m, b, y) = o.vector
  BY DEF VectorOf, GoodChange, GoodVec
<1>3. NodeOK(m, y, o)
  BY DEF HeapOK
<1> HIDE DEF o
<1>4. i \in Slots \ o.vector
  BY <1>1, <1>2
<1>5. o.base0 \in DOMAIN m.leaves /\ d.base0 \in DOMAIN f.leaves
  BY <1>3, <1>4 DEF NodeOK, LeavesOK
<1>6. n.leaves[o.base0] = m.leaves[o.base0]
  BY <1>5, LinkedOld DEF OldKept
<1>7. f.leaves[d.base0] = m.leaves[o.base0]
  BY <1>1, <1>5, <1>6
<1> QED
  BY <1>1, <1>4, <1>7 DEF Leaf, o

\* After a change an address is answered with what the change says, or as before.
LEMMA ChangedAnswer ==
  ASSUME NEW m, NEW H, HeapOK(m, H), NEW b, GoodChange(m, b, H), NEW n, n = Linked(m, b),
         NEW p, \A e \in DOMAIN b.leaf \cup b.roots : Above(p, e) \/ Above(e, p),
         NEW garbage, garbage = Garbage(m, n, b, p),
         NEW f, f = Heap(n.dir, Freed(n, garbage).nodes, Freed(n, garbage).leaves),
         NEW a \in Addr
  PROVE  \/ Lookup(f, a) \in Told(b, a)
         \/ Untouched(m, b, f, a) /\ Lookup(f, a) = Lookup(m, a)
<1> DEFINE e == PrefixOf(a, S)
<1>1. HeapOK(f, H)
  BY ChangeKeeps
<1>2. /\ f.dir = n.dir
      /\ \A x \in DOMAIN f.leaves : f.leaves[x] = n.leaves[x]
      /\ \A y \in Blocks : f.pos[y] = n.pos[y] /\ NodeAt(f, y) = NodeAt(n, y)
  BY FreedWalk
<1>3. /\ \A x \in DOMAIN b.leaf : n.dir[x] = LeafEntry(b.leaf[x])
      /\ \A x \in b.roots : n.dir[x] = RootEntry(Fresh(m.nodes, "root", x))
      /\ \A x \in Index \ (DOMAIN b.leaf \cup b.roots) : n.dir[x] = m.dir[x]
  BY LinkedDir
<1>4. e \in Index
  BY EntryOf
<1>5. CASE f.dir[e].kind = "leaf"
  <2>1. Lookup(f, a) = f.dir[e].hop
    BY <1>5 DEF Lookup
  <2>2. CASE e \in DOMAIN b.leaf
    <3>1. f.dir[e] = LeafEntry(b.leaf[e])
      BY <1>2, <1>3, <2>2
    <3>2. Lookup(f, a) = b.leaf[e]
      BY <2>1, <3>1 DEF LeafEntry
    <3> QED
      BY <2>2, <3>2 DEF Told
  <2>3. CASE e \notin DOMAIN b.leaf
    <3>1. e \notin b.roots
      <4>1. e \in b.roots => f.dir[e] = RootEntry(Fresh(m.nodes, "root", e))
        BY <1>2, <1>3
      <4> QED
        BY <1>5, <4>1 DEF RootEntry
    <3>2. f.dir[e] = m.dir[e]
      BY <1>2, <1>3, <1>4, <2>3, <3>1
    <3>3. Lookup(m, a) = m.dir[e].hop
      BY <1>5, <3>2 DEF Lookup
    <3> QED
      BY <1>5, <2>1, <2>3, <3>1, <3>2, <3>3 DEF Untouched
  <2> QED
    BY <2>2, <2>3
<1>6. CASE f.dir[e].kind # "leaf"
  <2>1. PICK y : EndsAt(f, y, a)
    BY <1>1, <1>6, LookupCases
  <2> DEFINE i == INDEX(a, y.plen)
             d == Made(m, b, y)
  <2>2. y \in Blocks /\ f.pos[y] # NULL /\ Covers(y, a) /\ i \notin NodeAt(f, y).vector
    BY <2>1 DEF EndsAt, OnTheWay
  <2>3. NodeAt(f, y) = d /\ (y \in DOMAIN b.hops \/ m.pos[y] # NULL)
    BY <1>2, <2>2, LinkedNode
  <2>4. NodeOK(f, y, d) /\ i \in Slots \ d.vector
    <3>1. i \in Slots
      BY <2>2, BlockType, IndexType
    <3>2. NodeOK(f, y, NodeAt(f, y))
      BY <1>1, <2>2 DEF HeapOK
    <3> QED
      BY <2>2, <2>3, <3>1, <3>2
  <2>5. Lookup(f, a) = Leaf(f, d, i)
    BY <1>1, <2>1, <2>3, LookupIs
  <2> HIDE DEF d
  <2>6. CASE y \in DOMAIN b.hops
    <3>1. i \in DOMAIN b.hops[y] /\ Leaf(f, d, i) = b.hops[y][i]
      BY <1>2, <2>4, <2>6, NewLeaf DEF d
    <3> QED
      BY <2>2, <2>5, <2>6, <3>1 DEF Told
  <2>7. CASE y \notin DOMAIN b.hops
    <3>1. i \notin NodeAt(m, y).vector /\ Leaf(f, d, i) = Leaf(m, NodeAt(m, y), i)
      BY <1>2, <2>2, <2>3, <2>4, <2>7, OldLeaf DEF d
    <3>2. EndsAt(m, y, a)
      BY <2>2, <2>3, <2>7, <3>1 DEF EndsAt, OnTheWay
    <3>3. Lookup(m, a) = Leaf(m, NodeAt(m, y), i)
      BY <3>2, LookupIs
    <3> QED
      BY <2>1, <2>5, <2>7, <3>1, <3>2, <3>3 DEF Untouched
  <2> QED
    BY <2>6, <2>7
<1> QED
  BY <1>5, <1>6

-----------------------------------------------------------------------------
\* What _update_inode says of an address.

\* What the tree has for an address: the next hop of the last node on its way.
Latest(r, a) == r.nh[Deepest({y \in r.nodes : Covers(y, a)})]

\* The recursion passes over a node on the way of an address, as there is no mark.
PassedOver(r, m, w, a) ==
  /\ w \in Blocks /\ Covers(w, a) /\ m.pos[w] # NULL
  /\ GoesOn(r, w, INDEX(a, w.plen))
  /\ Children(r, Kid(w, INDEX(a, w.plen))) \cap r.marked = {}

Skipped(r, m, x, a) == \E w \in Reached(r, m, x) : PassedOver(r, m, w, a)

\* The next hop the tree has, and that of the heap if the recursion skips it.
Answers(r, m, x, a) == {Latest(r, a)} \cup {h \in {Lookup(m, a)} : Skipped(r, m, x, a)}

\* _parse_triangle finds the last node on the way of an address, if the tree does
\* not go on below.
LEMMA CornerLatest ==
  ASSUME NEW r, NEW H, RibOK(r, H), NEW a \in Addr, NEW x \in Blocks, x \in r.nodes,
         Covers(x, a), ~ GoesOn(r, x, INDEX(a, x.plen))
  PROVE  r.nh[Corner(r, x, INDEX(a, x.plen))] = Latest(r, a)
<1> DEFINE i == INDEX(a, x.plen)
           P == {y \in r.nodes : Covers(y, a)}
           c == Corner(r, x, i)
<1>1. /\ x \in Prefix /\ x.plen \in 0 .. Width /\ x.plen \in Nat /\ S <= x.plen
      /\ x = PrefixOf(a, x.plen)
  BY BlockType, PrefixType, CoverIsStart, Lengths
<1>2. PICK l \in 0 .. K : /\ c = Under(x, i, l) /\ Under(x, i, l) \in r.nodes
                          /\ \A k \in l + 1 .. K : Under(x, i, k) \notin r.nodes
  BY <1>1, CornerSpec
<1>3. c \in Prefix /\ c \in r.nodes
  BY <1>2 DEF RibOK
<1>4. c.plen = x.plen + l /\ x.plen + l <= Width /\ l \in Nat
  <2>1. c.plen = x.plen + l
    <3> HIDE DEF c, i
    <3> QED
      BY <1>2 DEF Under
  <2> QED
    BY <1>3, <2>1, PrefixType, Lengths
<1>5. \A k \in 0 .. K : x.plen + k <= Width => Under(x, i, k) = PrefixOf(a, x.plen + k)
  BY <1>1, UnderOnWay
<1> HIDE DEF c
<1>6. Covers(c, a)
  <2>1. c = PrefixOf(a, x.plen + l)
    BY <1>2, <1>4, <1>5
  <2> QED
    BY <2>1 DEF Covers, PrefixOf
<1>7. ASSUME NEW w \in P, c.plen < w.plen
      PROVE  FALSE
  <2>1. w \in Prefix /\ w.plen \in Nat /\ w.plen <= Width /\ Covers(w, a) /\ w \in r.nodes
    BY PrefixType, Lengths DEF RibOK
  <2>2. ASSUME NEW k \in S .. w.plen
        PROVE  PrefixOf(a, k) \in r.nodes
    <3>1. k \in 0 .. w.plen
      BY Lengths
    <3>2. PrefixOf(w.net, k) = PrefixOf(a, k)
      BY <2>1, <3>1, CoverIsStart
    <3>3. PrefixOf(a, k) \in Blocks
      BY <2>1, Lengths DEF Blocks
    <3>4. PrefixOf(w.net, k) \in Path(w)
      BY <3>1 DEF Path
    <3> QED
      BY <2>1, <3>2, <3>3, <3>4 DEF RibOK
  <2>3. x.plen + l + 1 \in S .. w.plen /\ x.plen + l + 1 <= Width
    BY <1>1, <1>4, <1>7, <2>1, Lengths
  <2>4. PrefixOf(a, x.plen + l + 1) \in r.nodes
    BY <2>2, <2>3
  <2>5. CASE l < K
    <3>1. l + 1 \in l + 1 .. K /\ l + 1 \in 0 .. K
      BY <2>5, Lengths
    <3>2. Under(x, i, l + 1) = PrefixOf(a, x.plen + l + 1)
      <4>1. x.plen + (l + 1) = x.plen + l + 1
        BY <1>1, <1>4
      <4> QED
        BY <1>5, <2>3, <3>1, <4>1
    <3> QED
      BY <1>2, <2>4, <3>1, <3>2
  <2>6. CASE ~ l < K
    <3>1. l = K
      BY <2>6, Lengths
    <3>2. Kid(x, i) = c
      BY <1>2, <3>1 DEF Kid
    <3> DEFINE d == PrefixOf(a, x.plen + l + 1)
    <3>3. d \in Prefix /\ Covers(d, a) /\ d.plen = c.plen + 1
      <4>1. x.plen + l + 1 \in 0 .. Width
        BY <2>3, Lengths
      <4> QED
        BY <1>1, <1>4, <4>1, PrefixOfType DEF PrefixOf, Covers
    <3>4. c.plen <= d.plen
      BY <1>1, <1>4, <3>3
    <3>5. Above(c, d)
      BY <1>3, <1>6, <3>3, <3>4, CoverOrder
    <3>6. d \in Children(r, c)
      BY <2>4, <3>3, <3>5 DEF Children
    <3> QED
      BY <1>3, <3>2, <3>6 DEF GoesOn
  <2> QED
    BY <2>5, <2>6
<1>8. c \in P /\ P \subseteq Prefix
  BY <1>3, <1>6 DEF RibOK
<1>9. \A w \in P : w.plen <= c.plen
  <2> SUFFICES ASSUME NEW w \in P
               PROVE  w.plen <= c.plen
    OBVIOUS
  <2>1. w.plen \in Nat /\ c.plen \in Nat
    BY <1>8, PrefixType, Lengths
  <2> QED
    BY <1>7, <2>1
<1>10. Deepest(P) = c
  <2> DEFINE last(y) == \A q \in P : q.plen <= y.plen
  <2>1. \A y \in P : last(y) => y = c
    <3> SUFFICES ASSUME NEW y \in P, last(y)
                 PROVE  y = c
      OBVIOUS
    <3>1. y.plen <= c.plen /\ c.plen <= y.plen /\ y.plen \in Nat /\ c.plen \in Nat
      BY <1>8, <1>9, PrefixType, Lengths
    <3> QED
      BY <1>6, <1>8, <3>1, CoverOrder
  <2>2. Deepest(P) = CHOOSE y \in P : last(y)
    BY DEF Deepest
  <2>3. c \in P /\ last(c)
    BY <1>8, <1>9
  <2> HIDE DEF P, last
  <2> QED
    BY <2>1, <2>2, <2>3
<1> QED
  BY <1>10 DEF c, Latest

\* The recursion ends on the way of every address.
LEMMA EndOnWay ==
  ASSUME NEW r, NEW H, RibOK(r, H), NEW m, NEW x \in Blocks, NEW y \in Reached(r, m, x),
         NEW a \in Addr, Covers(y, a)
  PROVE  \E z \in Reached(r, m, x) :
           /\ Covers(z, a) /\ ~ Rebuilt(r, m, z, INDEX(a, z.plen))
           /\ <<z, INDEX(a, z.plen)>> \in From(Ends(r, m, x), <<y, INDEX(a, y.plen)>>)
<1> DEFINE P == {z \in Reached(r, m, x) : Covers(z, a)}
           i == INDEX(a, y.plen)
<1>1. P \subseteq Prefix /\ y \in P /\ P \subseteq Blocks
  BY ReachedBlocks, BlockType
<1>2. PICK z \in P : \A w \in P : w.plen <= z.plen
  BY <1>1, LongestExists
<1> DEFINE j == INDEX(a, z.plen)
<1>3. /\ y \in Blocks /\ y \in Prefix /\ y.plen \in Nat /\ i \in Slots
      /\ z \in Blocks /\ z \in Prefix /\ z.plen \in Nat /\ j \in Slots
  BY <1>1, BlockType, IndexType
<1>4. ~ Rebuilt(r, m, z, j)
  <2> SUFFICES ASSUME Rebuilt(r, m, z, j)
               PROVE  FALSE
    OBVIOUS
  <2>1. Kid(z, j) \in Reached(r, m, x)
    BY <1>3, ReachedKid
  <2>2. z.plen + K < Width
    BY <1>3, GoesOnShort DEF Rebuilt
  <2>3. z.plen + K <= Width
    BY <1>3, <2>2, Lengths
  <2>4. Covers(Kid(z, j), a) /\ Kid(z, j).plen = z.plen + K
    BY <1>3, <2>3, KidOnWay, KidType
  <2>5. z.plen + K <= z.plen
    BY <1>2, <2>1, <2>4
  <2> QED
    BY <1>3, <2>5, Lengths
<1>5. <<z, j>> \in Ends(r, m, x)
  BY <1>3, <1>4 DEF Ends
<1>6. CASE z = y
  <2>1. <<z, j>> \in From(Ends(r, m, x), <<y, i>>)
    BY <1>5, <1>6 DEF From
  <2> QED
    BY <1>4, <2>1
<1>7. CASE z # y
  <2>1. y.plen < z.plen
    <3>1. y.plen # z.plen
      BY <1>3, <1>7, CoverOrder
    <3> QED
      BY <1>1, <1>2, <1>3, <3>1
  <2>2. Above(y, z)
    BY <1>3, <2>1, CoverOrder
  <2>3. y \in Way(x, z)
    <3>1. Below(x, y)
      BY DEF Reached
    <3>2. y \in Path(z)
      <4>1. y = PrefixOf(z.net, y.plen) /\ y.plen \in 0 .. z.plen
        BY <1>3, <2>1, <2>2, StartsItself DEF Above, PrefixOf
      <4> QED
        BY <4>1 DEF Path
    <3> QED
      BY <3>1, <3>2 DEF Way
  <2>4. Below(x, z) /\ Rebuilt(r, m, y, INDEX(z.net, y.plen))
    BY <1>7, <2>3 DEF Reached
  <2>5. y.plen + K <= z.plen
    BY <1>3, <1>7, <2>3, <2>4, WayShort
  <2>6. INDEX(z.net, y.plen) = i
    BY <1>3, <2>5, IndexOn
  <2>7. <<y, i>> \notin Ends(r, m, x)
    BY <2>4, <2>6 DEF Ends
  <2>8. Above(Kid(y, i), z)
    <3>1. y.plen + K <= Width
      BY <1>3, <2>5, PrefixType, Lengths
    <3>2. Covers(Kid(y, i), a) /\ Kid(y, i) \in Prefix /\ Kid(y, i).plen = y.plen + K
      BY <1>3, <3>1, KidOnWay, KidType
    <3> QED
      BY <1>3, <2>5, <3>2, CoverOrder
  <2>9. <<z, j>> \in From(Ends(r, m, x), <<y, i>>)
    <3>1. <<z, j>>[1] = z /\ <<y, i>>[1] = y /\ <<y, i>>[2] = i
      OBVIOUS
    <3> QED
      BY <1>5, <2>7, <2>8, <3>1 DEF From
  <2> QED
    BY <1>4, <2>9
<1> QED
  BY <1>6, <1>7

\* The next hop where the recursion ends.
LEMMA HopOnWay ==
  ASSUME NEW m, NEW H, HeapOK(m, H), NEW r, RibOK(r, H), NEW x \in Blocks,
         NEW z \in Reached(r, m, x), NEW a \in Addr, Covers(z, a),
         ~ Rebuilt(r, m, z, INDEX(a, z.plen)), ~ IsKept(r, m, <<z, INDEX(a, z.plen)>>)
  PROVE  HopAt(r, m, <<z, INDEX(a, z.plen)>>) \in Answers(r, m, x, a)
<1> DEFINE j == INDEX(a, z.plen)
           q == <<z, j>>
<1>1. q[1] = z /\ q[2] = j
  OBVIOUS
<1>2. z \in Blocks /\ z \in r.nodes
  BY ReachedBlocks DEF Reached
<1>3. CASE GoesOn(r, z, j)
  <2>1. /\ m.pos[z] # NULL /\ Children(r, Kid(z, j)) \cap r.marked = {}
        /\ j \notin NodeAt(m, z).vector
    BY <1>1, <1>3 DEF Rebuilt, IsKept
  <2>2. EndsAt(m, z, a)
    BY <1>2, <2>1 DEF EndsAt, OnTheWay
  <2>3. HopAt(r, m, q) = Lookup(m, a)
    BY <1>1, <1>3, <2>2, LookupIs DEF HopAt
  <2>4. Skipped(r, m, x, a)
    BY <1>2, <1>3, <2>1 DEF Skipped, PassedOver
  <2> QED
    BY <2>3, <2>4 DEF Answers
<1>4. CASE ~ GoesOn(r, z, j)
  <2>1. HopAt(r, m, q) = Latest(r, a)
    BY <1>1, <1>2, <1>4, CornerLatest DEF HopAt
  <2> QED
    BY <2>1 DEF Answers
<1> QED
  BY <1>3, <1>4

\* What _update_inode says of an address is what the tree has for it, or, if it is
\* skipped, what it was.
LEMMA InodeTold ==
  ASSUME NEW m, NEW H, HeapOK(m, H), NEW r, RibOK(r, H), NEW x \in Blocks,
         NEW b, b = Inode(r, m, x), NEW a \in Addr
  PROVE  Told(b, a) \subseteq Answers(r, m, x, a)
<1>1. /\ IsChange(b) /\ b.roots = {} /\ b.stored = {} /\ DOMAIN b.leaf = {}
      /\ b.vec = [y \in MadeOf(r, m, x) |-> KidsOf(r, m, x, y)]
      /\ DOMAIN b.hops = MadeOf(r, m, x)
      /\ \A y \in MadeOf(r, m, x) : b.hops[y] = HopsFor(r, m, x, y)
  BY InodeIs
<1>2. ASSUME NEW y \in DOMAIN b.hops, Covers(y, a), INDEX(a, y.plen) \in DOMAIN b.hops[y]
      PROVE  b.hops[y][INDEX(a, y.plen)] \in Answers(r, m, x, a)
  <2> DEFINE i == INDEX(a, y.plen)
             F == From(Ends(r, m, x), <<y, i>>)
  <2>1. /\ b.hops[y] = [s \in Slots \ KidsOf(r, m, x, y) |->
                          HopAt(r, m, CHOOSE q \in From(Ends(r, m, x), <<y, s>>) : TRUE)]
        /\ y \in Reached(r, m, x)
    BY <1>1 DEF MadeOf, HopsFor
  <2>2. i \in Slots /\ i \notin KidsOf(r, m, x, y)
    BY <1>2, <2>1
  <2>3. Alike(r, m, F)
    BY <2>1, <2>2 DEF KidsOf
  <2>4. b.hops[y][i] = HopAt(r, m, CHOOSE q \in F : TRUE)
    BY <2>1, <2>2
  <2>5. PICK z \in Reached(r, m, x) :
           /\ Covers(z, a) /\ ~ Rebuilt(r, m, z, INDEX(a, z.plen))
           /\ <<z, INDEX(a, z.plen)>> \in F
    BY <1>2, <2>1, EndOnWay
  <2>6. ~ IsKept(r, m, <<z, INDEX(a, z.plen)>>)
        /\ HopAt(r, m, <<z, INDEX(a, z.plen)>>) = b.hops[y][i]
    BY <2>3, <2>4, <2>5 DEF Alike
  <2> QED
    BY <2>5, <2>6, HopOnWay
<1> QED
  BY <1>1, <1>2 DEF Told

-----------------------------------------------------------------------------
\* What linking in says of an address.

\* A block on the path of another is above it.
LEMMA OnPath ==
  ASSUME NEW x \in Prefix, NEW z \in Path(x)
  PROVE  /\ z \in Prefix /\ Above(z, x) /\ Covers(z, x.net)
         /\ z.plen <= x.plen /\ (z.plen = x.plen => z = x)
<1>1. x.net \in Addr /\ x.plen \in 0 .. Width /\ x.plen \in Nat
  BY PrefixType, Lengths
<1>2. PICK l \in 0 .. x.plen : z = PrefixOf(x.net, l)
  BY DEF Path
<1>3. z.plen = l /\ z.net = Mask(x.net, l) /\ l <= x.plen
  BY <1>1, <1>2 DEF PrefixOf
<1>4. z.plen = x.plen => z = x
  BY <1>2, <1>3, StartsItself
<1> QED
  BY <1>3, <1>4, PathType DEF Above, Covers

\* The next hop of a single leaf is said of every address below it.
LEMMA SingleTold ==
  ASSUME NEW m, NEW H, NEW c, NEW x \in Blocks, x \in DOMAIN c.vec, x \in DOMAIN c.hops,
         GoodHops(m, c, H, x), Single(c, x), NEW a \in Addr, Covers(x, a)
  PROVE  HopOf(c, x) \in Told(c, a)
<1> DEFINE z == [k \in 1 .. K |-> 0]
           i == INDEX(a, x.plen)
<1>1. z \in Slots
  BY SlotsAre
<1>2. i \in Slots
  BY BlockType, IndexType
<1>3. c.vec[x] = {} /\ DOMAIN c.hops[x] = Slots /\ Uniform(c.hops[x])
  BY DEF Single, GoodHops, VectorOf
<1>4. HopOf(c, x) = c.hops[x][z]
  BY DEF HopOf
<1> HIDE DEF z, i
<1>5. c.hops[x][z] = c.hops[x][i]
  BY <1>1, <1>2, <1>3 DEF Uniform
<1> QED
  BY <1>2, <1>3, <1>4, <1>5 DEF Told, i

\* An entry of the table says what the block that was built for it does.
LEMMA EntryTold ==
  ASSUME NEW m, NEW H, NEW c, NEW e \in Index, e \in DOMAIN c.vec, e \in DOMAIN c.hops,
         GoodHops(m, c, H, e), NEW b, GoodChange(m, b, H), EntryLinked(b, c, e), NEW a \in Addr
  PROVE  Told(b, a) \subseteq Told(c, a)
<1>1. CASE /\ Single(c, e) /\ DOMAIN b.leaf = {e} /\ b.leaf[e] = HopOf(c, e)
           /\ Remade(b) = {}
  <2>1. DOMAIN b.hops = {}
    BY <1>1 DEF Remade
  <2>2. e \in Blocks
    BY BlocksAre, Lengths
  <2>3. e = PrefixOf(a, S) => HopOf(c, e) \in Told(c, a)
    BY <1>1, <2>2, EntryOf, SingleTold
  <2> QED
    BY <1>1, <2>1, <2>3 DEF Told
<1>2. CASE ~ Single(c, e) /\ b.roots = {e} /\ b.vec = c.vec /\ b.hops = c.hops
  <2>1. DOMAIN b.leaf = {}
    BY <1>2 DEF EntryLinked, GoodChange
  <2> QED
    BY <1>2, <2>1 DEF Told
<1> QED
  BY <1>1, <1>2 DEF EntryLinked

\* What is built stays as it is when it is linked in.
Includes(b, c) ==
  /\ \A z \in DOMAIN c.hops : z \in DOMAIN b.hops /\ b.hops[z] = c.hops[z]
  /\ \A z \in DOMAIN c.vec : z \in DOMAIN b.vec /\ b.vec[z] = c.vec[z]

\* The parent of block x is made anew, if at all, with the slot that leads to x.
Parented(m, b, c, x) ==
  /\ Includes(b, c)
  /\ \A z \in DOMAIN b.hops \ DOMAIN c.hops :
       LET i == INDEX(x.net, z.plen)
           v == NodeAt(m, z).vector \cup {i}
       IN  z = Over(x) /\ b.hops[z] = Hops(m, z, v, i, 0)

\* A block that is not a single leaf is linked in below its parent.
LEMMA LinkParented ==
  ASSUME NEW m, NEW H, HeapOK(m, H), NEW x \in Blocks, x.plen >= S + K, x.plen < Width,
         m.pos[Over(x)] # NULL, NEW c, Part(m, c, H, x), x \in DOMAIN c.vec, x \in DOMAIN c.hops,
         ~ Single(c, x), NEW b, b = Link(m, c, x)
  PROVE  Parented(m, b, c, x)
<1> DEFINE y == Over(x)
           i == INDEX(x.net, x.plen - K)
           v == NodeAt(m, y).vector \cup {i}
           hs == Hops(m, y, v, i, 0)
           d == [c EXCEPT !.vec = With(@, y, v), !.hops = With(@, y, hs)]
<1>1. /\ x.plen # S /\ x.plen >= K /\ x \in Prefix /\ x.plen \in Nat
      /\ y \in Blocks /\ y.plen = x.plen - K
  BY BlockType, OverType, Lengths
<1>2. y \notin Remade(c)
  <2>1. \A z \in Remade(c) : x.plen <= z.plen
    BY DEF Part
  <2>2. ~ x.plen <= y.plen
    BY <1>1, Lengths
  <2> QED
    BY <2>1, <2>2
<1>3. IsChange(c)
  BY DEF Part
<1>4. CASE m.pos[x] = NULL
  <2>1. b = Put(m, d, y)
    BY <1>1, <1>4 DEF Link, Widened
  <2>2. Part(m, d, H, y)
    BY <1>1, <1>4, WidenedPart
  <2>3. d.vec = With(c.vec, y, v) /\ d.hops = With(c.hops, y, hs)
    BY <1>3 DEF IsChange
  <2> HIDE DEF d
  <2>4. b.hops = d.hops
    BY <1>1, <2>1, <2>2, PutGood
  <2>9. /\ DOMAIN d.hops = DOMAIN c.hops \cup {y}
        /\ d.hops[y] = hs /\ \A z \in DOMAIN c.hops : d.hops[z] = c.hops[z]
    <3> HIDE DEF hs, y
    <3> QED
      BY <1>2, <2>3 DEF With, Remade
  <2>5. \A z \in DOMAIN d.vec : z # Over(y) => z \in DOMAIN b.vec /\ b.vec[z] = d.vec[z]
    <3>1. IsChange(d)
      BY <2>2 DEF Part
    <3>2. y.plen = S => b.vec = d.vec
      BY <2>1, <3>1 DEF Put, IsChange
    <3>3. y.plen # S => b.vec = With(d.vec, Over(y), NodeAt(m, Over(y)).vector)
      BY <2>1, <3>1 DEF Put, Store, IsChange
    <3> QED
      BY <3>2, <3>3 DEF With
  <2>6. Includes(b, c)
    <3>1. \A z \in DOMAIN c.vec : z \in DOMAIN d.vec /\ d.vec[z] = c.vec[z]
      BY <1>2, <2>3 DEF With, Remade
    <3>2. \A z \in DOMAIN c.vec : z # Over(y)
      <4>1. \A z \in DOMAIN c.vec : x.plen <= z.plen
        BY DEF Part, Remade
      <4>2. Over(y).plen = x.plen - K - K
        BY <1>1 DEF Over, PrefixOf
      <4>3. ~ x.plen <= Over(y).plen
        BY <1>1, <4>2, Lengths
      <4> QED
        BY <4>1, <4>3
    <3> QED
      BY <2>4, <2>5, <2>9, <3>1, <3>2 DEF Includes
  <2>7. \A z \in DOMAIN b.hops \ DOMAIN c.hops : z = y /\ b.hops[z] = hs
    <3> HIDE DEF hs, y
    <3> QED
      BY <2>4, <2>9
  <2>8. INDEX(x.net, y.plen) = i
    BY <1>1
  <2> QED
    BY <2>6, <2>7, <2>8 DEF Parented
<1>5. CASE m.pos[x] # NULL
  <2>1. b = Store(m, c, y)
    BY <1>5 DEF Link
  <2>2. b.hops = c.hops
    BY <1>1, <1>5, <2>1, StoreGood
  <2>3. b.vec = With(c.vec, y, NodeAt(m, y).vector)
    BY <1>3, <2>1 DEF Store, IsChange
  <2>4. Includes(b, c)
    BY <1>2, <2>2, <2>3 DEF Includes, With, Remade
  <2> QED
    BY <2>2, <2>4 DEF Parented
<1> QED
  BY <1>4, <1>5

\* The last node that is more than one next hop when x is the next hop h.
Widest(m, x, h, y) ==
  y \in Candidates(m, x, h) /\ \A z \in Candidates(m, x, h) : z.plen <= y.plen

\* A single leaf is linked in further up.
LEMMA LinkNarrowed ==
  ASSUME NEW m, NEW H, HeapOK(m, H), NEW x \in Blocks, x.plen >= S + K,
         m.pos[Over(x)] # NULL, NEW c, Part(m, c, H, x), x \in DOMAIN c.vec, x \in DOMAIN c.hops,
         Single(c, x), NEW b, b = Link(m, c, x)
  PROVE  \E y \in Blocks : /\ Widest(m, x, HopOf(c, x), y) /\ Narrowed(m, b, x, y, HopOf(c, x))
                           /\ Compresses(m, c, x, HopOf(c, x), y, b)
<1> DEFINE h == HopOf(c, x)
           y == Deepest(Candidates(m, x, h))
<1>1. x.plen # S /\ x.plen >= K /\ x \in Prefix /\ x.net \in Addr /\ x.plen \in Nat
      /\ Over(x) \in Blocks
  <2>1. x.plen # S /\ x.plen >= K /\ x \in Prefix /\ x.net \in Addr /\ x.plen \in Nat
    BY BlockType, Lengths
  <2> QED
    BY <2>1, OverType
<1>2. h \in H
  BY SingleHop DEF Part
<1>3. m.pos[PrefixOf(x.net, S)] # NULL
  <2>1. x.plen - K \in 0 .. Width /\ S \in 0 .. x.plen - K
    BY <1>1, BlockType, Lengths
  <2>2. PrefixOf(Over(x).net, S) = PrefixOf(x.net, S)
    BY <1>1, <2>1, StartOfStart DEF Over
  <2>3. m.pos[PrefixOf(Over(x).net, S)] # NULL
    BY <1>1, EntryUp
  <2> QED
    BY <2>2, <2>3
<1>4. Widest(m, x, h, y)
  BY <1>1, <1>3, CandidateExists DEF Widest
<1>5. Compresses(m, c, x, h, y, b)
  <2>1. b = Compressed(m, c, x, h)
    BY DEF Link
  <2> QED
    BY <2>1, CompressedIs
<1> HIDE DEF y, h
<1>6. y \in Blocks /\ m.pos[y] # NULL
  BY <1>4 DEF Candidates, Widest
<1>7. Narrowed(m, b, x, y, h)
  BY <1>2, <1>5, <1>6, CompressedGood
<1> QED
  BY <1>4, <1>5, <1>6, <1>7 DEF h

\* An address that has the slot of x in that node, but is not below x, had the next
\* hop h already.
LEMMA NarrowedHop ==
  ASSUME NEW m, NEW H, HeapOK(m, H), NEW x \in Blocks, x.plen >= S + K,
         m.pos[Over(x)] # NULL, NEW h, NEW y, Widest(m, x, h, y),
         NEW a \in Addr, Covers(y, a), INDEX(a, y.plen) = INDEX(x.net, y.plen),
         ~ Covers(x, a)
  PROVE  Lookup(m, a) = h
<1> DEFINE P == {z \in Path(x) \cap Blocks : z # x /\ m.pos[z] # NULL /\ Covers(z, a)}
<1>1. /\ x.plen # S /\ x.plen >= K /\ x \in Prefix /\ x.net \in Addr /\ x.plen \in Nat
      /\ Over(x) \in Blocks /\ Over(x).plen = x.plen - K
  <2>1. x.plen # S /\ x.plen >= K /\ x \in Prefix /\ x.net \in Addr /\ x.plen \in Nat
    BY BlockType, Lengths
  <2> QED
    BY <2>1, OverType
<1>2. y \in P /\ P \subseteq Prefix
  BY BlockType DEF Candidates, Widest
<1>3. PICK z \in P : \A w \in P : w.plen <= z.plen
  <2> HIDE DEF P
  <2> QED
    BY <1>2, LongestExists
<1> DEFINE i == INDEX(x.net, z.plen)
           j == INDEX(a, z.plen)
<1>4. /\ z \in Blocks /\ z \in Prefix /\ z.plen \in Nat /\ z # x /\ m.pos[z] # NULL
      /\ Covers(z, a) /\ z \in Path(x) /\ S <= z.plen
  BY BlockType
<1>5. z.plen < x.plen /\ Covers(z, x.net) /\ Above(z, x)
  <2>1. z.plen <= x.plen /\ z.plen # x.plen /\ Covers(z, x.net) /\ Above(z, x)
    BY <1>1, <1>4, OnPath
  <2> QED
    BY <1>1, <1>4, <2>1
<1>6. z.plen + K <= x.plen
  <2> SUFFICES ASSUME Over(x).plen < z.plen
               PROVE  FALSE
    BY <1>1, <1>4, Lengths
  <2>1. Over(x).plen <= Over(z).plen /\ Over(z).plen = z.plen - K
    BY <1>1, <1>4, NoneBetween
  <2> QED
    BY <1>1, <1>4, <1>5, <2>1, Lengths
<1>7. i \in Slots /\ j \in Slots
  BY <1>1, <1>4, IndexType
<1>8. i # j
  <2> SUFFICES ASSUME i = j
               PROVE  FALSE
    OBVIOUS
  <2> DEFINE k == Kid(z, i)
  <2>1. z.plen + K <= Width
    <3>1. x.plen <= Width
      BY <1>1, PrefixType, Lengths
    <3> QED
      BY <1>1, <1>4, <1>6, <3>1, Lengths
  <2>2. /\ Covers(k, a) /\ Covers(k, x.net) /\ k.plen = z.plen + K /\ k \in Blocks /\ k \in Prefix
        /\ k = PrefixOf(x.net, z.plen + K)
    BY <1>1, <1>4, <1>5, <1>7, <2>1, KidOnWay, KidType
  <2> HIDE DEF k
  <2>3. k # x
    BY <2>2
  <2>4. z.plen + K # x.plen
    BY <1>1, <2>2, <2>3, StartsItself
  <2>5. z.plen < Over(x).plen
    BY <1>1, <1>4, <1>6, <2>4, Lengths
  <2>6. Above(z, Over(x))
    <3>1. Over(x) \in Prefix /\ Above(Over(x), x)
      BY <1>1, OverType
    <3>2. z.plen <= Over(x).plen
      BY <1>1, <1>4, <2>5, Lengths
    <3> QED
      BY <1>1, <1>4, <1>5, <3>1, <3>2, AboveLinear
  <2>7. INDEX(Over(x).net, z.plen) \in NodeAt(m, z).vector
    BY <1>1, <1>4, <2>5, <2>6, LeadsDown
  <2>8. z.plen + K <= x.plen - K
    <3>1. z.plen <= Over(Over(x)).plen /\ Over(Over(x)).plen = Over(x).plen - K
      BY <1>1, <1>4, <2>5, NoneBetween
    <3> QED
      BY <1>1, <1>4, <3>1, Lengths
  <2>9. INDEX(Over(x).net, z.plen) = i
    BY <1>1, <1>4, <2>8, IndexOver
  <2>10. m.pos[k] # NULL
    BY <1>4, <2>7, <2>9, KidThere DEF k
  <2>11. k \in Path(x)
    <3>1. z.plen + K \in 0 .. x.plen
      BY <1>1, <1>4, <1>6, Lengths
    <3> QED
      BY <2>2, <3>1 DEF Path
  <2>12. k \in P
    BY <2>2, <2>3, <2>10, <2>11
  <2>13. z.plen + K <= z.plen
    BY <1>3, <2>2, <2>12
  <2> QED
    BY <1>4, <2>13, Lengths
<1>9. z.plen # y.plen
  BY <1>8
<1>10. z \notin Candidates(m, x, h)
  <2>1. y.plen <= z.plen /\ y.plen \in Nat
    BY <1>2, <1>3, PrefixType, Lengths
  <2>2. ~ z.plen <= y.plen
    BY <1>4, <1>9, <2>1
  <2> QED
    BY <2>2 DEF Widest
<1>11. NodeAt(m, z).vector \ {i} = {} /\ Uniform(Hops(m, z, NodeAt(m, z).vector \ {i}, i, h))
  BY <1>4, <1>10 DEF Candidates
<1>12. j \notin NodeAt(m, z).vector
  BY <1>8, <1>11
<1>13. h = Leaf(m, NodeAt(m, z), j)
  <2> DEFINE hs == Hops(m, z, NodeAt(m, z).vector \ {i}, i, h)
  <2>1. DOMAIN hs = Slots /\ hs[i] = h /\ hs[j] = Leaf(m, NodeAt(m, z), j)
    BY <1>7, <1>8, <1>11 DEF Hops
  <2> HIDE DEF hs
  <2>2. Uniform(hs)
    BY <1>11 DEF hs
  <2> QED
    BY <1>7, <2>1, <2>2 DEF Uniform
<1>14. EndsAt(m, z, a)
  BY <1>4, <1>12 DEF EndsAt, OnTheWay
<1> QED
  BY <1>13, <1>14, LookupIs

\* Below the block that was built linking in says what the block does; elsewhere
\* what was answered before.
LEMMA LinkTold ==
  ASSUME NEW m, NEW H, HeapOK(m, H), NEW x \in Blocks, x.plen >= S + K, x.plen < Width,
         m.pos[Over(x)] # NULL, NEW c, Part(m, c, H, x), x \in DOMAIN c.vec, x \in DOMAIN c.hops,
         NEW b, b = Link(m, c, x), NEW a \in Addr
  PROVE  /\ Told(b, a) \subseteq Told(c, a) \cup {Lookup(m, a)}
         /\ Covers(x, a) => Told(b, a) \subseteq Told(c, a)
<1>1. DOMAIN b.leaf = {}
  BY LinkGood
<1>2. /\ x.plen # S /\ x.plen >= K /\ x \in Prefix /\ x.net \in Addr /\ x.plen \in Nat
      /\ Over(x) \in Blocks /\ Over(x) \in Prefix /\ Over(x).plen = x.plen - K /\ Above(Over(x), x)
  <2>1. x.plen # S /\ x.plen >= K /\ x \in Prefix /\ x.net \in Addr /\ x.plen \in Nat
    BY BlockType, Lengths
  <2> QED
    BY <2>1, OverType, BlockType
<1> DEFINE Says(h) == h \in Told(c, a) \/ (h = Lookup(m, a) /\ ~ Covers(x, a))
<1>3. ASSUME NEW z \in DOMAIN b.hops, Covers(z, a), INDEX(a, z.plen) \in DOMAIN b.hops[z]
      PROVE  Says(b.hops[z][INDEX(a, z.plen)])
  <2> DEFINE j == INDEX(a, z.plen)
             i == INDEX(x.net, z.plen)
  <2>1. CASE ~ Single(c, x)
    <3>1. Parented(m, b, c, x)
      BY <2>1, LinkParented
    <3>2. CASE z \in DOMAIN c.hops
      <4>1. b.hops[z] = c.hops[z]
        BY <3>1, <3>2 DEF Parented, Includes
      <4> QED
        BY <1>3, <3>2, <4>1 DEF Told
    <3>3. CASE z \notin DOMAIN c.hops
      <4> DEFINE v == NodeAt(m, z).vector \cup {i}
      <4>1. z = Over(x) /\ b.hops[z] = Hops(m, z, v, i, 0)
        BY <3>1, <3>3 DEF Parented
      <4>2. j \in Slots \ v
        BY <1>3, <4>1 DEF Hops
      <4>3. b.hops[z][j] = Leaf(m, NodeAt(m, z), j)
        BY <4>1, <4>2 DEF Hops
      <4>4. EndsAt(m, z, a)
        BY <1>2, <1>3, <4>1, <4>2 DEF EndsAt, OnTheWay
      <4>5. ~ Covers(x, a)
        <5>1. z.plen \in Nat /\ z.plen + K <= x.plen
          BY <1>2, <4>1, BlockType, Lengths
        <5>2. Covers(x, a) => i = j
          BY <1>2, <5>1, IndexOn
        <5> QED
          BY <4>2, <5>2
      <4> QED
        BY <4>3, <4>4, <4>5, LookupIs
    <3> QED
      BY <3>2, <3>3
  <2>2. CASE Single(c, x)
    <3> DEFINE h == HopOf(c, x)
    <3>1. PICK y \in Blocks : Widest(m, x, h, y) /\ Narrowed(m, b, x, y, h)
      BY <2>2, LinkNarrowed
    <3>2. /\ z = y
          /\ b.hops[z] = Hops(m, z, NodeAt(m, z).vector \ {i}, i, h)
      BY <1>3, <3>1 DEF Narrowed, Remade
    <3>3. m.pos[z] # NULL /\ z \in Blocks
      BY <3>1, <3>2 DEF Widest, Candidates
    <3>4. j \in Slots \ (NodeAt(m, z).vector \ {i})
      BY <1>3, <3>2 DEF Hops
    <3>5. Covers(x, a) => h \in Told(c, a)
      BY <2>2, SingleTold DEF Part
    <3>6. b.hops[z][j] = IF j = i THEN h ELSE Leaf(m, NodeAt(m, z), j)
      BY <3>2, <3>4 DEF Hops
    <3> HIDE DEF h
    <3>7. CASE j = i
      <4>1. ~ Covers(x, a) => Lookup(m, a) = h
        BY <1>2, <1>3, <3>1, <3>2, <3>7, NarrowedHop
      <4> QED
        BY <3>5, <3>6, <3>7, <4>1
    <3>8. CASE j # i
      <4>1. EndsAt(m, z, a)
        BY <1>3, <3>3, <3>4, <3>8 DEF EndsAt, OnTheWay
      <4>2. Lookup(m, a) = Leaf(m, NodeAt(m, z), j)
        BY <4>1, LookupIs
      <4>3. ~ Covers(x, a)
        <5> SUFFICES ASSUME Covers(x, a)
                     PROVE  FALSE
          OBVIOUS
        <5>1. z \in Path(x) /\ z # x
          BY <3>1, <3>2 DEF Widest, Candidates
        <5>2. z.plen < x.plen /\ z.plen \in Nat
          <6>1. z.plen <= x.plen /\ z.plen # x.plen /\ z.plen \in Nat
            BY <1>2, <3>3, <5>1, OnPath, BlockType
          <6> QED
            BY <1>2, <6>1
        <5>3. z.plen + K <= x.plen
          <6> SUFFICES ASSUME Over(x).plen < z.plen
                       PROVE  FALSE
            BY <1>2, <5>2, Lengths
          <6>1. Over(x).plen <= Over(z).plen /\ Over(z).plen = z.plen - K
            BY <1>2, <3>3, NoneBetween
          <6> QED
            BY <1>2, <5>2, <6>1, Lengths
        <5>4. i = j
          BY <1>2, <5>2, <5>3, IndexOn
        <5> QED
          BY <3>8, <5>4
      <4> QED
        BY <3>6, <3>8, <4>2, <4>3
    <3> QED
      BY <3>7, <3>8
  <2> QED
    BY <2>1, <2>2
<1>4. \A h \in Told(b, a) : Says(h)
  <2> HIDE DEF Says
  <2> QED
    BY <1>1, <1>3 DEF Told
<1> QED
  BY <1>4

-----------------------------------------------------------------------------
\* What an update says of an address, when the callers pass the prefix itself.

\* An outcome says what the change does, or nothing.
LEMMA OutcomeTold ==
  ASSUME NEW m, NEW H, NEW b, GoodChange(m, b, H), NEW faults, NEW o, o = Outcome(b, faults),
         NEW a
  PROVE  Told(o.change, a) \subseteq Told(b, a)
<1>1. o.change = b \/ o.change = NoChange
  BY OutcomeGood
<1>2. DOMAIN NoChange.leaf = {} /\ DOMAIN NoChange.hops = {}
  BY DEF NoChange
<1>3. Told(NoChange, a) = {}
  BY <1>2 DEF Told
<1> QED
  BY <1>1, <1>3

\* The block of an index, for its own entry.
LEMMA EntryBlockTold ==
  ASSUME NEW m, NEW H, HeapOK(m, H), NEW r, RibOK(r, H), NEW e \in Index, e \in r.nodes,
         NEW b, b = EntryBlock(r, m, e, e), NEW a \in Addr
  PROVE  Told(b, a) \subseteq Answers(r, m, e, a)
<1> DEFINE c == Inode(r, m, e)
<1>1. e \in Blocks
  BY BlocksAre, Lengths
<1>2. b = LinkEntry(c, e)
  BY DEF EntryBlock
<1>3. Part(m, c, H, e) /\ e \in DOMAIN c.vec /\ e \in DOMAIN c.hops
  BY <1>1, InodePart
<1>4. Told(c, a) \subseteq Answers(r, m, e, a)
  BY <1>1, InodeTold
<1> HIDE DEF c
<1>5. GoodChange(m, b, H) /\ EntryLinked(b, c, e)
  BY <1>2, <1>3, LinkEntryGood
<1>6. GoodHops(m, c, H, e)
  BY <1>3 DEF Part
<1>7. Told(b, a) \subseteq Told(c, a)
  BY <1>3, <1>5, <1>6, EntryTold
<1> QED
  BY <1>4, <1>7

\* The update of a long prefix.
LEMMA DeepTold ==
  ASSUME NEW m, NEW H, HeapOK(m, H), NEW r, RibOK(r, H), NEW p \in r.nodes, p.plen >= S,
         NEW faults, NEW o, o = Deep(r, m, p, faults), NEW x, x = Descended_To(m, p),
         NEW a \in Addr
  PROVE  /\ Told(o.change, a) \subseteq {Latest(r, a), Lookup(m, a)}
         /\ Covers(x, a) => Told(o.change, a) \subseteq Answers(r, m, x, a)
<1> DEFINE c == Inode(r, m, x)
           b == IF x.plen = S THEN EntryBlock(r, m, x, x) ELSE Link(m, c, x)
<1>1. p \in Prefix /\ Path(p) \cap Blocks \subseteq r.nodes
  BY DEF RibOK
<1>2. x \in Descents(m, p) /\ x \in Blocks /\ Above(x, p)
  BY <1>1, DescendedSpec
<1>3. x \in r.nodes
  BY <1>1, <1>2 DEF Descents
<1>4. o = Outcome(b, faults)
  BY DEF Deep
<1>5. Part(m, c, H, x) /\ x \in DOMAIN c.vec /\ x \in DOMAIN c.hops
  BY <1>2, <1>3, InodePart
<1>6. Told(c, a) \subseteq Answers(r, m, x, a)
  BY <1>2, InodeTold
<1>7. Answers(r, m, x, a) \subseteq {Latest(r, a), Lookup(m, a)}
  BY DEF Answers
<1>8. /\ GoodChange(m, b, H)
      /\ Told(b, a) \subseteq {Latest(r, a), Lookup(m, a)}
      /\ Covers(x, a) => Told(b, a) \subseteq Answers(r, m, x, a)
  <2>1. CASE x.plen = S
    <3>1. x \in Index
      BY <1>2, <2>1, BlockType
    <3>2. b = EntryBlock(r, m, x, x) /\ b = LinkEntry(c, x)
      BY <2>1 DEF EntryBlock
    <3> HIDE DEF b, c
    <3>3. GoodChange(m, b, H)
      BY <1>5, <3>1, <3>2, LinkEntryGood
    <3>4. Told(b, a) \subseteq Answers(r, m, x, a)
      BY <1>3, <3>1, <3>2, EntryBlockTold
    <3> QED
      BY <1>7, <3>3, <3>4
  <2>2. CASE x.plen # S
    <3>1. S + K <= x.plen /\ x.plen < p.plen /\ m.pos[Over(x)] # NULL
      BY <1>2, <2>2 DEF Descents
    <3>2. x.plen >= S + K /\ x.plen < Width
      <4>1. x.plen \in Nat /\ p.plen \in 0 .. Width
        BY <1>1, <1>2, BlockType, PrefixType
      <4> QED
        BY <3>1, <4>1, Lengths
    <3>3. b = Link(m, c, x)
      BY <2>2
    <3> HIDE DEF b, c
    <3>4. GoodChange(m, b, H)
      BY <1>2, <1>5, <3>1, <3>2, <3>3, LinkGood
    <3>5. /\ Told(b, a) \subseteq Told(c, a) \cup {Lookup(m, a)}
          /\ Covers(x, a) => Told(b, a) \subseteq Told(c, a)
      BY <1>2, <1>5, <3>1, <3>2, <3>3, LinkTold
    <3> QED
      BY <1>6, <1>7, <3>4, <3>5
  <2> QED
    BY <2>1, <2>2
<1> HIDE DEF b
<1>9. Told(o.change, a) \subseteq Told(b, a)
  BY <1>4, <1>8, OutcomeTold
<1> QED
  BY <1>8, <1>9

\* The entry that is written for an index is its own.
LEMMA WrittenIs ==
  ASSUME NEW p \in Prefix, NEW z \in Index, Above(p, z), NEW l \in p.plen .. S
  PROVE  Written(Turn, p, p.net, z, l) = z
<1> DEFINE right == UNION {Turn[d] : d \in {c \in p.plen .. l - 1 : z.net[c + 1] = 1}}
           net == [k \in 1 .. Width |->
                     IF k <= l THEN (IF k \in right THEN 1 ELSE p.net[k]) ELSE z.net[k]]
<1>1. /\ z \in Prefix /\ z.plen = S /\ z.net \in Addr /\ p.net \in Addr
      /\ p.plen \in 0 .. Width /\ p.plen \in Nat /\ l \in Nat /\ l <= S /\ p.plen <= l /\ S <= Width
  BY BlocksAre, PrefixType, Lengths
<1>2. p.net = Mask(z.net, p.plen)
  BY DEF Above
<1>3. ASSUME NEW k \in 1 .. Width, k <= l
      PROVE  k \in right <=> p.plen < k /\ z.net[k] = 1
  <2>1. ASSUME k \in right
        PROVE  p.plen < k /\ z.net[k] = 1
    <3>1. PICK c \in p.plen .. l - 1 : z.net[c + 1] = 1 /\ k \in Turn[c]
      BY <2>1
    <3>2. c \in 0 .. Width - 1
      BY <1>1, Lengths
    <3>3. k = c + 1
      BY <3>1, <3>2 DEF Turn
    <3> QED
      BY <1>1, <3>1, <3>3, Lengths
  <2>2. ASSUME p.plen < k, z.net[k] = 1
        PROVE  k \in right
    <3>1. k - 1 \in p.plen .. l - 1 /\ (k - 1) + 1 = k /\ k - 1 \in 0 .. Width - 1
      BY <1>1, <1>3, <2>2, Lengths
    <3>2. k \in Turn[k - 1]
      BY <3>1 DEF Turn
    <3>3. k - 1 \in {c \in p.plen .. l - 1 : z.net[c + 1] = 1}
      BY <2>2, <3>1
    <3> QED
      BY <3>2, <3>3
  <2> QED
    BY <2>1, <2>2
<1> HIDE DEF right
<1>4. ASSUME NEW k \in 1 .. Width
      PROVE  net[k] = z.net[k]
  <2>1. z.net[k] \in {0, 1} /\ p.net[k] = IF k <= p.plen THEN z.net[k] ELSE 0
    BY <1>1, <1>2 DEF Addr, Mask
  <2>2. CASE k <= l /\ k \in right
    BY <1>3, <2>2
  <2>3. CASE k <= l /\ k \notin right
    <3>1. p.plen < k => z.net[k] = 0
      BY <1>3, <2>1, <2>3
    <3>2. p.net[k] = z.net[k]
      BY <1>1, <2>1, <3>1
    <3> QED
      BY <2>3, <3>2
  <2>4. CASE ~ k <= l
    BY <2>4
  <2> QED
    BY <2>2, <2>3, <2>4
<1>5. net = z.net
  BY <1>1, <1>4 DEF Addr
<1>6. Written(Turn, p, p.net, z, l) = PrefixOf(net, S)
  BY DEF Written, right
<1> HIDE DEF net
<1> QED
  BY <1>1, <1>5, <1>6, StartsItself

\* Where there is no node for an index, the last one towards it is the last one for
\* every address below.
LEMMA LastLatest ==
  ASSUME NEW r, NEW H, RibOK(r, H), NEW z \in Index, NEW n, n = Deepest(Path(z) \cap r.nodes),
         z \notin r.nodes, NEW a \in Addr, Covers(z, a)
  PROVE  r.nh[n] = Latest(r, a)
<1>1. z \in Blocks /\ z \in Prefix /\ z.plen = S /\ S \in 0 .. Width /\ z.net \in Addr
  BY BlocksAre, Lengths, PrefixType
<1>2. \A y \in Path(z) \cap r.nodes : Covers(y, a)
  BY <1>1, OnPath, AboveCovers
<1>3. ASSUME NEW y \in r.nodes, Covers(y, a)
      PROVE  y \in Path(z)
  <2>1. y \in Prefix /\ y.plen \in 0 .. Width /\ y.plen \in Nat
    BY PrefixType, Lengths DEF RibOK
  <2>2. CASE y.plen <= S
    <3>1. y.plen \in 0 .. S
      BY <2>1, <2>2, Lengths
    <3>2. y = PrefixOf(a, y.plen) /\ PrefixOf(z.net, y.plen) = PrefixOf(a, y.plen)
      BY <1>1, <1>3, <2>1, <3>1, CoverIsStart
    <3> QED
      BY <1>1, <3>1, <3>2 DEF Path
  <2>3. CASE ~ y.plen <= S
    <3>1. S \in 0 .. y.plen /\ z.plen <= y.plen
      BY <1>1, <2>1, <2>3, Lengths
    <3>2. PrefixOf(y.net, S) = PrefixOf(a, S) /\ z = PrefixOf(a, S)
      BY <1>1, <1>3, <2>1, <3>1, CoverIsStart
    <3>3. z \in Path(y)
      BY <3>1, <3>2 DEF Path
    <3> QED
      BY <1>1, <3>3 DEF RibOK
  <2> QED
    BY <2>2, <2>3
<1>4. Path(z) \cap r.nodes = {y \in r.nodes : Covers(y, a)}
  BY <1>2, <1>3
<1> QED
  BY <1>4 DEF Latest

\* What is written for an index, by a caller who passes the prefix itself.
OwnWrite(r, m, z, t) ==
  /\ t.index = z /\ t.entry = z
  /\ \/ z \in r.nodes /\ t.change = EntryBlock(r, m, z, z)
     \/ /\ z \notin r.nodes
        /\ t.change = [NoChange EXCEPT !.leaf = With(@, z, r.nh[Deepest(Path(z) \cap r.nodes)])]

LEMMA WriteIsOwn ==
  ASSUME NEW r, NEW H, RibOK(r, H), NEW m, NEW p \in r.nodes, NEW z \in Index, Above(p, z),
         NEW t, t = WriteFor(Turn, r, m, p, p.net, z)
  PROVE  OwnWrite(r, m, z, t)
<1> DEFINE n == Deepest(Path(z) \cap r.nodes)
           e == Written(Turn, p, p.net, z, n.plen)
<1>1. /\ n \in r.nodes /\ n \in Path(z) /\ n.plen \in p.plen .. S
      /\ n.plen = S => n = z
      /\ \A y \in Path(z) \cap r.nodes : y.plen <= n.plen
  BY LastNode
<1>2. z \in Prefix /\ z.plen = S /\ z \in Path(z) /\ p \in Prefix
  BY BlocksAre, PathType DEF RibOK
<1>3. t.index = z /\ t.entry = e
      /\ t.change = IF n.plen = S THEN EntryBlock(r, m, z, e)
                    ELSE [NoChange EXCEPT !.leaf = With(@, e, r.nh[n])]
  BY DEF WriteFor
<1> HIDE DEF n
<1>4. e = z
  BY <1>1, <1>2, WrittenIs
<1> HIDE DEF e
<1>5. n.plen = S <=> z \in r.nodes
  <2>1. z \in r.nodes => z.plen <= n.plen
    BY <1>1, <1>2
  <2>2. p.plen \in 0 .. Width
    BY <1>2, PrefixType
  <2>3. z \in r.nodes => n.plen = S
    BY <1>1, <1>2, <2>1, <2>2, Lengths
  <2> QED
    BY <1>1, <2>3
<1> QED
  BY <1>3, <1>4, <1>5 DEF OwnWrite, n

LEMMA WriteTold ==
  ASSUME NEW m, NEW H, HeapOK(m, H), NEW r, RibOK(r, H), NEW z \in Index,
         NEW t, OwnWrite(r, m, z, t), NEW a \in Addr
  PROVE  Told(t.change, a) \subseteq Answers(r, m, z, a)
<1>1. CASE z \in r.nodes /\ t.change = EntryBlock(r, m, z, z)
  BY <1>1, EntryBlockTold
<1>2. CASE /\ z \notin r.nodes
           /\ t.change = [NoChange EXCEPT !.leaf = With(@, z, r.nh[Deepest(Path(z) \cap r.nodes)])]
  <2> DEFINE b == t.change
             h == r.nh[Deepest(Path(z) \cap r.nodes)]
  <2>1. DOMAIN b.leaf = {z} /\ b.leaf[z] = h /\ DOMAIN b.hops = {}
    <3> HIDE DEF h
    <3> QED
      BY <1>2 DEF NoChange, With, h
  <2>2. Covers(z, a) => h = Latest(r, a)
    BY <1>2, LastLatest
  <2>3. z = PrefixOf(a, S) => Covers(z, a)
    BY EntryOf
  <2> HIDE DEF h
  <2>4. Told(b, a) \subseteq {Latest(r, a)}
    BY <2>1, <2>2, <2>3 DEF Told
  <2> QED
    BY <2>4 DEF Answers
<1> QED
  BY <1>1, <1>2 DEF OwnWrite

\* A write says nothing of an address that is not below its entry.
LEMMA WriteSilent ==
  ASSUME NEW m, NEW H, NEW t, IsWrite(m, H, t), NEW a \in Addr, ~ Covers(t.entry, a)
  PROVE  Told(t.change, a) = {}
<1> DEFINE b == t.change
<1>1. /\ t.entry \in Index /\ GoodChange(m, b, H) /\ DOMAIN b.leaf \cup b.roots = {t.entry}
      /\ \A y \in Remade(b) : Above(t.entry, y)
  BY DEF IsWrite
<1>2. PrefixOf(a, S) \notin DOMAIN b.leaf
  BY <1>1, EntryOf
<1>3. \A y \in DOMAIN b.hops : ~ Covers(y, a)
  <2> SUFFICES ASSUME NEW y \in DOMAIN b.hops, Covers(y, a)
               PROVE  FALSE
    OBVIOUS
  <2>1. y \in Remade(b) /\ y \in Blocks
    BY <1>1 DEF Remade, GoodChange
  <2>2. y \in Prefix /\ t.entry \in Prefix
    BY <1>1, <2>1, BlocksAre
  <2> QED
    BY <1>1, <2>1, <2>2, AboveCovers
<1> QED
  BY <1>2, <1>3 DEF Told

\* The update of a short prefix.
LEMMA DirectTold ==
  ASSUME NEW m, NEW H, HeapOK(m, H), NEW r, RibOK(r, H), NEW p \in r.nodes,
         NEW faults, NEW o, o = Direct(r, m, p, p.net, Turn, faults), NEW a \in Addr
  PROVE  Told(o.change, a) \subseteq Answers(r, m, PrefixOf(a, S), a)
<1> DEFINE e == PrefixOf(a, S)
           b == o.change
<1>1. p.net \in Addr /\ Covers(p, p.net)
  BY PrefixType DEF RibOK, Covers
<1>2. PICK ts : Stays(ts, Turn, r, m, p, p.net, H) /\ IsUnion(b, ts)
  BY <1>1, DirectUnion, TurnAhead
<1>3. /\ ts \subseteq TriedFor(Turn, r, m, p, p.net) /\ OnePerEntry(ts)
      /\ \A t \in ts : IsWrite(m, H, t) /\ Above(p, t.entry)
  BY <1>2 DEF Stays
<1>4. SaysWhat(b, ts)
  BY <1>2, <1>3, UnionOf
<1>5. ASSUME NEW t \in ts
      PROVE  Told(t.change, a) \subseteq Answers(r, m, e, a)
  <2>1. PICK z \in Index : Above(p, z) /\ t = WriteFor(Turn, r, m, p, p.net, z)
    BY <1>3 DEF TriedFor
  <2>2. OwnWrite(r, m, z, t)
    BY <2>1, WriteIsOwn
  <2>3. t.entry = z
    BY <2>2 DEF OwnWrite
  <2>4. CASE Covers(z, a)
    <3>1. z = e
      <4>1. z \in Prefix /\ z.plen = S
        BY BlocksAre
      <4> QED
        BY <2>4, <4>1, CoverIsStart
    <3> QED
      BY <2>2, <3>1, WriteTold
  <2>5. CASE ~ Covers(z, a)
    BY <1>3, <2>3, <2>5, WriteSilent
  <2> QED
    BY <2>4, <2>5
<1>6. \A h \in Told(b, a) : \E t \in ts : h \in Told(t.change, a)
  <2>1. ASSUME e \in DOMAIN b.leaf
        PROVE  \E t \in ts : b.leaf[e] \in Told(t.change, a)
    <3>1. PICK t \in ts : e \in DOMAIN t.change.leaf
      BY <1>4, <2>1 DEF SaysWhat
    <3>2. b.leaf[e] = t.change.leaf[e]
      BY <1>4, <3>1 DEF SaysWhat, PartOf
    <3> QED
      BY <3>1, <3>2 DEF Told
  <2>2. ASSUME NEW y \in DOMAIN b.hops, Covers(y, a), INDEX(a, y.plen) \in DOMAIN b.hops[y]
        PROVE  \E t \in ts : b.hops[y][INDEX(a, y.plen)] \in Told(t.change, a)
    <3>1. PICK t \in ts : y \in DOMAIN t.change.hops
      BY <1>4 DEF SaysWhat
    <3>2. b.hops[y] = t.change.hops[y]
      BY <1>4, <3>1 DEF SaysWhat, PartOf
    <3> QED
      BY <2>2, <3>1, <3>2 DEF Told
  <2> HIDE DEF b
  <2> QED
    BY <2>1, <2>2 DEF Told
<1> QED
  BY <1>5, <1>6

-----------------------------------------------------------------------------
\* What is answered after an operation.

\* The update of the trie, as one step.
LEMMA UpdateIs ==
  ASSUME NEW p, NEW marks, UpdateTrie(Turn, p, marks)
  PROVE  \E addr \in Given(p), faults \in Failing :
           \E o : /\ o = Subtree(Tree(marks), Trie, p, addr, Turn, faults)
                  /\ Install(Trie, o, p, marks)
<1>1. PICK addr \in Given(p), faults \in Failing, r \in {Tree(marks)}, m \in {Trie} :
        \E o \in {Subtree(r, m, p, addr, Turn, faults)} : Install(m, o, p, r.marked)
  BY DEF UpdateTrie
<1>2. Tree(marks).marked = marks
  BY DEF Tree
<1> QED
  BY <1>1, <1>2

\* What the tree has for an address is what it looks up.
LEMMA LastAnswers ==
  IInv /\ PathsClosed /\ nodes # {} =>
    \A a \in Addr : LET x == Deepest({y \in nodes : Covers(y, a)})
                    IN  x \in nodes /\ EXT_NH(x) = rib_lookup(a)
<1> SUFFICES ASSUME IInv, PathsClosed, nodes # {}, NEW a \in Addr,
                    NEW x, x = Deepest({y \in nodes : Covers(y, a)})
             PROVE  x \in nodes /\ EXT_NH(x) = rib_lookup(a)
  OBVIOUS
<1> DEFINE V == {y \in nodes : Covers(y, a)}
<1>1. nodes \subseteq Prefix
  BY DEF IInv, TypeOK
<1>2. Visited(a) = V
  <2>1. ASSUME NEW y \in V, NEW l \in 0 .. y.plen
        PROVE  PrefixOf(a, l) \in nodes
    <3>1. y \in Prefix /\ PrefixOf(y.net, l) = PrefixOf(a, l)
      BY <1>1, CoverIsStart
    <3>2. PrefixOf(y.net, l) \in Path(y)
      BY DEF Path
    <3> QED
      BY <3>1, <3>2 DEF PathsClosed
  <2> QED
    BY <2>1 DEF Visited
<1>3. V # {}
  <2>1. PICK y \in nodes : TRUE
    OBVIOUS
  <2>2. y \in Prefix /\ y.net \in Addr /\ y.plen \in Nat
    BY <1>1, PrefixType, Lengths
  <2>3. PrefixOf(y.net, 0) \in nodes
    <3>1. 0 \in 0 .. y.plen
      BY <2>2
    <3> QED
      BY <2>1, <3>1 DEF PathsClosed, Path
  <2>4. Covers(PrefixOf(y.net, 0), a)
    <3>1. Mask(y.net, 0) = [i \in 1 .. Width |-> 0] /\ Mask(a, 0) = [i \in 1 .. Width |-> 0]
      BY Lengths DEF Mask
    <3> QED
      BY <3>1 DEF Covers, PrefixOf
  <2> QED
    BY <2>3, <2>4
<1>4. PICK y \in V : \A z \in V : z.plen <= y.plen
  <2> HIDE DEF V
  <2>1. V \subseteq Prefix
    BY <1>1 DEF V
  <2> QED
    BY <1>3, <2>1, LongestExists
<1>5. x = CHOOSE z \in V : \A w \in V : w.plen <= z.plen
  BY DEF Deepest
<1> HIDE DEF V
<1>6. x \in V
  BY <1>4, <1>5
<1>7. ext_lookup(a) = EXT_NH(x)
  BY <1>2, <1>3, <1>5 DEF ext_lookup
<1>8. ext_lookup(a) = rib_lookup(a)
  BY LookupsMatch
<1> QED
  BY <1>6, <1>7, <1>8 DEF V

LEMMA LastAnswersNext ==
  (IInv /\ PathsClosed /\ nodes # {} =>
     \A a \in Addr : LET x == Deepest({y \in nodes : Covers(y, a)})
                     IN  x \in nodes /\ EXT_NH(x) = rib_lookup(a))'
BY LastAnswers, PTL

LEMMA LatestIs ==
  ASSUME IInv', PathsClosed', NEW marks, NEW r, r = Tree(marks), NEW p \in nodes',
         NEW a \in Addr
  PROVE  Latest(r, a) = rib_lookup(a)'
<1> DEFINE x == Deepest({y \in nodes' : Covers(y, a)})
<1>1. r.nodes = nodes' /\ r.nh = [y \in nodes' |-> EXT_NH(y)']
  BY DEF Tree
<1>2. x \in nodes' /\ (IF ext'[x] = NULL THEN 0 ELSE route'[ext'[x]]) = rib_lookup(a)'
  BY LastAnswersNext DEF EXT_NH
<1>3. Latest(r, a) = r.nh[x]
  BY <1>1 DEF Latest
<1> HIDE DEF x
<1>4. r.nh[x] = IF ext'[x] = NULL THEN 0 ELSE route'[ext'[x]]
  BY <1>1, <1>2 DEF EXT_NH
<1> QED
  BY <1>2, <1>3, <1>4

\* The heap after an update is what the outcome makes of it.
Installed(f, m, b, p) ==
  \E n, garbage : /\ n = Linked(m, b) /\ garbage = Garbage(m, n, b, p)
                  /\ f = Heap(n.dir, Freed(n, garbage).nodes, Freed(n, garbage).leaves)

LEMMA InstallIs ==
  ASSUME NEW o, NEW p, NEW marks, Install(Trie, o, p, marks)
  PROVE  /\ Installed(Trie', Trie, o.change, p) /\ lost' = (lost \/ o.short)
         /\ leaked' = leaked \cup o.dropped
<1> DEFINE b == o.change
<1>1. PICK n \in {Linked(Trie, b)} :
        \E garbage \in {Garbage(Trie, n, b, p)} :
          /\ dir' = n.dir
          /\ cnodes' = Freed(n, garbage).nodes
          /\ cleaves' = Freed(n, garbage).leaves
          /\ leaked' = leaked \cup o.dropped
          /\ lost' = (lost \/ o.short)
  BY DEF Install
<1>2. PICK garbage \in {Garbage(Trie, n, b, p)} :
        /\ dir' = n.dir
        /\ cnodes' = Freed(n, garbage).nodes
        /\ cleaves' = Freed(n, garbage).leaves
        /\ leaked' = leaked \cup o.dropped
        /\ lost' = (lost \/ o.short)
  BY <1>1
<1>3. Trie' = Heap(n.dir, Freed(n, garbage).nodes, Freed(n, garbage).leaves)
  BY <1>2 DEF Trie
<1> QED
  BY <1>2, <1>3 DEF Installed

\* An update says of an address what the tree has for it, if anything new.
LEMMA SubtreeTold ==
  ASSUME NEW m, NEW H, HeapOK(m, H), NEW r, RibOK(r, H), NEW p \in r.nodes, NEW faults,
         NEW o, o = Subtree(r, m, p, p.net, Turn, faults), NEW a \in Addr
  PROVE  /\ GoodChange(m, o.change, H)
         /\ \A e \in DOMAIN o.change.leaf \cup o.change.roots : Above(p, e) \/ Above(e, p)
         /\ Told(o.change, a) \subseteq {Latest(r, a), Lookup(m, a)}
<1>1. p \in Prefix /\ p.plen \in Nat /\ p.net \in Addr /\ Covers(p, p.net)
  <2>1. p \in Prefix
    BY DEF RibOK
  <2> QED
    BY <2>1, PrefixType, Lengths DEF Covers
<1>2. CASE p.plen < S
  <2>1. o = Direct(r, m, p, p.net, Turn, faults)
    BY <1>2 DEF Subtree
  <2>2. /\ GoodChange(m, o.change, H)
        /\ \A e \in DOMAIN o.change.leaf \cup o.change.roots : Above(p, e)
    BY <1>1, <2>1, DirectGood, TurnAhead
  <2>3. Told(o.change, a) \subseteq Answers(r, m, PrefixOf(a, S), a)
    BY <2>1, DirectTold
  <2> QED
    BY <2>2, <2>3 DEF Answers
<1>3. CASE ~ p.plen < S
  <2>1. o = Deep(r, m, p, faults) /\ p.plen >= S
    BY <1>1, <1>3, Lengths DEF Subtree
  <2>2. /\ GoodChange(m, o.change, H)
        /\ \A e \in DOMAIN o.change.leaf \cup o.change.roots : Above(e, p)
    BY <2>1, DeepGood
  <2>3. Told(o.change, a) \subseteq {Latest(r, a), Lookup(m, a)}
    BY <2>1, DeepTold
  <2> QED
    BY <2>2, <2>3
<1> QED
  BY <1>2, <1>3

\* An update answers for an address as the tree does now, or as it was.
LEMMA UpdateAnswers ==
  ASSUME ~ HostBits, TrieOK, Hop \subseteq Hop', IInv', PathsClosed', NEW p \in nodes',
         NEW marks, marks \subseteq nodes', UpdateTrie(Turn, p, marks), NEW a \in Addr
  PROVE  poptrie_lookup(a)' \in {poptrie_lookup(a), rib_lookup(a)'}
<1>1. PICK addr \in Given(p), faults \in Failing :
        \E o : /\ o = Subtree(Tree(marks), Trie, p, addr, Turn, faults)
               /\ Install(Trie, o, p, marks)
  BY UpdateIs
<1>2. addr = p.net
  BY DEF Given
<1>3. PICK o : /\ o = Subtree(Tree(marks), Trie, p, p.net, Turn, faults)
               /\ Install(Trie, o, p, marks)
  BY <1>1, <1>2
<1>4. PICK r, m, f, b : r = Tree(marks) /\ m = Trie /\ f = Trie' /\ b = o.change
  OBVIOUS
<1>5. RibOK(r, Hop') /\ p \in r.nodes
  BY <1>4, RibNow
<1>6. HeapOK(m, Hop')
  BY <1>4, MoreHops DEF TrieOK
<1>7. Latest(r, a) = rib_lookup(a)'
  BY <1>4, LatestIs
<1>8. o = Subtree(r, m, p, p.net, Turn, faults)
  BY <1>3, <1>4
<1>9. /\ GoodChange(m, b, Hop')
      /\ \A e \in DOMAIN b.leaf \cup b.roots : Above(p, e) \/ Above(e, p)
      /\ Told(b, a) \subseteq {Latest(r, a), Lookup(m, a)}
  <2>1. /\ GoodChange(m, b, Hop')
        /\ \A e \in DOMAIN b.leaf \cup b.roots : Above(p, e) \/ Above(e, p)
    BY <1>4, <1>5, <1>6, <1>8, SubtreeTold
  <2>2. Told(o.change, a) \subseteq {Latest(r, a), Lookup(m, a)}
    BY <1>5, <1>6, <1>8, SubtreeTold
  <2>3. Told(b, a) = Told(o.change, a)
    BY <1>4
  <2> QED
    BY <2>1, <2>2, <2>3
<1>10. Installed(f, m, b, p)
  BY <1>3, <1>4, InstallIs
<1>11. Lookup(f, a) \in Told(b, a) \/ Lookup(f, a) = Lookup(m, a)
  BY <1>6, <1>9, <1>10, ChangedAnswer DEF Installed
<1> QED
  BY <1>4, <1>7, <1>9, <1>11 DEF poptrie_lookup

LEMMA AnswersStep ==
  ASSUME ~ HostBits, TInv, [TrieNext]_allVars, NEW a \in Addr
  PROVE  poptrie_lookup(a)' \in {poptrie_lookup(a), rib_lookup(a)'}
<1>1. IInv /\ PathsClosed /\ TrieOK /\ TypeOK /\ mark \subseteq nodes
  BY DEF TInv, IInv, TrieOK
<1>2. IInv' /\ PathsClosed'
  BY <1>1, RibStep, TrieNextBy
<1>3. /\ nodes \subseteq nodes' /\ Hop \subseteq Hop'
      /\ \/ UNCHANGED <<mark, trie>>
         \/ \E p \in nodes', marks \in SUBSET nodes' : UpdateTrie(Turn, p, marks)
  BY <1>1, UpdateOrNot, TrieNextBy
<1>4. CASE UNCHANGED <<mark, trie>>
  BY <1>4 DEF poptrie_lookup, Trie, trie
<1>5. CASE \E p \in nodes', marks \in SUBSET nodes' : UpdateTrie(Turn, p, marks)
  BY <1>1, <1>2, <1>3, <1>5, UpdateAnswers
<1> QED
  BY <1>3, <1>4, <1>5

\* When the callers pass prefixes without bits beyond their length, an operation
\* leaves what poptrie_lookup answers for an address, or makes it what the radix
\* tree gives, whichever of its allocations fail.
THEOREM TrieAnswers == ~ HostBits => (TrieSpec => AnswersOldOrNew)
<1> SUFFICES ASSUME ~ HostBits
             PROVE  TrieSpec => AnswersOldOrNew
  OBVIOUS
<1>1. TInv /\ [TrieNext]_allVars =>
        [\A a \in Addr :
           \/ poptrie_lookup(a)' = poptrie_lookup(a)
           \/ poptrie_lookup(a)' = rib_lookup(a)']_trie
  BY AnswersStep
<1> QED
  BY <1>1, TrieInvariance, PTL DEF TrieSpec, AnswersOldOrNew

-----------------------------------------------------------------------------
\* What an update allocates is in use.

\* The update of a prefix without host bits writes no entry twice.
LEMMA WrittenOnce ==
  ASSUME NEW m, NEW H, HeapOK(m, H), NEW r, RibOK(r, H), NEW p \in r.nodes, NEW faults,
         NEW o, o = Subtree(r, m, p, p.net, Turn, faults)
  PROVE  o.dropped = {}
<1> DEFINE tried == TriedFor(Turn, r, m, p, p.net)
<1>1. p \in Prefix /\ p.plen \in Nat /\ p.net \in Addr /\ Covers(p, p.net)
  <2>1. p \in Prefix
    BY DEF RibOK
  <2> QED
    BY <2>1, PrefixType, Lengths DEF Covers
<1>2. ASSUME NEW t \in tried
      PROVE  t.index = t.entry
  <2>1. PICK z \in Index : Above(p, z) /\ t = WriteFor(Turn, r, m, p, p.net, z)
    BY DEF TriedFor
  <2>2. OwnWrite(r, m, z, t)
    BY <2>1, WriteIsOwn
  <2> QED
    BY <2>2 DEF OwnWrite
<1> HIDE DEF tried
<1>3. OwnEntries(tried)
  BY <1>2 DEF OwnEntries
<1>4. CASE p.plen < S
  <2>1. o = Direct(r, m, p, p.net, Turn, faults)
    BY <1>4 DEF Subtree
  <2> QED
    BY <1>1, <1>3, <2>1, DirectUnion, TurnAhead DEF tried
<1>5. CASE ~ p.plen < S
  <2>1. o = Deep(r, m, p, faults) /\ p.plen >= S
    BY <1>1, <1>5, Lengths DEF Subtree
  <2> QED
    BY <2>1, DeepGood
<1> QED
  BY <1>4, <1>5

LEMMA LeaksNothing ==
  ASSUME ~ HostBits, TInv, leaked = {}, [TrieNext]_allVars
  PROVE  leaked' = {}
<1>1. IInv /\ PathsClosed /\ TrieOK /\ TypeOK /\ mark \subseteq nodes
  BY DEF TInv, IInv, TrieOK
<1>2. IInv' /\ PathsClosed'
  BY <1>1, RibStep, TrieNextBy
<1>3. /\ Hop \subseteq Hop'
      /\ \/ UNCHANGED <<mark, trie>>
         \/ \E p \in nodes', marks \in SUBSET nodes' : UpdateTrie(Turn, p, marks)
  BY <1>1, UpdateOrNot, TrieNextBy
<1>4. CASE UNCHANGED <<mark, trie>>
  BY <1>4 DEF trie
<1>5. CASE \E p \in nodes', marks \in SUBSET nodes' : UpdateTrie(Turn, p, marks)
  <2>1. PICK p \in nodes', marks \in SUBSET nodes' : UpdateTrie(Turn, p, marks)
    BY <1>5
  <2>2. PICK addr \in Given(p), faults \in Failing :
          \E o : /\ o = Subtree(Tree(marks), Trie, p, addr, Turn, faults)
                 /\ Install(Trie, o, p, marks)
    BY <2>1, UpdateIs
  <2>3. addr = p.net
    BY DEF Given
  <2>4. PICK o : /\ o = Subtree(Tree(marks), Trie, p, p.net, Turn, faults)
                 /\ Install(Trie, o, p, marks)
    BY <2>2, <2>3
  <2>5. PICK r, m : r = Tree(marks) /\ m = Trie
    OBVIOUS
  <2>6. RibOK(r, Hop') /\ p \in r.nodes
    BY <1>2, <2>5, RibNow
  <2>7. HeapOK(m, Hop')
    BY <1>1, <1>3, <2>5, MoreHops DEF TrieOK
  <2>8. o = Subtree(r, m, p, p.net, Turn, faults)
    BY <2>4, <2>5
  <2>9. o.dropped = {}
    BY <2>6, <2>7, <2>8, WrittenOnce
  <2>10. leaked' = leaked \cup o.dropped
    BY <2>4, InstallIs
  <2> QED
    BY <2>9, <2>10
<1> QED
  BY <1>3, <1>4, <1>5

\* While callers pass prefixes without bits beyond their length, and no allocation
\* fails, every array that is allocated is in use: none is lost as its entry is
\* written twice, and none that is replaced is forgotten.
THEOREM TrieForgetsNothing == ~ HostBits => (TrieSpec => []NoArrayForgotten)
<1> SUFFICES ASSUME ~ HostBits
             PROVE  TrieSpec => []NoArrayForgotten
  OBVIOUS
<1>1. TrieInit => leaked = {}
  BY DEF TrieInit
<1>2. TInv /\ leaked = {} /\ [TrieNext]_allVars => (leaked = {})'
  BY LeaksNothing
<1>3. TInv /\ leaked = {} => NoArrayForgotten
  BY Holders DEF TInv, NoArrayForgotten
<1> QED
  BY <1>1, <1>2, <1>3, TrieInvariance, PTL DEF TrieSpec

-----------------------------------------------------------------------------
\* Where the trie follows the radix tree: what an update leaves as it was.

\* The heap f after the change b: the entries it says, and its nodes, are there.
Changed(m, b, f) ==
  /\ \A e \in DOMAIN b.leaf : f.dir[e] = LeafEntry(b.leaf[e])
  /\ \A y \in Remade(b) : y \in Blocks /\ f.pos[y] # NULL
  /\ \A y \in Blocks : f.pos[y] # NULL => NodeAt(f, y).vector = VectorOf(m, b, y)

\* What is installed is a heap again, and has what the change says.
LEMMA ChangedIs ==
  ASSUME NEW m, NEW H, HeapOK(m, H), NEW b, GoodChange(m, b, H),
         NEW p, \A e \in DOMAIN b.leaf \cup b.roots : Above(p, e) \/ Above(e, p),
         NEW f, Installed(f, m, b, p)
  PROVE  HeapOK(f, H) /\ Changed(m, b, f)
<1>1. PICK n, garbage : /\ n = Linked(m, b) /\ garbage = Garbage(m, n, b, p)
                        /\ f = Heap(n.dir, Freed(n, garbage).nodes, Freed(n, garbage).leaves)
  BY DEF Installed
<1>2. HeapOK(f, H)
  BY <1>1, ChangeKeeps
<1>3. f.dir = n.dir /\ \A y \in Blocks : f.pos[y] = n.pos[y] /\ NodeAt(f, y) = NodeAt(n, y)
  BY <1>1, FreedWalk
<1>4. \A e \in DOMAIN b.leaf : n.dir[e] = LeafEntry(b.leaf[e])
  BY <1>1, LinkedDir
<1>5. \A y \in Remade(b) : n.pos[y] # NULL
  BY <1>1, RemadeThere
<1>6. Remade(b) \subseteq Blocks
  BY DEF GoodChange
<1>7. \A y \in Blocks : n.pos[y] # NULL => NodeAt(n, y) = Made(m, b, y)
  BY <1>1, LinkedNode
<1>8. \A y \in Blocks : f.pos[y] # NULL => NodeAt(f, y).vector = VectorOf(m, b, y)
  BY <1>3, <1>7, MadeIs
<1> QED
  BY <1>2, <1>3, <1>4, <1>5, <1>6, <1>8 DEF Changed

\* The nodes that were built are in the heap, as far as they are linked in.
Built(f, c) == \A z \in DOMAIN c.vec : f.pos[z] # NULL => NodeAt(f, z).vector = c.vec[z]

\* A node below one that was built, which was not built itself, is below a node
\* that the recursion passed over.
LEMMA BuiltOrSkipped ==
  ASSUME NEW m, NEW H, HeapOK(m, H), NEW r, RibOK(r, H), NEW x \in Blocks, x \in r.nodes,
         NEW c, c = Inode(r, m, x),
         NEW f, HeapOK(f, H), f.pos[x] # NULL, Built(f, c),
         NEW a \in Addr, Covers(x, a),
         NEW y \in Blocks, Covers(y, a), f.pos[y] # NULL, y \notin DOMAIN c.hops, x.plen <= y.plen
  PROVE  Skipped(r, m, x, a)
<1> DEFINE P == {z \in MadeOf(r, m, x) : Covers(z, a) /\ z.plen <= y.plen /\ f.pos[z] # NULL}
<1>1. DOMAIN c.hops = MadeOf(r, m, x) /\ c.vec = [z \in MadeOf(r, m, x) |-> KidsOf(r, m, x, z)]
  BY InodeIs
<1>2. \A z \in Reached(r, m, x) : z \in Blocks /\ z \in Prefix
  BY ReachedBlocks, BlockType
<1>3. x \in P /\ P \subseteq Prefix
  <2>1. x \in MadeOf(r, m, x)
    BY ReachedStart DEF MadeOf
  <2> QED
    BY <1>2, <2>1 DEF MadeOf
<1>4. PICK w \in P : \A z \in P : z.plen <= w.plen
  <2> HIDE DEF P
  <2> QED
    BY <1>3, LongestExists
<1>5. /\ w \in Reached(r, m, x) /\ w \in MadeOf(r, m, x) /\ w \in Blocks /\ w \in Prefix
      /\ w.plen \in Nat /\ Covers(w, a) /\ w.plen <= y.plen /\ f.pos[w] # NULL
      /\ y \in Prefix /\ y.plen \in Nat
  BY <1>2, BlockType DEF MadeOf
<1>6. w.plen < y.plen
  <2>1. w # y
    BY <1>1, <1>5
  <2>2. w.plen # y.plen
    BY <1>5, <2>1, CoverOrder
  <2> QED
    BY <1>5, <2>2
<1> DEFINE i == INDEX(a, w.plen)
           k == Kid(w, i)
<1>7. w.plen + K <= y.plen
  <2>1. w.plen <= Over(y).plen /\ Over(y).plen = y.plen - K
    BY <1>5, <1>6, NoneBetween
  <2> QED
    BY <1>5, <2>1, Lengths
<1>8. i \in KidsOf(r, m, x, w)
  <2>1. Above(w, y)
    BY <1>5, CoverOrder
  <2>2. INDEX(y.net, w.plen) \in NodeAt(f, w).vector
    BY <1>5, <1>6, <2>1, LeadsDown
  <2>3. INDEX(y.net, w.plen) = i
    BY <1>5, <1>7, IndexOn
  <2>4. NodeAt(f, w).vector = KidsOf(r, m, x, w)
    BY <1>1, <1>5 DEF Built
  <2> QED
    BY <2>2, <2>3, <2>4
<1>9. /\ i \in Slots /\ w.plen + K <= Width /\ k \in Blocks /\ k.plen = w.plen + K
      /\ Covers(k, a) /\ Over(k) = w /\ INDEX(k.net, w.plen) = i
  <2>1. i \in Slots
    BY <1>8 DEF KidsOf
  <2>2. w.plen + K <= Width
    BY <1>5, <1>7, PrefixType, Lengths
  <2> QED
    BY <1>5, <2>1, <2>2, KidType, KidOnWay
<1>10. f.pos[k] # NULL
  <2>1. i \in NodeAt(f, w).vector
    BY <1>1, <1>5, <1>8 DEF Built
  <2> QED
    BY <1>5, <2>1, KidThere
<1> HIDE DEF k
<1>11. k \notin MadeOf(r, m, x)
  <2>1. k \in MadeOf(r, m, x) => k \in P
    BY <1>7, <1>9, <1>10
  <2>2. ~ k.plen <= w.plen
    BY <1>5, <1>9, Lengths
  <2> HIDE DEF P
  <2> QED
    BY <1>4, <2>1, <2>2
<1>12. ~ Rebuilt(r, m, w, i)
  <2>1. Rebuilt(r, m, w, i) => k \in Reached(r, m, x)
    BY <1>5, <1>9, ReachedKid DEF k
  <2>2. k.plen - K = w.plen
    BY <1>5, <1>9, Lengths
  <2> QED
    BY <1>8, <1>9, <1>11, <2>1, <2>2 DEF MadeOf
<1>13. IsKept(r, m, <<w, i>>)
  <2>1. <<w, i>> \in Ends(r, m, x)
    BY <1>5, <1>9, <1>12 DEF Ends
  <2>2. From(Ends(r, m, x), <<w, i>>) = {<<w, i>>}
    BY <2>1 DEF From
  <2>3. ~ Alike(r, m, {<<w, i>>})
    BY <1>8, <2>2 DEF KidsOf
  <2> QED
    BY <2>3 DEF Alike
<1>14. GoesOn(r, w, i) /\ i \in NodeAt(m, w).vector
  BY <1>13 DEF IsKept
<1>15. m.pos[w] # NULL
  BY <1>5, <1>14, KidThere
<1>16. PassedOver(r, m, w, a)
  BY <1>5, <1>12, <1>14, <1>15 DEF PassedOver, Rebuilt
<1> QED
  BY <1>5, <1>16 DEF Skipped

\* A change that includes another has its nodes built, too.
LEMMA IncludesBuilt ==
  ASSUME NEW m, NEW b, NEW f, Changed(m, b, f), NEW c, Includes(b, c)
  PROVE  Built(f, c)
<1>1. ASSUME NEW z \in DOMAIN c.vec, f.pos[z] # NULL
      PROVE  NodeAt(f, z).vector = c.vec[z]
  <2>1. z \in DOMAIN b.vec /\ b.vec[z] = c.vec[z]
    BY DEF Includes
  <2>2. z \in Blocks
    BY <2>1 DEF Changed, Remade
  <2> QED
    BY <1>1, <2>1, <2>2 DEF Changed, VectorOf
<1> QED
  BY <1>1 DEF Built

\* The change writes the entry e: a next hop, or the block that was built for it.
WritesEntry(r, m, b, e) ==
  \/ e \in DOMAIN b.leaf
  \/ e \in b.roots /\ e \in r.nodes /\ Includes(b, Inode(r, m, e))

\* For an address below an entry that is written, what is as it was was passed over.
LEMMA EntryTaken ==
  ASSUME NEW m, NEW H, HeapOK(m, H), NEW r, RibOK(r, H), NEW b, GoodChange(m, b, H),
         NEW f, HeapOK(f, H), Changed(m, b, f), NEW a \in Addr, NEW e, e = PrefixOf(a, S),
         WritesEntry(r, m, b, e), Untouched(m, b, f, a)
  PROVE  Skipped(r, m, e, a)
<1>1. e \in Index /\ e \in Blocks /\ e.plen = S /\ Covers(e, a)
  BY EntryOf
<1>2. PICK y : EndsAt(m, y, a) /\ EndsAt(f, y, a) /\ y \notin DOMAIN b.hops
  BY DEF Untouched, WritesEntry
<1>3. /\ y \in Blocks /\ y \in Prefix /\ y.plen \in Nat /\ S <= y.plen /\ S \in Nat
      /\ Covers(y, a) /\ f.pos[y] # NULL
  BY <1>2, BlockType, Lengths DEF EndsAt, OnTheWay
<1>4. f.pos[e] # NULL
  <2>1. f.pos[PrefixOf(y.net, S)] # NULL
    BY <1>3, EntryUp
  <2>2. PrefixOf(y.net, S) = e
    <3>1. S \in 0 .. y.plen
      BY <1>3
    <3> QED
      BY <1>3, <3>1, CoverIsStart
  <2> QED
    BY <2>1, <2>2
<1>5. CASE e \in DOMAIN b.leaf
  <2>1. f.dir[e] = LeafEntry(b.leaf[e])
    BY <1>5 DEF Changed
  <2>2. f.pos[e] = Entry(f, e)
    BY <1>1, Walk DEF HeapOK
  <2> QED
    BY <1>4, <2>1, <2>2 DEF Entry, LeafEntry
<1>6. CASE e \in b.roots /\ e \in r.nodes /\ Includes(b, Inode(r, m, e))
  <2> DEFINE c == Inode(r, m, e)
  <2>1. Built(f, c)
    BY <1>6, IncludesBuilt
  <2>2. y \notin DOMAIN c.hops
    BY <1>2, <1>6 DEF Includes
  <2>3. e.plen <= y.plen
    BY <1>1, <1>3
  <2> HIDE DEF c
  <2> QED
    BY <1>1, <1>3, <1>4, <1>6, <2>1, <2>2, <2>3, BuiltOrSkipped DEF c
<1> QED
  BY <1>5, <1>6 DEF WritesEntry

\* An entry that gets its own block is written.
LEMMA BlockWritten ==
  ASSUME NEW m, NEW H, HeapOK(m, H), NEW r, RibOK(r, H), NEW e \in Index, e \in r.nodes,
         NEW b, b = EntryBlock(r, m, e, e)
  PROVE  WritesEntry(r, m, b, e)
<1> DEFINE c == Inode(r, m, e)
<1>1. e \in Blocks
  BY BlocksAre, Lengths
<1>2. b = LinkEntry(c, e)
  BY DEF EntryBlock
<1>3. Part(m, c, H, e) /\ e \in DOMAIN c.vec /\ e \in DOMAIN c.hops
  BY <1>1, InodePart
<1> HIDE DEF c
<1>4. EntryLinked(b, c, e)
  BY <1>2, <1>3, LinkEntryGood
<1>5. e \in DOMAIN b.leaf \/ (e \in b.roots /\ Includes(b, c))
  BY <1>4 DEF EntryLinked, Includes
<1> QED
  BY <1>5 DEF WritesEntry, c

\* The update of a short prefix writes every entry below it, if memory suffices.
LEMMA DirectTaken ==
  ASSUME NEW m, NEW H, HeapOK(m, H), NEW r, RibOK(r, H), NEW p \in r.nodes, p.plen < S,
         NEW faults, NEW o, o = Direct(r, m, p, p.net, Turn, faults), ~ o.short,
         NEW a \in Addr, Covers(p, a), NEW e, e = PrefixOf(a, S)
  PROVE  WritesEntry(r, m, o.change, e)
<1> DEFINE b == o.change
           tried == TriedFor(Turn, r, m, p, p.net)
<1>1. p \in Prefix /\ p.net \in Addr /\ Covers(p, p.net) /\ p.plen \in Nat
  <2>1. p \in Prefix
    BY DEF RibOK
  <2> QED
    BY <2>1, PrefixType, Lengths DEF Covers
<1>2. e \in Index /\ e \in Prefix /\ e.plen = S /\ Covers(e, a)
  BY EntryOf
<1>3. Above(p, e)
  <2>1. p.plen <= e.plen
    BY <1>1, <1>2, Lengths
  <2> QED
    BY <1>1, <1>2, <2>1, CoverOrder
<1>4. PICK ts : /\ Stays(ts, Turn, r, m, p, p.net, H) /\ IsUnion(b, ts)
                /\ StaysAll(ts, tried, o.short)
  BY <1>1, DirectUnion, TurnAhead
<1>5. SaysWhat(b, ts)
  BY <1>4, UnionOf DEF Stays
<1>6. ASSUME NEW t \in tried
      PROVE  t.index = t.entry
  <2>1. PICK z \in Index : Above(p, z) /\ t = WriteFor(Turn, r, m, p, p.net, z)
    BY DEF TriedFor
  <2>2. OwnWrite(r, m, z, t)
    BY <2>1, WriteIsOwn
  <2> QED
    BY <2>2 DEF OwnWrite
<1>7. ts = tried
  <2> HIDE DEF tried
  <2> QED
    BY <1>4, <1>6 DEF StaysAll, OwnEntries
<1>8. PICK t : t = WriteFor(Turn, r, m, p, p.net, e)
  OBVIOUS
<1>9. t \in ts /\ OwnWrite(r, m, e, t)
  <2>1. t \in tried
    BY <1>2, <1>3, <1>8 DEF TriedFor
  <2>2. OwnWrite(r, m, e, t)
    BY <1>2, <1>3, <1>8, WriteIsOwn
  <2> QED
    BY <1>7, <2>1, <2>2
<1>10. /\ PartOf(b.vec, t.change.vec, t) /\ PartOf(b.hops, t.change.hops, t)
       /\ PartOf(b.leaf, t.change.leaf, t) /\ t.change.roots \subseteq b.roots
  BY <1>5, <1>9 DEF SaysWhat
<1> HIDE DEF b
<1>11. CASE e \in r.nodes /\ t.change = EntryBlock(r, m, e, e)
  <2>1. WritesEntry(r, m, t.change, e)
    BY <1>2, <1>11, BlockWritten
  <2>2. CASE e \in DOMAIN t.change.leaf
    BY <1>10, <2>2 DEF WritesEntry, PartOf, b
  <2>3. CASE e \in t.change.roots /\ Includes(t.change, Inode(r, m, e))
    <3>1. Includes(b, Inode(r, m, e))
      BY <1>10, <2>3 DEF Includes, PartOf
    <3> QED
      BY <1>10, <1>11, <2>3, <3>1 DEF WritesEntry, b
  <2> QED
    BY <2>1, <2>2, <2>3 DEF WritesEntry
<1>12. CASE t.change = [NoChange EXCEPT !.leaf = With(@, e, r.nh[Deepest(Path(e) \cap r.nodes)])]
  <2> DEFINE h == r.nh[Deepest(Path(e) \cap r.nodes)]
  <2> HIDE DEF h
  <2>1. e \in DOMAIN t.change.leaf
    BY <1>12 DEF h, NoChange, With
  <2> QED
    BY <1>10, <2>1 DEF WritesEntry, PartOf, b
<1> QED
  BY <1>9, <1>11, <1>12 DEF OwnWrite

\* The heap has a node on the way of an address: its entry is not a next hop.
LEMMA RootAbove ==
  ASSUME NEW m, NEW H, HeapOK(m, H), NEW y \in Blocks, m.pos[y] # NULL,
         NEW a \in Addr, Covers(y, a)
  PROVE  m.pos[PrefixOf(a, S)] # NULL /\ m.dir[PrefixOf(a, S)].kind # "leaf"
<1> DEFINE e == PrefixOf(a, S)
<1>1. e \in Index /\ e \in Blocks /\ e.plen = S
  BY EntryOf
<1>2. y \in Prefix /\ S \in 0 .. y.plen
  BY BlockType, Lengths
<1>3. m.pos[PrefixOf(y.net, S)] # NULL
  BY EntryUp
<1>4. PrefixOf(y.net, S) = e
  BY <1>2, CoverIsStart
<1>5. m.pos[e] = Entry(m, e)
  BY <1>1, Walk DEF HeapOK
<1> QED
  BY <1>3, <1>4, <1>5 DEF Entry

\* What was built from block x on is all there: what is kept below was passed over.
LEMMA InodeTaken ==
  ASSUME NEW m, NEW H, HeapOK(m, H), NEW r, RibOK(r, H), NEW x \in Blocks, x \in r.nodes,
         NEW b, Includes(b, Inode(r, m, x)), NEW f, HeapOK(f, H), Changed(m, b, f),
         NEW a \in Addr, Covers(x, a), NEW y, EndsAt(f, y, a), y \notin DOMAIN b.hops
  PROVE  Skipped(r, m, x, a)
<1> DEFINE c == Inode(r, m, x)
<1>1. Built(f, c) /\ y \notin DOMAIN c.hops
  BY IncludesBuilt DEF Includes
<1>2. f.pos[x] # NULL
  <2>1. x \in DOMAIN c.vec
    BY InodePart
  <2>2. x \in Remade(b)
    BY <2>1 DEF Includes, Remade
  <2> QED
    BY <2>2 DEF Changed
<1>3. /\ y \in Blocks /\ y \in Prefix /\ y.plen \in Nat /\ Covers(y, a) /\ f.pos[y] # NULL
      /\ INDEX(a, y.plen) \notin NodeAt(f, y).vector
      /\ x \in Prefix /\ x.plen \in Nat
  BY BlockType DEF EndsAt, OnTheWay
<1>4. ASSUME y.plen < x.plen
      PROVE  FALSE
  <2>1. Above(y, x)
    BY <1>3, <1>4, CoverOrder
  <2>2. INDEX(x.net, y.plen) \in NodeAt(f, y).vector
    BY <1>2, <1>3, <1>4, <2>1, LeadsDown
  <2>3. y.plen + K <= x.plen
    <3>1. y.plen <= Over(x).plen /\ Over(x).plen = x.plen - K
      BY <1>2, <1>3, <1>4, NoneBetween
    <3> QED
      BY <1>3, <3>1, Lengths
  <2>4. INDEX(x.net, y.plen) = INDEX(a, y.plen)
    BY <1>3, <2>3, IndexOn
  <2> QED
    BY <1>3, <2>2, <2>4
<1>5. x.plen <= y.plen
  BY <1>3, <1>4
<1> HIDE DEF c
<1> QED
  BY <1>1, <1>2, <1>3, <1>5, BuiltOrSkipped DEF c

\* All addresses below block x had one next hop, and have one.
AlikeBelow(r, m, x) ==
  \E h, g : \A a \in Addr : Covers(x, a) => h \in Answers(r, m, x, a) /\ Lookup(m, a) = g

\* A node that a single leaf is put into in place of a child gets new next hops.
LEMMA CompressedHops ==
  ASSUME NEW m, NEW c, NEW x, NEW h, NEW y, NEW b, Compresses(m, c, x, h, y, b),
         INDEX(x.net, y.plen) \in NodeAt(m, y).vector
  PROVE  y \in DOMAIN b.hops
<1> DEFINE i == INDEX(x.net, y.plen)
           w == NodeAt(m, y).vector \ {i}
           hs == Hops(m, y, w, i, h)
           leaves == [OnlyHop(c, x) EXCEPT !.hops = With(@, y, hs)]
           both == [leaves EXCEPT !.vec = With(@, y, w)]
<1>1. b = Put(m, both, y)
  BY DEF Compresses
<1> HIDE DEF hs, w
<1>2. IsChange(both) /\ y \in DOMAIN both.hops
  <2> DEFINE s == c.spent \cup {x}
             only == OnlyHop(c, x)
  <2>1. only = [NoChange EXCEPT !.spent = s]
    BY DEF OnlyHop
  <2> HIDE DEF s, only
  <2>2. IsChange(only)
    BY <2>1 DEF NoChange, IsChange
  <2>3. both = [[only EXCEPT !.hops = With(@, y, hs)] EXCEPT !.vec = With(@, y, w)]
    BY DEF only
  <2> HIDE DEF both
  <2>4. IsChange(both) /\ both.hops = With(only.hops, y, hs)
    BY <2>2, <2>3 DEF IsChange
  <2> QED
    BY <2>4 DEF With
<1> HIDE DEF both
<1>3. b.hops = both.hops
  BY <1>1, <1>2 DEF Put, Store, IsChange
<1> QED
  BY <1>2, <1>3

\* What a change below the entry leaves as it was on the way of an address was
\* passed over, or had one next hop as a whole and has one.
LEMMA LinkTaken ==
  ASSUME NEW m, NEW H, HeapOK(m, H), NEW r, RibOK(r, H), NEW x \in Blocks, x \in r.nodes,
         x.plen >= S + K, x.plen < Width, m.pos[Over(x)] # NULL,
         NEW c, c = Inode(r, m, x), NEW b, b = Link(m, c, x), GoodChange(m, b, H),
         NEW f, HeapOK(f, H), Changed(m, b, f),
         NEW a \in Addr, Covers(x, a), Untouched(m, b, f, a)
  PROVE  Skipped(r, m, x, a) \/ AlikeBelow(r, m, x)
<1>1. /\ x.plen # S /\ x.plen >= K /\ x \in Prefix /\ x.net \in Addr /\ x.plen \in Nat
      /\ Over(x) \in Blocks /\ Over(x).plen = x.plen - K /\ Above(Over(x), x)
  <2>1. x.plen # S /\ x.plen >= K /\ x \in Prefix /\ x.net \in Addr /\ x.plen \in Nat
    BY BlockType, Lengths
  <2> QED
    BY <2>1, OverType
<1>2. Part(m, c, H, x) /\ x \in DOMAIN c.vec /\ x \in DOMAIN c.hops
  BY InodePart
<1>3. PICK y : EndsAt(m, y, a) /\ EndsAt(f, y, a) /\ y \notin DOMAIN b.hops
  <2>1. Covers(Over(x), a)
    BY <1>1, BlockType, AboveCovers
  <2>2. m.dir[PrefixOf(a, S)].kind # "leaf"
    BY <1>1, <2>1, RootAbove
  <2> QED
    BY <2>2 DEF Untouched
<1>4. CASE ~ Single(c, x)
  <2>1. Includes(b, c)
    BY <1>2, <1>4, LinkParented DEF Parented
  <2> QED
    BY <1>3, <2>1, InodeTaken
<1>5. CASE Single(c, x)
  <2> DEFINE h == HopOf(c, x)
  <2>1. PICK w \in Blocks : Widest(m, x, h, w) /\ Narrowed(m, b, x, w, h)
                            /\ Compresses(m, c, x, h, w, b)
    BY <1>2, <1>5, LinkNarrowed
  <2> DEFINE i == INDEX(x.net, w.plen)
             v == NodeAt(m, w).vector \ {i}
  <2>2. /\ w \in Path(x) /\ w # x /\ m.pos[w] # NULL /\ w \in Prefix /\ w.plen \in Nat
    BY <2>1, BlockType DEF Widest, Candidates
  <2>3. w.plen < x.plen /\ Above(w, x)
    <3>1. w.plen <= x.plen /\ w.plen # x.plen /\ Above(w, x)
      BY <1>1, <2>2, OnPath
    <3> QED
      BY <1>1, <2>2, <3>1
  <2>4. w.plen + K <= x.plen
    <3> SUFFICES ASSUME Over(x).plen < w.plen
                 PROVE  FALSE
      BY <1>1, <2>2, Lengths
    <3>1. Over(x).plen <= Over(w).plen /\ Over(w).plen = w.plen - K
      BY <1>1, <2>2, NoneBetween
    <3> QED
      BY <1>1, <2>2, <2>3, <3>1, Lengths
  <2>5. \A d \in Addr : Covers(x, d) => Covers(w, d) /\ INDEX(d, w.plen) = i
    <3> SUFFICES ASSUME NEW d \in Addr, Covers(x, d)
                 PROVE  Covers(w, d) /\ INDEX(d, w.plen) = i
      OBVIOUS
    <3>1. Covers(w, d)
      BY <1>1, <2>2, <2>3, AboveCovers
    <3>2. INDEX(x.net, w.plen) = INDEX(d, w.plen)
      BY <1>1, <2>2, <2>4, IndexOn
    <3> QED
      BY <3>1, <3>2
  <2>6. i \in Slots
    BY <1>1, <2>2, IndexType
  <2> HIDE DEF h, i
  <2>7. CASE w \in DOMAIN b.hops
    <3>1. b.hops[w] = Hops(m, w, v, i, h)
      BY <2>1, <2>7 DEF Narrowed, Remade, i
    <3>2. DOMAIN b.hops[w] = Slots \ VectorOf(m, b, w) /\ w \in Remade(b)
      BY <2>7 DEF GoodChange, GoodHops, Remade
    <3>3. i \in DOMAIN b.hops[w]
      BY <2>6, <3>1 DEF Hops
    <3>4. f.pos[w] # NULL /\ i \notin NodeAt(f, w).vector
      BY <3>2, <3>3 DEF Changed
    <3>5. EndsAt(f, w, a)
      BY <2>5, <3>4 DEF EndsAt, OnTheWay
    <3>6. y = w
      BY <1>3, <3>5, OneEnd
    <3> QED
      BY <1>3, <2>7, <3>6
  <2>8. CASE w \notin DOMAIN b.hops
    <3>1. i \notin NodeAt(m, w).vector
      BY <2>1, <2>8, CompressedHops DEF i
    <3>2. GoodHops(m, c, H, x)
      BY <1>2 DEF Part
    <3>3. ASSUME NEW d \in Addr, Covers(x, d)
          PROVE  h \in Answers(r, m, x, d) /\ Lookup(m, d) = Leaf(m, NodeAt(m, w), i)
      <4>1. h \in Told(c, d)
        BY <1>2, <1>5, <3>2, <3>3, SingleTold DEF h
      <4>2. Told(c, d) \subseteq Answers(r, m, x, d)
        BY InodeTold
      <4>3. EndsAt(m, w, d)
        BY <2>2, <2>5, <3>1, <3>3 DEF EndsAt, OnTheWay
      <4>4. Lookup(m, d) = Leaf(m, NodeAt(m, w), INDEX(d, w.plen))
        BY <4>3, LookupIs
      <4> QED
        BY <2>5, <3>3, <4>1, <4>2, <4>4
    <3>4. AlikeBelow(r, m, x)
      BY <3>3 DEF AlikeBelow
    <3> QED
      BY <3>4
  <2> QED
    BY <2>7, <2>8
<1> QED
  BY <1>4, <1>5

\* The update of a long prefix: what it leaves as it was on the way of an address
\* was passed over, or had one next hop as a whole and has one.
LEMMA DeepTaken ==
  ASSUME NEW m, NEW H, HeapOK(m, H), NEW r, RibOK(r, H), NEW p \in r.nodes, p.plen >= S,
         NEW faults, NEW o, o = Deep(r, m, p, faults), ~ o.short, NEW x, x = Descended_To(m, p),
         GoodChange(m, o.change, H), NEW f, HeapOK(f, H), Changed(m, o.change, f),
         NEW a \in Addr, Covers(p, a), Untouched(m, o.change, f, a)
  PROVE  Skipped(r, m, x, a) \/ (AlikeBelow(r, m, x) /\ x.plen < p.plen)
<1> DEFINE c == Inode(r, m, x)
           b == IF x.plen = S THEN EntryBlock(r, m, x, x) ELSE Link(m, c, x)
<1>1. p \in Prefix /\ Path(p) \cap Blocks \subseteq r.nodes
  BY DEF RibOK
<1>2. x \in Descents(m, p) /\ x \in Blocks /\ Above(x, p)
  BY <1>1, DescendedSpec
<1>3. x \in r.nodes /\ x \in Prefix /\ Covers(x, a)
  <2>1. x \in Prefix
    BY <1>2, BlockType
  <2> QED
    BY <1>1, <1>2, <2>1, AboveCovers DEF Descents
<1>4. o.change = b
  <2> HIDE DEF b
  <2>1. o = Outcome(b, faults)
    BY DEF Deep, b
  <2> QED
    BY <2>1 DEF Outcome
<1>5. CASE x.plen = S
  <2>1. x \in Index /\ x = PrefixOf(a, S)
    BY <1>2, <1>3, <1>5, BlockType, CoverIsStart
  <2>2. b = EntryBlock(r, m, x, x)
    BY <1>5
  <2> HIDE DEF b
  <2>3. WritesEntry(r, m, b, x)
    BY <1>3, <2>1, <2>2, BlockWritten
  <2> QED
    BY <1>4, <2>1, <2>3, EntryTaken
<1>6. CASE x.plen # S
  <2>1. S + K <= x.plen /\ x.plen < p.plen /\ m.pos[Over(x)] # NULL
    BY <1>2, <1>6 DEF Descents
  <2>2. x.plen >= S + K /\ x.plen < Width
    <3>1. x.plen \in Nat /\ p.plen \in 0 .. Width
      BY <1>1, <1>2, BlockType, PrefixType
    <3> QED
      BY <2>1, <3>1, Lengths
  <2>3. b = Link(m, c, x)
    BY <1>6
  <2> HIDE DEF b, c
  <2> QED
    BY <1>2, <1>3, <1>4, <2>1, <2>2, <2>3, LinkTaken DEF c
<1> QED
  BY <1>5, <1>6

\* The new route p is the longest that covers the address.
Longer(p, a) == Covers(p, a) /\ \A q \in valid : Covers(q, a) => q.plen <= p.plen

\* _route_add_propagate marks what is below a node on the way of such an address.
LEMMA AddMarked ==
  ASSUME IInv, nodes' \subseteq Prefix, NEW p \in Prefix, p \notin valid,
         NEW a \in Addr, Longer(p, a),
         NEW k \in Prefix, Covers(k, a), p.plen <= k.plen,
         NEW d \in nodes', d.plen = k.plen + 1, Above(k, d)
  PROVE  d \in AddMarks(p)
<1>1. nodes \subseteq Prefix /\ valid \subseteq Prefix /\ d \in Prefix
  BY DEF IInv, TypeOK
<1>2. Above(p, k)
  BY CoverOrder DEF Longer
<1>3. Above(p, d)
  BY <1>1, <1>2, AboveTransitive
<1>4. ASSUME NEW y \in nodes, Above(p, y), Above(y, k), Descended(y) # NULL
      PROVE  Descended(y).plen < p.plen
  <2> DEFINE v == Descended(y)
  <2>1. v \in valid /\ Above(v, y) /\ v \in Prefix
    BY <1>1, <1>4 DEF Descended, IInv, ExtIsNearestRoute
  <2>2. Covers(v, a)
    <3>1. Above(v, k)
      BY <1>1, <1>4, <2>1, AboveTransitive
    <3> QED
      BY <2>1, <3>1, AboveCovers
  <2>3. v.plen <= p.plen
    BY <2>1, <2>2 DEF Longer
  <2>4. v.plen # p.plen
    BY <2>1, <2>2, <2>3, CoverOrder DEF Longer
  <2>5. v.plen \in Nat /\ p.plen \in Nat
    BY <2>1, PrefixType, Lengths
  <2> QED
    BY <2>3, <2>4, <2>5
<1>5. Propagated(p, k)
  BY <1>2, <1>4 DEF Propagated
<1>6. PrefixOf(d.net, d.plen - 1) = k
  <2>1. k.plen \in Nat /\ d.plen - 1 = k.plen /\ k = [net |-> k.net, plen |-> k.plen]
    BY PrefixType, Lengths
  <2> QED
    BY <2>1 DEF Above, PrefixOf
<1> QED
  BY <1>3, <1>5, <1>6 DEF AddMarks

\* The block the update for p starts from, for an address.
Start(m, p, a) == IF p.plen < S THEN PrefixOf(a, S) ELSE Descended_To(m, p)

\* The marks are enough for an address below p: where the recursion tests a mark on
\* its way, what it could pass over has one.
Enough(r, p, a) ==
  \A k \in Prefix, d \in r.nodes :
    /\ Covers(k, a) /\ p.plen <= k.plen
    /\ \E j \in Nat : k.plen = S + j * K + K
    /\ d.plen = k.plen + 1 /\ Above(k, d)
    => d \in r.marked

\* So the recursion passes over no node on the way of such an address.
LEMMA NotSkipped ==
  ASSUME NEW p \in Prefix, NEW a \in Addr, Covers(p, a), NEW m, NEW H, HeapOK(m, H),
         NEW r, RibOK(r, H), Enough(r, p, a), NEW x, x = Start(m, p, a)
  PROVE  ~ Skipped(r, m, x, a)
<1>1. p.plen \in Nat /\ p.net \in Addr /\ p.plen \in 0 .. Width
  BY PrefixType, Lengths
<1>2. x \in Blocks
  BY <1>1, EntryOf, DescendedSpec, Lengths DEF Start
<1> SUFFICES ASSUME NEW w \in Reached(r, m, x), PassedOver(r, m, w, a)
             PROVE  FALSE
  BY DEF Skipped
<1> DEFINE i == INDEX(a, w.plen)
           k == Kid(w, i)
<1>3. /\ w \in Blocks /\ w \in Prefix /\ w.plen \in Nat /\ S <= w.plen /\ Covers(w, a)
      /\ m.pos[w] # NULL /\ GoesOn(r, w, i) /\ Children(r, k) \cap r.marked = {}
      /\ x.plen <= w.plen
  BY <1>2, ReachedBlocks, BlockType DEF PassedOver
<1>4. i \in Slots /\ w.plen + K <= Width
  <2>1. i \in Slots
    BY <1>3, IndexType
  <2>2. w.plen + K < Width
    BY <1>3, <2>1, GoesOnShort
  <2> QED
    BY <1>3, <2>1, <2>2, Lengths
<1>5. k \in Prefix /\ k.plen = w.plen + K /\ Over(k) = w /\ Covers(k, a)
  BY <1>3, <1>4, KidType, KidOnWay
<1>6. PICK d : d \in Children(r, k)
  BY <1>3 DEF GoesOn
<1> HIDE DEF k
<1>7. d \in r.nodes /\ d.plen = k.plen + 1 /\ Above(k, d) /\ d \notin r.marked
  BY <1>3, <1>6 DEF Children
<1>8. CASE p.plen <= k.plen
  <2>1. \E j \in Nat : w.plen = S + j * K
    BY <1>3, PositionAligned
  <2> QED
    BY <1>5, <1>7, <1>8, <2>1 DEF Enough
<1>9. CASE ~ p.plen <= k.plen
  <2>1. S + K <= k.plen /\ k.plen < p.plen /\ k.plen \in 0 .. p.plen
    BY <1>1, <1>3, <1>5, <1>9, Lengths
  <2>2. x = Descended_To(m, p) /\ p.plen >= S
    BY <1>1, <2>1, Lengths DEF Start
  <2>3. k = PrefixOf(p.net, k.plen)
    <3>1. PrefixOf(p.net, k.plen) = PrefixOf(a, k.plen)
      BY <2>1, CoverIsStart
    <3>2. k = PrefixOf(a, k.plen)
      BY <1>5, CoverIsStart
    <3> QED
      BY <3>1, <3>2
  <2>4. k \in Descents(m, p)
    BY <1>3, <1>5, <2>1, <2>3 DEF Descents, Path
  <2>5. k.plen <= x.plen
    BY <2>2, <2>4, DescendedSpec
  <2>6. x.plen \in Nat
    BY <1>2, BlockType
  <2> QED
    BY <1>3, <1>5, <2>5, <2>6, Lengths
<1> QED
  BY <1>8, <1>9

\* A lookup depends on the longest route that covers the address.
LEMMA LongestFound ==
  IInv /\ PathsClosed =>
    \A a \in Addr : {rib_lookup(a)} = IF Longest(valid, a) = {} THEN {0}
                                      ELSE {route[q] : q \in Longest(valid, a)}
BY LookupsMatch

LEMMA LongestFoundNext ==
  (IInv /\ PathsClosed =>
     \A a \in Addr : {rib_lookup(a)} = IF Longest(valid, a) = {} THEN {0}
                                       ELSE {route[q] : q \in Longest(valid, a)})'
BY LongestFound, PTL

LEMMA RibSame ==
  ASSUME IInv, PathsClosed, IInv', PathsClosed', NEW a \in Addr,
         Longest(valid', a) = Longest(valid, a),
         \A q \in Longest(valid, a) : route'[q] = route[q]
  PROVE  rib_lookup(a)' = rib_lookup(a)
<1>1. {rib_lookup(a)} = IF Longest(valid, a) = {} THEN {0}
                        ELSE {route[q] : q \in Longest(valid, a)}
  BY LongestFound
<1>2. {rib_lookup(a)'} = IF Longest(valid', a) = {} THEN {0}
                         ELSE {route'[q] : q \in Longest(valid', a)}
  BY LongestFoundNext
<1>3. {rib_lookup(a)'} = {rib_lookup(a)}
  BY <1>1, <1>2
<1> QED
  BY <1>3

\* A new route is the longest for an address, or changes nothing for it.
LEMMA LongestAfter ==
  ASSUME valid \subseteq Prefix, NEW p \in Prefix, valid' = valid \cup {p}, NEW a \in Addr
  PROVE  Longer(p, a) \/ Longest(valid', a) = Longest(valid, a)
<1>1. CASE ~ Covers(p, a)
  BY <1>1 DEF Longest
<1>2. CASE \E q \in valid : Covers(q, a) /\ ~ q.plen <= p.plen
  <2>1. PICK q \in valid : Covers(q, a) /\ ~ q.plen <= p.plen
    BY <1>2
  <2>2. ASSUME NEW v \in valid, q.plen <= v.plen
        PROVE  p.plen <= v.plen
    <3>1. q.plen \in Nat /\ v.plen \in Nat /\ p.plen \in Nat
      BY PrefixType, Lengths
    <3> QED
      BY <2>1, <2>2, <3>1
  <2> QED
    BY <2>1, <2>2 DEF Longest
<1> QED
  BY <1>1, <1>2 DEF Longer

\* Below a block above p there is an address that is not below p.
LEMMA OtherHalf ==
  ASSUME NEW x \in Prefix, NEW p \in Prefix, x.plen < p.plen, NEW a \in Addr,
         Covers(x, a), Covers(p, a)
  PROVE  \E d \in Addr : Covers(x, d) /\ ~ Covers(p, d)
<1> DEFINE d == [a EXCEPT ![p.plen] = 1 - a[p.plen]]
<1>1. p.plen \in 1 .. Width /\ x.plen \in Nat /\ p.plen \in Nat
  BY PrefixType, Lengths
<1>2. a[p.plen] \in {0, 1}
  BY <1>1 DEF Addr
<1>3. d \in Addr /\ d[p.plen] # a[p.plen] /\ \A k \in 1 .. Width : k # p.plen => d[k] = a[k]
  <2>1. 1 - a[p.plen] \in {0, 1} /\ 1 - a[p.plen] # a[p.plen]
    BY <1>2
  <2> QED
    BY <1>1, <2>1 DEF Addr
<1> HIDE DEF d
<1>4. Covers(x, d)
  <2>1. \A k \in 1 .. Width : k <= x.plen => d[k] = a[k]
    BY <1>1, <1>3
  <2>2. Mask(d, x.plen) = Mask(a, x.plen)
    BY <2>1 DEF Mask
  <2> QED
    BY <2>2 DEF Covers
<1>5. ~ Covers(p, d)
  <2>1. Mask(d, p.plen)[p.plen] = d[p.plen] /\ Mask(a, p.plen)[p.plen] = a[p.plen]
    BY <1>1 DEF Mask
  <2> QED
    BY <1>3, <2>1 DEF Covers
<1> QED
  BY <1>3, <1>4, <1>5

\* An update makes the trie answer as the tree does for the addresses its marks are
\* enough for, if it answered so for the addresses that are not below the route.
LEMMA UpdateTaken ==
  ASSUME ~ HostBits, IInv, TrieOK, Hop \subseteq Hop', IInv', PathsClosed',
         NEW p \in Prefix, p \in nodes', NEW marks, marks \subseteq nodes',
         UpdateTrie(Turn, p, marks), ~ lost',
         NEW a \in Addr, Covers(p, a), Enough(Tree(marks), p, a),
         \A d \in Addr : poptrie_lookup(d) = rib_lookup(d),
         \A d \in Addr : Covers(p, d) \/ rib_lookup(d)' = rib_lookup(d)
  PROVE  poptrie_lookup(a)' = rib_lookup(a)'
<1>1. PICK addr \in Given(p), faults \in Failing :
        \E o : /\ o = Subtree(Tree(marks), Trie, p, addr, Turn, faults)
               /\ Install(Trie, o, p, marks)
  BY UpdateIs
<1>2. addr = p.net
  BY DEF Given
<1>3. PICK o : /\ o = Subtree(Tree(marks), Trie, p, p.net, Turn, faults)
               /\ Install(Trie, o, p, marks)
  BY <1>1, <1>2
<1>4. PICK r, m, f, b : r = Tree(marks) /\ m = Trie /\ f = Trie' /\ b = o.change
  OBVIOUS
<1>5. RibOK(r, Hop') /\ p \in r.nodes /\ r.nodes = nodes' /\ r.marked = marks
  BY <1>4, RibNow
<1>6. HeapOK(m, Hop')
  BY <1>4, MoreHops DEF TrieOK
<1>7. \A d \in Addr : Latest(r, d) = rib_lookup(d)'
  BY <1>4, LatestIs
<1>8. /\ GoodChange(m, b, Hop')
      /\ \A e \in DOMAIN b.leaf \cup b.roots : Above(p, e) \/ Above(e, p)
  BY <1>3, <1>4, <1>5, <1>6, SubtreeTold
<1>9. Installed(f, m, b, p) /\ ~ o.short
  BY <1>3, <1>4, InstallIs
<1>10. HeapOK(f, Hop') /\ Changed(m, b, f)
  BY <1>6, <1>8, <1>9, ChangedIs
<1>11. PICK x : x = Start(m, p, a)
  OBVIOUS
<1>12. ~ Skipped(r, m, x, a)
  BY <1>4, <1>5, <1>6, <1>11, NotSkipped
<1>13. Answers(r, m, x, a) = {Latest(r, a)}
  BY <1>12 DEF Answers
<1>14. Covers(p, a) /\ p.plen \in Nat
  BY PrefixType, Lengths
<1>15. \/ Lookup(f, a) \in Told(b, a)
       \/ Untouched(m, b, f, a) /\ Lookup(f, a) = Lookup(m, a)
  BY <1>6, <1>8, <1>9, ChangedAnswer DEF Installed
<1>16. ASSUME \/ Told(b, a) \subseteq {Latest(r, a)} /\ ~ Untouched(m, b, f, a)
              \/ Told(b, a) \subseteq {Latest(r, a)} /\ Lookup(m, a) = Latest(r, a)
       PROVE  poptrie_lookup(a)' = rib_lookup(a)'
  <2>1. Lookup(f, a) = Latest(r, a)
    BY <1>15, <1>16
  <2> QED
    BY <1>4, <1>7, <2>1 DEF poptrie_lookup
<1>17. CASE p.plen < S
  <2>1. o = Direct(r, m, p, p.net, Turn, faults) /\ x = PrefixOf(a, S)
    BY <1>3, <1>4, <1>11, <1>17 DEF Subtree, Start
  <2>2. Told(b, a) \subseteq {Latest(r, a)}
    BY <1>4, <1>5, <1>6, <1>13, <2>1, DirectTold
  <2>3. WritesEntry(r, m, b, x)
    BY <1>4, <1>5, <1>6, <1>9, <1>14, <1>17, <2>1, DirectTaken
  <2>4. ~ Untouched(m, b, f, a)
    BY <1>5, <1>6, <1>8, <1>10, <1>12, <2>1, <2>3, EntryTaken
  <2> QED
    BY <1>16, <2>2, <2>4
<1>18. CASE ~ p.plen < S
  <2>1. o = Deep(r, m, p, faults) /\ x = Descended_To(m, p) /\ p.plen >= S
    BY <1>3, <1>4, <1>11, <1>14, <1>18, Lengths DEF Subtree, Start
  <2>2. x \in Blocks /\ x \in Prefix /\ Covers(x, a)
    <3>1. x \in Blocks /\ Above(x, p)
      BY <2>1, DescendedSpec
    <3> QED
      BY <1>14, <3>1, BlockType, AboveCovers
  <2>3. Told(b, a) \subseteq {Latest(r, a)}
    BY <1>4, <1>5, <1>6, <1>13, <2>1, <2>2, DeepTold
  <2>4. ASSUME Untouched(m, b, f, a)
        PROVE  Lookup(m, a) = Latest(r, a)
    <3>1. AlikeBelow(r, m, x) /\ x.plen < p.plen
      BY <1>4, <1>5, <1>6, <1>8, <1>9, <1>10, <1>12, <1>14, <2>1, <2>4, DeepTaken
    <3>2. PICK h, g : \A d \in Addr : Covers(x, d) => h \in Answers(r, m, x, d) /\ Lookup(m, d) = g
      BY <3>1 DEF AlikeBelow
    <3>3. h = Latest(r, a) /\ g = Lookup(m, a)
      BY <1>13, <2>2, <3>2
    <3>4. PICK d \in Addr : Covers(x, d) /\ ~ Covers(p, d)
      BY <1>14, <2>2, <3>1, OtherHalf
    <3>5. h \in {Latest(r, d), Lookup(m, d)} /\ Lookup(m, d) = g
      BY <3>2, <3>4 DEF Answers
    <3>6. Latest(r, d) = rib_lookup(d) /\ Lookup(m, d) = rib_lookup(d)
      <4>1. rib_lookup(d)' = rib_lookup(d)
        BY <3>4
      <4> QED
        BY <1>4, <1>7, <4>1 DEF poptrie_lookup
    <3> QED
      BY <3>3, <3>5, <3>6
  <2> QED
    BY <1>16, <2>3, <2>4
<1> QED
  BY <1>17, <1>18

\* _route_add_propagate marks enough.
LEMMA AddEnough ==
  ASSUME IInv, nodes' \subseteq Prefix, NEW p \in Prefix, p \notin valid,
         NEW a \in Addr, Longer(p, a), NEW r, r.nodes = nodes', r.marked = AddMarks(p)
  PROVE  Enough(r, p, a)
<1> SUFFICES ASSUME NEW k \in Prefix, NEW d \in r.nodes, Covers(k, a), p.plen <= k.plen,
                    d.plen = k.plen + 1, Above(k, d)
             PROVE  d \in r.marked
  BY DEF Enough
<1> QED
  BY AddMarked

\* No route ends a single bit into a node that is not the first of its entry.
NoneJustInside == \A q \in Routes, j \in Nat : q.plen # S + j * K + K + 1

\* _route_change_propagate and _route_del_propagate mark enough, if no route has cut
\* off the mark just below the node.
LEMMA HopEnough ==
  ASSUME IInv, NoneJustInside, valid \subseteq Routes, nodes' = nodes, NEW p \in valid,
         NEW a \in Addr, Longer(p, a), NEW r, r.nodes = nodes', r.marked = HopMarks(p)
  PROVE  Enough(r, p, a)
<1> SUFFICES ASSUME NEW k \in Prefix, NEW d \in nodes, Covers(k, a), p.plen <= k.plen,
                    NEW j \in Nat, k.plen = S + j * K + K, d.plen = k.plen + 1, Above(k, d)
             PROVE  d \in HopMarks(p)
  BY DEF Enough
<1>1. valid \subseteq Prefix /\ p \in Prefix /\ d \in Prefix /\ k.plen \in Nat /\ p.plen \in Nat
  BY PrefixType, Lengths DEF IInv, TypeOK
<1>2. Above(p, k) /\ Above(p, d)
  <2>1. Above(p, k)
    BY <1>1, CoverOrder DEF Longer
  <2> QED
    BY <1>1, <2>1, AboveTransitive
<1>3. d \notin valid
  BY DEF NoneJustInside
<1> DEFINE v == ext[d]
<1>4. v \in valid /\ Above(v, d) /\ p.plen <= v.plen
  BY <1>2 DEF IInv, ExtIsNearestRoute
<1>5. v \in Prefix /\ v.plen \in Nat
  BY <1>1, <1>4, PrefixType, Lengths
<1> HIDE DEF v
<1>6. v.plen <= k.plen
  <2>1. v.plen <= d.plen /\ d.plen \in Nat
    BY <1>1, <1>4, PrefixType, Lengths DEF Above
  <2>2. v.plen # d.plen
    <3> SUFFICES ASSUME v.plen = d.plen
                 PROVE  FALSE
      OBVIOUS
    <3>1. v = d
      BY <1>1, <1>4, <1>5, AboveReflexive, AboveSameLength
    <3> QED
      BY <1>3, <1>4, <3>1
  <2> QED
    BY <1>1, <1>5, <2>1, <2>2
<1>7. Covers(v, a)
  <2>1. Above(v, k)
    BY <1>1, <1>4, <1>5, <1>6, AboveLinear
  <2> QED
    BY <1>5, <2>1, AboveCovers
<1>8. v = p
  <2>1. v.plen <= p.plen
    BY <1>4, <1>7 DEF Longer
  <2>2. v.plen = p.plen
    BY <1>1, <1>4, <1>5, <2>1
  <2> QED
    BY <1>1, <1>5, <1>7, <2>2, CoverOrder DEF Longer
<1> QED
  BY <1>1, <1>2, <1>8, AboveReflexive DEF HopMarks, v

\* A route that goes was the longest for an address, or changes nothing for it.
LEMMA LongestWithout ==
  ASSUME valid \subseteq Prefix, NEW p \in valid, valid' = valid \ {p}, NEW a \in Addr
  PROVE  Longer(p, a) \/ Longest(valid', a) = Longest(valid, a)
<1>1. CASE ~ Covers(p, a)
  BY <1>1 DEF Longest
<1>2. CASE \E q \in valid : Covers(q, a) /\ ~ q.plen <= p.plen
  <2>1. PICK q \in valid : Covers(q, a) /\ ~ q.plen <= p.plen
    BY <1>2
  <2>2. q \in valid' /\ p.plen <= q.plen /\ p.plen \in Nat /\ q.plen \in Nat
    <3>1. q.plen \in Nat /\ p.plen \in Nat
      BY PrefixType, Lengths
    <3> QED
      BY <2>1, <3>1
  <2>3. ASSUME NEW v \in valid', q.plen <= v.plen
        PROVE  p.plen <= v.plen
    <3>1. v.plen \in Nat
      BY PrefixType, Lengths
    <3> QED
      BY <2>2, <2>3, <3>1
  <2> QED
    BY <2>1, <2>2, <2>3 DEF Longest
<1> QED
  BY <1>1, <1>2 DEF Longer

\* An update whose marks are enough makes the trie follow, if nothing has changed for
\* the addresses the route is not the longest for.
LEMMA UpdateFollows ==
  ASSUME ~ HostBits, IInv, TrieOK, Hop \subseteq Hop', IInv', PathsClosed',
         NEW p \in Prefix, p \in nodes', NEW marks, marks \subseteq nodes',
         UpdateTrie(Turn, p, marks), ~ lost', NEW a \in Addr,
         poptrie_lookup(a)' \in {poptrie_lookup(a), rib_lookup(a)'},
         \A d \in Addr : poptrie_lookup(d) = rib_lookup(d),
         \A d \in Addr : Longer(p, d) \/ rib_lookup(d)' = rib_lookup(d),
         Longer(p, a) => Enough(Tree(marks), p, a)
  PROVE  poptrie_lookup(a)' = rib_lookup(a)'
<1>1. CASE Longer(p, a)
  <2>1. Covers(p, a) /\ \A d \in Addr : Covers(p, d) \/ rib_lookup(d)' = rib_lookup(d)
    BY <1>1 DEF Longer
  <2> QED
    BY <1>1, <2>1, UpdateTaken
<1>2. CASE ~ Longer(p, a)
  BY <1>2
<1> QED
  BY <1>1, <1>2

\* The induction step: the routes stay as they are, and every answer with them, or
\* one of them is new, changed or gone, and the addresses it is the longest for follow.
LEMMA StepFollows ==
  ASSUME ~ HostBits, TInv, TrieFollowsRib, [TrieNext]_allVars, ~ lost', NEW a \in Addr,
         RoutesStand \/ (NoneJustInside /\ valid \subseteq Routes)
  PROVE  poptrie_lookup(a)' = rib_lookup(a)'
<1>1. IInv /\ PathsClosed /\ TrieOK /\ TypeOK /\ mark \subseteq nodes
  BY DEF TInv, IInv, TrieOK
<1>2. IInv' /\ PathsClosed' /\ nodes' \subseteq Prefix
  <2>1. IInv' /\ PathsClosed'
    BY <1>1, RibStep, TrieNextBy
  <2> QED
    BY <2>1 DEF IInv, TypeOK
<1>3. /\ nodes \subseteq nodes' /\ Hop \subseteq Hop'
      /\ poptrie_lookup(a)' \in {poptrie_lookup(a), rib_lookup(a)'}
  BY <1>1, UpdateOrNot, AnswersStep, TrieNextBy
<1>4. valid \subseteq Prefix /\ valid \subseteq nodes
  BY <1>1 DEF TypeOK
<1>5. ~ lost /\ \A d \in Addr : poptrie_lookup(d) = rib_lookup(d)
  <2>1. CASE UNCHANGED <<mark, trie>>
    BY <2>1 DEF trie, TrieFollowsRib
  <2>2. CASE \E p \in nodes', marks \in SUBSET nodes' : UpdateTrie(Turn, p, marks)
    <3>1. PICK p, marks, o : Install(Trie, o, p, marks)
      BY <2>2, UpdateIs
    <3>2. lost' = (lost \/ o.short)
      BY <3>1, InstallIs
    <3> QED
      BY <3>2 DEF TrieFollowsRib
  <2> QED
    BY <1>1, <2>1, <2>2, UpdateOrNot, TrieNextBy
<1>6. CASE UNCHANGED route
  <2>1. rib_lookup(a)' = rib_lookup(a)
    BY <1>1, <1>2, <1>6, RibSame DEF valid
  <2> QED
    BY <1>3, <1>5, <2>1
<1>7. ASSUME NEW p \in Prefix, NEW d \in Addr, ~ Longer(p, d),
             \/ valid' = valid \cup {p} /\ \A q \in valid : q # p => route'[q] = route[q]
             \/ p \in valid /\ valid' = valid \ {p}
                /\ \A q \in valid : q # p => route'[q] = route[q]
      PROVE  rib_lookup(d)' = rib_lookup(d)
  <2>1. Longest(valid', d) = Longest(valid, d)
    BY <1>4, <1>7, LongestAfter, LongestWithout
  <2>2. p \notin Longest(valid, d)
    BY <1>7 DEF Longest, Longer
  <2>3. \A q \in Longest(valid, d) : route'[q] = route[q]
    BY <1>7, <2>2 DEF Longest
  <2> QED
    BY <1>1, <1>2, <2>1, <2>3, RibSame
<1>8. ASSUME NEW p \in Prefix, p \notin valid, NEW n, InsertRoute(p, n),
             UpdateTrie(Turn, p, AddMarks(p))
      PROVE  poptrie_lookup(a)' = rib_lookup(a)'
  <2>1. valid' = valid \cup {p} /\ \A q \in valid : route'[q] = route[q]
    BY <1>8 DEF InsertRoute, valid
  <2>2. p \in nodes' /\ AddMarks(p) \subseteq nodes'
    BY <1>1, <1>3, <1>8, PathType DEF InsertRoute, AddMarks
  <2>3. \A d \in Addr : Longer(p, d) \/ rib_lookup(d)' = rib_lookup(d)
    BY <1>7, <2>1
  <2>4. PICK r : r = Tree(AddMarks(p)) /\ r.nodes = nodes' /\ r.marked = AddMarks(p)
    <3>1. PICK r : r = Tree(AddMarks(p))
      OBVIOUS
    <3> QED
      BY <1>2, <3>1, RibNow
  <2>5. Longer(p, a) => Enough(r, p, a)
    BY <1>1, <1>2, <1>8, <2>4, AddEnough
  <2> QED
    BY <1>1, <1>2, <1>3, <1>5, <1>8, <2>2, <2>3, <2>4, <2>5, UpdateFollows
<1>9. ASSUME NEW p \in valid, nodes' = nodes, NoneJustInside, valid \subseteq Routes,
             valid' = valid \/ valid' = valid \ {p},
             \A q \in valid : q # p => route'[q] = route[q],
             UpdateTrie(Turn, p, HopMarks(p))
      PROVE  poptrie_lookup(a)' = rib_lookup(a)'
  <2>1. p \in Prefix /\ p \in nodes' /\ HopMarks(p) \subseteq nodes'
    BY <1>1, <1>4, <1>9 DEF HopMarks
  <2>2. \A d \in Addr : Longer(p, d) \/ rib_lookup(d)' = rib_lookup(d)
    BY <1>7, <1>9, <2>1
  <2>3. PICK r : r = Tree(HopMarks(p)) /\ r.nodes = nodes' /\ r.marked = HopMarks(p)
    <3>1. PICK r : r = Tree(HopMarks(p))
      OBVIOUS
    <3> QED
      BY <1>2, <3>1, RibNow
  <2>4. Longer(p, a) => Enough(r, p, a)
    BY <1>1, <1>9, <2>3, HopEnough
  <2> QED
    BY <1>1, <1>2, <1>3, <1>5, <1>9, <2>1, <2>2, <2>3, <2>4, UpdateFollows
<1>10. ASSUME NEW p \in valid, NEW n, ReplaceHop(p, n)
       PROVE  /\ nodes' = nodes /\ valid' = valid /\ \A q \in valid : q # p => route'[q] = route[q]
              /\ route'[p] = route[p] => UNCHANGED route
              /\ route'[p] = n
  <2>1. route = [q \in valid |-> route[q]]
    BY <1>1 DEF TypeOK, valid
  <2>2. route' = [route EXCEPT ![p] = n] /\ nodes' = nodes
    BY <1>10 DEF ReplaceHop
  <2> QED
    BY <2>1, <2>2 DEF valid
<1>11. ASSUME NEW p \in valid, NEW n, ReplaceHop(p, n),
              n = route[p] \/ UpdateTrie(Turn, p, HopMarks(p))
       PROVE  poptrie_lookup(a)' = rib_lookup(a)'
  <2>1. CASE route'[p] = route[p]
    BY <1>6, <1>10, <1>11, <2>1
  <2>2. CASE route'[p] # route[p]
    <3>1. NoneJustInside /\ valid \subseteq Routes
      BY <2>2 DEF RoutesStand
    <3>2. UpdateTrie(Turn, p, HopMarks(p))
      BY <1>10, <1>11, <2>2
    <3> QED
      BY <1>9, <1>10, <1>11, <3>1, <3>2
  <2> QED
    BY <2>1, <2>2
<1>12. CASE UNCHANGED allVars
  BY <1>6, <1>12 DEF allVars, vars
<1>13. CASE TrieNext
  <2>1. PICK p \in Routes :
          \/ \E h \in NextHop :
               \/ TrieAdd(p, h)
               \/ TrieUpdate(p, h)
               \/ TrieChange(p, h)
               \/ \E k \in 0 .. p.plen : OutOfMemory(p, h, k)
          \/ TrieDel(p)
    BY <1>13 DEF TrieNext
  <2>2. p \in Prefix
    BY RadixAssumption
  <2>3. ASSUME NEW h \in NextHop, TrieAdd(p, h)
        PROVE  poptrie_lookup(a)' = rib_lookup(a)'
    BY <1>6, <1>8, <2>2, <2>3 DEF TrieAdd, RouteAdd
  <2>4. ASSUME NEW h \in NextHop, TrieUpdate(p, h)
        PROVE  poptrie_lookup(a)' = rib_lookup(a)'
    BY <1>8, <1>11, <2>2, <2>4 DEF TrieUpdate, RouteUpdate
  <2>5. ASSUME NEW h \in NextHop, TrieChange(p, h)
        PROVE  poptrie_lookup(a)' = rib_lookup(a)'
    BY <1>6, <1>11, <2>5 DEF TrieChange, RouteChange
  <2>6. ASSUME NEW h \in NextHop, NEW k \in 0 .. p.plen, OutOfMemory(p, h, k)
        PROVE  poptrie_lookup(a)' = rib_lookup(a)'
    BY <1>6, <2>6 DEF OutOfMemory
  <2>7. ASSUME TrieDel(p)
        PROVE  poptrie_lookup(a)' = rib_lookup(a)'
    <3>1. /\ p \in valid /\ nodes' = nodes /\ valid' = valid \ {p}
          /\ \A q \in valid : q # p => route'[q] = route[q]
          /\ UpdateTrie(Turn, p, HopMarks(p))
      BY <2>7 DEF TrieDel, RouteDel, valid
    <3>2. ~ RoutesStand
      BY <3>1 DEF RoutesStand
    <3> QED
      BY <1>9, <3>1, <3>2
  <2> QED
    BY <2>1, <2>3, <2>4, <2>5, <2>6, <2>7
<1> QED
  BY <1>12, <1>13

\* The same for the property.
LEMMA StepFollowed ==
  ASSUME ~ HostBits, TInv, TrieFollowsRib, [TrieNext]_allVars,
         RoutesStand \/ (NoneJustInside /\ valid \subseteq Routes)
  PROVE  TrieFollowsRib'
<1>1. ~ lost' => \A a \in Addr : poptrie_lookup(a)' = rib_lookup(a)'
  BY StepFollows
<1> QED
  BY <1>1 DEF TrieFollowsRib

\* The routes are those the callers use.
LEMMA RoutesUsed ==
  ASSUME valid \subseteq Routes, [TrieNext]_allVars
  PROVE  valid' \subseteq Routes
<1>1. CASE UNCHANGED route
  BY <1>1 DEF valid
<1>2. \A p \in Routes : \A n : InsertRoute(p, n) => valid' \subseteq Routes
  BY DEF InsertRoute, valid
<1>3. \A p, n : ReplaceHop(p, n) => valid' \subseteq Routes
  BY DEF ReplaceHop, valid
<1>4. CASE UNCHANGED allVars
  BY <1>1, <1>4 DEF allVars, vars
<1>5. CASE TrieNext
  <2>1. PICK p \in Routes :
          \/ \E h \in NextHop :
               \/ TrieAdd(p, h)
               \/ TrieUpdate(p, h)
               \/ TrieChange(p, h)
               \/ \E k \in 0 .. p.plen : OutOfMemory(p, h, k)
          \/ TrieDel(p)
    BY <1>5 DEF TrieNext
  <2>2. ASSUME NEW h \in NextHop, TrieAdd(p, h)
        PROVE  valid' \subseteq Routes
    BY <1>1, <1>2, <2>2 DEF TrieAdd, RouteAdd
  <2>3. ASSUME NEW h \in NextHop, TrieUpdate(p, h)
        PROVE  valid' \subseteq Routes
    BY <1>2, <1>3, <2>3 DEF TrieUpdate, RouteUpdate
  <2>4. ASSUME NEW h \in NextHop, TrieChange(p, h)
        PROVE  valid' \subseteq Routes
    BY <1>1, <1>3, <2>4 DEF TrieChange, RouteChange
  <2>5. ASSUME NEW h \in NextHop, NEW k \in 0 .. p.plen, OutOfMemory(p, h, k)
        PROVE  valid' \subseteq Routes
    BY <1>1, <2>5 DEF OutOfMemory
  <2>6. TrieDel(p) => valid' \subseteq Routes
    BY DEF TrieDel, RouteDel, valid
  <2> QED
    BY <2>1, <2>2, <2>3, <2>4, <2>5, <2>6
<1> QED
  BY <1>4, <1>5

\* An addition leaves the routes there are as they were.
LEMMA AdditionsStand ==
  ASSUME Operations \subseteq {"add"}, [TrieNext]_allVars
  PROVE  RoutesStand
<1>1. CASE UNCHANGED route
  BY <1>1 DEF RoutesStand, valid
<1>2. ASSUME NEW p, NEW n, InsertRoute(p, n), p \notin valid
      PROVE  RoutesStand
  BY <1>2 DEF InsertRoute, RoutesStand, valid
<1>3. CASE UNCHANGED allVars
  BY <1>1, <1>3 DEF allVars, vars
<1>4. CASE TrieNext
  <2>1. PICK p \in Routes, h \in NextHop :
          \/ TrieAdd(p, h)
          \/ \E k \in 0 .. p.plen : OutOfMemory(p, h, k)
    BY <1>4 DEF TrieNext
  <2>2. CASE TrieAdd(p, h)
    BY <1>1, <1>2, <2>2 DEF TrieAdd, RouteAdd
  <2>3. CASE \E k \in 0 .. p.plen : OutOfMemory(p, h, k)
    BY <1>1, <2>3 DEF OutOfMemory
  <2> QED
    BY <2>1, <2>2, <2>3
<1> QED
  BY <1>3, <1>4

\* Before the first route every address has the next hop 0.
LEMMA FollowsInit == TrieInit => TrieFollowsRib
<1> SUFFICES ASSUME TrieInit, NEW a \in Addr
             PROVE  poptrie_lookup(a) = rib_lookup(a)
  BY DEF TrieFollowsRib
<1>1. route = [p \in {} |-> 0] /\ dir = [j \in Index |-> LeafEntry(0)]
  BY DEF TrieInit, Init
<1>2. rib_lookup(a) = 0
  BY <1>1 DEF rib_lookup, valid
<1>3. PrefixOf(a, S) \in Index
  BY EntryOf
<1>4. Trie.dir[PrefixOf(a, S)] = LeafEntry(0)
  BY <1>1, <1>3, TrieIs
<1>5. Lookup(Trie, a) = 0
  BY <1>4 DEF Lookup, LeafEntry
<1> QED
  BY <1>2, <1>5 DEF poptrie_lookup

\* When the callers pass prefixes without bits beyond their length, an operation
\* that leaves every route there is as it was leaves poptrie_lookup in agreement
\* with the radix tree, while no allocation of an update fails.
THEOREM TrieTakesNewRoutes == ~ HostBits => (TrieSpec => NewRoutesFollowed)
<1> SUFFICES ASSUME ~ HostBits
             PROVE  TrieSpec => NewRoutesFollowed
  OBVIOUS
<1>1. TInv /\ [TrieNext]_allVars =>
        [TrieFollowsRib /\ RoutesStand => TrieFollowsRib']_allVars
  BY StepFollowed
<1> QED
  BY <1>1, TrieInvariance, PTL DEF TrieSpec, NewRoutesFollowed

\* While routes are only added, no allocation of an update fails, and the callers
\* pass prefixes without bits beyond their length, poptrie_lookup answers what the
\* radix tree does, also after additions that left nodes without a route.
THEOREM AdditionsFollowed ==
  ~ HostBits /\ Operations \subseteq {"add"} => (TrieSpec => []TrieFollowsRib)
<1> SUFFICES ASSUME ~ HostBits, Operations \subseteq {"add"}
             PROVE  TrieSpec => []TrieFollowsRib
  OBVIOUS
<1>1. TInv /\ TrieFollowsRib /\ [TrieNext]_allVars => TrieFollowsRib'
  BY AdditionsStand, StepFollowed
<1> QED
  BY <1>1, FollowsInit, TrieInvariance, PTL DEF TrieSpec

\* So it does with changes and deletions, too, if no route ends a single bit into a
\* node: what poptrie_stale needs is just such a route, which hides the one that is
\* changed from the test of the marks.
THEOREM TrieFollows == ~ HostBits /\ NoneJustInside => (TrieSpec => []TrieFollowsRib)
<1> SUFFICES ASSUME ~ HostBits, NoneJustInside
             PROVE  TrieSpec => []TrieFollowsRib
  OBVIOUS
<1>1. TrieInit => TrieFollowsRib /\ valid \subseteq Routes
  <2>1. TrieInit => valid \subseteq Routes
    BY DEF TrieInit, Init, valid
  <2> QED
    BY <2>1, FollowsInit
<1>2. TInv /\ TrieFollowsRib /\ valid \subseteq Routes /\ [TrieNext]_allVars =>
        TrieFollowsRib' /\ (valid \subseteq Routes)'
  <2> SUFFICES ASSUME TInv, TrieFollowsRib, valid \subseteq Routes, [TrieNext]_allVars
               PROVE  TrieFollowsRib' /\ (valid \subseteq Routes)'
    OBVIOUS
  <2>1. TrieFollowsRib'
    BY StepFollowed
  <2>2. valid' \subseteq Routes
    BY RoutesUsed
  <2> QED
    BY <2>1, <2>2
<1> QED
  BY <1>1, <1>2, TrieInvariance, PTL DEF TrieSpec

-----------------------------------------------------------------------------
\* The trie for IPv6.

\* What is left of a division.
LEMMA Division ==
  ASSUME NEW a \in Nat, NEW b \in Nat \ {0}
  PROVE  a % b \in 0 .. b - 1 /\ \E q \in Nat : a = q * b + (a % b)
<1>1. a % b \in 0 .. b - 1
  OBVIOUS
<1>2. a = (a \div b) * b + (a % b) /\ a \div b \in Nat
  OBVIOUS
<1> QED
  BY <1>1, <1>2

\* A turn of _update_dp2 that is shifted by its width sets the bits up to that of
\* the depth, or all of them at the root, but none before.
LEMMA TurnAhead6 == TurnsAhead(Turn6)
<1> SUFFICES ASSUME NEW d \in 0 .. S - 1, NEW k \in Turn6[d]
             PROVE  k \in 1 .. Width /\ d < k
  BY DEF TurnsAhead
<1> DEFINE w == Width - d - 1
           n == w % IntBits
<1>1. /\ d \in 0 .. Width - 1 /\ d \in Nat /\ w \in Nat /\ d + w + 1 = Width /\ Width \in Nat
      /\ IntBits \in Nat \ {0} /\ d < IntBits /\ Width % IntBits = 0
  BY Lengths, IntAssumption
<1>2. k \in 1 .. Width /\ (k = Width - n \/ (n = IntBits - 1 /\ k < Width - n))
  BY <1>1 DEF Turn6
<1> HIDE DEF w
<1>3. PICK q \in Nat : n \in 0 .. IntBits - 1 /\ w = q * IntBits + n
  BY <1>1, Division
<1> HIDE DEF n
<1>4. n <= w
  <2>1. q * IntBits \in Nat
    BY <1>1
  <2> QED
    BY <1>1, <1>3, <2>1
<1>5. CASE k = Width - n
  BY <1>1, <1>2, <1>3, <1>4, <1>5
<1>6. CASE n = IntBits - 1
  <2>1. PICK t \in Nat : Width = t * IntBits
    <3>1. PICK t \in Nat : Width = t * IntBits + (Width % IntBits)
      BY <1>1, Division
    <3>2. PICK r : r = Width % IntBits
      OBVIOUS
    <3>3. Width = t * IntBits + r
      BY <3>1, <3>2
    <3>4. r = 0 /\ t * IntBits \in Nat
      BY <1>1, <3>2
    <3> QED
      BY <3>3, <3>4
  <2>2. t * IntBits = q * IntBits + IntBits + d
    BY <1>1, <1>3, <1>6, <2>1
  <2>3. d = 0
    <3>1. (t - q - 1) * IntBits = d
      BY <1>1, <2>2
    <3>2. t - q - 1 \in Int
      OBVIOUS
    <3>3. CASE t - q - 1 >= 1
      <4>1. (t - q - 1) * IntBits >= IntBits
        BY <1>1, <3>2, <3>3
      <4> QED
        BY <1>1, <3>1, <4>1
    <3>4. CASE t - q - 1 <= 0
      <4>1. (t - q - 1) * IntBits <= 0
        BY <1>1, <3>2, <3>4
      <4> QED
        BY <1>1, <3>1, <4>1
    <3> QED
      BY <3>2, <3>3, <3>4
  <2> QED
    BY <1>2, <2>3
<1> QED
  BY <1>2, <1>5, <1>6

\* The steps are those of the other trie, but for the turns.
LEMMA UpdateBy6 ==
  ASSUME NEW p, NEW marks
  PROVE  UpdateTrie6(p, marks) <=> UpdateTrie(Turn6, p, marks)
BY DEF UpdateTrie6, UpdateTrie, Subtree6, Subtree, Direct6, Deep6, Deep, Link6, Inode6, Install6

LEMMA TrieNextBy6 == [Next6]_allVars => [NextBy(Turn6)]_allVars
BY UpdateBy6 DEF Next6, NextBy, TrieAdd6, TrieUpdate6, TrieChange6, TrieDel6

\* So the invariant is the same, for all routes and whatever addresses are passed:
\* what the writes in the wrong places leave to nobody is in leaked.
THEOREM Trie6Invariance == Spec6 => []TInv
<1>1. TInv /\ [Next6]_allVars => TInv'
  BY TInvStep, TurnAhead6, TrieNextBy6
<1>2. Init6 => TInv
  BY TInvInit DEF Init6
<1> QED
  BY <1>1, <1>2, PTL DEF Spec6

\* Whatever is added, updated, changed and deleted, and whichever allocation fails,
\* an update of the trie of IPv6 leaves no dangling reference, gives back no array
\* that is in use or was given back before, and no two nodes share one.
THEOREM Trie6StaysIntact == Spec6 => []TrieIntact
<1>1. Spec6 => []TInv
  BY Trie6Invariance
<1> QED
  BY <1>1, IntactFollows, PTL

\* A route shorter than the index has no longer ones to its right within the index.
NoneToTheRight ==
  \A p, q \in Routes : p.plen < S /\ Above(p, q) => \A k \in p.plen + 1 .. S : q.net[k] = 0

\* Every node is on the path of a route the callers use.
NodesUsed == \A x \in nodes : \E q \in Routes : x \in Path(q)

LEMMA NodesStayUsed ==
  ASSUME NodesUsed, [Next]_vars
  PROVE  NodesUsed'
<1> SUFFICES ASSUME NEW x \in nodes'
             PROVE  \E q \in Routes : x \in Path(q)
  BY DEF NodesUsed
<1>1. ASSUME NEW p \in Routes, NEW k \in 0 .. p.plen,
             x \in nodes \cup {PrefixOf(p.net, l) : l \in 0 .. k - 1}
      PROVE  \E q \in Routes : x \in Path(q)
  <2>1. p.plen \in Nat
    BY RadixAssumption, PrefixType, Lengths
  <2>2. \A l \in 0 .. k - 1 : l \in 0 .. p.plen
    BY <2>1
  <2> QED
    BY <1>1, <2>2 DEF NodesUsed, Path
<1>2. \A p \in Routes : x \in nodes \cup Path(p) => \E q \in Routes : x \in Path(q)
  BY DEF NodesUsed
<1>3. nodes' = nodes => \E q \in Routes : x \in Path(q)
  BY DEF NodesUsed
<1>4. CASE UNCHANGED vars
  BY <1>3, <1>4 DEF vars
<1>5. CASE Next
  <2>1. PICK p \in Routes :
          \/ \E h \in NextHop :
               \/ RouteAdd(p, h)
               \/ RouteUpdate(p, h)
               \/ RouteChange(p, h)
               \/ \E k \in 0 .. p.plen : OutOfMemory(p, h, k)
          \/ RouteDel(p)
    BY <1>5 DEF Next
  <2>2. \A h : RouteAdd(p, h) \/ RouteUpdate(p, h) \/ RouteChange(p, h) \/ RouteDel(p)
          => nodes' = nodes \/ nodes' = nodes \cup Path(p)
    BY DEF RouteAdd, RouteUpdate, RouteChange, RouteDel, InsertRoute, ReplaceHop
  <2>3. \A h : \A k \in 0 .. p.plen : OutOfMemory(p, h, k) =>
          nodes' = nodes \cup {PrefixOf(p.net, l) : l \in 0 .. k - 1}
    BY DEF OutOfMemory
  <2> QED
    BY <1>1, <1>2, <1>3, <2>1, <2>2, <2>3
<1> QED
  BY <1>4, <1>5

\* Then the walk makes no turn before it has left the nodes.
LEMMA NoTurns ==
  ASSUME NoneToTheRight, NEW r, NEW H, RibOK(r, H),
         \A x \in r.nodes : \E q \in Routes : x \in Path(q),
         NEW p \in r.nodes, p \in Routes, p.plen < S, NEW z \in Index, Above(p, z),
         NEW n, n = Deepest(Path(z) \cap r.nodes)
  PROVE  {c \in p.plen .. n.plen - 1 : z.net[c + 1] = 1} = {}
<1>1. n \in r.nodes /\ n \in Path(z) /\ n.plen \in p.plen .. S
  BY LastNode
<1>2. PICK q \in Routes : n \in Path(q)
  BY <1>1
<1>3. /\ p \in Prefix /\ q \in Prefix /\ z \in Prefix /\ n \in Prefix
      /\ p.plen \in Nat /\ n.plen \in Nat /\ p.plen <= n.plen /\ n.plen <= S /\ S <= Width
  <2>1. p \in Prefix /\ q \in Prefix /\ z \in Prefix /\ n \in Prefix
    BY <1>1, RadixAssumption, BlocksAre DEF RibOK
  <2>2. p.plen \in Nat /\ n.plen \in Nat
    BY <2>1, PrefixType, Lengths
  <2> QED
    BY <1>1, <2>1, <2>2, Lengths
<1>4. Above(n, z) /\ Above(n, q)
  BY <1>1, <1>2, <1>3, OnPath
<1>5. Above(p, q)
  <2>1. Above(p, n)
    BY <1>3, <1>4, AboveLinear
  <2> QED
    BY <1>3, <1>4, <2>1, AboveTransitive
<1>6. ASSUME NEW c \in p.plen .. n.plen - 1
      PROVE  z.net[c + 1] # 1
  <2>1. c + 1 \in p.plen + 1 .. S /\ c + 1 \in 1 .. Width /\ c + 1 <= n.plen
    BY <1>3, Lengths
  <2>2. q.net[c + 1] = 0
    BY <1>5, <2>1 DEF NoneToTheRight
  <2>3. Mask(z.net, n.plen)[c + 1] = z.net[c + 1] /\ Mask(q.net, n.plen)[c + 1] = q.net[c + 1]
    BY <2>1 DEF Mask
  <2> QED
    BY <1>4, <2>2, <2>3 DEF Above
<1> DEFINE D == p.plen .. n.plen - 1
<1>7. \A c \in D : z.net[c + 1] # 1
  BY <1>6
<1> HIDE DEF D
<1>8. {c \in D : z.net[c + 1] = 1} = {}
  BY <1>7
<1> QED
  BY <1>8 DEF D

\* So it writes what the walk with the other turns does.
LEMMA DirectBy6 ==
  ASSUME NoneToTheRight, NEW r, NEW H, RibOK(r, H),
         \A x \in r.nodes : \E q \in Routes : x \in Path(q),
         NEW p \in r.nodes, p \in Routes, p.plen < S, NEW m, NEW addr, NEW faults
  PROVE  Direct(r, m, p, addr, Turn6, faults) = Direct(r, m, p, addr, Turn, faults)
<1> DEFINE Z == {x \in Index : Above(p, x)}
           tried(turn) == {WriteFor(turn, r, m, p, addr, z) : z \in Z}
<1>1. ASSUME NEW z \in Z
      PROVE  WriteFor(Turn6, r, m, p, addr, z) = WriteFor(Turn, r, m, p, addr, z)
  <2> DEFINE n == Deepest(Path(z) \cap r.nodes)
             D == {c \in p.plen .. n.plen - 1 : z.net[c + 1] = 1}
  <2>1. D = {}
    BY NoTurns
  <2>2. UNION {Turn6[d] : d \in D} = UNION {Turn[d] : d \in D}
    <3> HIDE DEF D
    <3> QED
      BY <2>1
  <2>3. Written(Turn6, p, addr, z, n.plen) = Written(Turn, p, addr, z, n.plen)
    <3> HIDE DEF n
    <3> QED
      BY <2>2 DEF Written
  <2> QED
    BY <2>3 DEF WriteFor
<1>2. tried(Turn6) = tried(Turn)
  BY <1>1
<1>3. \A turn : Direct(r, m, p, addr, turn, faults) = Writes(tried(turn), faults)
  BY DEF Direct, WriteFor
<1> HIDE DEF tried
<1> QED
  BY <1>2, <1>3

LEMMA UpdateBy ==
  ASSUME NoneToTheRight, IInv', PathsClosed', NodesUsed', NEW p \in Routes, p \in nodes',
         NEW marks, UpdateTrie6(p, marks)
  PROVE  UpdateTrie(Turn, p, marks)
<1>1. PICK r, m : r = Tree(marks) /\ m = Trie
  OBVIOUS
<1>2. RibOK(r, Hop') /\ r.nodes = nodes' /\ r.marked = marks
  BY <1>1, RibNow
<1>3. PICK addr \in Given(p), faults \in Failing :
        \E o \in {Subtree(r, m, p, addr, Turn6, faults)} : Install(m, o, p, r.marked)
  BY <1>1, UpdateBy6 DEF UpdateTrie
<1>4. Subtree(r, m, p, addr, Turn6, faults) = Subtree(r, m, p, addr, Turn, faults)
  <2>1. \A x \in r.nodes : \E q \in Routes : x \in Path(q)
    BY <1>2 DEF NodesUsed
  <2>2. p.plen < S => Direct(r, m, p, addr, Turn6, faults) = Direct(r, m, p, addr, Turn, faults)
    BY <1>2, <2>1, DirectBy6
  <2> QED
    BY <2>2 DEF Subtree
<1> QED
  BY <1>1, <1>3, <1>4 DEF UpdateTrie

LEMMA StepBy ==
  ASSUME NoneToTheRight, TInv, NodesUsed, [Next6]_allVars
  PROVE  NodesUsed' /\ [TrieNext]_allVars
<1>1. [NextBy(Turn6)]_allVars
  BY TrieNextBy6
<1>2. TypeOK /\ IInv /\ PathsClosed
  BY DEF TInv, IInv
<1>3. IInv' /\ PathsClosed'
  BY <1>1, <1>2, RibStep
<1>4. NodesUsed'
  BY <1>1, TrieStep, NodesStayUsed
<1>5. ASSUME NEW p \in Routes, NEW h \in NextHop
      PROVE  /\ RouteAdd(p, h) \/ RouteUpdate(p, h) \/ RouteDel(p) => p \in nodes'
             /\ RouteChange(p, h) /\ p \in valid => p \in nodes'
  <2>1. p \in Prefix
    BY RadixAssumption
  <2> QED
    BY <1>2, <2>1, RibSteps
<1>6. \A p \in Routes : \A marks :
        p \in nodes' /\ UpdateTrie6(p, marks) => UpdateTrie(Turn, p, marks)
  BY <1>3, <1>4, UpdateBy
<1>7. ASSUME NEW p \in Routes, NEW h \in NextHop
      PROVE  /\ TrieAdd6(p, h) => TrieAdd(p, h)
             /\ TrieUpdate6(p, h) => TrieUpdate(p, h)
             /\ TrieChange6(p, h) => TrieChange(p, h)
  BY <1>5, <1>6 DEF TrieAdd6, TrieAdd, TrieUpdate6, TrieUpdate, TrieChange6, TrieChange
<1>8. \A p \in Routes : TrieDel6(p) => TrieDel(p)
  <2>1. \A p \in Routes : RouteDel(p) => p \in nodes'
    BY <1>2 DEF RouteDel, TypeOK
  <2> QED
    BY <1>6, <2>1 DEF TrieDel6, TrieDel
<1>9. Next6 => TrieNext
  BY <1>7, <1>8 DEF Next6, TrieNext
<1> QED
  BY <1>4, <1>9

\* The trie for IPv6 is the other one, over longer addresses, if no route shorter than
\* the index has longer ones to its right within the index.
THEOREM Trie6IsTrie == NoneToTheRight => (Spec6 => TrieSpec)
<1> SUFFICES ASSUME NoneToTheRight
             PROVE  Spec6 => TrieSpec
  OBVIOUS
<1>1. Init6 => TrieInit /\ NodesUsed
  BY DEF Init6, TrieInit, Init, NodesUsed
<1>2. TInv /\ NodesUsed /\ [Next6]_allVars => NodesUsed' /\ [TrieNext]_allVars
  BY StepBy
<1> QED
  BY <1>1, <1>2, Trie6Invariance, PTL DEF Spec6, TrieSpec

\* Then it forgets no array either, for prefixes without host bits; with longer routes
\* to the right of a short one it writes entries twice, and loses arrays.
THEOREM Trie6ForgetsNothing ==
  ~ HostBits /\ NoneToTheRight => (Spec6 => []NoArrayForgotten)
<1> SUFFICES ASSUME ~ HostBits, NoneToTheRight
             PROVE  Spec6 => []NoArrayForgotten
  OBVIOUS
<1>1. Spec6 => TrieSpec
  BY Trie6IsTrie
<1>2. TrieSpec => []NoArrayForgotten
  BY TrieForgetsNothing
<1> QED
  BY <1>1, <1>2, PTL

-----------------------------------------------------------------------------
\* Where the indices of the trie for IPv6 are those of the address.

\* No route ends in a block that reaches beyond the address, nor does the first.
NoneBeyond ==
  /\ S + K <= Width
  /\ \A p \in Routes, j \in Nat : S + j * K < p.plen => S + j * K + K <= Width

\* The nodes of the heap m end with the address at the latest.
Inside(m) == \A y \in Blocks : m.pos[y] # NULL => y.plen + K <= Width

\* A node that a change makes was there, or the tree goes on below its block.
NewBlocks(r, m, b) ==
  \A y \in DOMAIN b.hops : \/ m.pos[y] # NULL \/ y.plen = S
                           \/ \E d \in r.nodes : y.plen < d.plen

LEMMA InodeNew ==
  ASSUME NEW m, NEW r, NEW H, RibOK(r, H), NEW x \in Blocks,
         x.plen = S \/ \E d \in r.nodes : x.plen < d.plen, NEW c, c = Inode(r, m, x)
  PROVE  NewBlocks(r, m, c)
<1> SUFFICES ASSUME NEW y \in DOMAIN c.hops, y # x
             PROVE  \E d \in r.nodes : y.plen < d.plen
  BY DEF NewBlocks
<1>1. y \in Reached(r, m, x)
  <2>1. DOMAIN c.hops = MadeOf(r, m, x) /\ c.vec = [z \in MadeOf(r, m, x) |-> KidsOf(r, m, x, z)]
    BY InodeIs
  <2>2. y \in MadeOf(r, m, x)
    BY <2>1
  <2> QED
    BY <2>2 DEF MadeOf
<1>2. y \in Prefix /\ y.plen \in Nat
  BY <1>1, ReachedBlocks, BlockType
<1> DEFINE i == INDEX(y.net, y.plen - K)
<1>3. y.plen >= S + K /\ Rebuilt(r, m, Over(y), i)
  BY <1>1, ReachedOver
<1>4. Kid(Over(y), i) = y
  BY <1>2, <1>3, OverType, Lengths
<1>5. PICK d \in r.nodes : d.plen = y.plen + 1
  BY <1>3, <1>4 DEF Rebuilt, GoesOn, Children
<1> QED
  BY <1>2, <1>5

LEMMA EntryNew ==
  ASSUME NEW m, NEW H, HeapOK(m, H), NEW r, RibOK(r, H), NEW e \in Index, e \in r.nodes,
         NEW b, b = EntryBlock(r, m, e, e)
  PROVE  NewBlocks(r, m, b)
<1> DEFINE c == Inode(r, m, e)
<1>1. e \in Blocks /\ e.plen = S
  BY BlocksAre, Lengths
<1>2. b = LinkEntry(c, e)
  BY DEF EntryBlock
<1>3. Part(m, c, H, e) /\ e \in DOMAIN c.vec /\ e \in DOMAIN c.hops
  BY <1>1, InodePart
<1>4. NewBlocks(r, m, c)
  BY <1>1, InodeNew
<1> HIDE DEF c
<1>5. EntryLinked(b, c, e)
  BY <1>2, <1>3, LinkEntryGood
<1> QED
  BY <1>4, <1>5 DEF EntryLinked, Remade, NewBlocks

LEMMA LinkNew ==
  ASSUME NEW m, NEW H, HeapOK(m, H), NEW r, RibOK(r, H), NEW x \in Blocks, x \in r.nodes,
         x.plen >= S + K, x.plen < Width, m.pos[Over(x)] # NULL,
         \E d \in r.nodes : x.plen < d.plen, NEW b, b = Link(m, Inode(r, m, x), x)
  PROVE  NewBlocks(r, m, b)
<1> DEFINE c == Inode(r, m, x)
<1>1. Part(m, c, H, x) /\ x \in DOMAIN c.vec /\ x \in DOMAIN c.hops
  BY InodePart
<1>2. NewBlocks(r, m, c)
  BY InodeNew
<1> HIDE DEF c
<1>3. CASE ~ Single(c, x)
  <2>1. Parented(m, b, c, x)
    BY <1>1, <1>3, LinkParented DEF c
  <2> QED
    BY <1>2, <2>1 DEF Parented, NewBlocks
<1>4. CASE Single(c, x)
  <2>1. PICK w \in Blocks : Widest(m, x, HopOf(c, x), w) /\ Narrowed(m, b, x, w, HopOf(c, x))
    BY <1>1, <1>4, LinkNarrowed DEF c
  <2>2. m.pos[w] # NULL
    BY <2>1 DEF Widest, Candidates
  <2> QED
    BY <2>1, <2>2 DEF Narrowed, Remade, NewBlocks
<1> QED
  BY <1>3, <1>4

LEMMA DeepNew ==
  ASSUME NEW m, NEW H, HeapOK(m, H), NEW r, RibOK(r, H), NEW p \in r.nodes, p.plen >= S,
         NEW faults, NEW o, o = Deep(r, m, p, faults)
  PROVE  NewBlocks(r, m, o.change)
<1> DEFINE x == Descended_To(m, p)
           b == IF x.plen = S THEN EntryBlock(r, m, x, x) ELSE Link(m, Inode(r, m, x), x)
<1>1. p \in Prefix /\ Path(p) \cap Blocks \subseteq r.nodes
  BY DEF RibOK
<1>2. x \in Descents(m, p) /\ x \in Blocks /\ x \in r.nodes
  BY <1>1, DescendedSpec DEF Descents
<1>3. o = Outcome(b, faults)
  BY DEF Deep
<1> HIDE DEF x
<1>4. NewBlocks(r, m, b)
  <2>1. CASE x.plen = S
    <3>1. x \in Index /\ b = EntryBlock(r, m, x, x)
      BY <1>2, <2>1, BlockType
    <3> HIDE DEF b
    <3> QED
      BY <1>2, <3>1, EntryNew
  <2>2. CASE x.plen # S
    <3>1. S + K <= x.plen /\ x.plen < p.plen /\ m.pos[Over(x)] # NULL
      BY <1>2, <2>2 DEF Descents
    <3>2. x.plen >= S + K /\ x.plen < Width
      <4>1. x.plen \in Nat /\ p.plen \in 0 .. Width
        BY <1>1, <1>2, BlockType, PrefixType
      <4> QED
        BY <3>1, <4>1, Lengths
    <3>3. b = Link(m, Inode(r, m, x), x)
      BY <2>2
    <3> HIDE DEF b
    <3> QED
      BY <1>2, <3>1, <3>2, <3>3, LinkNew
  <2> QED
    BY <2>1, <2>2
<1> HIDE DEF b
<1>5. o.change = b \/ o.change = NoChange
  BY <1>3 DEF Outcome
<1> QED
  BY <1>4, <1>5 DEF NoChange, NewBlocks

LEMMA DirectNew ==
  ASSUME NEW m, NEW H, HeapOK(m, H), NEW r, RibOK(r, H), NEW p \in r.nodes,
         NEW faults, NEW o, o = Direct(r, m, p, p.net, Turn, faults)
  PROVE  NewBlocks(r, m, o.change)
<1> DEFINE b == o.change
<1>1. p.net \in Addr /\ Covers(p, p.net)
  BY PrefixType DEF RibOK, Covers
<1>2. PICK ts : Stays(ts, Turn, r, m, p, p.net, H) /\ IsUnion(b, ts)
  BY <1>1, DirectUnion, TurnAhead
<1>3. SaysWhat(b, ts) /\ ts \subseteq TriedFor(Turn, r, m, p, p.net)
  BY <1>2, UnionOf DEF Stays
<1> HIDE DEF b
<1>4. ASSUME NEW t \in ts
      PROVE  NewBlocks(r, m, t.change)
  <2>1. PICK z \in Index : Above(p, z) /\ t = WriteFor(Turn, r, m, p, p.net, z)
    BY <1>3 DEF TriedFor
  <2>2. OwnWrite(r, m, z, t)
    BY <2>1, WriteIsOwn
  <2>3. CASE z \in r.nodes /\ t.change = EntryBlock(r, m, z, z)
    BY <2>3, EntryNew
  <2>4. CASE t.change = [NoChange EXCEPT !.leaf = With(@, z, r.nh[Deepest(Path(z) \cap r.nodes)])]
    <3>1. t.change.hops = NoChange.hops
      BY <2>4 DEF NoChange
    <3> QED
      BY <3>1 DEF NoChange, NewBlocks
  <2> QED
    BY <2>2, <2>3, <2>4 DEF OwnWrite
<1>5. NewBlocks(r, m, b)
  BY <1>3, <1>4 DEF SaysWhat, NewBlocks
<1> QED
  BY <1>5 DEF b

\* So no node of the heap comes to reach beyond the address.
LEMMA InsideStays ==
  ASSUME NoneBeyond, NEW m, NEW H, HeapOK(m, H), Inside(m), NEW r, RibOK(r, H),
         \A d \in r.nodes : \E q \in Routes : d \in Path(q),
         NEW b, GoodChange(m, b, H), NewBlocks(r, m, b), NEW f, HeapOK(f, H), Changed(m, b, f)
  PROVE  Inside(f)
<1> SUFFICES ASSUME NEW y \in Blocks, f.pos[y] # NULL, m.pos[y] = NULL, y.plen # S
             PROVE  y.plen + K <= Width
  BY DEF Inside, NoneBeyond
<1> DEFINE o == Over(y)
           i == INDEX(y.net, y.plen - K)
<1>1. y \in Prefix /\ y.plen \in Nat
  BY BlockType
<1>2. y.plen >= S + K /\ o \in Blocks /\ f.pos[y] = Child(NodeAt(f, o), i)
  <2>1. f = Heap(f.dir, f.nodes, f.leaves)
    BY DEF HeapOK
  <2>2. y.plen >= S + K
    <3>1. ~ y.plen < S + K
      BY <2>1, Walk
    <3> QED
      BY <1>1, <3>1, Lengths
  <2> QED
    BY <2>1, <2>2, Walk
<1>3. Kid(o, i) = y
  BY <1>1, <1>2, OverType, Lengths
<1> HIDE DEF o, i
<1>4. i \in NodeAt(f, o).vector
  BY <1>2 DEF Child
<1>5. i \in VectorOf(m, b, o)
  <2>1. f.pos[o] # NULL
    BY <1>2, <1>4, KidThere
  <2> QED
    BY <1>2, <1>4, <2>1 DEF Changed
<1>6. i \notin NodeAt(m, o).vector
  BY <1>2, <1>3, KidThere
<1>7. o \in DOMAIN b.vec /\ i \in b.vec[o]
  BY <1>5, <1>6 DEF VectorOf
<1>8. y \in DOMAIN b.hops
  <2>1. GoodVec(m, b, o)
    BY <1>7 DEF GoodChange
  <2> QED
    BY <1>3, <1>7, <2>1 DEF GoodVec
<1>9. PICK d \in r.nodes : y.plen < d.plen
  BY <1>8 DEF NewBlocks
<1>10. PICK q \in Routes : d \in Path(q)
  OBVIOUS
<1>11. y.plen < q.plen
  <2>1. q \in Prefix /\ d \in Prefix
    BY RadixAssumption DEF RibOK
  <2>2. d.plen <= q.plen
    BY <1>10, <2>1, OnPath
  <2>3. d.plen \in Nat /\ q.plen \in Nat
    BY <2>1, PrefixType, Lengths
  <2> QED
    BY <1>1, <1>9, <2>2, <2>3
<1>12. PICK l \in Nat : y.plen = S + l * K
  BY PositionAligned
<1> QED
  BY <1>11, <1>12 DEF NoneBeyond

LEMMA UpdateInside ==
  ASSUME NoneBeyond, ~ HostBits, TrieOK, Hop \subseteq Hop', IInv', PathsClosed', NodesUsed',
         NEW p \in nodes', NEW marks, marks \subseteq nodes', UpdateTrie(Turn, p, marks),
         Inside(Trie)
  PROVE  Inside(Trie')
<1>1. PICK addr \in Given(p), faults \in Failing :
        \E o : /\ o = Subtree(Tree(marks), Trie, p, addr, Turn, faults)
               /\ Install(Trie, o, p, marks)
  BY UpdateIs
<1>2. addr = p.net
  BY DEF Given
<1>3. PICK o : /\ o = Subtree(Tree(marks), Trie, p, p.net, Turn, faults)
               /\ Install(Trie, o, p, marks)
  BY <1>1, <1>2
<1>4. PICK r, m, f, b : r = Tree(marks) /\ m = Trie /\ f = Trie' /\ b = o.change
  OBVIOUS
<1>5. RibOK(r, Hop') /\ p \in r.nodes /\ r.nodes = nodes' /\ p.plen \in Nat
  <2>1. RibOK(r, Hop') /\ p \in r.nodes /\ r.nodes = nodes'
    BY <1>4, RibNow
  <2> QED
    BY <2>1, PrefixType, Lengths DEF RibOK
<1>6. HeapOK(m, Hop')
  BY <1>4, MoreHops DEF TrieOK
<1>7. /\ GoodChange(m, b, Hop')
      /\ \A e \in DOMAIN b.leaf \cup b.roots : Above(p, e) \/ Above(e, p)
  <2>1. INADDR_ANY \in Addr
    BY DEF INADDR_ANY, Addr
  <2> QED
    BY <1>3, <1>4, <1>5, <1>6, <2>1, SubtreeTold
<1>8. Installed(f, m, b, p)
  BY <1>3, <1>4, InstallIs
<1>9. HeapOK(f, Hop') /\ Changed(m, b, f)
  BY <1>6, <1>7, <1>8, ChangedIs
<1>10. NewBlocks(r, m, b)
  <2>1. CASE p.plen < S
    <3>1. o = Direct(r, m, p, p.net, Turn, faults)
      BY <1>3, <1>4, <2>1 DEF Subtree
    <3> QED
      BY <1>4, <1>5, <1>6, <3>1, DirectNew
  <2>2. CASE ~ p.plen < S
    <3>1. o = Deep(r, m, p, faults) /\ p.plen >= S
      BY <1>3, <1>4, <1>5, <2>2, Lengths DEF Subtree
    <3> QED
      BY <1>4, <1>5, <1>6, <3>1, DeepNew
  <2> QED
    BY <2>1, <2>2
<1>11. Inside(f)
  <2>1. \A d \in r.nodes : \E q \in Routes : d \in Path(q)
    BY <1>5 DEF NodesUsed
  <2> QED
    BY <1>4, <1>5, <1>6, <1>7, <1>9, <1>10, <2>1, InsideStays
<1> QED
  BY <1>4, <1>11

LEMMA InsideStep ==
  ASSUME NoneBeyond, ~ HostBits, TInv, NodesUsed, Inside(Trie), [TrieNext]_allVars
  PROVE  NodesUsed' /\ Inside(Trie)'
<1>1. IInv /\ PathsClosed /\ TrieOK /\ TypeOK /\ mark \subseteq nodes
  BY DEF TInv, IInv, TrieOK
<1>2. IInv' /\ PathsClosed' /\ NodesUsed'
  BY <1>1, RibStep, TrieNextBy, TrieStep, NodesStayUsed
<1>3. /\ nodes \subseteq nodes' /\ Hop \subseteq Hop'
      /\ \/ UNCHANGED <<mark, trie>>
         \/ \E p \in nodes', marks \in SUBSET nodes' : UpdateTrie(Turn, p, marks)
  BY <1>1, UpdateOrNot, TrieNextBy
<1>4. CASE UNCHANGED <<mark, trie>>
  <2>1. Trie' = Trie
    BY <1>4 DEF Trie, trie
  <2>2. Inside(Trie')
    BY <2>1
  <2> QED
    BY <1>2, <2>2
<1>5. CASE \E p \in nodes', marks \in SUBSET nodes' : UpdateTrie(Turn, p, marks)
  <2>1. Inside(Trie')
    BY <1>1, <1>2, <1>3, <1>5, UpdateInside
  <2> QED
    BY <1>2, <2>1
<1> QED
  BY <1>3, <1>4, <1>5

LEMMA InsideInit == TrieInit => NodesUsed /\ Inside(Trie)
<1> SUFFICES ASSUME TrieInit
             PROVE  NodesUsed /\ Inside(Trie)
  OBVIOUS
<1>1. nodes = {} /\ dir = [j \in Index |-> LeafEntry(0)]
  BY DEF TrieInit, Init
<1>2. HeapOK(Trie, Hop)
  BY TInvInit DEF TInv, TrieOK
<1>3. ASSUME NEW y \in Blocks, Trie.pos[y] # NULL
      PROVE  FALSE
  <2>1. PICK a \in Addr : a = y.net
    BY BlockType
  <2>2. Covers(y, a) /\ PrefixOf(a, S) \in Index
    BY <2>1, BlockType, PrefixType, EntryOf DEF Covers
  <2>3. Trie.dir[PrefixOf(a, S)].kind # "leaf"
    BY <1>2, <1>3, <2>2, RootAbove
  <2>4. Trie.dir[PrefixOf(a, S)] = LeafEntry(0)
    BY <1>1, <2>2, TrieIs
  <2> QED
    BY <2>3, <2>4 DEF LeafEntry
<1> QED
  BY <1>1, <1>3 DEF NodesUsed, Inside

\* The lookup then finds the leaf that the other lookup finds.
LEMMA LookupBy6 ==
  ASSUME NEW H, HeapOK(Trie, H), Inside(Trie), NEW a \in Addr
  PROVE  poptrie6_lookup(a) = poptrie_lookup(a)
<1> DEFINE e == PrefixOf(a, S)
           E == {PrefixOf(a, l) : l \in S .. Width}
<1>1. ASSUME NEW y \in Blocks, Trie.pos[y] # NULL
      PROVE  INDEX6(a, y.plen) = INDEX(a, y.plen)
  BY <1>1 DEF Inside, INDEX6
<1>2. E \subseteq Blocks
  BY DEF Blocks
<1>3. LastBlock6(Trie, a) = LastBlock(Trie, a)
  <2> DEFINE ends6(y) == Trie.pos[y] # NULL /\ INDEX6(a, y.plen) \notin NodeAt(Trie, y).vector
             ends(y) == Trie.pos[y] # NULL /\ INDEX(a, y.plen) \notin NodeAt(Trie, y).vector
  <2>1. \A y \in E : ends6(y) <=> ends(y)
    BY <1>1, <1>2
  <2>2. /\ LastBlock6(Trie, a) = CHOOSE y \in E : ends6(y)
        /\ LastBlock(Trie, a) = CHOOSE y \in E : ends(y)
    BY DEF LastBlock6, LastBlock
  <2> HIDE DEF E, ends, ends6
  <2> QED
    BY <2>1, <2>2
<1>4. Trie.dir = dir
  BY TrieIs
<1>5. CASE dir[e].kind = "leaf"
  BY <1>4, <1>5 DEF poptrie6_lookup, poptrie_lookup, Lookup
<1>6. CASE dir[e].kind # "leaf"
  <2>1. PICK y : EndsAt(Trie, y, a)
    BY <1>4, <1>6, LookupCases
  <2>2. y \in Blocks /\ Trie.pos[y] # NULL /\ INDEX(a, y.plen) = INDEX6(a, y.plen)
    BY <1>1, <2>1 DEF EndsAt, OnTheWay
  <2>3. LastBlock(Trie, a) = y
    BY <2>1, LastIs
  <2> QED
    BY <1>3, <1>4, <1>6, <2>2, <2>3 DEF poptrie6_lookup, poptrie_lookup, Lookup
<1> QED
  BY <1>5, <1>6

\* So poptrie6_lookup answers what the radix tree does, while no allocation of an
\* update fails, if there are none of the routes that TrieFollowsRib6 excepts: the
\* shorter ones with others to their right, those that end beyond the address, and,
\* unless routes are only added, those that end a single bit into a node.
THEOREM Trie6Follows ==
  /\ ~ HostBits /\ NoneToTheRight /\ NoneBeyond
  /\ NoneJustInside \/ Operations \subseteq {"add"}
  => (Spec6 => []TrieFollowsRib6)
<1> SUFFICES ASSUME ~ HostBits, NoneToTheRight, NoneBeyond,
                    NoneJustInside \/ Operations \subseteq {"add"}
             PROVE  Spec6 => []TrieFollowsRib6
  OBVIOUS
<1>1. Spec6 => TrieSpec
  BY Trie6IsTrie
<1>2. TrieSpec => []TrieFollowsRib
  BY TrieFollows, AdditionsFollowed
<1>3. TInv /\ NodesUsed /\ Inside(Trie) /\ [TrieNext]_allVars => NodesUsed' /\ Inside(Trie)'
  BY InsideStep
<1>4. TInv /\ Inside(Trie) /\ TrieFollowsRib => TrieFollowsRib6
  BY LookupBy6 DEF TInv, TrieOK, TrieFollowsRib, TrieFollowsRib6, poptrie6_rib_lookup
<1> QED
  BY <1>1, <1>2, <1>3, <1>4, InsideInit, TrieInvariance, PTL DEF TrieSpec
=============================================================================
