---------------------------- MODULE PoptrieProofs ---------------------------
(***************************************************************************)
(* The multibit trie, for every width of addresses, index and node, every  *)
(* set of routes and every set of allocations that fail.                   *)
(***************************************************************************)
EXTENDS Poptrie, RadixProofs, FiniteSetTheorems

-----------------------------------------------------------------------------
\* The order of slots.

\* A slot is any string of K bits.
LEMMA SlotsAre == Slots = [1 .. K -> {0, 1}]
<1>1. ASSUME NEW f \in [1 .. K -> {0, 1}]
      PROVE  f \in Slots
  <2> DEFINE ones == {k \in 1 .. K : f[k] = 1}
  <2>1. f = [k \in 1 .. K |-> IF k \in ones THEN 1 ELSE 0]
    OBVIOUS
  <2> QED
    BY <2>1 DEF Slots
<1>2. Slots \subseteq [1 .. K -> {0, 1}]
  BY DEF Slots
<1> QED
  BY <1>1, <1>2

LEMMA SlotsFinite == IsFiniteSet(Slots)
<1> DEFINE string == [ones \in SUBSET (1 .. K) |-> [k \in 1 .. K |-> IF k \in ones THEN 1 ELSE 0]]
<1>1. IsFiniteSet(SUBSET (1 .. K))
  <2>1. 1 \in Int /\ K \in Int
    BY PoptrieAssumption
  <2> QED
    BY <2>1, FS_Interval, FS_SUBSET
<1>2. string \in Surjection(SUBSET (1 .. K), Slots)
  BY DEF Surjection, Slots
<1> QED
  <2> HIDE DEF string
  <2> QED
    BY <1>1, <1>2, FS_Surjection

\* Slots are ordered like strings.
LEMMA BeforeOrder ==
  /\ \A i \in Slots : ~ Before(i, i)
  /\ \A i, j, l \in Slots : Before(i, j) /\ Before(j, l) => Before(i, l)
  /\ \A i, j \in Slots : i = j \/ Before(i, j) \/ Before(j, i)
<1>1. \A i \in Slots : DOMAIN i = 1 .. K /\ \A k \in 1 .. K : i[k] \in {0, 1}
  BY SlotsAre
<1>2. K \in Nat
  BY PoptrieAssumption
<1>3. ASSUME NEW i \in Slots
      PROVE  ~ Before(i, i)
  BY DEF Before
<1>4. ASSUME NEW i \in Slots, NEW j \in Slots, NEW l \in Slots, Before(i, j), Before(j, l)
      PROVE  Before(i, l)
  <2>1. PICK k \in 1 .. K : i[k] = 0 /\ j[k] = 1 /\ \A n \in 1 .. k - 1 : i[n] = j[n]
    BY <1>1, <1>4 DEF Before
  <2>2. PICK m \in 1 .. K : j[m] = 0 /\ l[m] = 1 /\ \A n \in 1 .. m - 1 : j[n] = l[n]
    BY <1>1, <1>4 DEF Before
  <2>3. CASE k < m
    <3>1. i[k] = 0 /\ l[k] = 1
      BY <1>2, <2>1, <2>2, <2>3
    <3>2. \A n \in 1 .. k - 1 : i[n] = l[n]
      BY <1>2, <2>1, <2>2, <2>3
    <3> QED
      BY <1>1, <3>1, <3>2 DEF Before
  <2>4. CASE m < k
    <3>1. i[m] = 0 /\ l[m] = 1
      BY <1>2, <2>1, <2>2, <2>4
    <3>2. \A n \in 1 .. m - 1 : i[n] = l[n]
      BY <1>2, <2>1, <2>2, <2>4
    <3> QED
      BY <1>1, <3>1, <3>2 DEF Before
  <2> QED
    BY <1>2, <2>1, <2>2, <2>3, <2>4
<1>5. ASSUME NEW i \in Slots, NEW j \in Slots, i # j
      PROVE  Before(i, j) \/ Before(j, i)
  <2> DEFINE D == {k \in 1 .. K : i[k] # j[k]}
  <2>1. i \in [1 .. K -> {0, 1}] /\ j \in [1 .. K -> {0, 1}]
    BY SlotsAre
  <2>2. D # {}
    <3>1. ASSUME \A k \in 1 .. K : i[k] = j[k]
          PROVE  i = j
      <4>1. i = [k \in 1 .. K |-> i[k]] /\ j = [k \in 1 .. K |-> j[k]]
        BY <2>1
      <4> QED
        BY <3>1, <4>1
    <3> QED
      BY <1>5, <3>1
  <2>3. PICK k \in D : \A n \in D : k <= n
    <3>1. D \subseteq Nat
      OBVIOUS
    <3> QED
      BY <2>2, <3>1, LeastNatural
  <2>4. \A n \in 1 .. k - 1 : i[n] = j[n] /\ j[n] = i[n]
    BY <1>2, <2>3
  <2>5. k \in 1 .. K /\ ((i[k] = 0 /\ j[k] = 1) \/ (j[k] = 0 /\ i[k] = 1))
    BY <2>1, <2>3
  <2> QED
    BY <1>1, <2>4, <2>5 DEF Before
<1> QED
  BY <1>3, <1>4, <1>5

-----------------------------------------------------------------------------
\* Rank and InOrder.

\* The slots up to i, which Rank counts.
UpTo(v, i) == {j \in v : j = i \/ Before(j, i)}

\* The ranks of the members of v are 1 to their number, in their order.
LEMMA RankSpec ==
  ASSUME NEW v \in SUBSET Slots
  PROVE  /\ Cardinality(v) \in Nat
         /\ v # {} => Cardinality(v) # 0
         /\ \A i \in v : Rank(v, i) \in 1 .. Cardinality(v)
         /\ \A i, j \in v : Before(i, j) => Rank(v, i) < Rank(v, j)
         /\ \A i, j \in v : Rank(v, i) = Rank(v, j) => i = j
         /\ \A k \in 1 .. Cardinality(v) : \E i \in v : Rank(v, i) = k
<1>1. IsFiniteSet(v) /\ Cardinality(v) \in Nat
  BY SlotsFinite, FS_Subset, FS_CardinalityType
<1>2. \A i \in v : /\ UpTo(v, i) \subseteq v /\ i \in UpTo(v, i)
                   /\ IsFiniteSet(UpTo(v, i))
                   /\ Rank(v, i) = Cardinality(UpTo(v, i))
  BY <1>1, FS_Subset DEF UpTo, Rank
<1>3. \A i \in v : Rank(v, i) \in 1 .. Cardinality(v)
  <2> TAKE i \in v
  <2>1. Cardinality(UpTo(v, i)) \in Nat /\ Cardinality(UpTo(v, i)) <= Cardinality(v)
    BY <1>1, <1>2, FS_Subset, FS_CardinalityType
  <2>2. Cardinality(UpTo(v, i)) # 0
    BY <1>2, FS_EmptySet
  <2> QED
    BY <1>1, <1>2, <2>1, <2>2
<1>4. ASSUME NEW i \in v, NEW j \in v, Before(i, j)
      PROVE  Rank(v, i) < Rank(v, j)
  <2>1. UpTo(v, i) \subseteq UpTo(v, j)
    BY <1>4, BeforeOrder DEF UpTo
  <2>2. j \notin UpTo(v, i)
    BY <1>4, BeforeOrder DEF UpTo
  <2>3. Cardinality(UpTo(v, i)) <= Cardinality(UpTo(v, j))
        /\ (Cardinality(UpTo(v, i)) = Cardinality(UpTo(v, j)) => UpTo(v, j) = UpTo(v, i))
    BY <1>2, <2>1, FS_Subset
  <2> QED
    BY <1>2, <1>3, <2>2, <2>3
<1>5. ASSUME NEW i \in v, NEW j \in v, Rank(v, i) = Rank(v, j)
      PROVE  i = j
  <2>1. i = j \/ Rank(v, i) < Rank(v, j) \/ Rank(v, j) < Rank(v, i)
    BY <1>4, BeforeOrder
  <2> QED
    BY <1>3, <1>5, <2>1
<1>6. ASSUME NEW k \in 1 .. Cardinality(v)
      PROVE  \E i \in v : Rank(v, i) = k
  <2> DEFINE f == [i \in v |-> Rank(v, i)]
             N == Cardinality(v)
  <2>1. f \in Injection(v, 1 .. N)
    <3>1. f \in [v -> 1 .. N] /\ \A i \in v : f[i] = Rank(v, i)
      BY <1>3
    <3>2. \A i, j \in v : f[i] = f[j] => i = j
      BY <1>5, <3>1
    <3>3. Injection(v, 1 .. N) = {M \in [v -> 1 .. N] : \A a, b \in v : M[a] = M[b] => a = b}
      BY DEF Injection, IsInjective
    <3> HIDE DEF f, N
    <3> QED
      BY <3>1, <3>2, <3>3
  <2>2. IsFiniteSet(1 .. N) /\ Cardinality(1 .. N) = Cardinality(v)
    BY <1>1, FS_Interval
  <2>3. f \in Surjection(v, 1 .. N)
    <3> HIDE DEF f, N
    <3> QED
      BY <2>1, <2>2, FS_Injection
  <2> QED
    BY <2>3 DEF Surjection
<1>7. v # {} => Cardinality(v) # 0
  BY <1>1, FS_EmptySet
<1> QED
  BY <1>1, <1>3, <1>4, <1>5, <1>6, <1>7

\* The array that is made of v has the value of slot i at its rank, and no others.
LEMMA InOrderSpec ==
  ASSUME NEW v \in SUBSET Slots, NEW f
  PROVE  /\ DOMAIN InOrder(f, v) = 1 .. Cardinality(v)
         /\ \A i \in v : InOrder(f, v)[Rank(v, i)] = f[i]
         /\ \A k \in 1 .. Cardinality(v) : \E i \in v : InOrder(f, v)[k] = f[i]
<1>1. \A i \in v : /\ Rank(v, i) \in 1 .. Cardinality(v)
                   /\ \A j \in v : Rank(v, j) = Rank(v, i) => j = i
  BY RankSpec
<1>2. \A k \in 1 .. Cardinality(v) : \E i \in v : Rank(v, i) = k
  BY RankSpec
<1>3. \A k \in 1 .. Cardinality(v) : InOrder(f, v)[k] = f[CHOOSE i \in v : Rank(v, i) = k]
  BY DEF InOrder
<1>4. ASSUME NEW i \in v
      PROVE  InOrder(f, v)[Rank(v, i)] = f[i]
  <2>1. (CHOOSE j \in v : Rank(v, j) = Rank(v, i)) = i
    BY <1>1
  <2> QED
    BY <1>1, <1>3, <2>1
<1>5. ASSUME NEW k \in 1 .. Cardinality(v)
      PROVE  \E i \in v : InOrder(f, v)[k] = f[i]
  BY <1>2, <1>3
<1> QED
  BY <1>4, <1>5 DEF InOrder

-----------------------------------------------------------------------------
\* Leaf compression.

\* Every slot has a marked one at or before it, and the last of these has its next
\* hop.
LEMMA LastChange ==
  ASSUME NEW f, DOMAIN f \subseteq Slots, NEW i \in DOMAIN f
  PROVE  \E c \in Changes(f) :
           /\ c = i \/ Before(c, i)
           /\ f[c] = f[i]
           /\ \A d \in Changes(f) : Before(c, d) => ~ (d = i \/ Before(d, i))
<1> DEFINE D == DOMAIN f
           Found(j, c) == /\ c \in Changes(f)
                          /\ c = j \/ Before(c, j)
                          /\ f[c] = f[j]
                          /\ \A d \in Changes(f) : Before(c, d) => ~ (d = j \/ Before(d, j))
           Missing == {j \in D : ~ \E c \in Changes(f) : Found(j, c)}
           Ranks == {Rank(D, j) : j \in Missing}
<1> SUFFICES ASSUME Missing # {}
             PROVE  FALSE
  BY Zenon
<1>1. D \in SUBSET Slots /\ Changes(f) \subseteq D
  BY DEF Changes
<1>2. PICK j \in Missing : \A l \in Missing : Rank(D, j) <= Rank(D, l)
  <2>1. Ranks \subseteq Nat /\ Ranks # {}
    <3>1. \A l \in D : Rank(D, l) \in 1 .. Cardinality(D)
      BY <1>1, RankSpec
    <3>2. \A l \in D : Rank(D, l) \in Nat
      BY <1>1, <3>1, RankSpec
    <3> QED
      BY <3>2
  <2>2. PICK n \in Ranks : \A m \in Ranks : n <= m
    <3> HIDE DEF Ranks
    <3> QED
      BY <2>1, LeastNatural
  <2> HIDE DEF Missing
  <2> QED
    BY <2>2
<1>3. j \in D /\ ~ \E c \in Changes(f) : Found(j, c)
  OBVIOUS
<1>4. j \notin Changes(f)
  <2>1. ASSUME j \in Changes(f)
        PROVE  Found(j, j)
    BY <1>1, <2>1, BeforeOrder
  <2> HIDE DEF Found
  <2> QED
    BY <1>3, <2>1
<1>5. PICK l \in D : /\ Before(l, j) /\ f[l] = f[j]
                     /\ ~ \E k \in D : Before(l, k) /\ Before(k, j)
  BY <1>3, <1>4 DEF Changes
<1>6. l \notin Missing
  <2>1. Rank(D, l) < Rank(D, j) /\ Rank(D, l) \in Nat /\ Rank(D, j) \in Nat
    BY <1>1, <1>3, <1>5, RankSpec
  <2> HIDE DEF Missing
  <2> QED
    BY <1>2, <2>1
<1>7. PICK c \in Changes(f) : Found(l, c)
  BY <1>6
<1>8. Found(j, c)
  <2>1. c = l \/ Before(c, l)
    BY <1>7
  <2>2. Before(c, j) /\ f[c] = f[j]
    BY <1>1, <1>3, <1>5, <1>7, <2>1, BeforeOrder
  <2>3. ASSUME NEW d \in Changes(f), Before(c, d), d = j \/ Before(d, j)
        PROVE  FALSE
    <3>1. Before(d, j) /\ d \in D
      BY <1>1, <1>4, <2>3
    <3>2. d # l /\ ~ Before(d, l)
      BY <1>7, <2>3
    <3>3. Before(l, d)
      BY <1>1, <1>5, <3>1, <3>2, BeforeOrder
    <3> QED
      BY <1>5, <3>1, <3>3
  <2> QED
    BY <1>7, <2>2, <2>3
<1> QED
  BY <1>3, <1>8

\* The array of leaves has the next hop of each slot at the rank of the slot.
LEMMA LeafCompression ==
  ASSUME NEW f, DOMAIN f \subseteq Slots
  PROVE  /\ Changes(f) \in SUBSET Slots
         /\ Changes(f) \subseteq DOMAIN f
         /\ \A i \in DOMAIN f : \E j \in Changes(f) : j = i \/ Before(j, i)
         /\ \A i \in DOMAIN f : InOrder(f, Changes(f))[Rank(Changes(f), i)] = f[i]
<1>1. Changes(f) \in SUBSET Slots /\ Changes(f) \subseteq DOMAIN f
  BY DEF Changes
<1>2. ASSUME NEW i \in DOMAIN f
      PROVE  /\ \E j \in Changes(f) : j = i \/ Before(j, i)
             /\ InOrder(f, Changes(f))[Rank(Changes(f), i)] = f[i]
  <2>1. PICK c \in Changes(f) :
          /\ c = i \/ Before(c, i)
          /\ f[c] = f[i]
          /\ \A d \in Changes(f) : Before(c, d) => ~ (d = i \/ Before(d, i))
    BY LastChange
  <2>2. UpTo(Changes(f), i) = UpTo(Changes(f), c)
    <3>1. c \in Slots /\ i \in Slots /\ \A d \in Changes(f) : d \in Slots
      BY <1>1
    <3>2. ASSUME NEW d \in Changes(f), d = i \/ Before(d, i)
          PROVE  d = c \/ Before(d, c)
      BY <2>1, <3>1, <3>2, BeforeOrder
    <3>3. ASSUME NEW d \in Changes(f), d = c \/ Before(d, c)
          PROVE  d = i \/ Before(d, i)
      BY <2>1, <3>1, <3>3, BeforeOrder
    <3> QED
      BY <3>2, <3>3 DEF UpTo
  <2>3. Rank(Changes(f), i) = Rank(Changes(f), c)
    BY <2>2 DEF Rank, UpTo
  <2> QED
    BY <1>1, <2>1, <2>3, InOrderSpec
<1> QED
  BY <1>1, <1>2

-----------------------------------------------------------------------------
\* Blocks.

\* What ASSUME says of the lengths, for the steps that count bits.
LEMMA Lengths ==
  /\ Width \in Nat \ {0} /\ S \in 1 .. Width /\ K \in Nat \ {0}
  /\ S \in Nat \ {0}
  BY WidthAssumption, PoptrieAssumption

\* A prefix starts with itself.
LEMMA StartsItself ==
  ASSUME NEW y \in Prefix
  PROVE  PrefixOf(y.net, y.plen) = y
  BY PrefixType DEF PrefixOf

\* The blocks are the prefixes that are no shorter than an index.
LEMMA BlocksAre ==
  /\ Index = {y \in Prefix : y.plen = S}
  /\ Blocks = {y \in Prefix : y.plen >= S}
<1>1. ASSUME NEW a \in Addr, NEW l \in S .. Width
      PROVE  PrefixOf(a, l) \in Prefix /\ PrefixOf(a, l).plen = l /\ l >= S
  <2>1. l \in 0 .. Width
    BY Lengths
  <2> QED
    BY <2>1, PrefixOfType, Lengths DEF PrefixOf
<1>2. ASSUME NEW y \in Prefix, y.plen >= S
      PROVE  y \in Blocks /\ (y.plen = S => y \in Index)
  <2>1. y.net \in Addr /\ y.plen \in S .. Width /\ y = PrefixOf(y.net, y.plen)
    BY <1>2, PrefixType, StartsItself, Lengths
  <2> QED
    BY <2>1 DEF Blocks, Index
<1>3. S \in S .. Width
  BY Lengths
<1>4. \A y \in Blocks : y \in Prefix /\ y.plen >= S
  BY <1>1 DEF Blocks
<1>5. \A y \in Index : y \in Prefix /\ y.plen = S
  BY <1>1, <1>3 DEF Index
<1>6. S >= S
  BY Lengths
<1> QED
  BY <1>2, <1>4, <1>5, <1>6

\* What the later steps use of a block.
LEMMA BlockType ==
  ASSUME NEW y \in Blocks
  PROVE  /\ y \in Prefix /\ y.net \in Addr /\ y.plen \in S .. Width /\ y.plen \in Nat
         /\ y.plen - S \in Nat
         /\ y.plen = S <=> y \in Index
  BY BlocksAre, PrefixType, Lengths

LEMMA IndexType ==
  ASSUME NEW a \in Addr, NEW s \in Nat
  PROVE  INDEX(a, s) \in Slots
<1>1. \A k \in 1 .. K : s + k <= Width => a[s + k] \in {0, 1}
  BY Lengths DEF Addr
<1> QED
  BY <1>1, SlotsAre DEF INDEX

\* The prefixes between a block and its child lie on the way of the slot.
LEMMA UnderType ==
  ASSUME NEW y \in Prefix, NEW i \in Slots, NEW l \in 0 .. K
  PROVE  /\ Under(y, i, l).plen = y.plen + l
         /\ y.plen + l <= Width => /\ Under(y, i, l) \in Prefix
                                   /\ Above(y, Under(y, i, l))
                                   /\ PrefixOf(Under(y, i, l).net, y.plen) = y
                                   /\ l = 0 => Under(y, i, l) = y
<1> DEFINE u == Under(y, i, l)
<1>1. /\ y.net \in Addr /\ y.plen \in 0 .. Width /\ Mask(y.net, y.plen) = y.net
      /\ y = [net |-> y.net, plen |-> y.plen]
  BY PrefixType
<1>2. /\ i \in [1 .. K -> {0, 1}] /\ y.net \in [1 .. Width -> {0, 1}]
      /\ \A k \in 1 .. Width : ~ k <= y.plen => y.net[k] = 0
  <2>1. \A k \in 1 .. Width : Mask(y.net, y.plen)[k] = IF k <= y.plen THEN y.net[k] ELSE 0
    BY DEF Mask
  <2> QED
    BY <1>1, <2>1, SlotsAre DEF Addr
<1>3. u.plen = y.plen + l
  BY DEF Under
<1>4. u.net = [k \in 1 .. Width |->
                 IF y.plen < k /\ k <= y.plen + l THEN i[k - y.plen] ELSE y.net[k]]
  BY DEF Under
<1>5. ASSUME y.plen + l <= Width
      PROVE  u \in Prefix /\ Above(y, u) /\ PrefixOf(u.net, y.plen) = y
  <2>1. u.net \in Addr
    BY <1>1, <1>2, <1>4, Lengths DEF Addr
  <2>2. u.plen \in 0 .. Width
    BY <1>1, <1>3, <1>5, Lengths
  <2>3. Mask(u.net, u.plen) = u.net
    <3>1. \A k \in 1 .. Width : ~ k <= u.plen => u.net[k] = 0
      BY <1>1, <1>2, <1>3, <1>4, Lengths
    <3>2. u.net = [k \in 1 .. Width |-> u.net[k]]
      BY <2>1 DEF Addr
    <3> HIDE DEF u
    <3> QED
      BY <3>1, <3>2 DEF Mask
  <2>4. Mask(u.net, y.plen) = y.net
    <3>1. \A k \in 1 .. Width : (IF k <= y.plen THEN u.net[k] ELSE 0) = y.net[k]
      BY <1>1, <1>2, <1>4, Lengths
    <3>2. y.net = [k \in 1 .. Width |-> y.net[k]]
      BY <1>2
    <3> HIDE DEF u
    <3> QED
      BY <3>1, <3>2 DEF Mask
  <2>5. u = [net |-> u.net, plen |-> u.plen]
    BY DEF Under
  <2> HIDE DEF u
  <2> QED
    BY <1>1, <1>3, <2>1, <2>2, <2>3, <2>4, <2>5, Lengths DEF Prefix, Above, PrefixOf
<1>6. ASSUME l = 0
      PROVE  u = y
  <2>1. u.net = [k \in 1 .. Width |-> y.net[k]] /\ u.plen = y.plen
    BY <1>1, <1>3, <1>4, <1>6, Lengths
  <2>2. u = [net |-> u.net, plen |-> u.plen]
    BY DEF Under
  <2> HIDE DEF u
  <2> QED
    BY <1>1, <1>2, <2>1, <2>2
<1> QED
  BY <1>3, <1>5, <1>6

\* The start of an address goes on, slot after slot, to longer starts of it.
LEMMA UnderOnWay ==
  ASSUME NEW a \in Addr, NEW s \in 0 .. Width, NEW l \in 0 .. K, s + l <= Width
  PROVE  Under(PrefixOf(a, s), INDEX(a, s), l) = PrefixOf(a, s + l)
<1>1. \A k \in 1 .. Width :
        (IF s < k /\ k <= s + l THEN INDEX(a, s)[k - s] ELSE Mask(a, s)[k]) = Mask(a, s + l)[k]
  <2> TAKE k \in 1 .. Width
  <2>1. CASE s < k /\ k <= s + l
    <3>1. k - s \in 1 .. K /\ s + (k - s) = k
      BY <2>1, Lengths
    <3>2. INDEX(a, s)[k - s] = a[k]
      BY <3>1, Lengths DEF INDEX
    <3> QED
      BY <2>1, <3>2 DEF Mask
  <2>2. CASE ~ (s < k /\ k <= s + l)
    BY <2>2, Lengths DEF Mask
  <2> QED
    BY <2>1, <2>2
<1>2. Mask(a, s + l) = [k \in 1 .. Width |-> Mask(a, s + l)[k]]
  BY DEF Mask
<1>3. PrefixOf(a, s).net = Mask(a, s) /\ PrefixOf(a, s).plen = s
  BY DEF PrefixOf
<1>4. Under(PrefixOf(a, s), INDEX(a, s), l).net = Mask(a, s + l)
  BY <1>1, <1>2, <1>3, Zenon DEF Under
<1>5. Under(PrefixOf(a, s), INDEX(a, s), l) = [net |-> Mask(a, s + l), plen |-> s + l]
  BY <1>3, <1>4 DEF Under
<1> QED
  BY <1>5 DEF PrefixOf

\* A slot of a block leads to a child, which has that slot of that block.
LEMMA KidType ==
  ASSUME NEW y \in Prefix, NEW i \in Slots
  PROVE  /\ Kid(y, i).plen = y.plen + K
         /\ y.plen + K <= Width => /\ Kid(y, i) \in Prefix
                                   /\ Above(y, Kid(y, i))
                                   /\ Over(Kid(y, i)) = y
                                   /\ INDEX(Kid(y, i).net, y.plen) = i
         /\ y \in Blocks /\ y.plen + K <= Width => Kid(y, i) \in Blocks
<1>1. y.plen \in 0 .. Width /\ K \in 0 .. K
  BY PrefixType, Lengths
<1>2. Kid(y, i).plen = y.plen + K
  BY <1>1, UnderType DEF Kid
<1>3. ASSUME y.plen + K <= Width
      PROVE  /\ Kid(y, i) \in Prefix
             /\ Above(y, Kid(y, i))
             /\ Over(Kid(y, i)) = y
             /\ INDEX(Kid(y, i).net, y.plen) = i
  <2>1. /\ Kid(y, i) \in Prefix /\ Above(y, Kid(y, i))
        /\ PrefixOf(Kid(y, i).net, y.plen) = y
    BY <1>1, <1>3, UnderType DEF Kid
  <2>2. Over(Kid(y, i)) = y
    <3>1. Kid(y, i).plen - K = y.plen
      BY <1>1, <1>2, Lengths
    <3> QED
      BY <2>1, <3>1 DEF Over
  <2>3. INDEX(Kid(y, i).net, y.plen) = i
    <3>1. \A k \in 1 .. K : /\ y.plen + k <= Width /\ y.plen + k \in 1 .. Width
                            /\ y.plen < y.plen + k /\ y.plen + k <= y.plen + K
                            /\ y.plen + k - y.plen = k
      BY <1>1, <1>3, Lengths
    <3>2. \A n \in 1 .. Width :
            Kid(y, i).net[n] = IF y.plen < n /\ n <= y.plen + K THEN i[n - y.plen] ELSE y.net[n]
      BY DEF Kid, Under
    <3>4. \A k \in 1 .. K : Kid(y, i).net[y.plen + k] = i[k]
      <4> TAKE k \in 1 .. K
      <4>1. PICK n \in 1 .. Width :
              n = y.plen + k /\ y.plen < n /\ n <= y.plen + K /\ n - y.plen = k
        BY <1>1, <3>1, Lengths
      <4> QED
        BY <3>2, <4>1
    <3>3. i = [k \in 1 .. K |-> i[k]]
      BY SlotsAre
    <3> QED
      BY <3>1, <3>3, <3>4 DEF INDEX
  <2> QED
    BY <2>1, <2>2, <2>3
<1>4. ASSUME y \in Blocks, y.plen + K <= Width
      PROVE  Kid(y, i) \in Blocks
  BY <1>1, <1>2, <1>3, <1>4, BlocksAre, Lengths
<1> QED
  BY <1>2, <1>3, <1>4

\* A block below the table's is the child of another at one of its slots.
LEMMA OverType ==
  ASSUME NEW y \in Prefix, y.plen >= K
  PROVE  /\ Over(y) \in Prefix
         /\ Over(y).plen = y.plen - K
         /\ Above(Over(y), y)
         /\ INDEX(y.net, y.plen - K) \in Slots
         /\ Kid(Over(y), INDEX(y.net, y.plen - K)) = y
         /\ y.plen >= S + K => Over(y) \in Blocks
<1>1. y.net \in Addr /\ y.plen \in 0 .. Width /\ y.plen - K \in 0 .. Width
      /\ (y.plen - K) + K = y.plen /\ y.plen - K \in Nat /\ K \in 0 .. K
      /\ y.plen - K <= y.plen /\ (y.plen - K) + K <= Width
  BY PrefixType, Lengths
<1>2. Over(y) \in Prefix /\ Over(y).plen = y.plen - K
  BY <1>1, PrefixOfType DEF Over, PrefixOf
<1>3. Above(Over(y), y)
  BY <1>1, <1>2 DEF Above, Over, PrefixOf
<1>4. INDEX(y.net, y.plen - K) \in Slots
  BY <1>1, IndexType
<1>5. Kid(Over(y), INDEX(y.net, y.plen - K)) = PrefixOf(y.net, (y.plen - K) + K)
  BY <1>1, UnderOnWay DEF Kid, Over
<1>6. Kid(Over(y), INDEX(y.net, y.plen - K)) = y
  BY <1>1, <1>5, StartsItself
<1>7. y.plen >= S + K => Over(y) \in Blocks
  BY <1>1, <1>2, BlocksAre, Lengths
<1> QED
  BY <1>2, <1>3, <1>4, <1>6, <1>7

\* Every block is an entry of the table, too short for a node, or below another.
LEMMA BlockInduction ==
  ASSUME NEW T, Index \subseteq T,
         \A y \in Blocks : y.plen # S /\ y.plen < S + K => y \in T,
         \A y \in Blocks : y.plen >= S + K /\ Over(y) \in T => y \in T
  PROVE  Blocks \subseteq T
<1> DEFINE Short == {y.plen : y \in Blocks \ T}
<1> SUFFICES ASSUME Blocks \ T # {}
             PROVE  FALSE
  OBVIOUS
<1>1. Short \subseteq Nat /\ Short # {}
  BY BlockType
<1>2. PICK n \in Short : \A m \in Short : n <= m
  <2> HIDE DEF Short
  <2> QED
    BY <1>1, LeastNatural
<1>3. PICK y \in Blocks \ T : \A z \in Blocks \ T : y.plen <= z.plen
  BY <1>2
<1>4. y \in Prefix /\ y.plen \in S .. Width /\ y.plen # S
  BY <1>3, BlockType
<1>5. y.plen >= S + K /\ y.plen >= K
  BY <1>3, <1>4, Lengths
<1>6. Over(y) \in Blocks /\ Over(y).plen = y.plen - K
  BY <1>4, <1>5, OverType
<1>7. Over(y) \in T
  <2>1. ~ y.plen <= y.plen - K
    BY <1>4, Lengths
  <2> QED
    BY <1>3, <1>6, <2>1
<1> QED
  BY <1>3, <1>5, <1>7

-----------------------------------------------------------------------------
\* The walk.

\* What the walk comes to at block y, when f is where it has come to before.
Step(m, f, y) ==
  IF y.plen = S THEN Entry(m, y)
  ELSE IF y.plen < S + K THEN NULL
  ELSE Child(At(m, f[Over(y)]), INDEX(y.net, y.plen - K))

\* The recursion that defines Walked has a solution.
LEMMA WalkExists ==
  ASSUME NEW m
  PROVE  \E f : f = [y \in Blocks |-> Step(m, f, y)]
<1> DEFINE Upto(n) == {y \in Blocks : y.plen <= n}
           Solved(n) == \E f : f = [y \in Upto(n) |-> Step(m, f, y)]
           Open == {n \in Nat : ~ Solved(n)}
<1>1. Open = {}
  <2> SUFFICES ASSUME Open # {}
               PROVE  FALSE
    OBVIOUS
  <2>1. PICK n \in Open : \A k \in Open : n <= k
    <3>1. Open \subseteq Nat
      OBVIOUS
    <3> HIDE DEF Open
    <3> QED
      BY <3>1, LeastNatural
  <2>2. n # 0
    <3>1. Upto(0) = {}
      BY BlockType, Lengths
    <3> DEFINE g == [y \in {} |-> NULL]
    <3>2. g = [y \in Upto(0) |-> Step(m, g, y)]
      BY <3>1
    <3>3. Solved(0)
      <4> HIDE DEF g, Upto
      <4> QED
        BY <3>2
    <3> QED
      BY <3>3
  <2>3. n - 1 \in Nat /\ n - 1 \notin Open
    <3>1. n \in Nat
      OBVIOUS
    <3>2. n - 1 \in Nat /\ ~ n <= n - 1
      BY <2>2, <3>1
    <3> HIDE DEF Open
    <3> QED
      BY <2>1, <3>2
  <2>4. PICK f : f = [y \in Upto(n - 1) |-> Step(m, f, y)]
    BY <2>3
  <2> DEFINE g == [y \in Upto(n) |-> IF y.plen <= n - 1 THEN f[y] ELSE Step(m, f, y)]
  <2>5. ASSUME NEW y \in Upto(n)
        PROVE  g[y] = Step(m, g, y)
    <3>1. y \in Blocks /\ y.plen \in S .. Width /\ y.plen <= n
      BY BlockType
    <3>2. g[y] = Step(m, f, y)
      <4>1. CASE y.plen <= n - 1
        <5>1. y \in Upto(n - 1)
          BY <3>1, <4>1
        <5>2. f[y] = Step(m, f, y)
          <6> HIDE DEF Upto
          <6> QED
            BY <2>4, <5>1
        <5> QED
          BY <4>1, <5>2
      <4>2. CASE ~ y.plen <= n - 1
        BY <4>2
      <4> QED
        BY <4>1, <4>2
    <3>3. CASE y.plen = S \/ y.plen < S + K
      BY <3>2, <3>3 DEF Step
    <3>4. CASE ~ (y.plen = S \/ y.plen < S + K)
      <4>1. Over(y) \in Blocks /\ Over(y).plen <= n - 1
        <5>1. y \in Prefix /\ y.plen >= S + K /\ y.plen >= K
          BY <3>1, <3>4, BlockType, Lengths
        <5>2. Over(y) \in Blocks /\ Over(y).plen = y.plen - K
          BY <5>1, OverType
        <5> QED
          BY <3>1, <5>2, <2>3, Lengths
      <4>2. Over(y) \in Upto(n)
        BY <4>1, <2>3, BlockType
      <4>3. g[Over(y)] = f[Over(y)]
        BY <4>1, <4>2
      <4> HIDE DEF g
      <4> QED
        BY <3>2, <3>4, <4>3 DEF Step
    <3> QED
      BY <3>3, <3>4
  <2>6. g = [y \in Upto(n) |-> g[y]]
    OBVIOUS
  <2>7. g = [y \in Upto(n) |-> Step(m, g, y)]
    <3> HIDE DEF g, Upto
    <3> QED
      BY <2>5, <2>6
  <2>8. Solved(n)
    <3> HIDE DEF g, Upto
    <3> QED
      BY <2>7
  <2> QED
    BY <2>1, <2>8
<1>2. Solved(Width)
  <2>1. Width \in Nat
    BY Lengths
  <2> HIDE DEF Solved
  <2> QED
    BY <1>1, <2>1
<1>3. Upto(Width) = Blocks
  BY BlockType
<1>4. PICK f : f = [y \in Upto(Width) |-> Step(m, f, y)]
  BY <1>2
<1>5. f = [y \in Blocks |-> Step(m, f, y)]
  <2> HIDE DEF Upto
  <2> QED
    BY <1>3, <1>4
<1> QED
  BY <1>5

\* The position of every block follows from that of the block above it.
LEMMA WalkedSpec ==
  ASSUME NEW d, NEW ns, NEW ls
  PROVE  LET m == Heap(d, ns, ls)
         IN  /\ m = [dir |-> d, nodes |-> ns, leaves |-> ls, pos |-> m.pos]
             /\ \A y \in Blocks : m.pos[y] = Step(m, m.pos, y)
<1> DEFINE b == [dir |-> d, nodes |-> ns, leaves |-> ls]
           Eqn(f) == f = [y \in Blocks |-> Step(b, f, y)]
           W == CHOOSE f : Eqn(f)
           m == Heap(d, ns, ls)
<1>1. Eqn(W)
  <2>1. \E f : Eqn(f)
    BY WalkExists
  <2> HIDE DEF Eqn
  <2> QED
    BY <2>1
<1>2. Walked(b) = [y \in Blocks |-> W[y]]
  BY DEF Walked, Step
<1>3. m.pos = [y \in Blocks |-> W[y]] /\ m = [dir |-> d, nodes |-> ns, leaves |-> ls, pos |-> m.pos]
  BY <1>2 DEF Heap
<1>4. ASSUME NEW y \in Blocks
      PROVE  m.pos[y] = Step(m, m.pos, y)
  <2>1. W[y] = Step(b, W, y)
    <3> HIDE DEF W
    <3> QED
      BY <1>1
  <2>2. m.dir = b.dir /\ m.nodes = b.nodes
    BY DEF Heap
  <2>3. CASE y.plen = S \/ y.plen < S + K
    <3> HIDE DEF W, b, m
    <3> QED
      BY <1>3, <2>1, <2>2, <2>3 DEF Step, Entry
  <2>4. CASE ~ (y.plen = S \/ y.plen < S + K)
    <3>1. y \in Prefix /\ y.plen >= S + K /\ y.plen >= K
      BY <2>4, BlockType, Lengths
    <3>2. Over(y) \in Blocks
      BY <3>1, OverType
    <3>3. m.pos[Over(y)] = W[Over(y)]
      <4> HIDE DEF W, m
      <4> QED
        BY <1>3, <3>2
    <3> HIDE DEF W, b, m
    <3> QED
      BY <1>3, <2>1, <2>2, <2>4, <3>2, <3>3 DEF Step, At
  <2> QED
    BY <2>3, <2>4
<1> QED
  BY <1>3, <1>4

-----------------------------------------------------------------------------
\* The heap.

\* Array a was made for block y, and is of the kind.
Named(a, kind, y) == \E k \in Nat : a = <<kind, y, k>>

\* The node n of block y: each of its two arrays is there, is that block's, and has
\* the entries its slots are counted to.
KidsOK(m, y, n) ==
  IF n.vector = {} THEN n.base1 = NULL
  ELSE /\ y.plen + K < Width
       /\ n.base1 \in DOMAIN m.nodes
       /\ Named(n.base1, "nodes", y)
       /\ DOMAIN m.nodes[n.base1] = 1 .. Cardinality(n.vector)

LeavesOK(m, y, n) ==
  IF n.vector = Slots THEN n.base0 = NULL
  ELSE /\ \A i \in Slots \ n.vector : \E j \in n.leafvec : j = i \/ Before(j, i)
       /\ n.base0 \in DOMAIN m.leaves
       /\ Named(n.base0, "leaves", y)
       /\ DOMAIN m.leaves[n.base0] = 1 .. Cardinality(n.leafvec)

NodeOK(m, y, n) ==
  /\ n.vector \in SUBSET Slots
  /\ n.leafvec \in SUBSET (Slots \ n.vector)
  /\ KidsOK(m, y, n)
  /\ LeavesOK(m, y, n)

EntryOK(m, j, H) ==
  \/ \E h \in H : m.dir[j] = LeafEntry(h)
  \/ \E a \in DOMAIN m.nodes : /\ m.dir[j] = RootEntry(a)
                               /\ Named(a, "root", j)
                               /\ DOMAIN m.nodes[a] = 1 .. 1

\* An array is in use: by an entry, or by the node of a block.
NodesHeld(m, a) ==
  \/ \E j \in Index : m.dir[j] = RootEntry(a) /\ Named(a, "root", j)
  \/ \E y \in Blocks : /\ m.pos[y] # NULL /\ NodeAt(m, y).base1 = a
                       /\ Named(a, "nodes", y)

LeavesHeld(m, a) ==
  \E y \in Blocks : m.pos[y] # NULL /\ NodeAt(m, y).base0 = a /\ Named(a, "leaves", y)

\* The heap m, with the next hops H.
HeapOK(m, H) ==
  /\ m = Heap(m.dir, m.nodes, m.leaves)
  /\ DOMAIN m.dir = Index
  /\ \A j \in Index : EntryOK(m, j, H)
  /\ \A y \in Blocks : m.pos[y] # NULL => NodeOK(m, y, NodeAt(m, y))
  /\ \A a \in DOMAIN m.nodes : NodesHeld(m, a)
  /\ \A a \in DOMAIN m.leaves : LeavesHeld(m, a)
  /\ \A a \in DOMAIN m.leaves : \A k \in DOMAIN m.leaves[a] : m.leaves[a][k] \in H

\* The walk of a sound heap, in the cases of Step.
LEMMA Walk ==
  ASSUME NEW m, m = Heap(m.dir, m.nodes, m.leaves), NEW y \in Blocks
  PROVE  /\ y.plen = S => m.pos[y] = Entry(m, y)
         /\ y.plen # S /\ y.plen < S + K => m.pos[y] = NULL
         /\ y.plen >= S + K =>
              /\ y.plen # S /\ y.plen >= K /\ y.plen - K \in Nat /\ Over(y) \in Blocks
              /\ m.pos[y] = Child(NodeAt(m, Over(y)), INDEX(y.net, y.plen - K))
<1>1. m.pos[y] = Step(m, m.pos, y)
  <2> DEFINE h == Heap(m.dir, m.nodes, m.leaves)
  <2>1. \A z \in Blocks : h.pos[z] = Step(h, h.pos, z)
    BY WalkedSpec
  <2>2. m = h
    OBVIOUS
  <2> HIDE DEF h
  <2> QED
    BY <2>1, <2>2
<1>2. y.plen \in Nat /\ y.plen \in S .. Width /\ y \in Prefix
  BY BlockType
<1>3. y.plen >= S + K => /\ y.plen # S /\ ~ y.plen < S + K /\ y.plen >= K /\ y.plen - K \in Nat
  BY <1>2, Lengths
<1>4. y.plen >= S + K => Over(y) \in Blocks
  BY <1>2, <1>3, OverType
<1> QED
  BY <1>1, <1>3, <1>4 DEF Step, NodeAt

\* A heap of which the positions are those of the walk.
WalkedHeap(m) == m = Heap(m.dir, m.nodes, m.leaves)

\* The walk of a sound heap, below the direct table.
LEMMA WalkOn ==
  ASSUME NEW m, WalkedHeap(m), NEW y \in Blocks, y.plen >= S + K
  PROVE  /\ Over(y) \in Blocks
         /\ m.pos[y] = Child(NodeAt(m, Over(y)), INDEX(y.net, y.plen - K))
  BY Walk DEF WalkedHeap

\* What an entry of the table says, and what leads to a position.
LEMMA EntrySays ==
  ASSUME NEW m, NEW H, NEW j, EntryOK(m, j, H), NULL \notin Array \X Nat
  PROVE  \/ m.dir[j].kind = "leaf" /\ m.dir[j].hop \in H /\ Entry(m, j) = NULL
         \/ /\ m.dir[j].kind = "root"
            /\ m.dir[j].base \in DOMAIN m.nodes
            /\ m.dir[j] = RootEntry(m.dir[j].base)
            /\ Named(m.dir[j].base, "root", j)
            /\ DOMAIN m.nodes[m.dir[j].base] = 1 .. 1
            /\ Entry(m, j) = <<m.dir[j].base, 1>>
<1>1. CASE \E h \in H : m.dir[j] = LeafEntry(h)
  BY <1>1 DEF LeafEntry, Entry
<1>2. CASE \E a \in DOMAIN m.nodes : /\ m.dir[j] = RootEntry(a)
                                     /\ Named(a, "root", j)
                                     /\ DOMAIN m.nodes[a] = 1 .. 1
  BY <1>2 DEF RootEntry, Entry
<1> QED
  BY <1>1, <1>2 DEF EntryOK

\* Names are arrays, and no name or position is NULL.
LEMMA NamesType ==
  ASSUME NEW y \in Blocks, NEW kind \in {"root", "nodes", "leaves"}, NEW a,
         Named(a, kind, y)
  PROVE  /\ a \in Array /\ a # NULL /\ a[1] = kind /\ a[2] = y
         /\ \A k \in Nat : <<a, k>> # NULL
<1>1. PICK k \in Nat : a = <<kind, y, k>>
  BY DEF Named
<1>2. a \in Array
  BY <1>1, BlockType DEF Array
<1> QED
  BY <1>1, <1>2, PoptrieAssumption

\* The nodes a position leads to.
LEMMA Positions ==
  ASSUME NEW m, NEW H, HeapOK(m, H), NEW y \in Blocks, m.pos[y] # NULL
  PROVE  \/ /\ y.plen = S
            /\ m.dir[y] = RootEntry(m.dir[y].base)
            /\ Named(m.dir[y].base, "root", y)
            /\ m.dir[y].base \in DOMAIN m.nodes
            /\ m.pos[y] = <<m.dir[y].base, 1>>
            /\ NodeAt(m, y) = m.nodes[m.dir[y].base][1]
         \/ LET o == Over(y)
                i == INDEX(y.net, y.plen - K)
                n == NodeAt(m, o)
            IN  /\ y.plen >= S + K
                /\ o \in Blocks /\ m.pos[o] # NULL /\ NodeOK(m, o, n)
                /\ i \in n.vector
                /\ n.base1 \in DOMAIN m.nodes /\ Named(n.base1, "nodes", o)
                /\ m.pos[y] = <<n.base1, Rank(n.vector, i)>>
                /\ NodeAt(m, y) = m.nodes[n.base1][Rank(n.vector, i)]
<1>1. /\ m = Heap(m.dir, m.nodes, m.leaves)
      /\ \A j \in Index : EntryOK(m, j, H)
      /\ \A z \in Blocks : m.pos[z] # NULL => NodeOK(m, z, NodeAt(m, z))
  BY DEF HeapOK
<1>2. y.plen = S => y \in Index
  BY BlockType
<1>3. NULL \notin Array \X Nat
  BY PoptrieAssumption
<1>4. CASE y.plen = S
  <2>1. m.pos[y] = Entry(m, y)
    BY <1>1, <1>4, Walk
  <2>2. EntryOK(m, y, H)
    BY <1>1, <1>2, <1>4
  <2>3. /\ m.dir[y] = RootEntry(m.dir[y].base) /\ Named(m.dir[y].base, "root", y)
        /\ m.dir[y].base \in DOMAIN m.nodes
        /\ Entry(m, y) = <<m.dir[y].base, 1>>
    BY <1>3, <2>1, <2>2, EntrySays
  <2>4. NodeAt(m, y) = m.nodes[m.dir[y].base][1]
    BY <2>1, <2>3 DEF NodeAt, At
  <2> QED
    BY <1>4, <2>1, <2>3, <2>4
<1>5. CASE y.plen # S
  <2> DEFINE o == Over(y)
             i == INDEX(y.net, y.plen - K)
             n == NodeAt(m, o)
  <2>1. y.plen >= S + K
    BY <1>1, <1>5, BlockType, Walk, Lengths
  <2>2. o \in Blocks /\ m.pos[y] = Child(n, i)
    BY <1>1, <2>1, Walk
  <2>3. i \in n.vector /\ m.pos[y] = <<n.base1, Rank(n.vector, i)>>
    BY <2>2 DEF Child
  <2>4. m.pos[o] # NULL
    BY <2>3 DEF NodeAt, At, NoNode, Node
  <2>5. NodeOK(m, o, n)
    BY <1>1, <2>2, <2>4
  <2>6. n.base1 \in DOMAIN m.nodes /\ Named(n.base1, "nodes", o)
    BY <2>3, <2>5 DEF NodeOK, KidsOK
  <2>7. NodeAt(m, y) = m.nodes[n.base1][Rank(n.vector, i)]
    <3>1. NodeAt(m, y) = m.nodes[m.pos[y][1]][m.pos[y][2]]
      BY DEF NodeAt, At
    <3>2. m.pos[y][1] = n.base1 /\ m.pos[y][2] = Rank(n.vector, i)
      BY <2>3
    <3> QED
      BY <3>1, <3>2
  <2> QED
    BY <2>1, <2>2, <2>3, <2>4, <2>5, <2>6, <2>7
<1> QED
  BY <1>4, <1>5

\* Two blocks are not at one position.
LEMMA OnePosition ==
  ASSUME NEW m, NEW H, HeapOK(m, H), NEW x \in Blocks, NEW y \in Blocks,
         m.pos[x] # NULL, m.pos[x] = m.pos[y]
  PROVE  x = y
<1> DEFINE ox == Over(x)
           ix == INDEX(x.net, x.plen - K)
           nx == NodeAt(m, ox)
           oy == Over(y)
           iy == INDEX(y.net, y.plen - K)
           ny == NodeAt(m, oy)
<1>1. \/ /\ x.plen = S
         /\ Named(m.dir[x].base, "root", x)
         /\ m.pos[x] = <<m.dir[x].base, 1>>
      \/ /\ x.plen >= S + K
         /\ ox \in Blocks /\ NodeOK(m, ox, nx) /\ ix \in nx.vector
         /\ Named(nx.base1, "nodes", ox)
         /\ m.pos[x] = <<nx.base1, Rank(nx.vector, ix)>>
  BY Positions
<1>2. \/ /\ y.plen = S
         /\ Named(m.dir[y].base, "root", y)
         /\ m.pos[y] = <<m.dir[y].base, 1>>
      \/ /\ y.plen >= S + K
         /\ oy \in Blocks /\ NodeOK(m, oy, ny) /\ iy \in ny.vector
         /\ Named(ny.base1, "nodes", oy)
         /\ m.pos[y] = <<ny.base1, Rank(ny.vector, iy)>>
  BY Positions
<1>3. CASE x.plen = S /\ Named(m.dir[x].base, "root", x) /\ m.pos[x] = <<m.dir[x].base, 1>>
  <2>1. m.pos[x][1][1] = "root" /\ m.pos[x][1][2] = x
    BY <1>3, NamesType
  <2>2. CASE Named(m.dir[y].base, "root", y) /\ m.pos[y] = <<m.dir[y].base, 1>>
    <3>1. m.pos[y][1][2] = y
      BY <2>2, NamesType
    <3> QED
      BY <2>1, <3>1
  <2>3. CASE oy \in Blocks /\ Named(ny.base1, "nodes", oy)
             /\ m.pos[y] = <<ny.base1, Rank(ny.vector, iy)>>
    <3>1. m.pos[y][1][1] = "nodes"
      BY <2>3, NamesType
    <3> QED
      BY <2>1, <3>1
  <2> QED
    BY <1>2, <2>2, <2>3
<1>4. CASE /\ x.plen >= S + K
           /\ ox \in Blocks /\ NodeOK(m, ox, nx) /\ ix \in nx.vector
           /\ Named(nx.base1, "nodes", ox)
           /\ m.pos[x] = <<nx.base1, Rank(nx.vector, ix)>>
  <2>1. m.pos[x][1][1] = "nodes" /\ m.pos[x][1][2] = ox /\ m.pos[x][2] = Rank(nx.vector, ix)
    BY <1>4, NamesType
  <2>2. CASE Named(m.dir[y].base, "root", y) /\ m.pos[y] = <<m.dir[y].base, 1>>
    <3>1. m.pos[y][1][1] = "root"
      BY <2>2, NamesType
    <3> QED
      BY <2>1, <3>1
  <2>3. CASE /\ y.plen >= S + K
             /\ oy \in Blocks /\ NodeOK(m, oy, ny) /\ iy \in ny.vector
             /\ Named(ny.base1, "nodes", oy)
             /\ m.pos[y] = <<ny.base1, Rank(ny.vector, iy)>>
    <3>1. m.pos[y][1][2] = oy /\ m.pos[y][2] = Rank(ny.vector, iy)
      BY <2>3, NamesType
    <3>2. ox = oy /\ Rank(nx.vector, ix) = Rank(nx.vector, iy) /\ iy \in nx.vector
      BY <2>1, <2>3, <3>1
    <3>3. ix = iy
      <4>1. nx.vector \in SUBSET Slots /\ ix \in nx.vector
        BY <1>4 DEF NodeOK
      <4> HIDE DEF nx, ix, iy
      <4> QED
        BY <3>2, <4>1, RankSpec
    <3>4. x = Kid(ox, ix) /\ y = Kid(oy, iy)
      <4>1. x \in Prefix /\ x.plen >= K /\ y \in Prefix /\ y.plen >= K
        BY <1>4, <2>3, BlockType, Lengths
      <4> QED
        BY <4>1, OverType
    <3> QED
      BY <3>2, <3>3, <3>4
  <2> QED
    BY <1>2, <2>2, <2>3
<1> QED
  BY <1>1, <1>3, <1>4

-----------------------------------------------------------------------------
\* Fresh names.

LEMMA BlocksFinite == IsFiniteSet(Blocks)
<1> DEFINE string == [ones \in SUBSET (1 .. Width) |->
                        [k \in 1 .. Width |-> IF k \in ones THEN 1 ELSE 0]]
           start == [q \in Addr \X (S .. Width) |-> PrefixOf(q[1], q[2])]
<1>1. IsFiniteSet(SUBSET (1 .. Width)) /\ IsFiniteSet(S .. Width)
  <2>1. 1 \in Int /\ Width \in Int /\ S \in Int
    BY Lengths
  <2> QED
    BY <2>1, FS_Interval, FS_SUBSET
<1>2. string \in Surjection(SUBSET (1 .. Width), Addr)
  <2>1. ASSUME NEW f \in Addr
        PROVE  \E ones \in SUBSET (1 .. Width) : string[ones] = f
    <3> DEFINE ones == {k \in 1 .. Width : f[k] = 1}
    <3>1. f = [k \in 1 .. Width |-> IF k \in ones THEN 1 ELSE 0]
      BY DEF Addr
    <3>2. string[ones] = f /\ ones \in SUBSET (1 .. Width)
      BY <3>1
    <3> QED
      BY <3>2
  <2>2. string \in [SUBSET (1 .. Width) -> Addr]
    BY DEF Addr
  <2> HIDE DEF string
  <2> QED
    BY <2>1, <2>2 DEF Surjection
<1>3. IsFiniteSet(Addr \X (S .. Width))
  <2> HIDE DEF string
  <2> QED
    BY <1>1, <1>2, FS_Surjection, FS_Product
<1>4. start \in Surjection(Addr \X (S .. Width), Blocks)
  <2>1. start \in [Addr \X (S .. Width) -> Blocks]
    BY DEF Blocks
  <2>2. ASSUME NEW y \in Blocks
        PROVE  \E q \in Addr \X (S .. Width) : start[q] = y
    <3>1. PICK a \in Addr, l \in S .. Width : y = PrefixOf(a, l)
      BY DEF Blocks
    <3>2. start[<<a, l>>] = y /\ <<a, l>> \in Addr \X (S .. Width)
      BY <3>1
    <3> QED
      BY <3>2
  <2> HIDE DEF start
  <2> QED
    BY <2>1, <2>2 DEF Surjection
<1> QED
  <2> HIDE DEF start
  <2> QED
    BY <1>3, <1>4, FS_Surjection

\* As a block holds one array of a kind at most, there are finitely many.
LEMMA HeapFinite ==
  ASSUME NEW m, NEW H, HeapOK(m, H)
  PROVE  IsFiniteSet(DOMAIN m.nodes) /\ IsFiniteSet(DOMAIN m.leaves)
<1> DEFINE holder == [a \in DOMAIN m.nodes |-> <<a[1], a[2]>>]
           owner == [a \in DOMAIN m.leaves |-> a[2]]
           Holders == {"root", "nodes"} \X Blocks
<1>1. \A a \in DOMAIN m.nodes : NodesHeld(m, a)
  BY DEF HeapOK
<1>2. \A a \in DOMAIN m.leaves : LeavesHeld(m, a)
  BY DEF HeapOK
<1>3. Index \subseteq Blocks
  BY BlocksAre, Lengths
<1>4. ASSUME NEW a \in DOMAIN m.nodes
      PROVE  \/ /\ a[1] = "root" /\ a[2] \in Blocks
                /\ m.dir[a[2]] = RootEntry(a)
             \/ /\ a[1] = "nodes" /\ a[2] \in Blocks
                /\ NodeAt(m, a[2]).base1 = a
  <2>1. CASE \E j \in Index : m.dir[j] = RootEntry(a) /\ Named(a, "root", j)
    BY <1>3, <2>1, NamesType
  <2>2. CASE \E y \in Blocks : NodeAt(m, y).base1 = a /\ Named(a, "nodes", y)
    BY <2>2, NamesType
  <2> QED
    BY <1>1, <2>1, <2>2 DEF NodesHeld
<1>5. \A a \in DOMAIN m.nodes : holder[a] \in Holders
  BY <1>4
<1>6. ASSUME NEW a \in DOMAIN m.nodes, NEW c \in DOMAIN m.nodes, holder[a] = holder[c]
      PROVE  a = c
  <2>1. a[1] = c[1] /\ a[2] = c[2]
    BY <1>6
  <2>2. \/ m.dir[a[2]] = RootEntry(a) /\ m.dir[c[2]] = RootEntry(c)
        \/ NodeAt(m, a[2]).base1 = a /\ NodeAt(m, c[2]).base1 = c
    <3>1. a[1] = "root" \/ a[1] = "nodes"
      BY <1>4
    <3> HIDE DEF holder, Holders
    <3> QED
      BY <1>4, <2>1, <3>1
  <2>3. RootEntry(a).base = a /\ RootEntry(c).base = c
    BY DEF RootEntry
  <2> HIDE DEF holder, Holders
  <2> QED
    BY <2>1, <2>2, <2>3
<1>7. ASSUME NEW a \in DOMAIN m.leaves
      PROVE  a[2] \in Blocks /\ NodeAt(m, a[2]).base0 = a
  BY <1>2, NamesType DEF LeavesHeld
<1>8. IsFiniteSet({"root", "nodes"})
  <2>1. IsFiniteSet({"root"}) /\ {"root", "nodes"} = {"root"} \cup {"nodes"}
    BY FS_Singleton
  <2> QED
    BY <2>1, FS_AddElement
<1>9. IsFiniteSet(Holders)
  BY <1>8, BlocksFinite, FS_Product
<1>10. holder \in Injection(DOMAIN m.nodes, Holders)
  <2>1. holder \in [DOMAIN m.nodes -> Holders]
    BY <1>5
  <2> HIDE DEF holder, Holders
  <2> QED
    BY <1>6, <2>1 DEF Injection, IsInjective
<1>11. owner \in Injection(DOMAIN m.leaves, Blocks)
  <2>1. owner \in [DOMAIN m.leaves -> Blocks]
    BY <1>7
  <2>2. \A a, c \in DOMAIN m.leaves : owner[a] = owner[c] => a = c
    BY <1>7
  <2> HIDE DEF owner
  <2> QED
    BY <2>1, <2>2 DEF Injection, IsInjective
<1> QED
  <2> HIDE DEF holder, owner, Holders
  <2> QED
    BY <1>9, <1>10, <1>11, BlocksFinite, FS_Injection

\* buddy_alloc2 gives an array that is not in use.
LEMMA FreshSpec ==
  ASSUME NEW heap, IsFiniteSet(DOMAIN heap), NEW kind, NEW y
  PROVE  Named(Fresh(heap, kind, y), kind, y) /\ Fresh(heap, kind, y) \notin DOMAIN heap
<1> DEFINE C == Cardinality(DOMAIN heap)
           name == [n \in 0 .. C |-> <<kind, y, n>>]
<1>1. C \in Nat
  BY FS_CardinalityType
<1>2. \E n \in 0 .. C : <<kind, y, n>> \notin DOMAIN heap
  <2> SUFFICES ASSUME \A n \in 0 .. C : <<kind, y, n>> \in DOMAIN heap
               PROVE  FALSE
    OBVIOUS
  <2>1. name \in [0 .. C -> DOMAIN heap]
    OBVIOUS
  <2>2. \A i, j \in 0 .. C : name[i] = name[j] => i = j
    OBVIOUS
  <2>3. IsFiniteSet(0 .. C) /\ Cardinality(0 .. C) = C + 1
    <3>1. 0 \in Int /\ C \in Int /\ ~ 0 > C
      BY <1>1
    <3> HIDE DEF C
    <3> QED
      BY <3>1, FS_Interval
  <2>4. C < C + 1
    BY <1>1
  <2>5. Cardinality(DOMAIN heap) < Cardinality(0 .. C)
    BY <2>3, <2>4
  <2> HIDE DEF name, C
  <2>6. \E i, j \in 0 .. C : i # j /\ name[i] = name[j]
    BY <2>1, <2>3, <2>5, FS_PigeonHole
  <2> QED
    BY <2>2, <2>6
<1>3. PICK n \in 0 .. C : /\ Fresh(heap, kind, y) = <<kind, y, n>>
                          /\ <<kind, y, n>> \notin DOMAIN heap
  BY <1>2 DEF Fresh
<1> QED
  BY <1>1, <1>3 DEF Named

-----------------------------------------------------------------------------
\* The change an update makes.

Remade(b) == DOMAIN b.vec \cup DOMAIN b.hops

\* The slots with a child that block y has after the change b.
VectorOf(m, b, y) == IF y \in DOMAIN b.vec THEN b.vec[y] ELSE NodeAt(m, y).vector

\* A child of a new array is a new node, or one that was there.
GoodVec(m, b, y) ==
  /\ b.vec[y] \in SUBSET Slots
  /\ b.vec[y] # {} => y.plen + K < Width
  /\ \A i \in b.vec[y] : \/ Kid(y, i) \in DOMAIN b.vec \cap DOMAIN b.hops
                         \/ m.pos[Kid(y, i)] # NULL
  /\ y \notin DOMAIN b.hops => b.vec[y] = NodeAt(m, y).vector

GoodHops(m, b, H, y) ==
  /\ DOMAIN b.hops[y] = Slots \ VectorOf(m, b, y)
  /\ \A i \in DOMAIN b.hops[y] : b.hops[y][i] \in H

\* A new node is put in a new array, or over the one there is.
GoodPlace(m, b, y) ==
  /\ y \in DOMAIN b.vec \cap DOMAIN b.hops \/ m.pos[y] # NULL
  /\ \/ y \in b.roots
     \/ y \in b.stored
     \/ /\ y.plen >= S + K
        /\ Over(y) \in DOMAIN b.vec
        /\ INDEX(y.net, y.plen - K) \in b.vec[Over(y)]

\* The table is written, or a single node, and all that changes is below it.
GoodStore(m, b, y) ==
  /\ b.stored = {y} /\ b.roots = {} /\ DOMAIN b.leaf = {}
  /\ y \in DOMAIN b.vec /\ y \notin DOMAIN b.hops /\ m.pos[y] # NULL
  /\ \A z \in Remade(b) : y.plen <= z.plen

GoodChange(m, b, H) ==
  /\ Remade(b) \subseteq Blocks
  /\ b.roots \subseteq Index \cap Remade(b)
  /\ DOMAIN b.leaf \subseteq Index \ Remade(b)
  /\ \A e \in DOMAIN b.leaf : b.leaf[e] \in H
  /\ b.stored \subseteq Blocks
  /\ \A y \in b.stored : GoodStore(m, b, y)
  /\ \A y \in Remade(b) : GoodPlace(m, b, y)
  /\ \A y \in DOMAIN b.vec : GoodVec(m, b, y)
  /\ \A y \in DOMAIN b.hops : GoodHops(m, b, H, y)

\* The table after the change.
LEMMA LinkedDir ==
  ASSUME NEW m, NEW H, NEW b, GoodChange(m, b, H), NEW n, n = Linked(m, b)
  PROVE  /\ n = Heap(n.dir, n.nodes, n.leaves)
         /\ DOMAIN n.dir = Index
         /\ \A e \in DOMAIN b.leaf : n.dir[e] = LeafEntry(b.leaf[e])
         /\ \A e \in b.roots : n.dir[e] = RootEntry(Fresh(m.nodes, "root", e))
         /\ \A e \in Index \ (DOMAIN b.leaf \cup b.roots) : n.dir[e] = m.dir[e]
<1>1. n.dir = [e \in Index |-> IF e \in DOMAIN b.leaf THEN LeafEntry(b.leaf[e])
                               ELSE IF e \in b.roots THEN RootEntry(Fresh(m.nodes, "root", e))
                               ELSE m.dir[e]]
  BY DEF Linked, Heap
<1>2. n = Heap(n.dir, n.nodes, n.leaves)
  BY DEF Linked, Heap
<1>3. DOMAIN b.leaf \subseteq Index /\ b.roots \subseteq Index /\ DOMAIN b.leaf \cap b.roots = {}
  BY DEF GoodChange
<1> QED
  BY <1>1, <1>2, <1>3

\* The arrays there were: none is written but at the node that is stored.
OldKept(m, b, n) ==
  /\ \A a \in DOMAIN m.leaves : a \in DOMAIN n.leaves /\ n.leaves[a] = m.leaves[a]
  /\ \A a \in DOMAIN m.nodes :
       /\ a \in DOMAIN n.nodes
       /\ DOMAIN n.nodes[a] = DOMAIN m.nodes[a]
       /\ \A k \in DOMAIN m.nodes[a] :
            /\ (\A y \in b.stored : m.pos[y] # <<a, k>>) => n.nodes[a][k] = m.nodes[a][k]
            /\ \A y \in b.stored : m.pos[y] = <<a, k>> => n.nodes[a][k] = Made(m, b, y)

LEMMA LinkedOld ==
  ASSUME NEW m, NEW H, NEW b, GoodChange(m, b, H), NEW n, n = Linked(m, b)
  PROVE  OldKept(m, b, n)
<1> DEFINE stored(a, k) == {y \in b.stored : m.pos[y] = <<a, k>>}
<1>1. \A a \in DOMAIN m.leaves : a \in DOMAIN n.leaves /\ n.leaves[a] = m.leaves[a]
  BY DEF Linked, Heap
<1>2. \A a \in DOMAIN m.nodes :
        /\ a \in DOMAIN n.nodes
        /\ n.nodes[a] = [k \in DOMAIN m.nodes[a] |->
                           IF stored(a, k) = {} THEN m.nodes[a][k]
                           ELSE Made(m, b, CHOOSE y \in stored(a, k) : TRUE)]
  BY DEF Linked, Heap
<1>3. \A y \in b.stored : b.stored = {y}
  BY DEF GoodChange, GoodStore
<1>4. ASSUME NEW a \in DOMAIN m.nodes, NEW k \in DOMAIN m.nodes[a], NEW y \in b.stored,
             m.pos[y] = <<a, k>>
      PROVE  n.nodes[a][k] = Made(m, b, y)
  <2>1. stored(a, k) = {y}
    BY <1>3, <1>4
  <2>2. (CHOOSE z \in stored(a, k) : TRUE) = y
    BY <2>1
  <2> HIDE DEF stored
  <2> QED
    BY <1>2, <2>1, <2>2
<1>5. ASSUME NEW a \in DOMAIN m.nodes, NEW k \in DOMAIN m.nodes[a],
             \A y \in b.stored : m.pos[y] # <<a, k>>
      PROVE  n.nodes[a][k] = m.nodes[a][k]
  <2>1. stored(a, k) = {}
    BY <1>5
  <2> HIDE DEF stored
  <2> QED
    BY <1>2, <2>1
<1>6. \A a \in DOMAIN m.nodes : DOMAIN n.nodes[a] = DOMAIN m.nodes[a]
  <2> HIDE DEF stored
  <2> QED
    BY <1>2
<1> HIDE DEF stored
<1> QED
  BY <1>1, <1>2, <1>4, <1>5, <1>6 DEF OldKept

\* The arrays that are new, and what is in them.
RootsThere(m, b, n) ==
  \A e \in b.roots :
    LET a == Fresh(m.nodes, "root", e)
    IN  /\ a \in DOMAIN n.nodes /\ a \notin DOMAIN m.nodes
        /\ Named(a, "root", e)
        /\ n.nodes[a] = <<Made(m, b, e)>>

KidsThere(m, b, n) ==
  \A y \in DOMAIN b.vec :
    b.vec[y] # {} =>
      LET a == NewKids(m, b, y)
      IN  /\ a \in DOMAIN n.nodes /\ a \notin DOMAIN m.nodes
          /\ Named(a, "nodes", y)
          /\ DOMAIN n.nodes[a] = 1 .. Cardinality(b.vec[y])
          /\ \A i \in b.vec[y] : n.nodes[a][Rank(b.vec[y], i)] = Made(m, b, Kid(y, i))

LeavesThere(m, b, n) ==
  \A y \in DOMAIN b.hops :
    DOMAIN b.hops[y] # {} =>
      LET a == NewLeaves(m, b, y)
      IN  /\ a \in DOMAIN n.leaves /\ a \notin DOMAIN m.leaves
          /\ Named(a, "leaves", y)
          /\ n.leaves[a] = InOrder(b.hops[y], Changes(b.hops[y]))

NothingElse(m, b, n) ==
  /\ \A a \in DOMAIN n.nodes :
       \/ a \in DOMAIN m.nodes
       \/ \E e \in b.roots : a = Fresh(m.nodes, "root", e)
       \/ \E y \in DOMAIN b.vec : b.vec[y] # {} /\ a = NewKids(m, b, y)
  /\ \A a \in DOMAIN n.leaves :
       \/ a \in DOMAIN m.leaves
       \/ \E y \in DOMAIN b.hops : DOMAIN b.hops[y] # {} /\ a = NewLeaves(m, b, y)

LEMMA LinkedNew ==
  ASSUME NEW m, NEW H, HeapOK(m, H), NEW b, GoodChange(m, b, H), NEW n, n = Linked(m, b)
  PROVE  RootsThere(m, b, n) /\ KidsThere(m, b, n) /\ LeavesThere(m, b, n)
         /\ NothingElse(m, b, n)
<1> DEFINE kids == {NewKids(m, b, y) : y \in DOMAIN b.vec} \ {NULL}
           roots == {Fresh(m.nodes, "root", e) : e \in b.roots}
           leaves == {NewLeaves(m, b, y) : y \in DOMAIN b.hops} \ {NULL}
           new(y) == InOrder([i \in b.vec[y] |-> Made(m, b, Kid(y, i))], b.vec[y])
<1>1. /\ DOMAIN n.nodes = DOMAIN m.nodes \cup kids \cup roots
      /\ \A a \in (kids \cup roots) \ DOMAIN m.nodes :
           n.nodes[a] = IF a \in roots THEN <<Made(m, b, a[2])>> ELSE new(a[2])
  BY DEF Linked, Heap
<1>2. /\ DOMAIN n.leaves = DOMAIN m.leaves \cup leaves
      /\ \A a \in leaves \ DOMAIN m.leaves :
           n.leaves[a] = InOrder(b.hops[a[2]], Changes(b.hops[a[2]]))
  BY DEF Linked, Heap
<1>3. IsFiniteSet(DOMAIN m.nodes) /\ IsFiniteSet(DOMAIN m.leaves)
  BY HeapFinite
<1>4. /\ DOMAIN b.vec \subseteq Blocks /\ DOMAIN b.hops \subseteq Blocks /\ b.roots \subseteq Blocks
      /\ \A y \in DOMAIN b.vec : b.vec[y] \in SUBSET Slots
  BY DEF GoodChange, Remade, GoodVec
<1>5. ASSUME NEW e \in b.roots
      PROVE  /\ Fresh(m.nodes, "root", e) \in DOMAIN n.nodes \ DOMAIN m.nodes
             /\ Named(Fresh(m.nodes, "root", e), "root", e)
             /\ n.nodes[Fresh(m.nodes, "root", e)] = <<Made(m, b, e)>>
  <2> DEFINE a == Fresh(m.nodes, "root", e)
  <2>1. Named(a, "root", e) /\ a \notin DOMAIN m.nodes /\ a \in roots
    BY <1>3, FreshSpec
  <2>2. a[2] = e
    BY <1>4, <2>1, NamesType
  <2> HIDE DEF kids, roots, new, a
  <2> QED
    BY <1>1, <2>1, <2>2 DEF a
<1>6. ASSUME NEW y \in DOMAIN b.vec, b.vec[y] # {}
      PROVE  /\ NewKids(m, b, y) \in DOMAIN n.nodes \ DOMAIN m.nodes
             /\ Named(NewKids(m, b, y), "nodes", y)
             /\ DOMAIN n.nodes[NewKids(m, b, y)] = 1 .. Cardinality(b.vec[y])
             /\ \A i \in b.vec[y] :
                  n.nodes[NewKids(m, b, y)][Rank(b.vec[y], i)] = Made(m, b, Kid(y, i))
  <2> DEFINE a == NewKids(m, b, y)
             f == [i \in b.vec[y] |-> Made(m, b, Kid(y, i))]
  <2>1. Named(a, "nodes", y) /\ a \notin DOMAIN m.nodes
    BY <1>3, <1>6, FreshSpec DEF NewKids
  <2>2. a # NULL /\ a[1] = "nodes" /\ a[2] = y
    BY <1>4, <2>1, NamesType
  <2>3. a \in kids
    BY <2>2
  <2>4. a \notin roots
    <3>1. \A e \in b.roots : Fresh(m.nodes, "root", e)[1] = "root"
      BY <1>3, <1>4, FreshSpec, NamesType
    <3> HIDE DEF a
    <3> QED
      BY <2>2, <3>1
  <2>5. n.nodes[a] = InOrder(f, b.vec[y]) /\ a \in DOMAIN n.nodes
    <3>1. n.nodes[a] = new(y) /\ a \in DOMAIN n.nodes
      <4> HIDE DEF kids, roots, new, a
      <4> QED
        BY <1>1, <2>1, <2>2, <2>3, <2>4
    <3> HIDE DEF a
    <3> QED
      BY <3>1
  <2>6. /\ DOMAIN InOrder(f, b.vec[y]) = 1 .. Cardinality(b.vec[y])
        /\ \A i \in b.vec[y] : InOrder(f, b.vec[y])[Rank(b.vec[y], i)] = f[i]
    <3> HIDE DEF f, a, kids, roots, new, leaves
    <3>1. PICK V \in SUBSET Slots : V = b.vec[y]
      BY <1>4, <1>6
    <3>2. /\ DOMAIN InOrder(f, V) = 1 .. Cardinality(V)
          /\ \A i \in V : InOrder(f, V)[Rank(V, i)] = f[i]
      BY InOrderSpec
    <3> QED
      BY <3>1, <3>2
  <2> HIDE DEF a
  <2> QED
    BY <2>1, <2>5, <2>6 DEF a
<1>7. ASSUME NEW y \in DOMAIN b.hops, DOMAIN b.hops[y] # {}
      PROVE  /\ NewLeaves(m, b, y) \in DOMAIN n.leaves \ DOMAIN m.leaves
             /\ Named(NewLeaves(m, b, y), "leaves", y)
             /\ n.leaves[NewLeaves(m, b, y)] = InOrder(b.hops[y], Changes(b.hops[y]))
  <2> DEFINE a == NewLeaves(m, b, y)
  <2>1. Named(a, "leaves", y) /\ a \notin DOMAIN m.leaves
    BY <1>3, <1>7, FreshSpec DEF NewLeaves
  <2>2. a # NULL /\ a[2] = y
    BY <1>4, <2>1, NamesType
  <2>3. a \in leaves
    BY <2>2
  <2> HIDE DEF leaves, a
  <2> QED
    BY <1>2, <2>1, <2>2, <2>3 DEF a
<1>8. \A a \in kids : \E y \in DOMAIN b.vec : b.vec[y] # {} /\ a = NewKids(m, b, y)
  BY DEF NewKids
<1>9. \A a \in leaves : \E y \in DOMAIN b.hops : DOMAIN b.hops[y] # {} /\ a = NewLeaves(m, b, y)
  BY DEF NewLeaves
<1>10. \A a \in DOMAIN n.nodes :
         \/ a \in DOMAIN m.nodes
         \/ \E e \in b.roots : a = Fresh(m.nodes, "root", e)
         \/ \E y \in DOMAIN b.vec : b.vec[y] # {} /\ a = NewKids(m, b, y)
  <2>1. \A a \in roots : \E e \in b.roots : a = Fresh(m.nodes, "root", e)
    OBVIOUS
  <2> HIDE DEF kids, roots
  <2> QED
    BY <1>1, <1>8, <2>1
<1>11. \A a \in DOMAIN n.leaves :
         \/ a \in DOMAIN m.leaves
         \/ \E y \in DOMAIN b.hops : DOMAIN b.hops[y] # {} /\ a = NewLeaves(m, b, y)
  <2> HIDE DEF leaves
  <2> QED
    BY <1>2, <1>9
<1> HIDE DEF kids, roots, leaves, new
<1> QED
  BY <1>5, <1>6, <1>7, <1>10, <1>11 DEF RootsThere, KidsThere, LeavesThere, NothingElse

-----------------------------------------------------------------------------
\* The walk after the change.

\* A position is an entry of an array.
LEMMA PositionIn ==
  ASSUME NEW m, NEW H, HeapOK(m, H), NEW y \in Blocks, m.pos[y] # NULL
  PROVE  /\ m.pos[y] = <<m.pos[y][1], m.pos[y][2]>>
         /\ m.pos[y][1] \in DOMAIN m.nodes
         /\ m.pos[y][2] \in DOMAIN m.nodes[m.pos[y][1]]
         /\ NodeAt(m, y) = m.nodes[m.pos[y][1]][m.pos[y][2]]
<1>1. NodeAt(m, y) = m.nodes[m.pos[y][1]][m.pos[y][2]]
  BY DEF NodeAt, At
<1> SUFFICES /\ m.pos[y] = <<m.pos[y][1], m.pos[y][2]>>
             /\ m.pos[y][1] \in DOMAIN m.nodes
             /\ m.pos[y][2] \in DOMAIN m.nodes[m.pos[y][1]]
  BY <1>1
<1>2. CASE y.plen = S
  <2>1. /\ m.dir[y] = RootEntry(m.dir[y].base)
        /\ m.pos[y] = <<m.dir[y].base, 1>>
    BY <1>2, Positions, Lengths
  <2>2. EntryOK(m, y, H)
    BY <1>2, BlockType DEF HeapOK
  <2>3. m.dir[y].base \in DOMAIN m.nodes /\ DOMAIN m.nodes[m.dir[y].base] = 1 .. 1
    <3>1. m.dir[y].kind # "leaf"
      BY <2>1 DEF RootEntry
    <3> QED
      BY <2>2, <3>1, EntrySays, PoptrieAssumption
  <2> QED
    BY <1>1, <2>1, <2>3
<1>3. CASE y.plen # S
  <2> DEFINE o == Over(y)
             i == INDEX(y.net, y.plen - K)
             v == NodeAt(m, o)
  <2>1. /\ NodeOK(m, o, v) /\ i \in v.vector
        /\ m.pos[y] = <<v.base1, Rank(v.vector, i)>>
    BY <1>3, Positions
  <2>2. v.vector \in SUBSET Slots /\ v.vector # {}
    BY <2>1 DEF NodeOK
  <2>3. v.base1 \in DOMAIN m.nodes /\ DOMAIN m.nodes[v.base1] = 1 .. Cardinality(v.vector)
    BY <2>1, <2>2 DEF NodeOK, KidsOK
  <2>4. Rank(v.vector, i) \in 1 .. Cardinality(v.vector)
    <3> HIDE DEF v, i
    <3> QED
      BY <2>1, <2>2, RankSpec
  <2>5. /\ m.pos[y][1] = v.base1 /\ m.pos[y][2] = Rank(v.vector, i)
        /\ m.pos[y] = <<m.pos[y][1], m.pos[y][2]>>
    BY <2>1
  <2> HIDE DEF v, i
  <2> QED
    BY <2>3, <2>4, <2>5
<1> QED
  BY <1>2, <1>3

\* A node that stays where it was is the one there was, or that is put over it.
LEMMA InPlace ==
  ASSUME NEW m, NEW H, HeapOK(m, H), NEW b, GoodChange(m, b, H), NEW n, n = Linked(m, b),
         NEW y \in Blocks, m.pos[y] # NULL, n.pos[y] = m.pos[y],
         y \notin Remade(b) \/ y \in b.stored
  PROVE  NodeAt(n, y) = Made(m, b, y)
<1> DEFINE a == m.pos[y][1]
           k == m.pos[y][2]
<1>1. m.pos[y] = <<a, k>> /\ a \in DOMAIN m.nodes /\ k \in DOMAIN m.nodes[a]
  BY PositionIn
<1>2. NodeAt(n, y) = n.nodes[a][k] /\ NodeAt(m, y) = m.nodes[a][k]
  BY DEF NodeAt, At
<1>3. /\ (\A z \in b.stored : m.pos[z] # <<a, k>>) => n.nodes[a][k] = m.nodes[a][k]
      /\ \A z \in b.stored : m.pos[z] = <<a, k>> => n.nodes[a][k] = Made(m, b, z)
  <2>1. OldKept(m, b, n)
    BY LinkedOld
  <2> HIDE DEF a, k
  <2> QED
    BY <1>1, <2>1 DEF OldKept
<1>4. CASE y \in b.stored
  BY <1>1, <1>2, <1>3, <1>4
<1>5. CASE y \notin b.stored
  <2>1. \A z \in b.stored : m.pos[z] # <<a, k>>
    <3>1. b.stored \subseteq Blocks
      BY DEF GoodChange
    <3> QED
      BY <1>1, <1>5, <3>1, OnePosition
  <2>2. Made(m, b, y) = NodeAt(m, y)
    BY <1>5 DEF Made, Remade
  <2> QED
    BY <1>2, <1>3, <2>1, <2>2
<1> QED
  BY <1>4, <1>5

\* Made, field by field.
LEMMA MadeIs ==
  ASSUME NEW m, NEW b, NEW y
  PROVE  /\ Made(m, b, y).vector = VectorOf(m, b, y)
         /\ Made(m, b, y).base1 = IF y \in DOMAIN b.vec THEN NewKids(m, b, y)
                                  ELSE NodeAt(m, y).base1
         /\ Made(m, b, y).leafvec = IF y \in DOMAIN b.hops THEN Changes(b.hops[y])
                                    ELSE NodeAt(m, y).leafvec
         /\ Made(m, b, y).base0 = IF y \in DOMAIN b.hops THEN NewLeaves(m, b, y)
                                  ELSE NodeAt(m, y).base0
  BY DEF Made, Node, VectorOf

\* Where there is a node after the change, it is the one that was made.
LEMMA LinkedNode ==
  ASSUME NEW m, NEW H, HeapOK(m, H), NEW b, GoodChange(m, b, H), NEW n, n = Linked(m, b)
  PROVE  \A y \in Blocks :
           n.pos[y] # NULL =>
             /\ NodeAt(n, y) = Made(m, b, y)
             /\ y \in DOMAIN b.vec \cap DOMAIN b.hops \/ m.pos[y] # NULL
<1> DEFINE Right(y) ==
             n.pos[y] # NULL =>
               /\ NodeAt(n, y) = Made(m, b, y)
               /\ y \in DOMAIN b.vec \cap DOMAIN b.hops \/ m.pos[y] # NULL
           T == {y \in Blocks : Right(y)}
<1>0. /\ m = Heap(m.dir, m.nodes, m.leaves)
      /\ n = Heap(n.dir, n.nodes, n.leaves)
  BY LinkedDir DEF HeapOK
<1>1. ASSUME NEW y \in Index
      PROVE  Right(y)
  <2> SUFFICES ASSUME n.pos[y] # NULL
               PROVE  /\ NodeAt(n, y) = Made(m, b, y)
                      /\ y \in DOMAIN b.vec \cap DOMAIN b.hops \/ m.pos[y] # NULL
    OBVIOUS
  <2>1. y \in Blocks /\ y.plen = S
    BY BlocksAre, Lengths
  <2>2. n.pos[y] = Entry(n, y) /\ m.pos[y] = Entry(m, y)
    BY <1>0, <2>1, Walk
  <2>3. y \notin DOMAIN b.leaf
    <3>1. y \in DOMAIN b.leaf => n.dir[y] = LeafEntry(b.leaf[y])
      BY LinkedDir
    <3> QED
      BY <2>2, <3>1 DEF LeafEntry, Entry
  <2>4. CASE y \in b.roots
    <3> DEFINE a == Fresh(m.nodes, "root", y)
    <3>1. n.dir[y] = RootEntry(a) /\ n.nodes[a] = <<Made(m, b, y)>>
      <4>1. n.dir[y] = RootEntry(a)
        BY <2>4, LinkedDir
      <4>2. n.nodes[a] = <<Made(m, b, y)>>
        <5>1. RootsThere(m, b, n)
          BY LinkedNew
        <5> QED
          BY <2>4, <5>1 DEF RootsThere
      <4> QED
        BY <4>1, <4>2
    <3>2. Entry(n, y) = <<a, 1>>
      BY <3>1 DEF Entry, RootEntry
    <3>3. NodeAt(n, y) = n.nodes[a][1]
      <4> HIDE DEF a
      <4> QED
        BY <2>2, <3>2 DEF NodeAt, At
    <3>4. y \in DOMAIN b.vec \cap DOMAIN b.hops \/ m.pos[y] # NULL
      BY <2>4 DEF GoodChange, GoodPlace
    <3> QED
      BY <3>1, <3>3, <3>4
  <2>5. CASE y \notin b.roots
    <3>1. n.dir[y] = m.dir[y]
      BY <2>3, <2>5, LinkedDir
    <3>2. n.pos[y] = m.pos[y]
      BY <2>2, <3>1 DEF Entry
    <3>3. y \notin Remade(b) \/ y \in b.stored
      <4>1. ~ y.plen >= S + K
        BY <2>1, Lengths
      <4> QED
        BY <2>5, <4>1 DEF GoodChange, GoodPlace
    <3> QED
      BY <2>1, <3>2, <3>3, InPlace
  <2> QED
    BY <2>4, <2>5
<1>2. ASSUME NEW y \in Blocks, y.plen # S, y.plen < S + K
      PROVE  Right(y)
  BY <1>0, <1>2, Walk
<1>3. ASSUME NEW y \in Blocks, y.plen >= S + K, Over(y) \in T
      PROVE  Right(y)
  <2> SUFFICES ASSUME n.pos[y] # NULL
               PROVE  /\ NodeAt(n, y) = Made(m, b, y)
                      /\ y \in DOMAIN b.vec \cap DOMAIN b.hops \/ m.pos[y] # NULL
    OBVIOUS
  <2> DEFINE o == Over(y)
             i == INDEX(y.net, y.plen - K)
  <2>1. /\ y.plen # S /\ y.plen >= K /\ o \in Blocks
        /\ n.pos[y] = Child(NodeAt(n, o), i) /\ m.pos[y] = Child(NodeAt(m, o), i)
    BY <1>0, <1>3, Walk
  <2>2. i \in NodeAt(n, o).vector
    BY <2>1 DEF Child
  <2>3. n.pos[o] # NULL
    BY <2>2 DEF NodeAt, At, NoNode, Node
  <2>4. /\ NodeAt(n, o) = Made(m, b, o)
        /\ o \in DOMAIN b.vec \cap DOMAIN b.hops \/ m.pos[o] # NULL
    BY <1>3, <2>3
  <2>5. CASE o \in DOMAIN b.vec
    <3> DEFINE a == NewKids(m, b, o)
    <3>1. i \in b.vec[o] /\ NodeAt(n, o).vector = b.vec[o] /\ NodeAt(n, o).base1 = a
      BY <2>2, <2>4, <2>5, MadeIs DEF VectorOf
    <3>2. Kid(o, i) = y
      BY <2>1, BlockType, OverType
    <3>3. b.vec[o] # {} /\ n.nodes[a][Rank(b.vec[o], i)] = Made(m, b, y)
      <4>1. b.vec[o] # {}
        BY <3>1
      <4> HIDE DEF a, i, o
      <4> QED
        <5>1. KidsThere(m, b, n)
          BY LinkedNew
        <5> QED
          BY <2>5, <3>1, <3>2, <4>1, <5>1 DEF a, KidsThere
    <3>4. n.pos[y] = <<a, Rank(b.vec[o], i)>>
      BY <2>1, <3>1 DEF Child
    <3>5. NodeAt(n, y) = n.nodes[a][Rank(b.vec[o], i)]
      <4> HIDE DEF a, i, o
      <4> QED
        BY <3>4 DEF NodeAt, At
    <3>6. y \in DOMAIN b.vec \cap DOMAIN b.hops \/ m.pos[y] # NULL
      <4>1. GoodVec(m, b, o)
        BY <2>5 DEF GoodChange
      <4> QED
        BY <3>1, <3>2, <4>1 DEF GoodVec
    <3> QED
      BY <3>3, <3>5, <3>6
  <2>6. CASE o \notin DOMAIN b.vec
    <3>1. /\ NodeAt(n, o).vector = NodeAt(m, o).vector
          /\ NodeAt(n, o).base1 = NodeAt(m, o).base1
      BY <2>4, <2>6, MadeIs DEF VectorOf
    <3>2. n.pos[y] = m.pos[y]
      BY <2>1, <3>1 DEF Child
    <3>3. y \notin Remade(b) \/ y \in b.stored
      <4>1. y \notin b.roots
        <5>1. b.roots \subseteq Index
          BY DEF GoodChange
        <5> QED
          BY <2>1, <5>1, BlocksAre
      <4> QED
        BY <2>6, <4>1 DEF GoodChange, GoodPlace
    <3> QED
      BY <3>2, <3>3, InPlace
  <2> QED
    BY <2>5, <2>6
<1>4. Blocks \subseteq T
  <2>1. Index \subseteq T
    BY <1>1, BlocksAre, Lengths
  <2>2. \A y \in Blocks : y.plen # S /\ y.plen < S + K => y \in T
    BY <1>2
  <2>3. \A y \in Blocks : y.plen >= S + K /\ Over(y) \in T => y \in T
    BY <1>3
  <2> HIDE DEF T
  <2> QED
    BY <2>1, <2>2, <2>3, BlockInduction
<1> QED
  BY <1>4

\* Above a node that is stored nothing changes.
LEMMA StoredWay ==
  ASSUME NEW m, NEW H, HeapOK(m, H), NEW b, GoodChange(m, b, H), NEW n, n = Linked(m, b),
         NEW y \in b.stored
  PROVE  \A z \in Blocks : z.plen <= y.plen => n.pos[z] = m.pos[z]
<1> DEFINE T == {z \in Blocks : z.plen <= y.plen => n.pos[z] = m.pos[z]}
<1>1. /\ m = Heap(m.dir, m.nodes, m.leaves)
      /\ n = Heap(n.dir, n.nodes, n.leaves)
  BY LinkedDir DEF HeapOK
<1>2. /\ y \in Blocks /\ y.plen \in Nat
      /\ b.roots = {} /\ DOMAIN b.leaf = {}
      /\ \A z \in Remade(b) : y.plen <= z.plen
  BY BlockType DEF GoodChange, GoodStore
<1>3. ASSUME NEW z \in Index
      PROVE  z \in T
  <2>1. z \in Blocks /\ z.plen = S
    BY BlocksAre, Lengths
  <2>2. n.dir[z] = m.dir[z]
    BY <1>2, LinkedDir
  <2>3. n.pos[z] = Entry(n, z) /\ m.pos[z] = Entry(m, z)
    BY <1>1, <2>1, Walk
  <2> QED
    BY <2>1, <2>2, <2>3 DEF Entry
<1>4. ASSUME NEW z \in Blocks, z.plen # S, z.plen < S + K
      PROVE  z \in T
  BY <1>1, <1>4, Walk
<1>5. ASSUME NEW z \in Blocks, z.plen >= S + K, Over(z) \in T
      PROVE  z \in T
  <2> SUFFICES ASSUME z.plen <= y.plen
               PROVE  n.pos[z] = m.pos[z]
    OBVIOUS
  <2> DEFINE o == Over(z)
             i == INDEX(z.net, z.plen - K)
  <2>1. /\ o \in Blocks
        /\ n.pos[z] = Child(NodeAt(n, o), i) /\ m.pos[z] = Child(NodeAt(m, o), i)
    BY <1>1, <1>5, Walk
  <2>2. o.plen = z.plen - K
    BY <1>1, <1>5, Walk, BlockType, OverType
  <2>3. o.plen < y.plen /\ ~ y.plen <= o.plen
    BY <1>2, <2>2, BlockType, Lengths
  <2>4. n.pos[o] = m.pos[o]
    BY <1>2, <1>5, <2>1, <2>3, BlockType
  <2>5. NodeAt(n, o) = NodeAt(m, o)
    <3>1. CASE m.pos[o] = NULL
      BY <2>4, <3>1 DEF NodeAt, At
    <3>2. CASE m.pos[o] # NULL
      <4>1. o \notin Remade(b)
        BY <1>2, <2>3
      <4>2. NodeAt(n, o) = Made(m, b, o)
        BY <2>1, <2>4, <3>2, LinkedNode
      <4> QED
        BY <4>1, <4>2 DEF Made, Remade
    <3> QED
      BY <3>1, <3>2
  <2> QED
    BY <2>1, <2>5
<1> HIDE DEF T
<1>6. Blocks \subseteq T
  BY <1>3, <1>4, <1>5, BlockInduction
<1> QED
  BY <1>6 DEF T

\* Every node that was made is there after the change.
LEMMA RemadeThere ==
  ASSUME NEW m, NEW H, HeapOK(m, H), NEW b, GoodChange(m, b, H), NEW n, n = Linked(m, b)
  PROVE  \A y \in Remade(b) : n.pos[y] # NULL
<1> DEFINE T == {y \in Blocks : y \in Remade(b) => n.pos[y] # NULL}
<1>1. n = Heap(n.dir, n.nodes, n.leaves)
  BY LinkedDir
<1>2. /\ Remade(b) \subseteq Blocks
      /\ \A y \in Remade(b) : GoodPlace(m, b, y)
  BY DEF GoodChange
<1>3. KidsThere(m, b, n) /\ RootsThere(m, b, n)
  BY LinkedNew
<1>4. ASSUME NEW y \in b.stored
      PROVE  n.pos[y] # NULL
  <2>1. y \in Blocks /\ m.pos[y] # NULL /\ y.plen <= y.plen
    BY BlockType DEF GoodChange, GoodStore
  <2> QED
    BY <2>1, StoredWay
<1>5. ASSUME NEW y \in b.roots
      PROVE  n.pos[y] # NULL
  <2> DEFINE a == Fresh(m.nodes, "root", y)
  <2>1. y \in Index /\ y \in Blocks /\ y.plen = S
    BY BlocksAre, Lengths DEF GoodChange
  <2>2. n.dir[y] = RootEntry(a) /\ Named(a, "root", y)
    <3>1. n.dir[y] = RootEntry(a)
      BY LinkedDir
    <3>2. Named(a, "root", y)
      BY <1>3 DEF RootsThere
    <3> QED
      BY <3>1, <3>2
  <2>3. n.pos[y] = <<a, 1>>
    <3>1. Entry(n, y) = <<a, 1>>
      BY <2>2 DEF Entry, RootEntry
    <3> HIDE DEF a
    <3> QED
      BY <1>1, <2>1, <3>1, Walk
  <2>4. <<a, 1>> # NULL
    <3> HIDE DEF a
    <3> QED
      BY <2>1, <2>2, NamesType
  <2> QED
    BY <2>3, <2>4
<1>6. ASSUME NEW y \in Blocks, y.plen >= S + K, Over(y) \in T
      PROVE  y \in T
  <2> DEFINE o == Over(y)
             i == INDEX(y.net, y.plen - K)
             a == NewKids(m, b, o)
  <2> SUFFICES ASSUME y \in Remade(b), o \in DOMAIN b.vec, i \in b.vec[o]
               PROVE  n.pos[y] # NULL
    BY <1>2, <1>4, <1>5 DEF GoodPlace
  <2>1. o \in Blocks /\ n.pos[y] = Child(NodeAt(n, o), i)
    BY <1>1, <1>6, Walk
  <2>2. n.pos[o] # NULL
    BY <1>6 DEF Remade
  <2>3. NodeAt(n, o).vector = b.vec[o] /\ NodeAt(n, o).base1 = a
    <3>1. NodeAt(n, o) = Made(m, b, o)
      BY <2>1, <2>2, LinkedNode
    <3> QED
      BY <3>1, MadeIs DEF VectorOf
  <2>4. n.pos[y] = <<a, Rank(b.vec[o], i)>>
    BY <2>1, <2>3 DEF Child
  <2>5. Named(a, "nodes", o)
    BY <1>3 DEF KidsThere
  <2>6. Rank(b.vec[o], i) \in Nat
    <3>1. b.vec[o] \in SUBSET Slots
      BY DEF GoodChange, GoodVec
    <3>2. Cardinality(b.vec[o]) \in Nat /\ Rank(b.vec[o], i) \in 1 .. Cardinality(b.vec[o])
      <4> HIDE DEF i, o
      <4> QED
        BY <3>1, RankSpec
    <3> QED
      BY <3>2
  <2> HIDE DEF a, i, o
  <2> QED
    BY <2>1, <2>4, <2>5, <2>6, NamesType
<1>7. ASSUME NEW y \in Blocks, y.plen < S + K
      PROVE  y \in T
  <2>1. ~ y.plen >= S + K
    BY <1>7, BlockType, Lengths
  <2> QED
    BY <1>2, <1>4, <1>5, <2>1 DEF GoodPlace
<1>8. Index \subseteq T
  <2>1. \A y \in Index : y \in Blocks /\ y.plen < S + K
    BY BlocksAre, Lengths
  <2> QED
    BY <1>7, <2>1
<1> HIDE DEF T
<1>9. Blocks \subseteq T
  BY <1>6, <1>7, <1>8, BlockInduction
<1> QED
  BY <1>2, <1>9 DEF T

\* The entries and nodes after the change are sound.
LEMMA LinkedOK ==
  ASSUME NEW m, NEW H, HeapOK(m, H), NEW b, GoodChange(m, b, H), NEW n, n = Linked(m, b)
  PROVE  /\ \A j \in Index : EntryOK(n, j, H)
         /\ \A y \in Blocks : n.pos[y] # NULL => NodeOK(n, y, NodeAt(n, y))
         /\ \A a \in DOMAIN n.leaves : \A k \in DOMAIN n.leaves[a] : n.leaves[a][k] \in H
<1>1. OldKept(m, b, n)
  BY LinkedOld
<1>2. RootsThere(m, b, n) /\ KidsThere(m, b, n) /\ LeavesThere(m, b, n) /\ NothingElse(m, b, n)
  BY LinkedNew
<1>3. ASSUME NEW j \in Index
      PROVE  EntryOK(n, j, H)
  <2>1. CASE j \in DOMAIN b.leaf
    BY <2>1, LinkedDir DEF EntryOK, GoodChange
  <2>2. CASE j \in b.roots
    <3> DEFINE a == Fresh(m.nodes, "root", j)
    <3>1. n.dir[j] = RootEntry(a)
      BY <2>2, LinkedDir
    <3>2. a \in DOMAIN n.nodes /\ Named(a, "root", j) /\ n.nodes[a] = <<Made(m, b, j)>>
      BY <1>2, <2>2 DEF RootsThere
    <3>3. DOMAIN n.nodes[a] = 1 .. 1
      BY <3>2
    <3> HIDE DEF a
    <3> QED
      BY <3>1, <3>2, <3>3 DEF EntryOK
  <2>3. CASE j \notin DOMAIN b.leaf /\ j \notin b.roots
    <3>1. n.dir[j] = m.dir[j]
      BY <2>3, LinkedDir
    <3>2. EntryOK(m, j, H)
      BY DEF HeapOK
    <3> QED
      BY <1>1, <3>1, <3>2 DEF EntryOK, OldKept
  <2> QED
    BY <2>1, <2>2, <2>3
<1>4. ASSUME NEW y \in Blocks, n.pos[y] # NULL
      PROVE  NodeOK(n, y, NodeAt(n, y))
  <2> DEFINE o == NodeAt(m, y)
             w == NodeAt(n, y)
  <2>1. /\ w = Made(m, b, y)
        /\ y \in DOMAIN b.vec \cap DOMAIN b.hops \/ m.pos[y] # NULL
    BY <1>4, LinkedNode
  <2>2. /\ w.vector = VectorOf(m, b, y)
        /\ w.base1 = IF y \in DOMAIN b.vec THEN NewKids(m, b, y) ELSE o.base1
        /\ w.leafvec = IF y \in DOMAIN b.hops THEN Changes(b.hops[y]) ELSE o.leafvec
        /\ w.base0 = IF y \in DOMAIN b.hops THEN NewLeaves(m, b, y) ELSE o.base0
    BY <2>1, MadeIs
  <2>3. m.pos[y] # NULL => NodeOK(m, y, o)
    BY DEF HeapOK
  <2> HIDE DEF o, w
  <2>4. /\ y \in DOMAIN b.vec => GoodVec(m, b, y)
        /\ y \in DOMAIN b.hops => GoodHops(m, b, H, y)
    BY DEF GoodChange
  <2>5. w.vector \in SUBSET Slots
    BY <2>1, <2>2, <2>3, <2>4 DEF VectorOf, GoodVec, NodeOK, o
  <2>6. y \notin DOMAIN b.hops => w.vector = o.vector
    BY <2>2, <2>4 DEF VectorOf, GoodVec, o
  <2>7. w.leafvec \in SUBSET (Slots \ w.vector)
    <3>1. CASE y \in DOMAIN b.hops
      <4>1. DOMAIN b.hops[y] = Slots \ w.vector
        BY <2>2, <2>4, <3>1 DEF GoodHops
      <4>2. Changes(b.hops[y]) \subseteq DOMAIN b.hops[y]
        BY <4>1, LeafCompression
      <4> QED
        BY <2>2, <3>1, <4>1, <4>2
    <3>2. CASE y \notin DOMAIN b.hops
      BY <2>1, <2>2, <2>3, <2>6, <3>2 DEF NodeOK
    <3> QED
      BY <3>1, <3>2
  <2>8. KidsOK(n, y, w)
    <3>1. CASE y \in DOMAIN b.vec
      <4>1. w.vector = b.vec[y] /\ w.base1 = NewKids(m, b, y)
        BY <2>2, <3>1 DEF VectorOf
      <4>2. b.vec[y] # {} => y.plen + K < Width
        BY <2>4, <3>1 DEF GoodVec
      <4>3. b.vec[y] = {} => NewKids(m, b, y) = NULL
        BY DEF NewKids
      <4>4. b.vec[y] # {} => /\ NewKids(m, b, y) \in DOMAIN n.nodes
                             /\ Named(NewKids(m, b, y), "nodes", y)
                             /\ DOMAIN n.nodes[NewKids(m, b, y)] = 1 .. Cardinality(b.vec[y])
        BY <1>2, <3>1 DEF KidsThere
      <4> QED
        BY <4>1, <4>2, <4>3, <4>4 DEF KidsOK
    <3>2. CASE y \notin DOMAIN b.vec
      <4>1. w.vector = o.vector /\ w.base1 = o.base1 /\ KidsOK(m, y, o)
        BY <2>1, <2>2, <2>3, <3>2 DEF VectorOf, NodeOK, o
      <4>2. \A a \in DOMAIN m.nodes : a \in DOMAIN n.nodes /\ DOMAIN n.nodes[a] = DOMAIN m.nodes[a]
        BY <1>1 DEF OldKept
      <4> QED
        BY <4>1, <4>2 DEF KidsOK
    <3> QED
      BY <3>1, <3>2
  <2>9. LeavesOK(n, y, w)
    <3>1. CASE y \in DOMAIN b.hops
      <4> DEFINE f == b.hops[y]
                 a == NewLeaves(m, b, y)
      <4>1. DOMAIN f = Slots \ w.vector
        BY <2>2, <2>4, <3>1 DEF GoodHops
      <4>2. w.leafvec = Changes(f) /\ w.base0 = a
        BY <2>2, <3>1
      <4>3. CASE w.vector = Slots
        <5>1. DOMAIN f = {}
          BY <4>1, <4>3
        <5>2. a = NULL
          BY <5>1 DEF NewLeaves
        <5> QED
          BY <4>2, <4>3, <5>2 DEF LeavesOK
      <4>4. CASE w.vector # Slots
        <5>1. DOMAIN f # {}
          BY <2>5, <4>1, <4>4
        <5>2. a \in DOMAIN n.leaves /\ Named(a, "leaves", y) /\ n.leaves[a] = InOrder(f, Changes(f))
          BY <1>2, <3>1, <5>1 DEF LeavesThere
        <5> HIDE DEF f, a
        <5>3. /\ Changes(f) \in SUBSET Slots
              /\ \A i \in DOMAIN f : \E j \in Changes(f) : j = i \/ Before(j, i)
          BY <4>1, LeafCompression
        <5>4. DOMAIN InOrder(f, Changes(f)) = 1 .. Cardinality(Changes(f))
          BY <5>3, InOrderSpec
        <5> QED
          BY <4>1, <4>2, <4>4, <5>2, <5>3, <5>4 DEF LeavesOK
      <4> QED
        BY <4>3, <4>4
    <3>2. CASE y \notin DOMAIN b.hops
      <4>1. w.vector = o.vector /\ w.leafvec = o.leafvec /\ w.base0 = o.base0 /\ LeavesOK(m, y, o)
        BY <2>1, <2>2, <2>3, <2>6, <3>2 DEF NodeOK
      <4>2. \A a \in DOMAIN m.leaves : a \in DOMAIN n.leaves /\ n.leaves[a] = m.leaves[a]
        BY <1>1 DEF OldKept
      <4> QED
        BY <4>1, <4>2 DEF LeavesOK
    <3> QED
      BY <3>1, <3>2
  <2> QED
    BY <2>5, <2>7, <2>8, <2>9 DEF NodeOK, w
<1>5. ASSUME NEW a \in DOMAIN n.leaves, NEW k \in DOMAIN n.leaves[a]
      PROVE  n.leaves[a][k] \in H
  <2>1. CASE a \in DOMAIN m.leaves
    <3>1. n.leaves[a] = m.leaves[a]
      BY <1>1, <2>1 DEF OldKept
    <3> QED
      BY <2>1, <3>1 DEF HeapOK
  <2>2. CASE a \notin DOMAIN m.leaves
    <3>1. PICK y \in DOMAIN b.hops : DOMAIN b.hops[y] # {} /\ a = NewLeaves(m, b, y)
      BY <1>2, <2>2 DEF NothingElse
    <3> DEFINE f == b.hops[y]
    <3>2. n.leaves[a] = InOrder(f, Changes(f))
      BY <1>2, <3>1 DEF LeavesThere
    <3>3. DOMAIN f \subseteq Slots /\ \A i \in DOMAIN f : f[i] \in H
      BY DEF GoodChange, GoodHops
    <3> HIDE DEF f
    <3>4. Changes(f) \in SUBSET Slots /\ Changes(f) \subseteq DOMAIN f
      BY <3>3, LeafCompression
    <3>5. /\ DOMAIN InOrder(f, Changes(f)) = 1 .. Cardinality(Changes(f))
          /\ \A l \in 1 .. Cardinality(Changes(f)) : \E i \in Changes(f) : InOrder(f, Changes(f))[l] = f[i]
      BY <3>4, InOrderSpec
    <3> QED
      BY <3>2, <3>3, <3>4, <3>5
  <2> QED
    BY <2>1, <2>2
<1> QED
  BY <1>3, <1>4, <1>5

-----------------------------------------------------------------------------
\* Cleaning.

\* Multiples of the bits of a node.
LEMMA Multiples ==
  /\ \A l \in Nat : l * K \in Nat /\ (l + 1) * K = l * K + K /\ l <= l * K
  /\ \A k, l \in Nat : k * K < l * K + K => k * K <= l * K
<1>1. K \in Nat /\ K >= 1
  BY Lengths
<1>2. ASSUME NEW l \in Nat
      PROVE  l * K \in Nat /\ (l + 1) * K = l * K + K /\ l <= l * K
  BY <1>1
<1>3. ASSUME NEW k \in Nat, NEW l \in Nat, k * K < l * K + K
      PROVE  k * K <= l * K
  <2>1. CASE k <= l
    <3>1. PICK d \in Nat : l = k + d
      <4>1. l = k + (l - k) /\ l - k \in Nat
        BY <2>1
      <4> QED
        BY <4>1
    <3>2. l * K = k * K + d * K /\ d * K \in Nat /\ k * K \in Nat
      BY <1>1, <3>1
    <3> QED
      BY <3>2
  <2>2. CASE ~ k <= l
    <3>1. PICK d \in Nat : k = l + 1 + d
      <4>1. k = l + 1 + (k - l - 1) /\ k - l - 1 \in Nat
        BY <2>2
      <4> QED
        BY <4>1
    <3>2. k * K = l * K + K + d * K /\ d * K \in Nat /\ l * K \in Nat
      BY <1>1, <3>1
    <3> QED
      BY <1>1, <1>3, <3>2
  <2> QED
    BY <2>1, <2>2
<1> QED
  BY <1>2, <1>3

\* The way to a block is the way to the block above it, and one more.
LEMMA WayOver ==
  ASSUME NEW x \in Blocks, NEW y \in Blocks, y.plen >= S + K, Below(x, Over(y))
  PROVE  Below(x, y) /\ Way(x, y) \subseteq Way(x, Over(y)) \cup {y}
<1> DEFINE o == Over(y)
<1>1. /\ x \in Prefix /\ y \in Prefix /\ y.plen >= K /\ y.plen \in 0 .. Width
      /\ y.net \in Addr /\ x.plen \in Nat
  BY BlockType, Lengths
<1>2. /\ o \in Prefix /\ o.plen = y.plen - K /\ Above(o, y) /\ o = PrefixOf(y.net, y.plen - K)
      /\ o.plen \in Nat
  BY <1>1, OverType, Lengths DEF Over
<1>3. Above(x, y)
  BY <1>1, <1>2, AboveTransitive DEF Below
<1>4. PICK l \in 0 .. Width : o.plen = x.plen + l * K
  BY DEF Below
<1>5. l \in Nat /\ l * K \in Nat /\ l + 1 <= (l + 1) * K /\ (l + 1) * K = l * K + K
  BY <1>4, Multiples, Lengths
<1>6. y.plen = x.plen + (l + 1) * K /\ l + 1 \in 0 .. Width
  BY <1>1, <1>2, <1>4, <1>5, Lengths
<1>7. ASSUME NEW z \in Way(x, y), z # y
      PROVE  z \in Way(x, o)
  <2>1. PICK c \in 0 .. y.plen : z = PrefixOf(y.net, c)
    BY DEF Way, Path
  <2>2. z.plen = c /\ c < y.plen
    BY <1>1, <1>7, <2>1, StartsItself DEF PrefixOf
  <2>3. PICK k \in 0 .. Width : z.plen = x.plen + k * K
    BY DEF Way, Below
  <2>4. k \in Nat /\ k * K \in Nat
    BY <2>3, Multiples, Lengths
  <2>5. k * K <= l * K
    <3>1. PICK g \in Nat, q \in Nat, n \in Nat : g = k * K /\ q = l * K /\ n = (l + 1) * K
      BY <1>5, <2>4, Lengths
    <3>2. x.plen \in Nat /\ x.plen + g < x.plen + n /\ n = q + K /\ K \in Nat
      BY <1>1, <1>5, <1>6, <2>2, <2>3, <3>1, Lengths
    <3>3. g < q + K
      BY <3>2
    <3> QED
      BY <1>5, <2>4, <3>1, <3>3, Multiples
  <2>6. c \in 0 .. o.plen
    BY <1>1, <1>2, <1>4, <1>5, <2>1, <2>2, <2>3, <2>4, <2>5
  <2>7. z = PrefixOf(o.net, c)
    <3>1. y.plen - K \in 0 .. Width /\ c \in 0 .. y.plen - K
      BY <1>1, <1>2, <2>6, Lengths
    <3>2. PrefixOf(PrefixOf(y.net, y.plen - K).net, c) = PrefixOf(y.net, c)
      BY <1>1, <3>1, StartOfStart
    <3> QED
      BY <1>2, <2>1, <3>2
  <2> QED
    BY <2>6, <2>7 DEF Way, Path
<1> QED
  BY <1>3, <1>6, <1>7 DEF Below

\* A block starts the way to itself.
LEMMA WaySelf ==
  ASSUME NEW x \in Blocks
  PROVE  Below(x, x) /\ Way(x, x) = {x}
<1>1. x \in Prefix /\ x.plen \in Nat /\ x.net \in Addr
  BY BlockType
<1>2. Above(x, x)
  BY <1>1, AboveReflexive
<1>3. 0 \in 0 .. Width /\ x.plen = x.plen + 0 * K
  BY <1>1, Lengths
<1>4. Below(x, x)
  BY <1>2, <1>3 DEF Below
<1>5. ASSUME NEW z \in Way(x, x)
      PROVE  z = x
  <2>1. PICK c \in 0 .. x.plen : z = PrefixOf(x.net, c)
    BY DEF Way, Path
  <2>2. z.plen = c /\ x.plen <= z.plen
    BY <2>1 DEF Way, Below, Above, PrefixOf
  <2>3. c = x.plen
    BY <1>1, <2>2
  <2> QED
    BY <1>1, <2>1, <2>3, StartsItself
<1>6. x \in Way(x, x)
  BY <1>1, <1>4, PathType DEF Way
<1> QED
  BY <1>4, <1>5, <1>6

\* What is not cleaned stays where it was, and as it was.
LEMMA Uncleaned ==
  ASSUME NEW m, NEW H, HeapOK(m, H), NEW b, GoodChange(m, b, H), NEW n, n = Linked(m, b),
         NEW X, X \subseteq Blocks, b.stored \subseteq X,
         \A e \in DOMAIN b.leaf \cup b.roots : m.dir[e].kind = "root" => e \in X
  PROVE  \A y \in Blocks :
           m.pos[y] # NULL /\ (\A x \in X : y \notin Cleaned(m, n, x))
             => n.pos[y] = m.pos[y] /\ y \notin Remade(b)
<1> DEFINE T == {y \in Blocks :
                   m.pos[y] # NULL /\ (\A x \in X : y \notin Cleaned(m, n, x))
                     => n.pos[y] = m.pos[y] /\ y \notin Remade(b)}
<1>1. /\ m = Heap(m.dir, m.nodes, m.leaves)
      /\ n = Heap(n.dir, n.nodes, n.leaves)
  BY LinkedDir DEF HeapOK
<1>2. \A x \in X : m.pos[x] # NULL => x \in Cleaned(m, n, x)
  BY WaySelf DEF Cleaned
<1>3. \A y \in Remade(b) : GoodPlace(m, b, y)
  BY DEF GoodChange
<1>4. ASSUME NEW y \in Index
      PROVE  y \in T
  <2>1. y \in Blocks /\ y.plen = S
    BY BlocksAre, Lengths
  <2> SUFFICES ASSUME m.pos[y] # NULL, \A x \in X : y \notin Cleaned(m, n, x)
               PROVE  n.pos[y] = m.pos[y] /\ y \notin Remade(b)
    BY <2>1
  <2>2. n.pos[y] = Entry(n, y) /\ m.pos[y] = Entry(m, y)
    BY <1>1, <2>1, Walk
  <2>3. m.dir[y].kind = "root"
    BY <2>2 DEF Entry
  <2>4. y \notin X
    BY <1>2
  <2>5. y \notin DOMAIN b.leaf \cup b.roots /\ y \notin b.stored
    BY <2>3, <2>4
  <2>6. n.dir[y] = m.dir[y]
    BY <2>5, LinkedDir
  <2>7. y \notin Remade(b)
    <3>1. ~ y.plen >= S + K
      BY <2>1, Lengths
    <3> QED
      BY <1>3, <2>5, <3>1 DEF GoodPlace
  <2> QED
    BY <2>2, <2>6, <2>7 DEF Entry
<1>5. ASSUME NEW y \in Blocks, y.plen # S, y.plen < S + K
      PROVE  y \in T
  BY <1>1, <1>5, Walk
<1>6. ASSUME NEW y \in Blocks, y.plen >= S + K, Over(y) \in T
      PROVE  y \in T
  <2> SUFFICES ASSUME m.pos[y] # NULL, \A x \in X : y \notin Cleaned(m, n, x)
               PROVE  n.pos[y] = m.pos[y] /\ y \notin Remade(b)
    OBVIOUS
  <2> DEFINE o == Over(y)
             i == INDEX(y.net, y.plen - K)
  <2>1. /\ o \in Blocks
        /\ n.pos[y] = Child(NodeAt(n, o), i) /\ m.pos[y] = Child(NodeAt(m, o), i)
    <3> HIDE DEF T
    <3> QED
      BY <1>1, <1>6, WalkOn DEF WalkedHeap
  <2>2. m.pos[o] # NULL
    BY <2>1 DEF NodeAt, At, NoNode, Node, Child
  <2>3. y \notin b.roots /\ y \notin b.stored
    <3>1. y \notin Index
      <4>1. y.plen # S
        BY <1>1, <1>6, Walk
      <4> QED
        BY <4>1, BlockType
    <3> QED
      BY <1>2, <3>1 DEF GoodChange
  <2>4. CASE \A x \in X : o \notin Cleaned(m, n, x)
    <3>1. n.pos[o] = m.pos[o] /\ o \notin Remade(b)
      BY <1>6, <2>2, <2>4
    <3>2. NodeAt(n, o) = Made(m, b, o)
      BY <2>1, <2>2, <3>1, LinkedNode
    <3>3. NodeAt(n, o) = NodeAt(m, o)
      BY <3>1, <3>2 DEF Made, Remade
    <3>4. o \notin DOMAIN b.vec
      BY <3>1 DEF Remade
    <3> QED
      BY <1>3, <2>1, <2>3, <3>3, <3>4 DEF GoodPlace
  <2>5. ASSUME NEW x \in X, o \in Cleaned(m, n, x)
        PROVE  n.pos[y] = m.pos[y] /\ y \notin Remade(b)
    <3>1. x \in Blocks /\ Below(x, o) /\ \A z \in Way(x, o) \ {x} : n.pos[z] # m.pos[z]
      BY <2>5 DEF Cleaned
    <3>2. Below(x, y) /\ Way(x, y) \subseteq Way(x, o) \cup {y}
      BY <1>6, <3>1, WayOver
    <3>3. n.pos[y] = m.pos[y]
      BY <3>1, <3>2 DEF Cleaned
    <3>4. o \notin DOMAIN b.vec \/ i \notin b.vec[o]
      <4> SUFFICES ASSUME o \in DOMAIN b.vec, i \in b.vec[o]
                   PROVE  FALSE
        OBVIOUS
      <4> DEFINE a == NewKids(m, b, o)
      <4>1. i \in NodeAt(n, o).vector /\ n.pos[y] = <<NodeAt(n, o).base1, Rank(NodeAt(n, o).vector, i)>>
        BY <2>1, <3>3 DEF Child
      <4>2. n.pos[o] # NULL
        BY <4>1 DEF NodeAt, At, NoNode, Node
      <4>3. NodeAt(n, o) = Made(m, b, o)
        BY <2>1, <4>2, LinkedNode
      <4>4. NodeAt(n, o).base1 = a
        BY <4>3, MadeIs
      <4>5. a \notin DOMAIN m.nodes
        <5>1. KidsThere(m, b, n)
          BY LinkedNew
        <5> QED
          BY <5>1 DEF KidsThere
      <4>6. m.pos[y][1] \in DOMAIN m.nodes
        BY PositionIn
      <4>7. n.pos[y][1] = a
        BY <4>1, <4>4
      <4> QED
        BY <3>3, <4>5, <4>6, <4>7
    <3> QED
      BY <1>3, <2>3, <3>3, <3>4 DEF GoodPlace
  <2> QED
    BY <2>4, <2>5
<1> HIDE DEF T
<1>7. Blocks \subseteq T
  BY <1>4, <1>5, <1>6, BlockInduction
<1> QED
  BY <1>7 DEF T

\* What is given back: a root array, or an array of a node, of the old heap, that
\* the new one does not use there.
GivenBack(m, n, g) ==
  \/ \E e \in Index : LET a == m.dir[e].base
                      IN  /\ g = <<e, a>> /\ a \in DOMAIN m.nodes
                          /\ Named(a, "root", e) /\ n.dir[e] # RootEntry(a)
  \/ \E y \in Blocks : \E a \in DOMAIN m.nodes :
        /\ g = <<y, a>> /\ Named(a, "nodes", y) /\ NodeAt(n, y).base1 # a
  \/ \E y \in Blocks : \E a \in DOMAIN m.leaves :
        /\ g = <<y, a>> /\ Named(a, "leaves", y) /\ NodeAt(n, y).base0 # a

LEMMA GarbageIs ==
  ASSUME NEW m, NEW H, HeapOK(m, H), NEW b, GoodChange(m, b, H), NEW n, n = Linked(m, b),
         NEW p, NEW g \in Garbage(m, n, b, p)
  PROVE  GivenBack(m, n, g)
<1> DEFINE entries == {e \in Unlinked(m, b) : Above(p, e) \/ Above(e, p)}
           at(x) == UNION {{y} \X Replaced(NodeAt(n, y), NodeAt(m, y)) : y \in Cleaned(m, n, x)}
<1>1. \/ \E e \in entries : g = <<e, m.dir[e].base>>
      \/ \E x \in entries \cup b.stored : g \in at(x)
  BY DEF Garbage
<1>2. ASSUME NEW e \in entries, g = <<e, m.dir[e].base>>
      PROVE  GivenBack(m, n, g)
  <2> DEFINE a == m.dir[e].base
  <2>1. e \in DOMAIN b.leaf \cup b.roots /\ m.dir[e].kind = "root" /\ e \in Index
    BY DEF Unlinked, GoodChange
  <2>2. EntryOK(m, e, H)
    BY <2>1 DEF HeapOK
  <2>3. a \in DOMAIN m.nodes /\ Named(a, "root", e)
    BY <2>1, <2>2, EntrySays, PoptrieAssumption
  <2>4. n.dir[e] # RootEntry(a)
    <3>1. CASE e \in DOMAIN b.leaf
      <4>1. n.dir[e] = LeafEntry(b.leaf[e])
        BY <3>1, LinkedDir
      <4>2. n.dir[e].kind = "leaf" /\ RootEntry(a).kind = "root"
        BY <4>1 DEF LeafEntry, RootEntry
      <4> QED
        BY <4>2
    <3>2. CASE e \in b.roots
      <4>1. n.dir[e] = RootEntry(Fresh(m.nodes, "root", e))
        BY <3>2, LinkedDir
      <4>2. Fresh(m.nodes, "root", e) \notin DOMAIN m.nodes
        <5>1. RootsThere(m, b, n)
          BY LinkedNew
        <5> QED
          BY <3>2, <5>1 DEF RootsThere
      <4>3. n.dir[e].base = Fresh(m.nodes, "root", e) /\ RootEntry(a).base = a
        BY <4>1 DEF RootEntry
      <4> HIDE DEF a
      <4> QED
        BY <2>3, <4>2, <4>3
    <3> QED
      BY <2>1, <3>1, <3>2
  <2> QED
    BY <1>2, <2>1, <2>3, <2>4 DEF GivenBack
<1>3. ASSUME NEW x \in entries \cup b.stored, g \in at(x)
      PROVE  GivenBack(m, n, g)
  <2>1. PICK y \in Cleaned(m, n, x) : g \in {y} \X Replaced(NodeAt(n, y), NodeAt(m, y))
    BY <1>3
  <2> DEFINE o == NodeAt(m, y)
             w == NodeAt(n, y)
  <2>2. PICK a \in Replaced(w, o) : g = <<y, a>>
    BY <2>1
  <2>3. y \in Blocks /\ m.pos[y] # NULL
    BY DEF Cleaned
  <2>4. NodeOK(m, y, o)
    BY <2>3 DEF HeapOK
  <2>5. CASE a = o.base1 /\ a # NULL /\ a # w.base1
    <3>1. a \in DOMAIN m.nodes /\ Named(a, "nodes", y)
      BY <2>4, <2>5 DEF NodeOK, KidsOK
    <3> QED
      BY <2>2, <2>3, <2>5, <3>1 DEF GivenBack
  <2>6. CASE a = o.base0 /\ a # NULL /\ a # w.base0
    <3>1. a \in DOMAIN m.leaves /\ Named(a, "leaves", y)
      BY <2>4, <2>6 DEF NodeOK, LeavesOK
    <3> QED
      BY <2>2, <2>3, <2>6, <3>1 DEF GivenBack
  <2> QED
    BY <2>5, <2>6 DEF Replaced
<1> HIDE DEF entries, at
<1> QED
  BY <1>1, <1>2, <1>3

\* The arrays are not in use.
Unused(n, arrays) ==
  /\ \A j \in Index, a \in arrays : Named(a, "root", j) => n.dir[j] # RootEntry(a)
  /\ \A y \in Blocks, a \in arrays : Named(a, "nodes", y) => NodeAt(n, y).base1 # a
  /\ \A y \in Blocks, a \in arrays : Named(a, "leaves", y) => NodeAt(n, y).base0 # a

\* Nothing is given back that is in use, or not there, or twice.
LEMMA GarbageUnused ==
  ASSUME NEW m, NEW H, HeapOK(m, H), NEW b, GoodChange(m, b, H), NEW n, n = Linked(m, b),
         NEW p, NEW garbage, garbage = Garbage(m, n, b, p),
         NEW arrays, arrays = {g[2] : g \in garbage}
  PROVE  ~ Misfrees(n, garbage) /\ Unused(n, arrays)
<1>1. \A g \in garbage : GivenBack(m, n, g)
  BY GarbageIs
<1>2. Index \subseteq Blocks
  BY BlocksAre, Lengths
<1>3. ASSUME NEW g \in garbage
      PROVE  /\ g[2] \in DOMAIN n.nodes \cup DOMAIN n.leaves
             /\ g = <<g[2][2], g[2]>> /\ g[2][2] \in Blocks
             /\ \/ g[2][1] = "root" /\ n.dir[g[2][2]] # RootEntry(g[2])
                \/ g[2][1] = "nodes" /\ NodeAt(n, g[2][2]).base1 # g[2]
                \/ g[2][1] = "leaves" /\ NodeAt(n, g[2][2]).base0 # g[2]
  <2>1. /\ \A a \in DOMAIN m.nodes : a \in DOMAIN n.nodes
        /\ \A a \in DOMAIN m.leaves : a \in DOMAIN n.leaves
    <3>1. OldKept(m, b, n)
      BY LinkedOld
    <3> QED
      BY <3>1 DEF OldKept
  <2>2. CASE \E e \in Index : LET a == m.dir[e].base
                              IN  /\ g = <<e, a>> /\ a \in DOMAIN m.nodes
                                  /\ Named(a, "root", e) /\ n.dir[e] # RootEntry(a)
    <3>1. PICK e \in Index : LET a == m.dir[e].base
                             IN  /\ g = <<e, a>> /\ a \in DOMAIN m.nodes
                                 /\ Named(a, "root", e) /\ n.dir[e] # RootEntry(a)
      BY <2>2
    <3> DEFINE a == m.dir[e].base
    <3>2. /\ g = <<e, a>> /\ a \in DOMAIN m.nodes /\ e \in Blocks
          /\ Named(a, "root", e) /\ n.dir[e] # RootEntry(a)
      BY <1>2, <3>1
    <3> HIDE DEF a
    <3>3. a[1] = "root" /\ a[2] = e /\ g[2] = a
      BY <3>2, NamesType
    <3> QED
      BY <2>1, <3>2, <3>3
  <2>3. CASE \E y \in Blocks : \E a \in DOMAIN m.nodes :
               /\ g = <<y, a>> /\ Named(a, "nodes", y) /\ NodeAt(n, y).base1 # a
    <3>1. PICK y \in Blocks, a \in DOMAIN m.nodes :
            /\ g = <<y, a>> /\ Named(a, "nodes", y) /\ NodeAt(n, y).base1 # a
      BY <2>3
    <3>2. a[1] = "nodes" /\ a[2] = y /\ g[2] = a
      BY <3>1, NamesType
    <3> QED
      BY <2>1, <3>1, <3>2
  <2>4. CASE \E y \in Blocks : \E a \in DOMAIN m.leaves :
               /\ g = <<y, a>> /\ Named(a, "leaves", y) /\ NodeAt(n, y).base0 # a
    <3>1. PICK y \in Blocks, a \in DOMAIN m.leaves :
            /\ g = <<y, a>> /\ Named(a, "leaves", y) /\ NodeAt(n, y).base0 # a
      BY <2>4
    <3>2. a[1] = "leaves" /\ a[2] = y /\ g[2] = a
      BY <3>1, NamesType
    <3> QED
      BY <2>1, <3>1, <3>2
  <2> QED
    BY <1>1, <2>2, <2>3, <2>4 DEF GivenBack
<1>4. ~ Misfrees(n, garbage)
  <2>1. \A f, g \in garbage : f[2] = g[2] => f = g
    BY <1>3
  <2> QED
    BY <1>3, <2>1 DEF Misfrees
<1>5. ASSUME NEW y \in Blocks, NEW a \in arrays, NEW kind \in {"root", "nodes", "leaves"},
             Named(a, kind, y)
      PROVE  /\ kind = "root" => n.dir[y] # RootEntry(a)
             /\ kind = "nodes" => NodeAt(n, y).base1 # a
             /\ kind = "leaves" => NodeAt(n, y).base0 # a
  <2>1. PICK g \in garbage : a = g[2]
    OBVIOUS
  <2>2. a[1] = kind /\ a[2] = y
    BY <1>5, NamesType
  <2> QED
    BY <1>3, <2>1, <2>2
<1> QED
  BY <1>2, <1>4, <1>5 DEF Unused

\* The heap when the garbage is gone.
LEMMA FreedWalk ==
  ASSUME NEW m, NEW H, HeapOK(m, H), NEW b, GoodChange(m, b, H), NEW n, n = Linked(m, b),
         NEW p, NEW garbage, garbage = Garbage(m, n, b, p),
         NEW f, f = Heap(n.dir, Freed(n, garbage).nodes, Freed(n, garbage).leaves)
  PROVE  /\ f = Heap(f.dir, f.nodes, f.leaves) /\ f.dir = n.dir
         /\ \A a \in DOMAIN f.nodes : a \in DOMAIN n.nodes /\ f.nodes[a] = n.nodes[a]
         /\ \A a \in DOMAIN f.leaves : a \in DOMAIN n.leaves /\ f.leaves[a] = n.leaves[a]
         /\ \A a \in DOMAIN n.nodes :
              a \in DOMAIN f.nodes \/ \E g \in garbage : a = g[2]
         /\ \A a \in DOMAIN n.leaves :
              a \in DOMAIN f.leaves \/ \E g \in garbage : a = g[2]
         /\ \A y \in Blocks : f.pos[y] = n.pos[y] /\ NodeAt(f, y) = NodeAt(n, y)
<1> DEFINE arrays == {g[2] : g \in garbage}
           T == {y \in Blocks : f.pos[y] = n.pos[y] /\ NodeAt(f, y) = NodeAt(n, y)}
<1>1. /\ f.dir = n.dir
      /\ f.nodes = [a \in DOMAIN n.nodes \ arrays |-> n.nodes[a]]
      /\ f.leaves = [a \in DOMAIN n.leaves \ arrays |-> n.leaves[a]]
  <2>1. n = Heap(n.dir, n.nodes, n.leaves)
    BY LinkedDir
  <2>2. n = [dir |-> n.dir, nodes |-> n.nodes, leaves |-> n.leaves, pos |-> n.pos]
    BY <2>1 DEF Heap
  <2>3. /\ Freed(n, garbage).nodes = [a \in DOMAIN n.nodes \ arrays |-> n.nodes[a]]
        /\ Freed(n, garbage).leaves = [a \in DOMAIN n.leaves \ arrays |-> n.leaves[a]]
    BY <2>2 DEF Freed
  <2>4. /\ f.dir = n.dir /\ f.nodes = Freed(n, garbage).nodes
        /\ f.leaves = Freed(n, garbage).leaves
    BY DEF Heap
  <2> HIDE DEF arrays
  <2> QED
    BY <2>3, <2>4
<1>2. f = Heap(f.dir, f.nodes, f.leaves) /\ n = Heap(n.dir, n.nodes, n.leaves)
  <2>1. n = Heap(n.dir, n.nodes, n.leaves)
    BY LinkedDir
  <2>2. /\ f.dir = n.dir /\ f.nodes = Freed(n, garbage).nodes
        /\ f.leaves = Freed(n, garbage).leaves
    BY DEF Heap
  <2> QED
    BY <2>1, <2>2
<1>3. /\ \A j \in Index, a \in arrays : Named(a, "root", j) => n.dir[j] # RootEntry(a)
      /\ \A y \in Blocks, a \in arrays : Named(a, "nodes", y) => NodeAt(n, y).base1 # a
  <2>1. Unused(n, arrays)
    BY GarbageUnused
  <2> QED
    BY <2>1 DEF Unused
<1>4. /\ \A j \in Index : EntryOK(n, j, H)
      /\ \A y \in Blocks : n.pos[y] # NULL => NodeOK(n, y, NodeAt(n, y))
  BY LinkedOK
<1> HIDE DEF arrays
<1>5. ASSUME NEW y \in Index
      PROVE  y \in T
  <2>1. y \in Blocks /\ y.plen = S
    BY BlocksAre, Lengths
  <2>2. n.pos[y] = Entry(n, y) /\ f.pos[y] = Entry(f, y)
    <3>1. n.pos[y] = Entry(n, y)
      BY <1>2, <2>1, Walk
    <3>2. f.pos[y] = Entry(f, y)
      BY <1>2, <2>1, Walk
    <3> QED
      BY <3>1, <3>2
  <2>3. f.pos[y] = n.pos[y]
    BY <1>1, <2>2 DEF Entry
  <2>4. NodeAt(f, y) = NodeAt(n, y)
    <3>1. CASE n.pos[y] = NULL
      BY <2>3, <3>1 DEF NodeAt, At
    <3>2. CASE n.pos[y] # NULL
      <4> DEFINE a == n.dir[y].base
      <4>1. /\ a \in DOMAIN n.nodes /\ n.dir[y] = RootEntry(a) /\ Named(a, "root", y)
            /\ Entry(n, y) = <<a, 1>>
        BY <1>4, <2>2, <3>2, EntrySays, PoptrieAssumption
      <4>2. f.nodes[a] = n.nodes[a]
        BY <1>1, <1>3, <4>1
      <4>3. n.pos[y][1] = a
        BY <2>2, <4>1
      <4> QED
        BY <2>3, <3>2, <4>2, <4>3 DEF NodeAt, At
    <3> QED
      BY <3>1, <3>2
  <2> QED
    BY <2>1, <2>3, <2>4
<1>6. ASSUME NEW y \in Blocks, y.plen # S, y.plen < S + K
      PROVE  y \in T
  <2>1. n.pos[y] = NULL
    BY <1>2, <1>6, Walk
  <2>2. f.pos[y] = NULL
    BY <1>2, <1>6, Walk
  <2>3. NodeAt(f, y) = NodeAt(n, y)
    BY <2>1, <2>2 DEF NodeAt, At
  <2> QED
    BY <2>1, <2>2, <2>3
<1>7. ASSUME NEW y \in Blocks, y.plen >= S + K, Over(y) \in T
      PROVE  y \in T
  <2> DEFINE o == Over(y)
             i == INDEX(y.net, y.plen - K)
             w == NodeAt(n, o)
  <2>1. /\ o \in Blocks
        /\ n.pos[y] = Child(NodeAt(n, o), i) /\ f.pos[y] = Child(NodeAt(f, o), i)
    <3> HIDE DEF T
    <3> QED
      BY <1>2, <1>7, WalkOn DEF WalkedHeap
  <2>2. f.pos[y] = n.pos[y]
    BY <1>7, <2>1
  <2>3. NodeAt(f, y) = NodeAt(n, y)
    <3>1. CASE n.pos[y] = NULL
      BY <2>2, <3>1 DEF NodeAt, At
    <3>2. CASE n.pos[y] # NULL
      <4>1. i \in w.vector /\ n.pos[y] = <<w.base1, Rank(w.vector, i)>>
        BY <2>1, <3>2 DEF Child
      <4>2. n.pos[o] # NULL
        <5>1. i \notin NoNode.vector
          BY DEF NoNode, Node
        <5>2. n.pos[o] = NULL => w = NoNode
          BY DEF NodeAt, At
        <5> HIDE DEF w
        <5> QED
          BY <4>1, <5>1, <5>2
      <4>3. w.base1 \in DOMAIN n.nodes /\ Named(w.base1, "nodes", o)
        BY <1>4, <2>1, <4>1, <4>2 DEF NodeOK, KidsOK
      <4>4. f.nodes[w.base1] = n.nodes[w.base1]
        BY <1>1, <1>3, <2>1, <4>3
      <4>5. n.pos[y][1] = w.base1
        BY <4>1
      <4> HIDE DEF w
      <4>6. NodeAt(n, y) = n.nodes[w.base1][n.pos[y][2]]
        BY <3>2, <4>5 DEF NodeAt, At
      <4>7. NodeAt(f, y) = f.nodes[w.base1][n.pos[y][2]]
        BY <2>2, <3>2, <4>5 DEF NodeAt, At
      <4> QED
        BY <4>4, <4>6, <4>7
    <3> QED
      BY <3>1, <3>2
  <2> QED
    BY <2>2, <2>3
<1>8. Blocks \subseteq T
  <2> HIDE DEF T
  <2> QED
    BY <1>5, <1>6, <1>7, BlockInduction
<1>9. \A a : a \in arrays => \E g \in garbage : a = g[2]
  BY DEF arrays
<1> QED
  BY <1>1, <1>2, <1>8, <1>9

\* The blocks where cleaning starts, and what is given back from there.
LEMMA CleanedIsGarbage ==
  ASSUME NEW m, NEW n, NEW b, NEW p,
         \A e \in DOMAIN b.leaf \cup b.roots : Above(p, e) \/ Above(e, p)
  PROVE  /\ \A e \in Unlinked(m, b) : <<e, m.dir[e].base>> \in Garbage(m, n, b, p)
         /\ \A x \in Unlinked(m, b) \cup b.stored :
              \A y \in Cleaned(m, n, x) :
                \A a \in Replaced(NodeAt(n, y), NodeAt(m, y)) : <<y, a>> \in Garbage(m, n, b, p)
<1> DEFINE entries == {e \in Unlinked(m, b) : Above(p, e) \/ Above(e, p)}
           at(x) == UNION {{y} \X Replaced(NodeAt(n, y), NodeAt(m, y)) : y \in Cleaned(m, n, x)}
<1>1. entries = Unlinked(m, b)
  BY DEF Unlinked
<1>2. Garbage(m, n, b, p) = {<<e, m.dir[e].base>> : e \in entries}
                              \cup UNION {at(x) : x \in entries \cup b.stored}
  BY DEF Garbage
<1>3. ASSUME NEW x, NEW y \in Cleaned(m, n, x), NEW a \in Replaced(NodeAt(n, y), NodeAt(m, y))
      PROVE  <<y, a>> \in at(x)
  OBVIOUS
<1> HIDE DEF at, entries
<1> QED
  BY <1>1, <1>2, <1>3

\* A change keeps the heap sound, and gives back what it should.
LEMMA ChangeKeeps ==
  ASSUME NEW m, NEW H, HeapOK(m, H), NEW b, GoodChange(m, b, H), NEW n, n = Linked(m, b),
         NEW p, \A e \in DOMAIN b.leaf \cup b.roots : Above(p, e) \/ Above(e, p),
         NEW garbage, garbage = Garbage(m, n, b, p),
         NEW f, f = Heap(n.dir, Freed(n, garbage).nodes, Freed(n, garbage).leaves)
  PROVE  HeapOK(f, H) /\ ~ Misfrees(n, garbage)
<1> DEFINE arrays == {g[2] : g \in garbage}
           X == Unlinked(m, b) \cup b.stored
<1>1. /\ f = Heap(f.dir, f.nodes, f.leaves) /\ f.dir = n.dir
      /\ \A a \in DOMAIN f.nodes : a \in DOMAIN n.nodes /\ f.nodes[a] = n.nodes[a]
      /\ \A a \in DOMAIN f.leaves : a \in DOMAIN n.leaves /\ f.leaves[a] = n.leaves[a]
      /\ \A a \in DOMAIN n.nodes : a \in DOMAIN f.nodes \/ a \in arrays
      /\ \A a \in DOMAIN n.leaves : a \in DOMAIN f.leaves \/ a \in arrays
      /\ \A y \in Blocks : f.pos[y] = n.pos[y] /\ NodeAt(f, y) = NodeAt(n, y)
      /\ \A a \in DOMAIN f.nodes \cup DOMAIN f.leaves : a \notin arrays
  <2>1. n = Heap(n.dir, n.nodes, n.leaves)
    BY LinkedDir
  <2>2. n = [dir |-> n.dir, nodes |-> n.nodes, leaves |-> n.leaves, pos |-> n.pos]
    BY <2>1 DEF Heap
  <2>3. /\ Freed(n, garbage).nodes = [a \in DOMAIN n.nodes \ arrays |-> n.nodes[a]]
        /\ Freed(n, garbage).leaves = [a \in DOMAIN n.leaves \ arrays |-> n.leaves[a]]
    BY <2>2 DEF Freed
  <2>4. f.nodes = Freed(n, garbage).nodes /\ f.leaves = Freed(n, garbage).leaves
    BY DEF Heap
  <2>5. \A a \in DOMAIN f.nodes \cup DOMAIN f.leaves : a \notin arrays
    <3> HIDE DEF arrays
    <3> QED
      BY <2>3, <2>4
  <2> QED
    BY <2>5, FreedWalk
<1>2. ~ Misfrees(n, garbage) /\ Unused(n, arrays)
  <2>1. arrays = {g[2] : g \in garbage}
    OBVIOUS
  <2> HIDE DEF arrays
  <2> QED
    BY <2>1, GarbageUnused
<1>3. /\ \A j \in Index : EntryOK(n, j, H)
      /\ \A y \in Blocks : n.pos[y] # NULL => NodeOK(n, y, NodeAt(n, y))
      /\ \A a \in DOMAIN n.leaves : \A k \in DOMAIN n.leaves[a] : n.leaves[a][k] \in H
  BY LinkedOK
<1>4. /\ \A e \in Unlinked(m, b) : m.dir[e].base \in arrays
      /\ \A x \in X : \A y \in Cleaned(m, n, x) :
           \A a \in Replaced(NodeAt(n, y), NodeAt(m, y)) : a \in arrays
  <2>1. \A e \in Unlinked(m, b) : <<e, m.dir[e].base>> \in garbage
    BY CleanedIsGarbage
  <2>2. \A x \in X : \A y \in Cleaned(m, n, x) :
          \A a \in Replaced(NodeAt(n, y), NodeAt(m, y)) : <<y, a>> \in garbage
    BY CleanedIsGarbage
  <2>3. \A y, a : <<y, a>> \in garbage => a \in arrays
    <3>1. \A y, a : <<y, a>>[2] = a
      OBVIOUS
    <3> QED
      BY <3>1
  <2> HIDE DEF arrays, X
  <2> QED
    BY <2>1, <2>2, <2>3
<1>5. RootsThere(m, b, n) /\ KidsThere(m, b, n) /\ LeavesThere(m, b, n) /\ NothingElse(m, b, n)
  BY LinkedNew
<1> HIDE DEF arrays
<1>6. ASSUME NEW j \in Index
      PROVE  EntryOK(f, j, H)
  <2>1. EntryOK(n, j, H)
    BY <1>3
  <2>2. CASE \E h \in H : n.dir[j] = LeafEntry(h)
    BY <1>1, <2>2 DEF EntryOK
  <2>3. ASSUME NEW a \in DOMAIN n.nodes, n.dir[j] = RootEntry(a), Named(a, "root", j),
               DOMAIN n.nodes[a] = 1 .. 1
        PROVE  EntryOK(f, j, H)
    <3>1. a \in DOMAIN f.nodes
      BY <1>1, <1>2, <2>3 DEF Unused
    <3> QED
      BY <1>1, <2>3, <3>1 DEF EntryOK
  <2> QED
    BY <2>1, <2>2, <2>3 DEF EntryOK
<1>7. ASSUME NEW y \in Blocks, f.pos[y] # NULL
      PROVE  NodeOK(f, y, NodeAt(f, y))
  <2> DEFINE w == NodeAt(n, y)
  <2>1. NodeAt(f, y) = w /\ NodeOK(n, y, w)
    BY <1>1, <1>3, <1>7
  <2>2. KidsOK(f, y, w)
    <3>1. KidsOK(n, y, w)
      BY <2>1 DEF NodeOK
    <3>2. w.vector # {} => w.base1 \in DOMAIN f.nodes
      BY <1>1, <1>2, <3>1 DEF KidsOK, Unused
    <3> QED
      BY <1>1, <3>1, <3>2 DEF KidsOK
  <2>3. LeavesOK(f, y, w)
    <3>1. LeavesOK(n, y, w)
      BY <2>1 DEF NodeOK
    <3>2. w.vector # Slots => w.base0 \in DOMAIN f.leaves
      BY <1>1, <1>2, <3>1 DEF LeavesOK, Unused
    <3> QED
      BY <1>1, <3>1, <3>2 DEF LeavesOK
  <2> HIDE DEF w
  <2> QED
    BY <2>1, <2>2, <2>3 DEF NodeOK
<1>8. ASSUME NEW y \in Blocks, m.pos[y] # NULL
      PROVE  \/ n.pos[y] # NULL /\ NodeAt(n, y) = NodeAt(m, y)
             \/ \A a \in Replaced(NodeAt(n, y), NodeAt(m, y)) : a \in arrays
  <2>1. CASE \E x \in X : y \in Cleaned(m, n, x)
    BY <1>4, <2>1
  <2>2. CASE \A x \in X : y \notin Cleaned(m, n, x)
    <3>1. X \subseteq Blocks /\ b.stored \subseteq X
      <4>1. Unlinked(m, b) \subseteq Index /\ b.stored \subseteq Blocks /\ Index \subseteq Blocks
        BY BlocksAre, Lengths DEF Unlinked, GoodChange
      <4> QED
        BY <4>1
    <3>2. \A e \in DOMAIN b.leaf \cup b.roots : m.dir[e].kind = "root" => e \in X
      BY DEF Unlinked
    <3>3. n.pos[y] = m.pos[y] /\ y \notin Remade(b)
      <4> HIDE DEF X
      <4> QED
        BY <1>8, <2>2, <3>1, <3>2, Uncleaned
    <3>4. NodeAt(n, y) = Made(m, b, y)
      BY <1>8, <3>3, LinkedNode
    <3> QED
      BY <1>8, <3>3, <3>4 DEF Made, Remade
  <2> QED
    BY <2>1, <2>2
<1>9. ASSUME NEW y \in Blocks, NEW a, a # NULL, NodeAt(n, y).base1 = a \/ NodeAt(n, y).base0 = a
      PROVE  n.pos[y] # NULL
  BY <1>9 DEF NodeAt, At, NoNode, Node
<1>10. ASSUME NEW y \in Remade(b)
       PROVE  y \in Blocks /\ n.pos[y] # NULL /\ NodeAt(n, y) = Made(m, b, y)
  BY RemadeThere, LinkedNode DEF GoodChange
<1>11. ASSUME NEW a \in DOMAIN f.nodes
       PROVE  NodesHeld(f, a)
  <2>1. a \in DOMAIN n.nodes /\ a \notin arrays
    BY <1>1
  <2>2. ASSUME NEW y \in Blocks, n.pos[y] # NULL, NodeAt(n, y).base1 = a, Named(a, "nodes", y)
        PROVE  NodesHeld(f, a)
    BY <1>1, <2>2 DEF NodesHeld
  <2>3. ASSUME NEW j \in Index, n.dir[j] = RootEntry(a), Named(a, "root", j)
        PROVE  NodesHeld(f, a)
    BY <1>1, <2>3 DEF NodesHeld
  <2>4. CASE \E e \in b.roots : a = Fresh(m.nodes, "root", e)
    <3>1. PICK e \in b.roots : a = Fresh(m.nodes, "root", e)
      BY <2>4
    <3>2. Named(a, "root", e)
      BY <1>5, <3>1 DEF RootsThere
    <3>3. n.dir[e] = RootEntry(Fresh(m.nodes, "root", e))
      BY LinkedDir
    <3>4. e \in Index
      BY DEF GoodChange
    <3> QED
      BY <2>3, <3>1, <3>2, <3>3, <3>4
  <2>5. CASE \E y \in DOMAIN b.vec : b.vec[y] # {} /\ a = NewKids(m, b, y)
    <3>1. PICK y \in DOMAIN b.vec : b.vec[y] # {} /\ a = NewKids(m, b, y)
      BY <2>5
    <3>2. Named(a, "nodes", y)
      BY <1>5, <3>1 DEF KidsThere
    <3>3. y \in Blocks /\ n.pos[y] # NULL /\ NodeAt(n, y).base1 = a
      BY <1>10, <3>1, MadeIs DEF Remade
    <3> QED
      BY <2>2, <3>2, <3>3
  <2>6. CASE a \in DOMAIN m.nodes
    <3>1. NodesHeld(m, a)
      BY <2>6 DEF HeapOK
    <3>2. ASSUME NEW j \in Index, m.dir[j] = RootEntry(a), Named(a, "root", j)
          PROVE  NodesHeld(f, a)
      <4>1. j \notin DOMAIN b.leaf \cup b.roots
        <5>1. m.dir[j].kind = "root" /\ m.dir[j].base = a
          BY <3>2 DEF RootEntry
        <5> QED
          BY <1>4, <2>1, <5>1 DEF Unlinked
      <4>2. n.dir[j] = m.dir[j]
        BY <4>1, LinkedDir
      <4> QED
        BY <2>3, <3>2, <4>2
    <3>3. ASSUME NEW y \in Blocks, m.pos[y] # NULL, NodeAt(m, y).base1 = a, Named(a, "nodes", y)
          PROVE  NodesHeld(f, a)
      <4>1. a # NULL
        BY <3>3, NamesType
      <4>2. NodeAt(n, y).base1 = a
        BY <1>8, <2>1, <3>3, <4>1 DEF Replaced
      <4> QED
        BY <1>9, <2>2, <3>3, <4>1, <4>2
    <3> QED
      BY <3>1, <3>2, <3>3 DEF NodesHeld
  <2> QED
    BY <1>5, <2>1, <2>4, <2>5, <2>6 DEF NothingElse
<1>12. ASSUME NEW a \in DOMAIN f.leaves
       PROVE  LeavesHeld(f, a)
  <2>1. a \in DOMAIN n.leaves /\ a \notin arrays
    BY <1>1
  <2>2. ASSUME NEW y \in Blocks, n.pos[y] # NULL, NodeAt(n, y).base0 = a, Named(a, "leaves", y)
        PROVE  LeavesHeld(f, a)
    BY <1>1, <2>2 DEF LeavesHeld
  <2>3. CASE \E y \in DOMAIN b.hops : DOMAIN b.hops[y] # {} /\ a = NewLeaves(m, b, y)
    <3>1. PICK y \in DOMAIN b.hops : DOMAIN b.hops[y] # {} /\ a = NewLeaves(m, b, y)
      BY <2>3
    <3>2. Named(a, "leaves", y)
      BY <1>5, <3>1 DEF LeavesThere
    <3>3. y \in Blocks /\ n.pos[y] # NULL /\ NodeAt(n, y).base0 = a
      BY <1>10, <3>1, MadeIs DEF Remade
    <3> QED
      BY <2>2, <3>2, <3>3
  <2>4. CASE a \in DOMAIN m.leaves
    <3>1. PICK y \in Blocks : m.pos[y] # NULL /\ NodeAt(m, y).base0 = a /\ Named(a, "leaves", y)
      BY <2>4 DEF HeapOK, LeavesHeld
    <3>2. a # NULL
      BY <3>1, NamesType
    <3>3. NodeAt(n, y).base0 = a
      BY <1>8, <2>1, <3>1, <3>2 DEF Replaced
    <3> QED
      BY <1>9, <2>2, <3>1, <3>2, <3>3
  <2> QED
    BY <1>5, <2>1, <2>3, <2>4 DEF NothingElse
<1>13. /\ DOMAIN f.dir = Index
       /\ \A a \in DOMAIN f.leaves : \A k \in DOMAIN f.leaves[a] : f.leaves[a][k] \in H
  BY <1>1, <1>3, LinkedDir
<1> QED
  BY <1>1, <1>2, <1>6, <1>7, <1>11, <1>12, <1>13 DEF HeapOK

-----------------------------------------------------------------------------
\* What a sound heap leads to.

\* The next hop of a slot without a child is there.
LEMMA LeafType ==
  ASSUME NEW m, NEW H, HeapOK(m, H), NEW y \in Blocks, m.pos[y] # NULL,
         NEW i \in Slots \ NodeAt(m, y).vector
  PROVE  Leaf(m, NodeAt(m, y), i) \in H
<1> DEFINE w == NodeAt(m, y)
<1>1. NodeOK(m, y, w)
  BY DEF HeapOK
<1> HIDE DEF w
<1>2. /\ w.leafvec \in SUBSET Slots
      /\ \E j \in w.leafvec : j = i \/ Before(j, i)
      /\ w.base0 \in DOMAIN m.leaves
      /\ DOMAIN m.leaves[w.base0] = 1 .. Cardinality(w.leafvec)
  BY <1>1 DEF NodeOK, LeavesOK, w
<1>3. Rank(w.leafvec, i) \in 1 .. Cardinality(w.leafvec)
  <2> DEFINE v == w.leafvec
             upto == {j \in v : j = i \/ Before(j, i)}
  <2>1. IsFiniteSet(v)
    BY <1>2, SlotsFinite, FS_Subset
  <2>2. IsFiniteSet(upto) /\ Cardinality(upto) <= Cardinality(v)
    <3>1. upto \subseteq v
      OBVIOUS
    <3> HIDE DEF upto, v
    <3> QED
      BY <2>1, <3>1, FS_Subset
  <2>3. Cardinality(upto) # 0
    <3>1. upto # {}
      BY <1>2
    <3> HIDE DEF upto, v
    <3> QED
      BY <2>2, <3>1, FS_EmptySet
  <2>4. Cardinality(upto) \in Nat /\ Cardinality(v) \in Nat
    BY <2>1, <2>2, FS_CardinalityType
  <2>5. Rank(v, i) = Cardinality(upto)
    BY DEF Rank
  <2> HIDE DEF upto, v
  <2>6. Rank(v, i) \in 1 .. Cardinality(v)
    BY <2>2, <2>3, <2>4, <2>5
  <2> QED
    BY <2>6 DEF v
<1>4. m.leaves[w.base0][Rank(w.leafvec, i)] \in H
  BY <1>2, <1>3 DEF HeapOK
<1> QED
  BY <1>4 DEF Leaf, w

\* The child of a slot is there.
LEMMA KidThere ==
  ASSUME NEW m, NEW H, HeapOK(m, H), NEW y \in Blocks, NEW i \in NodeAt(m, y).vector
  PROVE  /\ m.pos[y] # NULL /\ i \in Slots /\ y.plen + K < Width
         /\ Kid(y, i) \in Blocks /\ m.pos[Kid(y, i)] # NULL
<1> DEFINE w == NodeAt(m, y)
           k == Kid(y, i)
<1>1. m.pos[y] # NULL
  BY DEF NodeAt, At, NoNode, Node
<1>2. NodeOK(m, y, w)
  BY <1>1 DEF HeapOK
<1>3. i \in Slots /\ y.plen + K < Width /\ Named(w.base1, "nodes", y)
  BY <1>2 DEF NodeOK, KidsOK
<1>4. /\ y \in Prefix /\ y.plen \in Nat /\ y.plen >= S /\ y.plen + K <= Width
  BY <1>3, BlockType, Lengths
<1>5. k \in Blocks /\ k.plen = y.plen + K /\ Over(k) = y /\ INDEX(k.net, y.plen) = i
  BY <1>3, <1>4, KidType
<1>6. k.plen >= S + K /\ k.plen - K = y.plen
  BY <1>4, <1>5, Lengths
<1>7. m.pos[k] = Child(w, i)
  <2>1. m = Heap(m.dir, m.nodes, m.leaves)
    BY DEF HeapOK
  <2> HIDE DEF k
  <2> QED
    BY <1>5, <1>6, <2>1, Walk
<1>8. m.pos[k] = <<w.base1, Rank(w.vector, i)>>
  BY <1>7 DEF Child
<1>9. Rank(w.vector, i) \in Nat
  <2>1. w.vector \in SUBSET Slots
    BY <1>2 DEF NodeOK
  <2>2. Cardinality(w.vector) \in Nat /\ Rank(w.vector, i) \in 1 .. Cardinality(w.vector)
    <3> HIDE DEF w
    <3> QED
      BY <2>1, RankSpec DEF w
  <2> QED
    BY <2>2
<1> HIDE DEF w, k
<1>10. m.pos[k] # NULL
  BY <1>3, <1>8, <1>9, NamesType
<1> QED
  BY <1>1, <1>3, <1>5, <1>10 DEF k

\* There is a node in the table where there is one below it.
LEMMA EntryUp ==
  ASSUME NEW m, NEW H, HeapOK(m, H)
  PROVE  \A y \in Blocks : m.pos[y] # NULL => m.pos[PrefixOf(y.net, S)] # NULL
<1> DEFINE T == {y \in Blocks : m.pos[y] # NULL => m.pos[PrefixOf(y.net, S)] # NULL}
<1>1. m = Heap(m.dir, m.nodes, m.leaves)
  BY DEF HeapOK
<1>2. ASSUME NEW y \in Index
      PROVE  y \in T
  <2>1. y \in Blocks /\ y \in Prefix /\ y.plen = S
    BY BlocksAre, Lengths
  <2> QED
    BY <2>1, StartsItself
<1>3. ASSUME NEW y \in Blocks, y.plen # S, y.plen < S + K
      PROVE  y \in T
  BY <1>1, <1>3, Walk
<1>4. ASSUME NEW y \in Blocks, y.plen >= S + K, Over(y) \in T
      PROVE  y \in T
  <2> SUFFICES ASSUME m.pos[y] # NULL
               PROVE  m.pos[PrefixOf(y.net, S)] # NULL
    OBVIOUS
  <2>1. Over(y) \in Blocks /\ m.pos[Over(y)] # NULL
    <3>1. y.plen # S
      BY <1>1, <1>4, Walk
    <3> QED
      BY <3>1, Positions
  <2>2. PrefixOf(Over(y).net, S) = PrefixOf(y.net, S)
    <3>1. y.net \in Addr /\ y.plen - K \in 0 .. Width /\ S \in 0 .. y.plen - K
      BY <1>4, BlockType, Lengths
    <3> QED
      BY <3>1, StartOfStart DEF Over
  <2> QED
    BY <1>4, <2>1, <2>2
<1> HIDE DEF T
<1>5. Blocks \subseteq T
  BY <1>2, <1>3, <1>4, BlockInduction
<1> QED
  BY <1>5 DEF T

-----------------------------------------------------------------------------
\* The blocks an update builds.

\* The tree as the update sees it.
RibOK(r, H) ==
  /\ r.nodes \subseteq Prefix
  /\ \A y \in r.nodes : Path(y) \cap Blocks \subseteq r.nodes
  /\ \A y \in r.nodes : r.nh[y] \in H

\* The tree goes on below a slot only where the address does.
LEMMA GoesOnShort ==
  ASSUME NEW r, NEW H, RibOK(r, H), NEW y \in Blocks, NEW i \in Slots, GoesOn(r, y, i)
  PROVE  Kid(y, i) \in r.nodes /\ y.plen + K < Width /\ Kid(y, i) \in Blocks
<1>1. Kid(y, i) \in r.nodes /\ Kid(y, i).plen = y.plen + K /\ y.plen \in Nat /\ y \in Prefix
  BY BlockType, KidType DEF GoesOn
<1>2. PICK c \in r.nodes : c.plen = Kid(y, i).plen + 1
  BY DEF GoesOn, Children
<1>3. c.plen \in 0 .. Width
  BY PrefixType DEF RibOK
<1>4. y.plen + K < Width
  BY <1>1, <1>2, <1>3, Lengths
<1>5. Kid(y, i) \in Blocks
  <2>1. y.plen + K <= Width
    BY <1>1, <1>4, Lengths
  <2> QED
    BY <1>1, <2>1, KidType
<1> QED
  BY <1>1, <1>4, <1>5

\* The index is that of the block above, in the bits they share.
LEMMA IndexOver ==
  ASSUME NEW y \in Blocks, y.plen >= S + K, NEW s \in Nat, s + K <= y.plen - K
  PROVE  INDEX(Over(y).net, s) = INDEX(y.net, s)
<1>1. y.net \in Addr /\ y.plen \in 0 .. Width /\ y.plen - K \in 0 .. Width
  BY BlockType, Lengths
<1>2. Over(y).net = Mask(y.net, y.plen - K)
  BY DEF Over, PrefixOf
<1>3. ASSUME NEW k \in 1 .. K
      PROVE  s + k \in 1 .. Width /\ Over(y).net[s + k] = y.net[s + k]
  <2>1. s + k \in 1 .. Width /\ s + k <= y.plen - K
    BY <1>1, Lengths
  <2> QED
    BY <1>2, <2>1 DEF Mask
<1> QED
  BY <1>3 DEF INDEX

\* Of two blocks on a way, the shorter is shorter by a node.
LEMMA WayShort ==
  ASSUME NEW x \in Blocks, NEW y \in Blocks, Below(x, y), NEW z \in Way(x, y)
  PROVE  /\ z \in Blocks /\ z.plen \in Nat /\ z.plen <= y.plen
         /\ z # y => z.plen + K <= y.plen
<1>1. /\ y \in Prefix /\ y.plen \in 0 .. Width /\ y.net \in Addr /\ x.plen \in Nat
      /\ x.plen >= S /\ y.plen \in Nat
  BY BlockType, Lengths
<1>2. PICK c \in 0 .. y.plen : z = PrefixOf(y.net, c)
  BY DEF Way, Path
<1>3. z.plen = c /\ z.plen \in Nat /\ z \in Prefix
  <2>1. c \in 0 .. Width /\ c \in Nat
    BY <1>1, Lengths
  <2> QED
    BY <1>1, <1>2, <2>1, PrefixOfType DEF PrefixOf
<1>4. z # y => c # y.plen
  BY <1>1, <1>2, StartsItself
<1>5. PICK k \in 0 .. Width : z.plen = x.plen + k * K
  BY DEF Way, Below
<1>6. PICK l \in 0 .. Width : y.plen = x.plen + l * K
  BY DEF Below
<1>7. k \in Nat /\ l \in Nat /\ k * K \in Nat /\ l * K \in Nat
  BY <1>5, <1>6, Multiples, Lengths
<1>8. z \in Blocks
  <2>1. z.plen >= S
    BY <1>1, <1>5, <1>7, Lengths
  <2> QED
    BY <1>3, <2>1, BlocksAre
<1>9. z # y => z.plen + K <= y.plen
  <2> SUFFICES ASSUME z # y
               PROVE  z.plen + K <= y.plen
    OBVIOUS
  <2>1. z.plen < y.plen
    BY <1>1, <1>3, <1>4
  <2>2. k * K < l * K
    BY <1>1, <1>5, <1>6, <1>7, <2>1
  <2>3. l # 0
    <3>1. l = 0 => l * K = 0
      BY Lengths
    <3> QED
      BY <1>7, <2>2, <3>1
  <2>4. PICK j \in Nat : l = j + 1
    <3>1. l - 1 \in Nat /\ l = (l - 1) + 1
      BY <1>7, <2>3
    <3> QED
      BY <3>1
  <2>5. l * K = j * K + K /\ j * K \in Nat
    BY <2>4, Multiples
  <2>6. k * K <= j * K
    BY <1>7, <2>2, <2>5, Multiples
  <2> QED
    BY <1>1, <1>5, <1>6, <1>7, <2>5, <2>6, Lengths
<1> QED
  BY <1>1, <1>3, <1>8, <1>9

\* The recursion comes to its start, to what a rebuilt slot leads to, and to nothing
\* else.
LEMMA ReachedStart ==
  ASSUME NEW r, NEW m, NEW x \in Blocks, x \in r.nodes
  PROVE  x \in Reached(r, m, x)
BY WaySelf DEF Reached

LEMMA ReachedBlocks ==
  ASSUME NEW r, NEW H, RibOK(r, H), NEW m, NEW x \in Blocks
  PROVE  \A y \in Reached(r, m, x) : y \in Blocks /\ Above(x, y) /\ x.plen <= y.plen
<1>1. ASSUME NEW y \in Reached(r, m, x)
      PROVE  y \in Blocks /\ Above(x, y) /\ x.plen <= y.plen
  <2>1. y \in Prefix /\ Above(x, y) /\ x.plen <= y.plen
    BY DEF Reached, RibOK, Below, Above
  <2>2. y.plen >= S
    BY <2>1, BlockType, PrefixType, Lengths
  <2> QED
    BY <2>1, <2>2, BlocksAre
<1> QED
  BY <1>1

LEMMA ReachedKid ==
  ASSUME NEW r, NEW H, RibOK(r, H), NEW m, NEW x \in Blocks, NEW y \in Reached(r, m, x),
         NEW i \in Slots, Rebuilt(r, m, y, i)
  PROVE  Kid(y, i) \in Reached(r, m, x)
<1> DEFINE k == Kid(y, i)
<1>1. y \in Blocks /\ Below(x, y)
  BY ReachedBlocks DEF Reached
<1>2. k \in r.nodes /\ y.plen + K < Width /\ k \in Blocks
  BY <1>1, GoesOnShort DEF Rebuilt
<1>3. /\ y \in Prefix /\ y.plen \in Nat /\ y.plen >= S /\ y.plen + K <= Width
  BY <1>1, <1>2, BlockType, Lengths
<1>4. k.plen = y.plen + K /\ Over(k) = y /\ INDEX(k.net, y.plen) = i
  BY <1>3, KidType
<1>5. k.plen >= S + K /\ k.plen - K = y.plen
  BY <1>3, <1>4, Lengths
<1> HIDE DEF k
<1>6. Below(x, k) /\ Way(x, k) \subseteq Way(x, y) \cup {k}
  BY <1>1, <1>2, <1>4, <1>5, WayOver
<1>7. ASSUME NEW z \in Way(x, k), z # k
      PROVE  Rebuilt(r, m, z, INDEX(k.net, z.plen))
  <2>1. z \in Way(x, y)
    BY <1>6, <1>7
  <2>2. CASE z = y
    BY <1>4, <2>2
  <2>3. CASE z # y
    <3>1. z.plen \in Nat /\ z.plen + K <= y.plen
      BY <1>1, <2>1, <2>3, WayShort
    <3>2. INDEX(y.net, z.plen) = INDEX(k.net, z.plen)
      BY <1>2, <1>4, <1>5, <3>1, IndexOver
    <3>3. Rebuilt(r, m, z, INDEX(y.net, z.plen))
      BY <2>1, <2>3 DEF Reached
    <3> QED
      BY <3>2, <3>3
  <2> QED
    BY <2>2, <2>3
<1> QED
  BY <1>2, <1>6, <1>7 DEF Reached, k

LEMMA ReachedOver ==
  ASSUME NEW r, NEW H, RibOK(r, H), NEW m, NEW x \in Blocks, NEW y \in Reached(r, m, x), y # x
  PROVE  /\ y.plen >= S + K /\ Over(y) \in Reached(r, m, x)
         /\ Rebuilt(r, m, Over(y), INDEX(y.net, y.plen - K))
<1> DEFINE o == Over(y)
<1>1. y \in Blocks /\ Below(x, y) /\ y \in r.nodes /\ Above(x, y)
  BY ReachedBlocks DEF Reached
<1>2. /\ y \in Prefix /\ y.plen \in 0 .. Width /\ y.net \in Addr /\ y.plen \in Nat
      /\ x \in Prefix /\ x.plen \in Nat /\ x.plen >= S
  BY <1>1, BlockType, Lengths
<1>3. x \in Way(x, y)
  <2>1. x = PrefixOf(y.net, x.plen) /\ x.plen \in 0 .. y.plen
    BY <1>1, <1>2, PrefixType DEF Above, PrefixOf
  <2>2. Below(x, x)
    BY WaySelf
  <2> QED
    BY <2>1, <2>2 DEF Way, Path
<1>4. x.plen + K <= y.plen
  BY <1>1, <1>3, WayShort
<1>5. y.plen >= S + K /\ y.plen >= K
  BY <1>2, <1>4, Lengths
<1>6. o \in Blocks /\ o \in Prefix /\ o.plen = y.plen - K /\ Above(o, y)
  BY <1>2, <1>5, OverType
<1>7. Above(x, o)
  BY <1>1, <1>2, <1>4, <1>6, AboveLinear, Lengths
<1>8. Below(x, o)
  <2>1. PICK l \in 0 .. Width : y.plen = x.plen + l * K
    BY <1>1 DEF Below
  <2>2. l \in Nat /\ l # 0
    <3>1. l = 0 => l * K = 0
      BY Lengths
    <3> QED
      BY <1>2, <1>4, <2>1, <3>1, Lengths
  <2>3. PICK j \in Nat : l = j + 1
    <3>1. l - 1 \in Nat /\ l = (l - 1) + 1
      BY <2>2
    <3> QED
      BY <3>1
  <2>4. l * K = j * K + K /\ j * K \in Nat /\ j \in 0 .. Width
    <3>1. j \in 0 .. Width
      BY <2>1, <2>3, Lengths
    <3> QED
      BY <2>3, <3>1, Multiples
  <2>5. o.plen = x.plen + j * K
    BY <1>2, <1>6, <2>1, <2>4, Lengths
  <2> QED
    BY <1>7, <2>4, <2>5 DEF Below
<1>9. Path(o) \subseteq Path(y) /\ o \in Path(y)
  <2>1. y.plen - K \in 0 .. y.plen /\ o = PrefixOf(y.net, y.plen - K)
    BY <1>2, <1>5, Lengths DEF Over
  <2>2. ASSUME NEW c \in 0 .. o.plen
        PROVE  PrefixOf(o.net, c) \in Path(y)
    <3>1. y.plen - K \in 0 .. Width /\ c \in 0 .. y.plen - K /\ c \in 0 .. y.plen
      BY <1>2, <1>6, <2>1, Lengths
    <3>2. PrefixOf(o.net, c) = PrefixOf(y.net, c)
      BY <1>2, <2>1, <3>1, StartOfStart
    <3> QED
      BY <3>1, <3>2 DEF Path
  <2> QED
    BY <2>1, <2>2 DEF Path
<1>10. o \in r.nodes
  BY <1>1, <1>6, <1>9 DEF RibOK
<1>11. Way(x, o) \subseteq Way(x, y) /\ o \in Way(x, y) /\ o # y
  <2>1. o # y
    BY <1>2, <1>6, Lengths
  <2> QED
    BY <1>8, <1>9, <2>1 DEF Way
<1>12. \A z \in Way(x, y) \ {y} : Rebuilt(r, m, z, INDEX(y.net, z.plen))
  BY DEF Reached
<1>13. ASSUME NEW z \in Way(x, o), z # o
       PROVE  Rebuilt(r, m, z, INDEX(o.net, z.plen))
  <2>1. z.plen \in Nat /\ z.plen + K <= o.plen
    BY <1>6, <1>8, <1>13, WayShort
  <2>2. INDEX(o.net, z.plen) = INDEX(y.net, z.plen)
    BY <1>1, <1>5, <1>6, <2>1, IndexOver
  <2>3. z # y
    BY <1>2, <1>6, <2>1, Lengths
  <2> QED
    BY <1>11, <1>12, <1>13, <2>2, <2>3
<1>14. o \in Reached(r, m, x)
  BY <1>8, <1>10, <1>13 DEF Reached
<1>15. Rebuilt(r, m, o, INDEX(y.net, y.plen - K))
  BY <1>6, <1>11, <1>12
<1> QED
  BY <1>5, <1>14, <1>15

\* A change is a record of these.
IsChange(b) ==
  b = [vec |-> b.vec, hops |-> b.hops, leaf |-> b.leaf, roots |-> b.roots,
       stored |-> b.stored, spent |-> b.spent]

\* Where the recursion ends, the slots that have a child, the blocks that get a node,
\* and the leaves of its other slots.
Ends(r, m, x) ==
  {q \in {<<y, i>> : y \in Reached(r, m, x), i \in Slots} : ~ Rebuilt(r, m, q[1], q[2])}

KidsOf(r, m, x, y) ==
  {i \in Slots : y \in Reached(r, m, x) /\ ~ Alike(r, m, From(Ends(r, m, x), <<y, i>>))}

MadeOf(r, m, x) ==
  {y \in Reached(r, m, x) :
     y # x => INDEX(y.net, y.plen - K) \in KidsOf(r, m, x, Over(y))}

HopsFor(r, m, x, y) ==
  [i \in Slots \ KidsOf(r, m, x, y) |->
     HopAt(r, m, CHOOSE q \in From(Ends(r, m, x), <<y, i>>) : TRUE)]

LEMMA InodeIs ==
  ASSUME NEW r, NEW m, NEW x, NEW b, b = Inode(r, m, x)
  PROVE  /\ IsChange(b) /\ b.roots = {} /\ b.stored = {} /\ DOMAIN b.leaf = {}
         /\ b.vec = [y \in MadeOf(r, m, x) |-> KidsOf(r, m, x, y)]
         /\ DOMAIN b.hops = MadeOf(r, m, x)
         /\ \A y \in MadeOf(r, m, x) : b.hops[y] = HopsFor(r, m, x, y)
<1> DEFINE slots == {<<y, i>> : y \in Reached(r, m, x), i \in Slots}
           ends == {q \in slots : ~ Rebuilt(r, m, q[1], q[2])}
           children == {q \in slots : ~ Alike(r, m, From(ends, q))}
           kids(y) == {i \in Slots : <<y, i>> \in children}
           made == {y \in Reached(r, m, x) : y # x => INDEX(y.net, y.plen - K) \in kids(Over(y))}
<1>1. b = Nodes(r, m, x, Reached(r, m, x), ends, children)
  BY DEF Inode
<1>2. ends = Ends(r, m, x)
  BY DEF Ends
<1>3. ASSUME NEW y
      PROVE  kids(y) = KidsOf(r, m, x, y)
  <2>1. ASSUME NEW i \in Slots
        PROVE  <<y, i>> \in slots <=> y \in Reached(r, m, x)
    OBVIOUS
  <2>2. ASSUME NEW i \in Slots
        PROVE  <<y, i>> \in children
                 <=> y \in Reached(r, m, x) /\ ~ Alike(r, m, From(Ends(r, m, x), <<y, i>>))
    <3> HIDE DEF slots, ends
    <3> QED
      BY <1>2, <2>1
  <2> HIDE DEF children
  <2> QED
    BY <2>2 DEF KidsOf
<1>4. made = MadeOf(r, m, x)
  <2> HIDE DEF kids
  <2> QED
    BY <1>3 DEF MadeOf
<1>5. /\ IsChange(b) /\ b.roots = {} /\ b.stored = {} /\ DOMAIN b.leaf = {}
      /\ b.vec = [y \in made |-> kids(y)]
      /\ b.hops = [y \in made |->
                     [i \in Slots \ kids(y) |->
                        HopAt(r, m, CHOOSE q \in From(ends, <<y, i>>) : TRUE)]]
  <2> HIDE DEF slots, ends, children
  <2> QED
    BY <1>1 DEF Nodes, NoChange, IsChange
<1> HIDE DEF made, kids, ends
<1> QED
  BY <1>2, <1>3, <1>4, <1>5 DEF HopsFor

\* Below every slot of a block reached, the recursion ends.
LEMMA EndsThere ==
  ASSUME NEW r, NEW H, RibOK(r, H), NEW m, NEW x \in Blocks, NEW y \in Reached(r, m, x),
         NEW i \in Slots
  PROVE  From(Ends(r, m, x), <<y, i>>) # {}
<1> DEFINE ends == Ends(r, m, x)
           k == Kid(y, i)
           below == {z \in Reached(r, m, x) : Above(k, z)}
<1>1. \A z, j : <<z, j>> \in ends <=> z \in Reached(r, m, x) /\ j \in Slots /\ ~ Rebuilt(r, m, z, j)
  BY DEF Ends
<1>2. CASE <<y, i>> \in ends
  BY <1>2 DEF From
<1>3. CASE <<y, i>> \notin ends
  <2>1. Rebuilt(r, m, y, i)
    BY <1>1, <1>3
  <2>2. k \in Reached(r, m, x) /\ k \in Blocks /\ k \in Prefix
    BY <2>1, ReachedKid, ReachedBlocks, BlockType
  <2>3. below \subseteq Prefix /\ k \in below
    <3>1. Above(k, k)
      BY <2>2, AboveReflexive
    <3>2. Reached(r, m, x) \subseteq Prefix
      BY ReachedBlocks, BlockType
    <3> QED
      BY <2>2, <3>1, <3>2
  <2>4. PICK z \in below : \A w \in below : w.plen <= z.plen
    <3> HIDE DEF below, k
    <3> QED
      BY <2>3, LongestExists
  <2>5. z \in Blocks /\ z \in Prefix /\ z.plen \in Nat /\ z \in Reached(r, m, x) /\ Above(k, z)
    BY <2>4, ReachedBlocks, BlockType
  <2>6. PICK j \in Slots : TRUE
    <3>1. [n \in 1 .. K |-> 0] \in Slots
      BY SlotsAre
    <3> QED
      BY <3>1
  <2>7. ~ Rebuilt(r, m, z, j)
    <3> SUFFICES ASSUME Rebuilt(r, m, z, j)
                 PROVE  FALSE
      OBVIOUS
    <3>1. Kid(z, j) \in Reached(r, m, x)
      BY <2>5, ReachedKid
    <3>2. Kid(z, j).plen = z.plen + K /\ Above(z, Kid(z, j)) /\ Kid(z, j) \in Prefix
      <4>1. z.plen + K < Width
        BY <2>5, GoesOnShort DEF Rebuilt
      <4>2. z.plen + K <= Width
        BY <2>5, <4>1, Lengths
      <4> QED
        BY <2>5, <4>2, KidType
    <3>3. Kid(z, j) \in below
      BY <2>2, <2>5, <3>1, <3>2, AboveTransitive
    <3>4. z.plen + K <= z.plen
      BY <2>4, <3>2, <3>3
    <3> QED
      BY <2>5, <3>4, Lengths
  <2>8. <<z, j>> \in ends
    BY <1>1, <2>5, <2>7
  <2>9. <<z, j>> \in From(ends, <<y, i>>)
    <3>1. <<z, j>>[1] = z /\ <<y, i>>[1] = y /\ <<y, i>>[2] = i
      OBVIOUS
    <3> HIDE DEF ends
    <3> QED
      BY <1>3, <2>5, <2>8, <3>1 DEF From
  <2> QED
    BY <2>9
<1> QED
  BY <1>2, <1>3

\* The way ends of slots at the bottom, and those of the slots above.
LEMMA EndsNested ==
  ASSUME NEW r, NEW H, RibOK(r, H), NEW m, NEW x \in Blocks, NEW y \in Reached(r, m, x), y # x,
         NEW i \in Slots
  PROVE  From(Ends(r, m, x), <<y, i>>)
           \subseteq From(Ends(r, m, x), <<Over(y), INDEX(y.net, y.plen - K)>>)
<1> DEFINE ends == Ends(r, m, x)
           o == Over(y)
           j == INDEX(y.net, y.plen - K)
<1>1. y.plen >= S + K /\ o \in Reached(r, m, x) /\ Rebuilt(r, m, o, j)
  BY ReachedOver
<1>2. y \in Blocks /\ y \in Prefix /\ y.plen \in Nat /\ y.plen >= K
  BY <1>1, ReachedBlocks, BlockType, Lengths
<1>3. Kid(o, j) = y
  BY <1>2, OverType
<1>4. <<o, j>> \notin ends
  BY <1>1 DEF Ends
<1>5. ASSUME NEW e \in From(ends, <<y, i>>)
      PROVE  Above(y, e[1])
  <2>1. e = <<y, i>> \/ (<<y, i>> \notin ends /\ Above(Kid(y, i), e[1]))
    BY DEF From
  <2>2. CASE e = <<y, i>>
    BY <1>2, <2>2, AboveReflexive
  <2>3. CASE <<y, i>> \notin ends /\ Above(Kid(y, i), e[1])
    <3>1. Rebuilt(r, m, y, i)
      BY <2>3 DEF Ends
    <3>2. y.plen + K <= Width
      <4>1. y.plen + K < Width
        BY <1>2, <3>1, GoesOnShort DEF Rebuilt
      <4> QED
        BY <1>2, <4>1, Lengths
    <3>3. Kid(y, i) \in Prefix /\ Above(y, Kid(y, i))
      BY <1>2, <3>2, KidType
    <3>4. e[1] \in Prefix
      <4>1. e \in ends
        BY DEF From
      <4>2. e[1] \in Reached(r, m, x)
        BY <4>1 DEF Ends
      <4> QED
        BY <4>2, ReachedBlocks, BlockType
    <3> QED
      BY <1>2, <2>3, <3>3, <3>4, AboveTransitive
  <2> QED
    BY <2>1, <2>2, <2>3
<1> HIDE DEF ends, o, j
<1>6. ASSUME NEW e \in From(ends, <<y, i>>)
      PROVE  e \in From(ends, <<o, j>>)
  <2>1. e \in ends /\ Above(y, e[1])
    BY <1>5 DEF From
  <2>2. <<o, j>>[1] = o /\ <<o, j>>[2] = j
    OBVIOUS
  <2> QED
    BY <1>3, <1>4, <2>1, <2>2 DEF From
<1> QED
  BY <1>6 DEF ends, o, j

\* Fewer slots are alike if more are.
LEMMA AlikeSubset ==
  ASSUME NEW r, NEW m, NEW qs, NEW ps, ps \subseteq qs, Alike(r, m, qs)
  PROVE  Alike(r, m, ps)
<1>1. PICK h : \A q \in qs : HopAt(r, m, q) = h /\ ~ IsKept(r, m, q)
  BY DEF Alike
<1>2. ASSUME ps # {}
      PROVE  (CHOOSE q \in ps : TRUE) \in ps
  BY <1>2
<1> QED
  BY <1>1, <1>2 DEF Alike

\* _parse_triangle ends at a node of the tree, the last one there is.
LEMMA CornerSpec ==
  ASSUME NEW r, NEW x, x \in r.nodes, x \in Prefix, NEW i
  PROVE  \E l \in 0 .. K : /\ Corner(r, x, i) = Under(x, i, l)
                           /\ Under(x, i, l) \in r.nodes
                           /\ \A k \in l + 1 .. K : Under(x, i, k) \notin r.nodes
<1> DEFINE Depths == {l \in 0 .. K : Under(x, i, l) \in r.nodes}
           Last(l) == /\ Under(x, i, l) \in r.nodes
                      /\ \A k \in l + 1 .. K : Under(x, i, k) \notin r.nodes
<1>1. 0 \in Depths
  <2>1. Under(x, i, 0) = x
    <3>1. x.net = [k \in 1 .. Width |-> x.net[k]] /\ x.plen \in 0 .. Width
      BY PrefixType DEF Addr
    <3>2. x = [net |-> x.net, plen |-> x.plen]
      BY PrefixType
    <3>3. \A k \in 1 .. Width : ~ (x.plen < k /\ k <= x.plen + 0)
      BY <3>1, Lengths
    <3>4. [k \in 1 .. Width |-> IF x.plen < k /\ k <= x.plen + 0 THEN i[k - x.plen] ELSE x.net[k]]
            = [k \in 1 .. Width |-> x.net[k]]
      BY <3>3
    <3>5. x.plen + 0 = x.plen
      BY <3>1, Lengths
    <3> QED
      BY <3>1, <3>2, <3>4, <3>5 DEF Under
  <2> QED
    BY <2>1, Lengths
<1>2. \E l \in 0 .. K : Last(l)
  <2> DEFINE Gaps == {K - l : l \in Depths}
  <2>1. Gaps \subseteq Nat /\ Gaps # {}
    BY <1>1, Lengths
  <2>2. PICK n \in Gaps : \A k \in Gaps : n <= k
    <3> HIDE DEF Gaps
    <3> QED
      BY <2>1, LeastNatural
  <2>3. PICK l \in Depths : n = K - l
    BY <2>2
  <2>4. l \in 0 .. K /\ Under(x, i, l) \in r.nodes
    OBVIOUS
  <2>5. ASSUME NEW k \in l + 1 .. K
        PROVE  Under(x, i, k) \notin r.nodes
    <3> SUFFICES ASSUME Under(x, i, k) \in r.nodes
                 PROVE  FALSE
      OBVIOUS
    <3>1. k \in Depths
      BY <2>4, Lengths
    <3>2. K - l <= K - k
      BY <2>2, <2>3, <3>1
    <3> QED
      BY <2>4, <3>2, Lengths
  <2> QED
    BY <2>4, <2>5
<1>3. Corner(r, x, i) = Under(x, i, CHOOSE l \in 0 .. K : Last(l))
  BY DEF Corner
<1> DEFINE c == CHOOSE l \in 0 .. K : Last(l)
<1>4. c \in 0 .. K /\ Last(c)
  <2> HIDE DEF Last
  <2> QED
    BY <1>2
<1> HIDE DEF c
<1>5. Corner(r, x, i) = Under(x, i, c)
  BY <1>3 DEF c
<1> QED
  BY <1>4, <1>5

\* A next hop where the recursion ends is one.
LEMMA HopType ==
  ASSUME NEW m, NEW H, HeapOK(m, H), NEW r, RibOK(r, H), NEW x \in Blocks,
         NEW q \in Ends(r, m, x), ~ IsKept(r, m, q)
  PROVE  HopAt(r, m, q) \in H
<1>1. PICK y \in Reached(r, m, x), i \in Slots : q = <<y, i>> /\ ~ Rebuilt(r, m, y, i)
  BY DEF Ends
<1>2. q[1] = y /\ q[2] = i
  BY <1>1
<1>3. y \in Blocks /\ y \in r.nodes /\ y \in Prefix
  BY ReachedBlocks, BlockType DEF Reached
<1>4. CASE GoesOn(r, y, i)
  <2>1. m.pos[y] # NULL /\ i \notin NodeAt(m, y).vector
    BY <1>1, <1>2, <1>4 DEF Rebuilt, IsKept
  <2>2. Leaf(m, NodeAt(m, y), i) \in H
    BY <1>3, <2>1, LeafType
  <2> QED
    BY <1>2, <1>4, <2>2 DEF HopAt
<1>5. CASE ~ GoesOn(r, y, i)
  <2>1. Corner(r, y, i) \in r.nodes
    BY <1>3, CornerSpec
  <2>2. r.nh[Corner(r, y, i)] \in H
    BY <2>1 DEF RibOK
  <2> QED
    BY <1>2, <1>5, <2>2 DEF HopAt
<1> QED
  BY <1>4, <1>5

\* A part of the heap that was built, from block y on.
Part(m, b, H, y) ==
  /\ IsChange(b)
  /\ b.roots = {} /\ b.stored = {} /\ DOMAIN b.leaf = {}
  /\ y \in Remade(b)
  /\ \A z \in Remade(b) :
       /\ z \in Blocks /\ y.plen <= z.plen
       /\ z \in DOMAIN b.vec \cap DOMAIN b.hops \/ m.pos[z] # NULL
       /\ z # y => /\ z.plen >= S + K /\ Over(z) \in DOMAIN b.vec
                   /\ INDEX(z.net, z.plen - K) \in b.vec[Over(z)]
  /\ \A z \in DOMAIN b.vec : GoodVec(m, b, z)
  /\ \A z \in DOMAIN b.hops : GoodHops(m, b, H, z)

\* _update_inode builds one, of nodes that are all new, below its block.
LEMMA InodePart ==
  ASSUME NEW m, NEW H, HeapOK(m, H), NEW r, RibOK(r, H), NEW x \in Blocks, x \in r.nodes,
         NEW b, b = Inode(r, m, x)
  PROVE  /\ Part(m, b, H, x)
         /\ DOMAIN b.vec = DOMAIN b.hops /\ x \in DOMAIN b.vec
         /\ \A y \in Remade(b) : Above(x, y)
<1>1. /\ IsChange(b) /\ b.roots = {} /\ b.stored = {} /\ DOMAIN b.leaf = {}
      /\ b.vec = [y \in MadeOf(r, m, x) |-> KidsOf(r, m, x, y)]
      /\ DOMAIN b.hops = MadeOf(r, m, x)
      /\ \A y \in MadeOf(r, m, x) : b.hops[y] = HopsFor(r, m, x, y)
  BY InodeIs
<1> DEFINE kids(y) == KidsOf(r, m, x, y)
           made == MadeOf(r, m, x)
           ends == Ends(r, m, x)
<1>2. Remade(b) = made /\ DOMAIN b.vec = made
  BY <1>1 DEF Remade
<1>3. \A y \in made : /\ y \in Reached(r, m, x)
                      /\ y # x => INDEX(y.net, y.plen - K) \in kids(Over(y))
  BY DEF MadeOf
<1>4. x \in made
  BY ReachedStart DEF MadeOf
<1>5. \A y \in Reached(r, m, x) : y \in Blocks /\ Above(x, y) /\ x.plen <= y.plen
  BY ReachedBlocks
<1>6. ASSUME NEW y \in made, y # x
      PROVE  /\ y.plen >= S + K /\ Over(y) \in made
             /\ INDEX(y.net, y.plen - K) \in kids(Over(y))
  <2> DEFINE o == Over(y)
             j == INDEX(y.net, y.plen - K)
  <2>1. y.plen >= S + K /\ o \in Reached(r, m, x) /\ j \in kids(o)
    BY <1>3, <1>6, ReachedOver
  <2>2. o # x => INDEX(o.net, o.plen - K) \in kids(Over(o))
    <3> SUFFICES ASSUME o # x
                 PROVE  INDEX(o.net, o.plen - K) \in kids(Over(o))
      OBVIOUS
    <3> DEFINE u == Over(o)
               k == INDEX(o.net, o.plen - K)
    <3>1. o.plen >= S + K /\ u \in Reached(r, m, x)
      BY <2>1, ReachedOver
    <3>2. k \in Slots /\ j \in Slots
      <4>1. o \in Prefix /\ o.plen >= K
        BY <1>5, <2>1, <3>1, BlockType, Lengths
      <4> QED
        BY <2>1, <4>1, OverType DEF KidsOf
    <3>3. From(ends, <<o, j>>) \subseteq From(ends, <<u, k>>)
      BY <2>1, <3>2, EndsNested
    <3>4. ~ Alike(r, m, From(ends, <<o, j>>))
      BY <2>1 DEF KidsOf
    <3>5. ~ Alike(r, m, From(ends, <<u, k>>))
      <4> HIDE DEF ends, u, k, o, j
      <4> QED
        BY <3>3, <3>4, AlikeSubset
    <3> QED
      BY <3>1, <3>2, <3>5 DEF KidsOf
  <2>3. o \in made
    BY <2>1, <2>2 DEF MadeOf
  <2> QED
    BY <2>1, <2>3
<1>7. ASSUME NEW y \in made
      PROVE  GoodVec(m, b, y)
  <2>1. b.vec[y] = kids(y) /\ y \in Reached(r, m, x) /\ y \in Blocks /\ y \in DOMAIN b.hops
    BY <1>1, <1>3, <1>5
  <2>2. ASSUME NEW i \in kids(y)
        PROVE  /\ i \in Slots /\ y.plen + K < Width
               /\ Kid(y, i) \in made \/ m.pos[Kid(y, i)] # NULL
    <3>1. i \in Slots /\ ~ Alike(r, m, From(ends, <<y, i>>))
      BY DEF KidsOf
    <3>2. CASE Rebuilt(r, m, y, i)
      <4>1. Kid(y, i) \in Reached(r, m, x) /\ y.plen + K < Width
        BY <2>1, <3>1, <3>2, ReachedKid, GoesOnShort DEF Rebuilt
      <4>2. Over(Kid(y, i)) = y /\ INDEX(Kid(y, i).net, Kid(y, i).plen - K) = i
        <5>1. y \in Prefix /\ y.plen \in Nat /\ y.plen + K <= Width
          BY <2>1, <4>1, BlockType, Lengths
        <5>2. Over(Kid(y, i)) = y /\ INDEX(Kid(y, i).net, y.plen) = i /\ Kid(y, i).plen = y.plen + K
          BY <3>1, <5>1, KidType
        <5>3. Kid(y, i).plen - K = y.plen
          BY <5>1, <5>2, Lengths
        <5> QED
          BY <5>2, <5>3
      <4>3. Kid(y, i) \in made
        BY <4>1, <4>2 DEF MadeOf
      <4> QED
        BY <3>1, <4>1, <4>3
    <3>3. CASE ~ Rebuilt(r, m, y, i)
      <4>1. <<y, i>> \in ends
        BY <2>1, <3>1, <3>3 DEF Ends
      <4>2. From(ends, <<y, i>>) = {<<y, i>>}
        <5> HIDE DEF ends
        <5> QED
          BY <4>1 DEF From
      <4>3. IsKept(r, m, <<y, i>>)
        <5>1. (CHOOSE q \in {<<y, i>>} : TRUE) = <<y, i>>
          OBVIOUS
        <5> HIDE DEF ends
        <5> QED
          BY <3>1, <4>2, <5>1 DEF Alike
      <4>4. GoesOn(r, y, i) /\ i \in NodeAt(m, y).vector
        BY <4>3 DEF IsKept
      <4>5. y.plen + K < Width /\ m.pos[Kid(y, i)] # NULL
        BY <2>1, <4>4, KidThere
      <4> QED
        BY <3>1, <4>5
    <3> QED
      BY <3>2, <3>3
  <2> HIDE DEF kids, made
  <2> QED
    BY <1>1, <1>2, <2>1, <2>2 DEF GoodVec
<1>8. ASSUME NEW y \in made
      PROVE  GoodHops(m, b, H, y)
  <2>1. /\ b.hops[y] = [i \in Slots \ kids(y) |->
                          HopAt(r, m, CHOOSE q \in From(ends, <<y, i>>) : TRUE)]
        /\ VectorOf(m, b, y) = kids(y)
    BY <1>1 DEF VectorOf, HopsFor
  <2>2. ASSUME NEW i \in Slots \ kids(y)
        PROVE  b.hops[y][i] \in H
    <3> DEFINE q == CHOOSE q \in From(ends, <<y, i>>) : TRUE
    <3>1. y \in Reached(r, m, x) /\ Alike(r, m, From(ends, <<y, i>>))
      BY <1>3 DEF KidsOf
    <3>2. q \in From(ends, <<y, i>>)
      <4>1. From(ends, <<y, i>>) # {}
        BY <3>1, EndsThere
      <4> HIDE DEF ends
      <4> QED
        BY <4>1
    <3> HIDE DEF q
    <3>3. q \in ends /\ ~ IsKept(r, m, q)
      BY <3>1, <3>2 DEF From, Alike
    <3>4. HopAt(r, m, q) \in H
      BY <3>3, HopType
    <3>5. b.hops[y][i] = HopAt(r, m, q)
      BY <2>1 DEF q
    <3> QED
      BY <3>4, <3>5
  <2>3. DOMAIN b.hops[y] = Slots \ kids(y)
    BY <2>1
  <2> HIDE DEF kids
  <2> QED
    BY <2>1, <2>2, <2>3 DEF GoodHops
<1>8a. /\ IsChange(b) /\ b.roots = {} /\ b.stored = {} /\ DOMAIN b.leaf = {}
       /\ DOMAIN b.hops = made /\ \A y \in made : b.vec[y] = kids(y)
  BY <1>1
<1> HIDE DEF made, kids
<1>9. \A y \in Remade(b) : y \in Blocks /\ x.plen <= y.plen /\ Above(x, y)
  BY <1>2, <1>3, <1>5
<1>10. \A y \in Remade(b) : y # x => /\ y.plen >= S + K /\ Over(y) \in DOMAIN b.vec
                                     /\ INDEX(y.net, y.plen - K) \in b.vec[Over(y)]
  BY <1>8a, <1>2, <1>6
<1> QED
  BY <1>8a, <1>2, <1>4, <1>7, <1>8, <1>9, <1>10 DEF Part

-----------------------------------------------------------------------------
\* Linking in.

\* A change that does nothing.
LEMMA Nothing ==
  ASSUME NEW m, NEW H, NEW s
  PROVE  /\ GoodChange(m, NoChange, H)
         /\ GoodChange(m, [NoChange EXCEPT !.spent = s], H)
BY DEF GoodChange, NoChange, Remade

\* An entry of the table gets a next hop.
IsLeaf(b, e, h) ==
  /\ DOMAIN b.vec = {} /\ DOMAIN b.hops = {} /\ b.roots = {} /\ b.stored = {}
  /\ b.leaf = With([y \in {} |-> 0], e, h)

LEMMA LeafGood ==
  ASSUME NEW m, NEW H, NEW e \in Index, NEW h \in H, NEW b, IsLeaf(b, e, h)
  PROVE  GoodChange(m, b, H) /\ Remade(b) = {} /\ DOMAIN b.leaf = {e} /\ b.leaf[e] = h
<1>1. DOMAIN b.leaf = {e} /\ b.leaf[e] = h
  BY DEF With, IsLeaf
<1>2. Remade(b) = {}
  BY DEF Remade, IsLeaf
<1> QED
  BY <1>1, <1>2 DEF GoodChange, IsLeaf

\* An entry gets the part that was built for it.
IsRooted(b, c, e) ==
  /\ b.vec = c.vec /\ b.hops = c.hops /\ b.leaf = c.leaf /\ b.stored = c.stored
  /\ b.roots = {e}

LEMMA RootGood ==
  ASSUME NEW m, NEW H, NEW e \in Index, NEW c, Part(m, c, H, e), NEW b, IsRooted(b, c, e)
  PROVE  GoodChange(m, b, H) /\ b.stored = {} /\ DOMAIN b.leaf = {}
<1>1. /\ b.vec = c.vec /\ b.hops = c.hops /\ b.leaf = c.leaf /\ b.stored = c.stored
      /\ b.roots = {e}
  BY DEF IsRooted
<1>2. e.plen = S /\ Remade(b) = Remade(c) /\ e \in Remade(c)
  BY <1>1, BlocksAre DEF Remade, Part
<1>3. \A y \in Remade(b) : GoodPlace(m, b, y)
  BY <1>1, <1>2 DEF Part, GoodPlace
<1>4. /\ \A y \in DOMAIN b.vec : GoodVec(m, b, y)
      /\ \A y \in DOMAIN b.hops : GoodHops(m, b, H, y)
  <2>1. \A y : VectorOf(m, b, y) = VectorOf(m, c, y)
    BY <1>1 DEF VectorOf
  <2> QED
    BY <1>1, <2>1 DEF Part, GoodVec, GoodHops
<1> QED
  BY <1>1, <1>2, <1>3, <1>4 DEF Part, GoodChange

\* The node above a part that was built is overwritten.
LEMMA StoreGood ==
  ASSUME NEW m, NEW H, HeapOK(m, H), NEW c, NEW y \in Blocks, Part(m, c, H, y),
         m.pos[y] # NULL, y.plen # S, NEW b, b = Store(m, c, Over(y))
  PROVE  GoodChange(m, b, H) /\ b.roots = {} /\ b.stored = {Over(y)} /\ DOMAIN b.leaf = {}
         /\ b.hops = c.hops
<1> DEFINE o == Over(y)
           v == NodeAt(m, o).vector
           i == INDEX(y.net, y.plen - K)
<1>1. /\ b.hops = c.hops /\ b.leaf = c.leaf /\ b.roots = c.roots /\ b.stored = {o}
      /\ b.vec = With(c.vec, o, v)
  BY DEF Part, IsChange, Store
<1>2. /\ y.plen >= S + K /\ o \in Blocks /\ m.pos[o] # NULL /\ NodeOK(m, o, NodeAt(m, o))
      /\ i \in v
  BY Positions
<1>3. o.plen = y.plen - K /\ o.plen < y.plen /\ o.plen \in Nat /\ y.plen \in Nat
  <2>1. y \in Prefix /\ y.plen >= K /\ y.plen \in Nat
    BY <1>2, BlockType, Lengths
  <2> QED
    BY <2>1, OverType, Lengths
<1>4. o \notin Remade(c)
  BY <1>3 DEF Part
<1>5. /\ DOMAIN b.vec = DOMAIN c.vec \cup {o} /\ b.vec[o] = v
      /\ \A z \in DOMAIN c.vec : b.vec[z] = c.vec[z]
  BY <1>1, <1>4 DEF With, Remade
<1>6. Remade(b) = Remade(c) \cup {o}
  BY <1>1, <1>5 DEF Remade
<1>7. Kid(o, i) = y /\ \A j \in v : j \in Slots /\ o.plen + K < Width /\ m.pos[Kid(o, j)] # NULL
  <2>1. y \in Prefix /\ y.plen >= K
    BY <1>2, BlockType, Lengths
  <2>2. Kid(o, i) = y
    BY <2>1, OverType
  <2> QED
    BY <1>2, <2>2, KidThere
<1> HIDE DEF o, v, i
<1>8. GoodStore(m, b, o)
  <2>1. \A z \in Remade(b) : o.plen <= z.plen
    <3>1. \A z \in Remade(c) : z \in Blocks /\ y.plen <= z.plen
      BY DEF Part
    <3> QED
      BY <1>3, <1>6, <3>1, BlockType
  <2> QED
    BY <1>1, <1>2, <1>4, <1>5, <2>1 DEF GoodStore, Part, Remade
<1>9. ASSUME NEW z \in Remade(b)
      PROVE  GoodPlace(m, b, z) /\ z \in Blocks
  <2>1. CASE z = o
    BY <1>1, <1>2, <2>1 DEF GoodPlace
  <2>2. CASE z = y
    <3>1. y \in DOMAIN b.vec \cap DOMAIN b.hops \/ m.pos[y] # NULL
      OBVIOUS
    <3>2. Over(y) \in DOMAIN b.vec /\ INDEX(y.net, y.plen - K) \in b.vec[Over(y)]
      BY <1>2, <1>5 DEF o, i
    <3> QED
      BY <1>2, <2>2, <3>1, <3>2 DEF GoodPlace
  <2>3. CASE z # o /\ z # y
    <3>1. z \in Remade(c)
      BY <1>6, <2>3
    <3> QED
      BY <1>1, <1>5, <2>3, <3>1 DEF Part, GoodPlace
  <2> QED
    BY <1>2, <2>1, <2>2, <2>3
<1>10. ASSUME NEW z \in DOMAIN b.vec
       PROVE  GoodVec(m, b, z)
  <2>1. CASE z = o
    <3>1. v \in SUBSET Slots
      BY <1>2 DEF NodeOK, v
    <3> QED
      BY <1>5, <1>7, <2>1, <3>1 DEF GoodVec, v
  <2>2. CASE z # o
    <3>1. z \in DOMAIN c.vec /\ GoodVec(m, c, z) /\ b.vec[z] = c.vec[z]
      BY <1>5, <2>2 DEF Part
    <3> QED
      BY <1>1, <1>5, <3>1 DEF GoodVec
  <2> QED
    BY <2>1, <2>2
<1>11. ASSUME NEW z \in DOMAIN b.hops
       PROVE  GoodHops(m, b, H, z)
  <2>1. z \in DOMAIN c.hops /\ GoodHops(m, c, H, z) /\ z # o
    BY <1>1, <1>4 DEF Part, Remade
  <2>2. VectorOf(m, b, z) = VectorOf(m, c, z)
    BY <1>5, <2>1 DEF VectorOf
  <2> QED
    BY <1>1, <2>1, <2>2 DEF GoodHops
<1>12. /\ b.roots = {} /\ DOMAIN b.leaf = {}
  BY <1>1 DEF Part
<1> QED
  BY <1>1, <1>2, <1>8, <1>9, <1>10, <1>11, <1>12 DEF GoodChange, o

\* The node is put where it belongs.
LEMMA PutGood ==
  ASSUME NEW m, NEW H, HeapOK(m, H), NEW c, NEW y \in Blocks, Part(m, c, H, y),
         m.pos[y] # NULL, NEW b, b = Put(m, c, y)
  PROVE  GoodChange(m, b, H) /\ b.roots \subseteq {y} /\ DOMAIN b.leaf = {}
         /\ b.hops = c.hops
<1>1. CASE y.plen = S
  <2>1. y \in Index /\ b = [c EXCEPT !.roots = {y}]
    BY <1>1, BlockType DEF Put
  <2>2. IsRooted(b, c, y)
    BY <2>1 DEF Part, IsChange, IsRooted
  <2>3. GoodChange(m, b, H) /\ DOMAIN b.leaf = {}
    BY <2>1, <2>2, RootGood
  <2> QED
    BY <2>2, <2>3 DEF IsRooted
<1>2. CASE y.plen # S
  <2>1. b = Store(m, c, Over(y))
    BY <1>2 DEF Put
  <2> QED
    BY <1>2, <2>1, StoreGood
<1> QED
  BY <1>1, <1>2

\* The next hop of a block that is a single leaf.
LEMMA SingleHop ==
  ASSUME NEW m, NEW b, NEW H, NEW x, x \in DOMAIN b.vec, x \in DOMAIN b.hops,
         GoodHops(m, b, H, x), Single(b, x)
  PROVE  HopOf(b, x) \in H
<1> DEFINE z == [k \in 1 .. K |-> 0]
<1>1. z \in Slots
  BY SlotsAre
<1>2. b.vec[x] = {} /\ DOMAIN b.hops[x] = Slots
  BY DEF Single, GoodHops, VectorOf
<1> HIDE DEF z
<1>3. b.hops[x][z] \in H
  BY <1>1, <1>2 DEF GoodHops
<1> QED
  BY <1>3 DEF HopOf, z

\* An entry of the table gets its block.
EntryLinked(b, c, e) ==
  /\ DOMAIN b.leaf \cup b.roots = {e} /\ b.stored = {}
  /\ \/ Single(c, e) /\ DOMAIN b.leaf = {e} /\ b.leaf[e] = HopOf(c, e) /\ Remade(b) = {}
     \/ ~ Single(c, e) /\ b.roots = {e} /\ b.vec = c.vec /\ b.hops = c.hops

LEMMA LinkEntryGood ==
  ASSUME NEW m, NEW H, NEW e \in Index, NEW c, Part(m, c, H, e),
         e \in DOMAIN c.vec, e \in DOMAIN c.hops, NEW b, b = LinkEntry(c, e)
  PROVE  GoodChange(m, b, H) /\ EntryLinked(b, c, e)
<1>1. CASE Single(c, e)
  <2> DEFINE h == HopOf(c, e)
             s == c.spent \cup {e}
  <2>1. h \in H
    BY <1>1, SingleHop DEF Part
  <2>2. b = [[NoChange EXCEPT !.spent = s] EXCEPT !.leaf = With(@, e, h)]
    BY <1>1 DEF LinkEntry, OnlyHop
  <2> HIDE DEF h, s
  <2>3. IsLeaf(b, e, h)
    BY <2>2 DEF NoChange, IsLeaf
  <2>4. GoodChange(m, b, H) /\ Remade(b) = {} /\ DOMAIN b.leaf = {e} /\ b.leaf[e] = h
    BY <2>1, <2>3, LeafGood
  <2> QED
    BY <1>1, <2>3, <2>4 DEF h, IsLeaf, EntryLinked
<1>2. CASE ~ Single(c, e)
  <2>1. b = [c EXCEPT !.roots = {e}]
    BY <1>2 DEF LinkEntry
  <2>2. IsRooted(b, c, e)
    BY <2>1 DEF Part, IsChange, IsRooted
  <2>3. GoodChange(m, b, H) /\ b.stored = {} /\ DOMAIN b.leaf = {}
    BY <2>2, RootGood
  <2> QED
    BY <1>2, <2>2, <2>3 DEF IsRooted, EntryLinked
<1> QED
  BY <1>1, <1>2

\* The next hops that are taken over when a node is made anew.
TakenOver(hs, m, y, v, i, h, H) ==
  /\ DOMAIN hs = Slots \ v
  /\ \A s \in Slots \ v : hs[s] \in H
  /\ \A s \in Slots \ v : hs[s] = IF s = i THEN h ELSE Leaf(m, NodeAt(m, y), s)

LEMMA HopsType ==
  ASSUME NEW m, NEW H, HeapOK(m, H), NEW y \in Blocks, m.pos[y] # NULL, NEW i,
         NEW h, NEW v, NodeAt(m, y).vector \subseteq v \cup {i}, h \in H \/ i \in v
  PROVE  TakenOver(Hops(m, y, v, i, h), m, y, v, i, h, H)
<1>1. ASSUME NEW s \in Slots \ v
      PROVE  Hops(m, y, v, i, h)[s] \in H
  <2>1. CASE s = i
    BY <1>1, <2>1 DEF Hops
  <2>2. CASE s # i
    <3>1. s \in Slots \ NodeAt(m, y).vector
      BY <1>1, <2>2
    <3>2. Leaf(m, NodeAt(m, y), s) \in H
      BY <3>1, LeafType
    <3> QED
      BY <1>1, <2>2, <3>2 DEF Hops
  <2> QED
    BY <2>1, <2>2
<1> QED
  BY <1>1 DEF Hops, TakenOver

\* What Put is given in two of the cases: the node of y is made anew, with slot i.
LEMMA WidenedPart ==
  ASSUME NEW m, NEW H, HeapOK(m, H), NEW x \in Blocks, NEW c, Part(m, c, H, x),
         x \in DOMAIN c.vec, x \in DOMAIN c.hops, x.plen >= S + K, x.plen < Width,
         m.pos[x] = NULL, m.pos[Over(x)] # NULL,
         NEW v, v = NodeAt(m, Over(x)).vector \cup {INDEX(x.net, x.plen - K)},
         NEW hs, hs = Hops(m, Over(x), v, INDEX(x.net, x.plen - K), 0),
         NEW b, b = [c EXCEPT !.vec = With(@, Over(x), v), !.hops = With(@, Over(x), hs)]
  PROVE  Part(m, b, H, Over(x))
<1> DEFINE y == Over(x)
           i == INDEX(x.net, x.plen - K)
<1>1. x \in Prefix /\ x.plen \in Nat /\ x.plen >= K /\ x.plen - K \in Nat /\ x.plen <= Width
  BY BlockType, Lengths
<1>2. y \in Blocks /\ y.plen = x.plen - K /\ y.plen < x.plen /\ y.plen \in Nat /\ i \in Slots
      /\ Kid(y, i) = x /\ y.plen + K < Width
  BY <1>1, OverType, Lengths
<1> HIDE DEF y, i
<1>3. y \notin Remade(c)
  <2>1. \A z \in Remade(c) : x.plen <= z.plen
    BY DEF Part
  <2> QED
    BY <1>1, <1>2, <2>1
<1> USE DEF y, i
<1>4. /\ b.leaf = c.leaf /\ b.roots = c.roots /\ b.stored = c.stored /\ IsChange(b)
      /\ b.vec = With(c.vec, y, v) /\ b.hops = With(c.hops, y, hs)
  BY DEF Part, IsChange
<1>5. NodeOK(m, y, NodeAt(m, y))
  BY <1>2 DEF HeapOK
<1>6. v \in SUBSET Slots /\ i \in v /\ NodeAt(m, y).vector \in SUBSET Slots
  BY <1>2, <1>5 DEF NodeOK
<1> HIDE DEF y, i
<1>7. /\ DOMAIN b.vec = DOMAIN c.vec \cup {y} /\ b.vec[y] = v
      /\ DOMAIN b.hops = DOMAIN c.hops \cup {y} /\ b.hops[y] = hs
      /\ \A z \in DOMAIN c.vec : b.vec[z] = c.vec[z] /\ z # y
      /\ \A z \in DOMAIN c.hops : b.hops[z] = c.hops[z] /\ z # y
  BY <1>3, <1>4 DEF With, Remade
<1>8. Remade(b) = Remade(c) \cup {y}
  BY <1>7 DEF Remade
<1>9. ASSUME NEW z \in DOMAIN b.vec
      PROVE  GoodVec(m, b, z)
  <2>1. CASE z = y
    <3>1. ASSUME NEW j \in v
          PROVE  \/ Kid(y, j) \in DOMAIN b.vec \cap DOMAIN b.hops
                 \/ m.pos[Kid(y, j)] # NULL
      <4>1. CASE j = i
        BY <1>2, <1>7, <4>1 DEF y, i
      <4>2. CASE j # i
        <5>1. j \in NodeAt(m, y).vector
          BY <4>2 DEF y, i
        <5> QED
          BY <1>2, <5>1, KidThere
      <4> QED
        BY <4>1, <4>2
    <3> QED
      BY <1>2, <1>6, <1>7, <2>1, <3>1 DEF GoodVec
  <2>2. CASE z # y
    <3>1. z \in DOMAIN c.vec /\ GoodVec(m, c, z) /\ b.vec[z] = c.vec[z]
      BY <1>7, <2>2 DEF Part
    <3> QED
      BY <1>7, <2>2, <3>1 DEF GoodVec
  <2> QED
    BY <2>1, <2>2
<1>10. ASSUME NEW z \in DOMAIN b.hops
       PROVE  GoodHops(m, b, H, z)
  <2>1. CASE z = y
    <3>1. VectorOf(m, b, y) = v
      BY <1>7 DEF VectorOf
    <3>2. NodeAt(m, y).vector \subseteq v \cup {i}
      BY DEF y, i
    <3>3. hs = Hops(m, y, v, i, 0) /\ m.pos[y] # NULL
      BY DEF y, i
    <3>5. TakenOver(hs, m, y, v, i, 0, H)
      <4>1. 0 \in H \/ i \in v
        BY <1>6
      <4>2. TakenOver(Hops(m, y, v, i, 0), m, y, v, i, 0, H)
        BY <1>2, <3>2, <3>3, <4>1, HopsType
      <4> QED
        BY <3>3, <4>2
    <3>4. DOMAIN hs = Slots \ v /\ \A s \in Slots \ v : hs[s] \in H
      BY <3>5 DEF TakenOver
    <3> QED
      BY <1>7, <2>1, <3>1, <3>4 DEF GoodHops
  <2>2. CASE z # y
    <3>1. z \in DOMAIN c.hops /\ GoodHops(m, c, H, z) /\ b.hops[z] = c.hops[z]
      BY <1>7, <2>2 DEF Part
    <3>2. VectorOf(m, b, z) = VectorOf(m, c, z)
      BY <1>7, <2>2 DEF VectorOf
    <3> QED
      BY <3>1, <3>2 DEF GoodHops
  <2> QED
    BY <2>1, <2>2
<1>11. ASSUME NEW z \in Remade(b)
       PROVE  /\ z \in Blocks /\ y.plen <= z.plen
              /\ z \in DOMAIN b.vec \cap DOMAIN b.hops \/ m.pos[z] # NULL
              /\ z # y => /\ z.plen >= S + K /\ Over(z) \in DOMAIN b.vec
                          /\ INDEX(z.net, z.plen - K) \in b.vec[Over(z)]
  <2>1. CASE z = y
    BY <1>2, <1>7, <2>1
  <2>2. CASE z = x
    <3>1. Over(x) = y /\ INDEX(x.net, x.plen - K) = i
      BY DEF y, i
    <3>2. x \in DOMAIN b.vec \cap DOMAIN b.hops /\ y.plen <= x.plen /\ y \in DOMAIN b.vec
      BY <1>1, <1>2, <1>7
    <3>3. i \in b.vec[y]
      BY <1>6, <1>7
    <3> QED
      BY <2>2, <3>1, <3>2, <3>3
  <2>3. CASE z # x /\ z # y
    <3>1. z \in Remade(c)
      BY <1>8, <2>3
    <3>2. z \in Blocks /\ x.plen <= z.plen /\ z.plen \in Nat
      BY <3>1, BlockType DEF Part
    <3>3. y.plen <= z.plen
      BY <1>1, <1>2, <3>2
    <3>4. /\ z \in DOMAIN c.vec \cap DOMAIN c.hops \/ m.pos[z] # NULL
          /\ z.plen >= S + K /\ Over(z) \in DOMAIN c.vec
          /\ INDEX(z.net, z.plen - K) \in c.vec[Over(z)]
      BY <2>3, <3>1 DEF Part
    <3> QED
      BY <1>7, <3>2, <3>3, <3>4
  <2> QED
    BY <2>1, <2>2, <2>3
<1>12. b.roots = {} /\ b.stored = {} /\ DOMAIN b.leaf = {}
  BY <1>4 DEF Part
<1>13. Part(m, b, H, y)
  BY <1>4, <1>7, <1>8, <1>9, <1>10, <1>11, <1>12 DEF Part
<1> QED
  BY <1>13 DEF y

\* A node is made anew without the slot i, which is a next hop now.
LEMMA NarrowedPart ==
  ASSUME NEW m, NEW H, HeapOK(m, H), NEW y \in Blocks, m.pos[y] # NULL, NEW i, NEW h \in H,
         NEW v, v = NodeAt(m, y).vector \ {i},
         NEW hs, hs = Hops(m, y, v, i, h),
         NEW b, IsChange(b), b.roots = {}, b.stored = {}, DOMAIN b.leaf = {},
         DOMAIN b.hops = {y}, b.hops[y] = hs,
         \/ DOMAIN b.vec = {y} /\ b.vec[y] = v
         \/ DOMAIN b.vec = {} /\ i \notin NodeAt(m, y).vector
  PROVE  Part(m, b, H, y)
<1>1. NodeOK(m, y, NodeAt(m, y))
  BY DEF HeapOK
<1>2. v \in SUBSET Slots /\ NodeAt(m, y).vector \in SUBSET Slots
  BY <1>1 DEF NodeOK
<1>3. Remade(b) = {y}
  BY DEF Remade
<1>4. VectorOf(m, b, y) = v
  BY DEF VectorOf
<1>5. DOMAIN hs = Slots \ v /\ \A s \in Slots \ v : hs[s] \in H
  <2>1. NodeAt(m, y).vector \subseteq v \cup {i}
    OBVIOUS
  <2>2. TakenOver(Hops(m, y, v, i, h), m, y, v, i, h, H)
    BY <2>1, HopsType
  <2> QED
    BY <2>2 DEF TakenOver
<1>6. GoodHops(m, b, H, y)
  BY <1>4, <1>5 DEF GoodHops
<1>7. ASSUME NEW z \in DOMAIN b.vec
      PROVE  GoodVec(m, b, z)
  <2>1. z = y /\ b.vec[y] = v
    OBVIOUS
  <2>2. ASSUME NEW j \in v
        PROVE  m.pos[Kid(y, j)] # NULL /\ y.plen + K < Width
    <3>1. j \in NodeAt(m, y).vector
      OBVIOUS
    <3> QED
      BY <3>1, KidThere
  <2> QED
    BY <1>2, <2>1, <2>2 DEF GoodVec
<1>8. y.plen <= y.plen
  BY BlockType
<1> QED
  BY <1>3, <1>6, <1>7, <1>8 DEF Part

\* The slot that a single leaf is put into.
Candidates(m, x, h) ==
  {z \in Path(x) \cap Blocks :
     /\ z # x /\ m.pos[z] # NULL
     /\ \/ z.plen = S
        \/ NodeAt(m, z).vector \ {INDEX(x.net, z.plen)} # {}
        \/ ~ Uniform(Hops(m, z, NodeAt(m, z).vector \ {INDEX(x.net, z.plen)},
                          INDEX(x.net, z.plen), h))}

\* There is one, the table's node at the latest.
LEMMA CandidateExists ==
  ASSUME NEW m, NEW x \in Blocks, x.plen # S, m.pos[PrefixOf(x.net, S)] # NULL, NEW h,
         NEW y, y = Deepest(Candidates(m, x, h))
  PROVE  y \in Candidates(m, x, h) /\ \A z \in Candidates(m, x, h) : z.plen <= y.plen
<1> DEFINE e == PrefixOf(x.net, S)
           C == Candidates(m, x, h)
<1>1. x \in Prefix /\ x.net \in Addr /\ x.plen \in Nat /\ S \in 0 .. x.plen /\ S \in 0 .. Width
  BY BlockType, Lengths
<1>2. e \in Path(x) /\ e.plen = S /\ e # x /\ e \in Blocks
  BY <1>1, BlocksAre, PrefixOfType, Lengths DEF Path, PrefixOf
<1>3. e \in C
  BY <1>2 DEF Candidates
<1>4. C \subseteq Prefix /\ C # {}
  BY <1>3, BlocksAre DEF Candidates
<1> HIDE DEF C
<1>5. \E z \in C : \A w \in C : w.plen <= z.plen
  BY <1>4, LongestExists
<1>6. y = CHOOSE z \in C : \A w \in C : w.plen <= z.plen
  BY DEF Deepest, C
<1> QED
  BY <1>5, <1>6 DEF C

\* The case of a single leaf.
Compresses(m, c, x, h, y, b) ==
  LET i == INDEX(x.net, y.plen)
      w == NodeAt(m, y).vector \ {i}
      hs == Hops(m, y, w, i, h)
      leaves == [OnlyHop(c, x) EXCEPT !.hops = With(@, y, hs)]
  IN  \/ i \in NodeAt(m, y).vector /\ b = Put(m, [leaves EXCEPT !.vec = With(@, y, w)], y)
      \/ /\ i \notin NodeAt(m, y).vector /\ Changes(hs) = NodeAt(m, y).leafvec
         /\ b = OnlyHop(c, x)
      \/ i \notin NodeAt(m, y).vector /\ b = Put(m, leaves, y)

LEMMA CompressedIs ==
  ASSUME NEW m, NEW c, NEW x, NEW h, NEW y, y = Deepest(Candidates(m, x, h)),
         NEW b, b = Compressed(m, c, x, h)
  PROVE  Compresses(m, c, x, h, y, b)
BY DEF Compressed, Compresses, Candidates

\* The node y is made anew with the next hop h in the slot that led to block x, if
\* anything is.
Narrowed(m, b, x, y, h) ==
  \/ Remade(b) = {}
  \/ /\ DOMAIN b.hops = {y}
     /\ b.hops[y] = Hops(m, y, NodeAt(m, y).vector \ {INDEX(x.net, y.plen)},
                         INDEX(x.net, y.plen), h)

LEMMA CompressedGood ==
  ASSUME NEW m, NEW H, HeapOK(m, H), NEW c, NEW x \in Blocks, NEW h \in H,
         NEW y \in Blocks, m.pos[y] # NULL, NEW b, Compresses(m, c, x, h, y, b)
  PROVE  /\ GoodChange(m, b, H) /\ b.roots \subseteq {y} /\ DOMAIN b.leaf = {}
         /\ Narrowed(m, b, x, y, h)
<1> DEFINE i == INDEX(x.net, y.plen)
           w == NodeAt(m, y).vector \ {i}
           hs == Hops(m, y, w, i, h)
           only == OnlyHop(c, x)
           leaves == [only EXCEPT !.hops = With(@, y, hs)]
           both == [leaves EXCEPT !.vec = With(@, y, w)]
<1>1. /\ IsChange(only) /\ only.roots = {} /\ only.stored = {} /\ DOMAIN only.leaf = {}
      /\ DOMAIN only.vec = {} /\ DOMAIN only.hops = {}
  <2> DEFINE s == c.spent \cup {x}
  <2>1. only = [NoChange EXCEPT !.spent = s]
    BY DEF OnlyHop
  <2> HIDE DEF only, s
  <2>2. IsChange(only)
    BY <2>1 DEF NoChange, IsChange
  <2>3. /\ only.roots = {} /\ only.stored = {} /\ DOMAIN only.leaf = {}
        /\ DOMAIN only.vec = {} /\ DOMAIN only.hops = {}
    BY <2>1 DEF NoChange
  <2> QED
    BY <2>2, <2>3
<1> HIDE DEF only
<1>2. /\ IsChange(leaves) /\ leaves.roots = {} /\ leaves.stored = {} /\ DOMAIN leaves.leaf = {}
      /\ DOMAIN leaves.vec = {} /\ DOMAIN leaves.hops = {y} /\ leaves.hops[y] = hs
  BY <1>1 DEF With, IsChange
<1> HIDE DEF leaves, hs
<1>3. /\ IsChange(both) /\ both.roots = {} /\ both.stored = {} /\ DOMAIN both.leaf = {}
      /\ DOMAIN both.vec = {y} /\ both.vec[y] = w /\ DOMAIN both.hops = {y} /\ both.hops[y] = hs
  <2> DEFINE vec == With(leaves.vec, y, w)
  <2>1. both = [leaves EXCEPT !.vec = vec]
    OBVIOUS
  <2>2. DOMAIN vec = {y} /\ vec[y] = w
    <3> HIDE DEF w
    <3> QED
      BY <1>2 DEF With
  <2> HIDE DEF both, vec, w
  <2>3. IsChange(both)
    BY <1>2, <2>1 DEF IsChange
  <2>4. /\ both.roots = leaves.roots /\ both.stored = leaves.stored /\ both.leaf = leaves.leaf
        /\ both.hops = leaves.hops /\ both.vec = vec
    BY <1>2, <2>1 DEF IsChange
  <2> QED
    BY <1>2, <2>2, <2>3, <2>4
<1> HIDE DEF both, w
<1>4. CASE i \in NodeAt(m, y).vector /\ b = Put(m, both, y)
  <2>1. Part(m, both, H, y)
    BY <1>3, NarrowedPart DEF w, hs
  <2>2. GoodChange(m, b, H) /\ b.roots \subseteq {y} /\ DOMAIN b.leaf = {} /\ b.hops = both.hops
    BY <1>4, <2>1, PutGood
  <2>3. Narrowed(m, b, x, y, h)
    BY <1>3, <2>2 DEF w, hs, Narrowed
  <2> QED
    BY <2>2, <2>3
<1>5. CASE b = only
  <2>1. Remade(b) = {}
    BY <1>1, <1>5 DEF Remade
  <2>2. GoodChange(m, b, H)
    BY <1>1, <1>5, <2>1 DEF GoodChange
  <2> QED
    BY <1>1, <1>5, <2>1, <2>2 DEF Narrowed
<1>6. CASE i \notin NodeAt(m, y).vector /\ b = Put(m, leaves, y)
  <2>1. Part(m, leaves, H, y)
    BY <1>2, <1>6, NarrowedPart DEF w, hs
  <2>2. GoodChange(m, b, H) /\ b.roots \subseteq {y} /\ DOMAIN b.leaf = {} /\ b.hops = leaves.hops
    BY <1>6, <2>1, PutGood
  <2>3. Narrowed(m, b, x, y, h)
    BY <1>2, <2>2 DEF w, hs, Narrowed
  <2> QED
    BY <2>2, <2>3
<1> QED
  BY <1>4, <1>5, <1>6 DEF Compresses, only, leaves, both, hs, w

\* The block x below the table's is linked in.
LEMMA LinkGood ==
  ASSUME NEW m, NEW H, HeapOK(m, H), NEW x \in Blocks, x.plen >= S + K, x.plen < Width,
         m.pos[Over(x)] # NULL, NEW c, Part(m, c, H, x), x \in DOMAIN c.vec, x \in DOMAIN c.hops,
         NEW b, b = Link(m, c, x)
  PROVE  /\ GoodChange(m, b, H) /\ DOMAIN b.leaf = {}
         /\ \A e \in b.roots : Above(e, x)
<1>1. x.plen # S /\ x.plen >= K /\ x \in Prefix /\ x.net \in Addr /\ x.plen \in Nat
      /\ Over(x) \in Blocks
  <2>1. x.plen # S /\ x.plen >= K /\ x \in Prefix /\ x.net \in Addr /\ x.plen \in Nat
    BY BlockType, Lengths
  <2> QED
    BY <2>1, OverType
<1>2. Above(Over(x), x)
  BY <1>1, OverType
<1>3. CASE Single(c, x)
  <2> DEFINE h == HopOf(c, x)
             y == Deepest(Candidates(m, x, h))
  <2>1. h \in H
    BY <1>3, SingleHop DEF Part
  <2>2. m.pos[PrefixOf(x.net, S)] # NULL
    <3>1. x.plen - K \in 0 .. Width /\ S \in 0 .. x.plen - K
      BY <1>1, BlockType, Lengths
    <3>2. PrefixOf(Over(x).net, S) = PrefixOf(x.net, S)
      BY <1>1, <3>1, StartOfStart DEF Over
    <3>3. m.pos[PrefixOf(Over(x).net, S)] # NULL
      BY <1>1, EntryUp
    <3> QED
      BY <3>2, <3>3
  <2>3. y \in Candidates(m, x, h)
    BY <1>1, <2>2, CandidateExists
  <2>4. y \in Blocks /\ m.pos[y] # NULL /\ y \in Path(x)
    <3> HIDE DEF y
    <3> QED
      BY <2>3 DEF Candidates
  <2>5. Compresses(m, c, x, h, y, b)
    <3>1. b = Compressed(m, c, x, h)
      BY <1>3 DEF Link
    <3> QED
      BY <3>1, CompressedIs
  <2>6. Above(y, x)
    <3>1. PICK l \in 0 .. x.plen : y = PrefixOf(x.net, l)
      BY <2>4 DEF Path
    <3> HIDE DEF y
    <3> QED
      BY <1>1, <3>1 DEF Above, PrefixOf
  <2> HIDE DEF y, h
  <2>7. GoodChange(m, b, H) /\ b.roots \subseteq {y} /\ DOMAIN b.leaf = {}
    BY <2>1, <2>4, <2>5, CompressedGood
  <2> QED
    BY <2>6, <2>7
<1>4. CASE ~ Single(c, x) /\ m.pos[x] = NULL
  <2> DEFINE y == Over(x)
             i == INDEX(x.net, x.plen - K)
             v == NodeAt(m, y).vector \cup {i}
             hs == Hops(m, y, v, i, 0)
             d == [c EXCEPT !.vec = With(@, y, v), !.hops = With(@, y, hs)]
  <2>1. b = Put(m, d, y)
    <3>1. y.plen = x.plen - K
      BY DEF Over, PrefixOf
    <3> QED
      BY <1>4, <3>1 DEF Link, Widened
  <2>2. Part(m, d, H, y)
    BY <1>1, <1>4, WidenedPart
  <2> HIDE DEF d
  <2>3. GoodChange(m, b, H) /\ b.roots \subseteq {y} /\ DOMAIN b.leaf = {}
    BY <1>1, <2>1, <2>2, PutGood
  <2> QED
    BY <1>2, <2>3
<1>5. CASE ~ Single(c, x) /\ m.pos[x] # NULL
  <2>1. b = Store(m, c, Over(x))
    BY <1>5 DEF Link
  <2>2. GoodChange(m, b, H) /\ b.roots = {} /\ DOMAIN b.leaf = {}
    BY <1>1, <1>5, <2>1, StoreGood
  <2> QED
    BY <2>2
<1> QED
  BY <1>3, <1>4, <1>5

-----------------------------------------------------------------------------
\* The outcome of an update.

\* The outcome is as the change says, or nothing.
LEMMA OutcomeGood ==
  ASSUME NEW m, NEW H, NEW b, GoodChange(m, b, H), NEW faults, NEW o, o = Outcome(b, faults)
  PROVE  GoodChange(m, o.change, H) /\ (o.change = b \/ o.change = NoChange)
         /\ o.failed \in BOOLEAN /\ o.short \in BOOLEAN /\ o.dropped = {}
<1>1. o.change = IF Fails(b, faults) THEN NoChange ELSE b
  BY DEF Outcome
<1>2. GoodChange(m, NoChange, H)
  BY Nothing
<1>3. o.failed = Fails(b, faults) /\ o.short = Fails(b, faults) /\ o.dropped = {}
  BY DEF Outcome
<1>4. Fails(b, faults) \in BOOLEAN
  BY DEF Fails
<1> QED
  BY <1>1, <1>2, <1>3, <1>4

\* How far the update descends.
Descents(m, p) ==
  {x \in Path(p) :
     \/ x.plen = S
     \/ S + K <= x.plen /\ x.plen < p.plen /\ m.pos[Over(x)] # NULL}

LEMMA DescendedSpec ==
  ASSUME NEW p \in Prefix, p.plen >= S, NEW m, NEW x, x = Descended_To(m, p)
  PROVE  /\ x \in Descents(m, p) /\ x \in Blocks /\ Above(x, p)
         /\ \A y \in Descents(m, p) : y.plen <= x.plen
<1> DEFINE D == Descents(m, p)
<1>1. p.net \in Addr /\ p.plen \in Nat /\ p.plen <= Width /\ p.plen \in 0 .. Width
  BY PrefixType, Lengths
<1>2. PrefixOf(p.net, S) \in D
  <2>1. S \in 0 .. p.plen
    BY <1>1, Lengths
  <2> QED
    BY <2>1 DEF Descents, Path, PrefixOf
<1>3. D \subseteq Prefix /\ D # {}
  BY <1>2, PathType DEF Descents
<1> HIDE DEF D
<1>4. \E y \in D : \A z \in D : z.plen <= y.plen
  BY <1>3, LongestExists
<1>5. x = CHOOSE y \in D : \A z \in D : z.plen <= y.plen
  BY DEF Descended_To, Deepest, Descents, D
<1>6. x \in D /\ \A y \in D : y.plen <= x.plen
  BY <1>4, <1>5
<1>7. x \in Prefix /\ x \in Path(p)
  BY <1>3, <1>6 DEF Descents, D
<1>8. x.plen >= S
  <2>1. x.plen = S \/ S + K <= x.plen
    BY <1>6 DEF Descents, D
  <2>2. x.plen \in Nat
    BY <1>7, PrefixType, Lengths
  <2> QED
    BY <2>1, <2>2, Lengths
<1>9. x \in Blocks
  BY <1>7, <1>8, BlocksAre
<1>10. Above(x, p)
  <2>1. PICK l \in 0 .. p.plen : x = PrefixOf(p.net, l)
    BY <1>7 DEF Path
  <2>2. x.plen = l /\ x.net = Mask(p.net, l) /\ l <= p.plen
    BY <1>1, <2>1 DEF PrefixOf
  <2> QED
    BY <2>2 DEF Above
<1> QED
  BY <1>6, <1>9, <1>10 DEF D

\* The update of a long prefix.
LEMMA DeepGood ==
  ASSUME NEW m, NEW H, HeapOK(m, H), NEW r, RibOK(r, H), NEW p \in r.nodes, p.plen >= S,
         NEW faults, NEW o, o = Deep(r, m, p, faults)
  PROVE  /\ GoodChange(m, o.change, H) /\ o.failed \in BOOLEAN /\ o.short \in BOOLEAN
         /\ o.dropped = {}
         /\ \A e \in DOMAIN o.change.leaf \cup o.change.roots : Above(e, p)
<1> DEFINE x == Descended_To(m, p)
           c == Inode(r, m, x)
           b == IF x.plen = S THEN EntryBlock(r, m, x, x) ELSE Link(m, c, x)
<1>1. p \in Prefix /\ Path(p) \cap Blocks \subseteq r.nodes
  BY DEF RibOK
<1>2. x \in Descents(m, p) /\ x \in Blocks /\ Above(x, p)
  BY <1>1, DescendedSpec
<1>3. x \in r.nodes
  BY <1>1, <1>2 DEF Descents
<1>4. o = Outcome(b, faults)
  BY DEF Deep
<1> HIDE DEF x
<1>5. Part(m, c, H, x) /\ x \in DOMAIN c.vec /\ x \in DOMAIN c.hops
  BY <1>2, <1>3, InodePart
<1>6. GoodChange(m, b, H) /\ \A e \in DOMAIN b.leaf \cup b.roots : Above(e, p)
  <2>1. CASE x.plen = S
    <3>1. x \in Index
      BY <1>2, <2>1, BlockType
    <3>2. b = LinkEntry(c, x)
      BY <2>1 DEF EntryBlock
    <3> HIDE DEF b, c
    <3>3. GoodChange(m, b, H) /\ EntryLinked(b, c, x)
      BY <1>5, <3>1, <3>2, LinkEntryGood
    <3> QED
      BY <1>2, <3>3 DEF EntryLinked
  <2>2. CASE x.plen # S
    <3>1. S + K <= x.plen /\ x.plen < p.plen /\ m.pos[Over(x)] # NULL
      BY <1>2, <2>2 DEF Descents
    <3>2. x.plen >= S + K /\ x.plen < Width
      <4>1. x.plen \in Nat /\ p.plen \in 0 .. Width
        BY <1>1, <1>2, BlockType, PrefixType
      <4> QED
        BY <3>1, <4>1, Lengths
    <3>3. b = Link(m, c, x)
      BY <2>2
    <3> HIDE DEF b, c
    <3>4. GoodChange(m, b, H) /\ DOMAIN b.leaf = {} /\ \A e \in b.roots : Above(e, x)
      BY <1>2, <1>5, <3>1, <3>2, <3>3, LinkGood
    <3>5. \A e \in b.roots : Above(e, p)
      <4>1. b.roots \subseteq Index
        BY <3>4 DEF GoodChange
      <4>2. \A e \in b.roots : e \in Prefix
        BY <4>1, BlocksAre
      <4> QED
        BY <1>1, <1>2, <3>4, <4>2, BlockType, AboveTransitive
    <3> QED
      BY <3>4, <3>5
  <2> QED
    BY <2>1, <2>2
<1> HIDE DEF b
<1>7. /\ GoodChange(m, o.change, H) /\ (o.change = b \/ o.change = NoChange)
      /\ o.failed \in BOOLEAN /\ o.short \in BOOLEAN /\ o.dropped = {}
  BY <1>4, <1>6, OutcomeGood
<1>8. DOMAIN NoChange.leaf \cup NoChange.roots = {}
  BY DEF NoChange
<1> QED
  BY <1>6, <1>7, <1>8

\* A turn to the right sets bits that are tested later only.
TurnsAhead(turn) == \A d \in 0 .. S - 1 : turn[d] \subseteq {k \in 1 .. Width : d < k}

LEMMA TurnAhead == TurnsAhead(Turn)
<1> SUFFICES ASSUME NEW d \in 0 .. S - 1
             PROVE  Turn[d] \subseteq {k \in 1 .. Width : d < k}
  BY DEF TurnsAhead
<1>1. d \in 0 .. Width - 1 /\ d + 1 \in 1 .. Width /\ d < d + 1
  BY Lengths
<1>2. Turn[d] = {d + 1}
  BY <1>1 DEF Turn
<1> QED
  BY <1>1, <1>2

\* So what is written is below the prefix, whatever bits the address has beyond it.
LEMMA WrittenUnder ==
  ASSUME NEW turn, TurnsAhead(turn), NEW p \in Prefix, NEW addr \in Addr, Covers(p, addr), NEW z \in Index, Above(p, z),
         NEW l \in p.plen .. S, NEW e, e = Written(turn, p, addr, z, l)
  PROVE  e \in Index /\ Above(p, e)
<1> DEFINE right == UNION {turn[d] : d \in {c \in p.plen .. l - 1 : z.net[c + 1] = 1}}
           net == [k \in 1 .. Width |->
                     IF k <= l THEN (IF k \in right THEN 1 ELSE addr[k]) ELSE z.net[k]]
<1>1. /\ z \in Prefix /\ z.plen = S /\ z.net \in Addr /\ p.net \in Addr
      /\ p.plen \in 0 .. Width /\ p.plen \in Nat /\ l \in Nat /\ l <= S /\ p.plen <= l /\ S <= Width
  BY BlocksAre, PrefixType, Lengths
<1>2. e = PrefixOf(net, S)
  BY DEF Written
<1>3. ASSUME NEW k \in right
      PROVE  p.plen < k
  <2>1. PICK c \in p.plen .. l - 1 : k \in turn[c]
    OBVIOUS
  <2>2. c \in 0 .. S - 1 /\ p.plen <= c /\ c \in Nat
    BY <1>1, Lengths
  <2>3. c < k /\ k \in Nat
    BY <2>1, <2>2 DEF TurnsAhead
  <2> QED
    BY <1>1, <2>2, <2>3
<1> HIDE DEF right
<1>4. net \in Addr
  BY <1>1 DEF Addr
<1>5. ASSUME NEW k \in 1 .. Width, k <= p.plen
      PROVE  net[k] = p.net[k]
  <2>1. k <= l /\ k \notin right
    BY <1>1, <1>3, <1>5
  <2>2. p.net[k] = addr[k]
    BY <1>5 DEF Covers, Mask
  <2> QED
    BY <2>1, <2>2
<1>6. ASSUME NEW k \in 1 .. Width, ~ k <= p.plen
      PROVE  p.net[k] = 0
  BY <1>1, <1>6, PrefixType DEF Mask
<1> HIDE DEF net
<1>7. Mask(net, p.plen) = p.net
  <2>1. Mask(net, p.plen) = [k \in 1 .. Width |-> p.net[k]]
    BY <1>5, <1>6 DEF Mask
  <2> QED
    BY <1>1, <2>1 DEF Addr
<1>8. e \in Index
  BY <1>2, <1>4 DEF Index
<1>9. Mask(Mask(net, S), p.plen) = Mask(net, p.plen)
  BY <1>1, <1>4, MaskOfMask, Lengths
<1>10. e.plen = S /\ e.net = Mask(net, S) /\ p.plen <= S
  BY <1>1, <1>2, Lengths DEF PrefixOf
<1> QED
  BY <1>7, <1>8, <1>9, <1>10 DEF Above

\* The tree below an index, as if it were below another.
LEMMA MovedRib ==
  ASSUME NEW r, NEW H, RibOK(r, H), NEW z \in Index, z \in r.nodes, NEW e \in Index
  PROVE  RibOK(Moved(r, z, e), H) /\ e \in Moved(r, z, e).nodes
<1> DEFINE onto(y, x) == [net |-> [k \in 1 .. Width |-> IF k <= S THEN x.net[k] ELSE y.net[k]],
                          plen |-> y.plen]
           below == {y \in r.nodes : Above(z, y)}
           q == Moved(r, z, e)
<1>1. /\ q.nodes = {onto(y, e) : y \in below}
      /\ q.nh = [x \in {onto(y, e) : y \in below} |-> r.nh[onto(x, z)]]
  BY DEF Moved
<1> HIDE DEF q
<1>2. /\ z \in Prefix /\ z.plen = S /\ z.net \in Addr /\ e \in Prefix /\ e.plen = S
      /\ e.net \in Addr /\ S \in Nat /\ S <= Width /\ Width \in Nat
  BY BlocksAre, PrefixType, Lengths
<1>3. ASSUME NEW y \in Prefix, NEW x \in Index, y.plen >= S
      PROVE  /\ onto(y, x) \in Prefix /\ onto(y, x).plen = y.plen
             /\ \A l \in S .. y.plen : PrefixOf(onto(y, x).net, l) = onto(PrefixOf(y.net, l), x)
             /\ \A w \in Index : Above(w, y) => onto(onto(y, x), w) = y
  <2>1. /\ y.net \in Addr /\ y.plen \in 0 .. Width /\ Mask(y.net, y.plen) = y.net
        /\ x.net \in Addr /\ y = [net |-> y.net, plen |-> y.plen]
    BY BlocksAre, PrefixType
  <2>2. onto(y, x).net \in Addr /\ onto(y, x).plen = y.plen
    BY <2>1 DEF Addr
  <2>3. ASSUME NEW l \in S .. y.plen
        PROVE  /\ Mask(onto(y, x).net, l) = onto(PrefixOf(y.net, l), x).net
    <3>1. l \in Nat /\ S <= l
      BY <1>2, <2>1
    <3> QED
      BY <1>2, <3>1 DEF Mask, PrefixOf
  <2>4. Mask(onto(y, x).net, y.plen) = onto(y, x).net
    <3>1. y.plen \in S .. y.plen
      BY <1>2, <1>3, <2>1
    <3>2. PrefixOf(y.net, y.plen) = y
      BY <2>1 DEF PrefixOf
    <3> QED
      BY <2>3, <3>1, <3>2
  <2>5. ASSUME NEW w \in Index, Above(w, y)
        PROVE  onto(onto(y, x), w) = y
    <3>1. w.plen = S /\ Mask(y.net, S) = w.net /\ w.net \in Addr
      BY <2>5, BlocksAre, PrefixType DEF Above
    <3>2. \A k \in 1 .. Width : onto(onto(y, x), w).net[k] = y.net[k]
      BY <3>1 DEF Mask
    <3>3. onto(onto(y, x), w).net = y.net
      BY <2>1, <3>2 DEF Addr
    <3> QED
      BY <2>1, <2>2, <3>3
  <2>6. \A l \in S .. y.plen : PrefixOf(onto(y, x).net, l) = onto(PrefixOf(y.net, l), x)
    BY <2>3 DEF PrefixOf
  <2> QED
    BY <2>2, <2>4, <2>5, <2>6 DEF Prefix
<1>4. ASSUME NEW y \in below
      PROVE  y \in Prefix /\ y.plen >= S /\ y.plen \in 0 .. Width /\ y.net \in Addr
             /\ Mask(y.net, S) = z.net
  BY <1>2, PrefixType DEF RibOK, Above
<1> HIDE DEF onto, below
<1>5. q.nodes \subseteq Prefix
  BY <1>1, <1>3, <1>4
<1>6. ASSUME NEW x \in q.nodes
      PROVE  q.nh[x] \in H
  <2>1. PICK y \in below : x = onto(y, e)
    BY <1>1
  <2>2. onto(x, z) = y
    BY <1>3, <1>4, <2>1 DEF below
  <2>3. y \in r.nodes
    BY DEF below
  <2> QED
    BY <1>1, <2>1, <2>2, <2>3 DEF RibOK
<1>7. ASSUME NEW x \in q.nodes, NEW w \in Path(x) \cap Blocks
      PROVE  w \in q.nodes
  <2>1. PICK y \in below : x = onto(y, e)
    BY <1>1
  <2>2. PICK l \in 0 .. x.plen : w = PrefixOf(x.net, l)
    BY DEF Path
  <2>3. w.plen = l /\ l >= S /\ x.plen = y.plen
    <3>1. x.plen = y.plen
      BY <1>3, <1>4, <2>1
    <3>2. w.plen = l
      BY <2>2 DEF PrefixOf
    <3>3. w.plen \in S .. Width
      BY BlockType
    <3> QED
      BY <1>2, <3>1, <3>2, <3>3
  <2>4. l \in S .. y.plen /\ l \in 0 .. y.plen /\ l \in Nat
    BY <1>2, <1>4, <2>3
  <2> DEFINE v == PrefixOf(y.net, l)
  <2>5. w = onto(v, e)
    <3>1. PrefixOf(onto(y, e).net, l) = onto(PrefixOf(y.net, l), e)
      BY <1>3, <1>4, <2>4
    <3> QED
      BY <2>1, <2>2, <3>1
  <2>6. v \in Path(y) /\ v.plen = l
    BY <2>4 DEF Path, PrefixOf
  <2>7. v \in Prefix /\ v \in Blocks
    <3>1. v \in Prefix
      <4>1. l \in 0 .. Width
        BY <1>2, <1>4, <2>4
      <4> QED
        BY <1>4, <4>1, PrefixOfType
    <3> QED
      BY <2>3, <2>6, <3>1, BlocksAre
  <2>8. v \in r.nodes
    BY <2>6, <2>7 DEF RibOK, below
  <2>9. Above(z, v)
    <3>1. Mask(v.net, S) = Mask(y.net, S)
      <4>1. l \in 0 .. Width /\ S \in 0 .. l
        BY <1>2, <1>4, <2>4
      <4> QED
        BY <1>4, <4>1, MaskOfMask DEF PrefixOf
    <3>2. z.plen <= v.plen
      BY <1>2, <2>3, <2>6
    <3> QED
      BY <1>2, <1>4, <3>1, <3>2 DEF Above
  <2> HIDE DEF v
  <2> QED
    BY <1>1, <2>5, <2>8, <2>9 DEF below
<1>8. e \in q.nodes
  <2>1. z \in below
    BY <1>2, AboveReflexive DEF below
  <2>2. onto(z, e) = e
    <3>1. \A k \in 1 .. Width : ~ k <= S => z.net[k] = 0 /\ e.net[k] = 0
      BY <1>2, PrefixType DEF Mask
    <3>2. onto(z, e).net = e.net
      BY <1>2, <3>1 DEF Addr, onto
    <3>3. e = [net |-> e.net, plen |-> e.plen]
      BY <1>2, PrefixType
    <3> QED
      BY <1>2, <3>2, <3>3 DEF onto
  <2> QED
    BY <1>1, <2>1, <2>2
<1> QED
  BY <1>5, <1>6, <1>7, <1>8 DEF RibOK, q

\* One of the writes: an entry of the table, and what is below it.
IsWrite(m, H, t) ==
  /\ t.entry \in Index
  /\ GoodChange(m, t.change, H) /\ t.change.stored = {}
  /\ DOMAIN t.change.leaf \cup t.change.roots = {t.entry}
  /\ \A y \in Remade(t.change) : Above(t.entry, y)

\* They are to different entries.
OnePerEntry(ts) == \A t, u \in ts : t.entry = u.entry => t = u

\* The change b is that of all the writes ts.
IsUnion(b, ts) ==
  /\ b.vec = Together({t.change.vec : t \in ts})
  /\ b.hops = Together({t.change.hops : t \in ts})
  /\ b.leaf = Together({t.change.leaf : t \in ts})
  /\ b.roots = UNION {t.change.roots : t \in ts}
  /\ b.stored = {}

\* Functions that differ in their arguments are put together without loss.
LEMMA TogetherSpec ==
  ASSUME NEW fs, NEW f \in fs, NEW y \in DOMAIN f,
         \A g \in fs : y \in DOMAIN g => g = f
  PROVE  y \in DOMAIN Together(fs) /\ Together(fs)[y] = f[y]
<1>1. y \in UNION {DOMAIN g : g \in fs}
  OBVIOUS
<1>2. (CHOOSE g \in fs : y \in DOMAIN g) = f
  OBVIOUS
<1> QED
  BY <1>1, <1>2 DEF Together

\* What a part of the union says of a block below one of the entries is what the
\* write of that entry says.
PartOf(f, g, t) ==
  /\ \A y \in DOMAIN g : y \in DOMAIN f /\ f[y] = g[y]
  /\ \A y \in Blocks \ DOMAIN g : Above(t.entry, y) => y \notin DOMAIN f

SaysWhat(b, ts) ==
  /\ \A t \in ts : /\ PartOf(b.vec, t.change.vec, t) /\ PartOf(b.hops, t.change.hops, t)
                  /\ PartOf(b.leaf, t.change.leaf, t)
                  /\ t.change.roots \subseteq b.roots
  /\ \A y \in DOMAIN b.vec : \E t \in ts : y \in DOMAIN t.change.vec
  /\ \A y \in DOMAIN b.hops : \E t \in ts : y \in DOMAIN t.change.hops
  /\ \A y \in DOMAIN b.leaf : \E t \in ts : y \in DOMAIN t.change.leaf
  /\ \A y \in b.roots : \E t \in ts : y \in t.change.roots

LEMMA UnionOf ==
  ASSUME NEW m, NEW H, NEW ts, \A t \in ts : IsWrite(m, H, t),
         OnePerEntry(ts),
         NEW b, IsUnion(b, ts)
  PROVE  SaysWhat(b, ts)
<1>1. ASSUME NEW t \in ts, NEW y, y \in Remade(t.change) \cup DOMAIN t.change.leaf
      PROVE  y \in Blocks /\ y \in Prefix /\ Above(t.entry, y)
  <2>1. IsWrite(m, H, t)
    OBVIOUS
  <2>2. CASE y \in Remade(t.change)
    BY <2>1, <2>2, BlockType DEF IsWrite, GoodChange
  <2>3. CASE y \in DOMAIN t.change.leaf
    <3>1. y = t.entry /\ y \in Index
      BY <2>1, <2>3 DEF IsWrite
    <3>2. y \in Prefix /\ y \in Blocks
      BY <3>1, BlocksAre, Lengths
    <3> QED
      BY <3>1, <3>2, AboveReflexive
  <2> QED
    BY <1>1, <2>2, <2>3
<1>2. ASSUME NEW t \in ts, NEW u \in ts, NEW y \in Blocks, Above(t.entry, y), Above(u.entry, y)
      PROVE  t = u
  <2>1. /\ t.entry \in Prefix /\ u.entry \in Prefix /\ t.entry.plen = u.entry.plen
    <3>1. t.entry \in Index /\ u.entry \in Index
      BY DEF IsWrite
    <3> QED
      BY <3>1, BlocksAre
  <2>2. t.entry = u.entry
    BY <1>2, <2>1, BlockType, AboveSameLength
  <2> QED
    BY <2>2 DEF OnePerEntry
<1>3. ASSUME NEW t \in ts
      PROVE  PartOf(b.vec, t.change.vec, t)
  <2> DEFINE fs == {u.change.vec : u \in ts}
             g == t.change.vec
  <2>1. ASSUME NEW y \in DOMAIN g
        PROVE  y \in DOMAIN b.vec /\ b.vec[y] = g[y]
    <3>1. \A f \in fs : y \in DOMAIN f => f = g
      <4>1. y \in Blocks /\ Above(t.entry, y)
        BY <1>1 DEF Remade
      <4>2. ASSUME NEW u \in ts, y \in DOMAIN u.change.vec
            PROVE  u = t
        <5>1. Above(u.entry, y)
          BY <1>1, <4>2 DEF Remade
        <5> QED
          BY <1>2, <4>1, <5>1
      <4> QED
        BY <4>2
    <3>2. g \in fs /\ b.vec = Together(fs)
      BY DEF IsUnion
    <3> HIDE DEF fs, g
    <3> QED
      BY <3>1, <3>2, TogetherSpec
  <2>2. ASSUME NEW y \in Blocks \ DOMAIN g, Above(t.entry, y), y \in DOMAIN b.vec
        PROVE  FALSE
    <3>1. PICK u \in ts : y \in DOMAIN u.change.vec
      BY <2>2 DEF IsUnion, Together
    <3>2. Above(u.entry, y)
      BY <1>1, <3>1 DEF Remade
    <3>3. u = t
      BY <1>2, <2>2, <3>2
    <3> QED
      BY <3>1, <3>3
  <2> QED
    BY <2>1, <2>2 DEF PartOf
<1>4. ASSUME NEW t \in ts
      PROVE  PartOf(b.hops, t.change.hops, t)
  <2> DEFINE fs == {u.change.hops : u \in ts}
             g == t.change.hops
  <2>1. ASSUME NEW y \in DOMAIN g
        PROVE  y \in DOMAIN b.hops /\ b.hops[y] = g[y]
    <3>1. \A f \in fs : y \in DOMAIN f => f = g
      <4>1. y \in Blocks /\ Above(t.entry, y)
        BY <1>1 DEF Remade
      <4>2. ASSUME NEW u \in ts, y \in DOMAIN u.change.hops
            PROVE  u = t
        <5>1. Above(u.entry, y)
          BY <1>1, <4>2 DEF Remade
        <5> QED
          BY <1>2, <4>1, <5>1
      <4> QED
        BY <4>2
    <3>2. g \in fs /\ b.hops = Together(fs)
      BY DEF IsUnion
    <3> HIDE DEF fs, g
    <3> QED
      BY <3>1, <3>2, TogetherSpec
  <2>2. ASSUME NEW y \in Blocks \ DOMAIN g, Above(t.entry, y), y \in DOMAIN b.hops
        PROVE  FALSE
    <3>1. PICK u \in ts : y \in DOMAIN u.change.hops
      BY <2>2 DEF IsUnion, Together
    <3>2. Above(u.entry, y)
      BY <1>1, <3>1 DEF Remade
    <3>3. u = t
      BY <1>2, <2>2, <3>2
    <3> QED
      BY <3>1, <3>3
  <2> QED
    BY <2>1, <2>2 DEF PartOf
<1>5. ASSUME NEW t \in ts
      PROVE  PartOf(b.leaf, t.change.leaf, t)
  <2> DEFINE fs == {u.change.leaf : u \in ts}
             g == t.change.leaf
  <2>1. ASSUME NEW y \in DOMAIN g
        PROVE  y \in DOMAIN b.leaf /\ b.leaf[y] = g[y]
    <3>1. \A f \in fs : y \in DOMAIN f => f = g
      <4>1. y \in Blocks /\ Above(t.entry, y)
        BY <1>1
      <4>2. ASSUME NEW u \in ts, y \in DOMAIN u.change.leaf
            PROVE  u = t
        <5>1. Above(u.entry, y)
          BY <1>1, <4>2
        <5> QED
          BY <1>2, <4>1, <5>1
      <4> QED
        BY <4>2
    <3>2. g \in fs /\ b.leaf = Together(fs)
      BY DEF IsUnion
    <3> HIDE DEF fs, g
    <3> QED
      BY <3>1, <3>2, TogetherSpec
  <2>2. ASSUME NEW y \in Blocks \ DOMAIN g, Above(t.entry, y), y \in DOMAIN b.leaf
        PROVE  FALSE
    <3>1. PICK u \in ts : y \in DOMAIN u.change.leaf
      BY <2>2 DEF IsUnion, Together
    <3>2. Above(u.entry, y)
      BY <1>1, <3>1
    <3>3. u = t
      BY <1>2, <2>2, <3>2
    <3> QED
      BY <3>1, <3>3
  <2> QED
    BY <2>1, <2>2 DEF PartOf
<1>6. ASSUME NEW t \in ts
      PROVE  t.change.roots \subseteq b.roots
  BY DEF IsUnion
<1>7. /\ \A y \in DOMAIN b.vec : \E t \in ts : y \in DOMAIN t.change.vec
      /\ \A y \in DOMAIN b.hops : \E t \in ts : y \in DOMAIN t.change.hops
      /\ \A y \in DOMAIN b.leaf : \E t \in ts : y \in DOMAIN t.change.leaf
      /\ \A y \in b.roots : \E t \in ts : y \in t.change.roots
  BY DEF IsUnion, Together
<1> QED
  BY <1>3, <1>4, <1>5, <1>6, <1>7 DEF SaysWhat

\* The union of writes to different entries is good when they are.
EntriesOf(b, ts) == \A e \in DOMAIN b.leaf \cup b.roots : \E t \in ts : e = t.entry

LEMMA UnionGood ==
  ASSUME NEW m, NEW H, NEW ts, \A t \in ts : IsWrite(m, H, t),
         OnePerEntry(ts),
         NEW b, IsUnion(b, ts)
  PROVE  GoodChange(m, b, H) /\ EntriesOf(b, ts)
<1>1. /\ \A t \in ts : /\ PartOf(b.vec, t.change.vec, t) /\ PartOf(b.hops, t.change.hops, t)
                       /\ PartOf(b.leaf, t.change.leaf, t)
                       /\ t.change.roots \subseteq b.roots
      /\ \A y \in DOMAIN b.vec : \E t \in ts : y \in DOMAIN t.change.vec
      /\ \A y \in DOMAIN b.hops : \E t \in ts : y \in DOMAIN t.change.hops
      /\ \A y \in DOMAIN b.leaf : \E t \in ts : y \in DOMAIN t.change.leaf
      /\ \A y \in b.roots : \E t \in ts : y \in t.change.roots
  <2>1. SaysWhat(b, ts)
    BY UnionOf
  <2> QED
    BY <2>1 DEF SaysWhat
<1>2. \A t \in ts : /\ t.entry \in Index
                    /\ GoodChange(m, t.change, H) /\ t.change.stored = {}
                    /\ DOMAIN t.change.leaf \cup t.change.roots = {t.entry}
                    /\ \A y \in Remade(t.change) : Above(t.entry, y)
  BY DEF IsWrite
<1>3. \A y \in Remade(b) : \E t \in ts : y \in Remade(t.change)
  BY <1>1 DEF Remade
<1>4. ASSUME NEW t \in ts, NEW y \in Blocks, Above(t.entry, y)
      PROVE  /\ y \in DOMAIN b.vec <=> y \in DOMAIN t.change.vec
             /\ y \in DOMAIN b.hops <=> y \in DOMAIN t.change.hops
             /\ y \in DOMAIN t.change.vec => b.vec[y] = t.change.vec[y]
             /\ y \in DOMAIN t.change.hops => b.hops[y] = t.change.hops[y]
             /\ VectorOf(m, b, y) = VectorOf(m, t.change, y)
  <2>1. PartOf(b.vec, t.change.vec, t) /\ PartOf(b.hops, t.change.hops, t)
    BY <1>1
  <2>2. /\ y \in DOMAIN b.vec <=> y \in DOMAIN t.change.vec
        /\ y \in DOMAIN t.change.vec => b.vec[y] = t.change.vec[y]
    BY <1>4, <2>1 DEF PartOf
  <2>3. /\ y \in DOMAIN b.hops <=> y \in DOMAIN t.change.hops
        /\ y \in DOMAIN t.change.hops => b.hops[y] = t.change.hops[y]
    BY <1>4, <2>1 DEF PartOf
  <2> QED
    BY <2>2, <2>3 DEF VectorOf
<1>5. ASSUME NEW t \in ts, NEW y \in Remade(t.change)
      PROVE  y \in Blocks /\ Above(t.entry, y) /\ y \in Remade(b)
  <2>1. y \in Blocks /\ Above(t.entry, y)
    BY <1>2 DEF GoodChange
  <2> QED
    BY <1>4, <2>1 DEF Remade
<1>6. ASSUME NEW y \in Remade(b)
      PROVE  y \in Blocks /\ GoodPlace(m, b, y)
  <2>1. PICK t \in ts : y \in Remade(t.change)
    BY <1>3
  <2>2. y \in Blocks /\ Above(t.entry, y)
    BY <1>5, <2>1
  <2>3. GoodPlace(m, t.change, y) /\ t.change.stored = {}
    BY <1>2, <2>1 DEF GoodChange
  <2>4. y \in DOMAIN b.vec \cap DOMAIN b.hops \/ m.pos[y] # NULL
    BY <1>4, <2>2, <2>3 DEF GoodPlace
  <2>5. CASE y \in t.change.roots
    BY <1>1, <2>2, <2>4, <2>5 DEF GoodPlace
  <2>6. CASE /\ y.plen >= S + K
             /\ Over(y) \in DOMAIN t.change.vec
             /\ INDEX(y.net, y.plen - K) \in t.change.vec[Over(y)]
    <3>1. Over(y) \in Remade(t.change)
      BY <2>6 DEF Remade
    <3>2. Over(y) \in Blocks /\ Above(t.entry, Over(y))
      BY <1>5, <3>1
    <3>3. Over(y) \in DOMAIN b.vec /\ b.vec[Over(y)] = t.change.vec[Over(y)]
      BY <1>4, <2>6, <3>2
    <3> QED
      BY <2>2, <2>4, <2>6, <3>3 DEF GoodPlace
  <2> QED
    BY <2>3, <2>5, <2>6 DEF GoodPlace
<1>7. ASSUME NEW y \in DOMAIN b.vec
      PROVE  GoodVec(m, b, y)
  <2>1. PICK t \in ts : y \in DOMAIN t.change.vec
    BY <1>1
  <2>2. y \in Blocks /\ Above(t.entry, y)
    BY <1>5, <2>1 DEF Remade
  <2>3. GoodVec(m, t.change, y) /\ b.vec[y] = t.change.vec[y]
        /\ (y \in DOMAIN b.hops <=> y \in DOMAIN t.change.hops)
    BY <1>2, <1>4, <2>1, <2>2 DEF GoodChange
  <2>4. ASSUME NEW k \in DOMAIN t.change.vec \cap DOMAIN t.change.hops
        PROVE  k \in DOMAIN b.vec \cap DOMAIN b.hops
    <3>1. k \in Blocks /\ Above(t.entry, k)
      BY <1>5 DEF Remade
    <3> QED
      BY <1>4, <3>1
  <2> QED
    BY <2>3, <2>4 DEF GoodVec
<1>8. ASSUME NEW y \in DOMAIN b.hops
      PROVE  GoodHops(m, b, H, y)
  <2>1. PICK t \in ts : y \in DOMAIN t.change.hops
    BY <1>1
  <2>2. y \in Blocks /\ Above(t.entry, y)
    BY <1>5, <2>1 DEF Remade
  <2>3. GoodHops(m, t.change, H, y) /\ b.hops[y] = t.change.hops[y]
        /\ VectorOf(m, b, y) = VectorOf(m, t.change, y)
    BY <1>2, <1>4, <2>1, <2>2 DEF GoodChange
  <2> QED
    BY <2>3 DEF GoodHops
<1>9. ASSUME NEW e \in DOMAIN b.leaf
      PROVE  e \in Index \ Remade(b) /\ b.leaf[e] \in H /\ \E t \in ts : e = t.entry
  <2>1. PICK t \in ts : e \in DOMAIN t.change.leaf
    BY <1>1
  <2>2. e = t.entry /\ e \in Index /\ e \notin Remade(t.change) /\ t.change.leaf[e] \in H
    BY <1>2, <2>1 DEF GoodChange
  <2>3. b.leaf[e] = t.change.leaf[e]
    BY <1>1, <2>1 DEF PartOf
  <2>4. e \in Blocks /\ Above(t.entry, e)
    BY <2>2, BlocksAre, AboveReflexive, Lengths
  <2>5. e \notin Remade(b)
    BY <1>4, <2>2, <2>4 DEF Remade
  <2> QED
    BY <2>2, <2>3, <2>5
<1>10. ASSUME NEW e \in b.roots
       PROVE  e \in Index \cap Remade(b) /\ \E t \in ts : e = t.entry
  <2>1. PICK t \in ts : e \in t.change.roots
    BY <1>1
  <2>2. e = t.entry /\ e \in Index /\ e \in Remade(t.change)
    BY <1>2, <2>1 DEF GoodChange
  <2> QED
    BY <1>5, <2>2
<1>11. b.stored = {}
  BY DEF IsUnion
<1> QED
  BY <1>6, <1>7, <1>8, <1>9, <1>10, <1>11 DEF GoodChange, EntriesOf

\* What is written to one entry.
LEMMA EntryWrite ==
  ASSUME NEW m, NEW H, HeapOK(m, H), NEW r, RibOK(r, H), NEW z \in Index, NEW e \in Index,
         NEW h \in H, NEW b,
         \/ z \in r.nodes /\ b = EntryBlock(r, m, z, e)
         \/ b = [NoChange EXCEPT !.leaf = With(@, e, h)]
  PROVE  /\ GoodChange(m, b, H) /\ b.stored = {}
         /\ DOMAIN b.leaf \cup b.roots = {e}
         /\ \A y \in Remade(b) : Above(e, y)
<1>1. CASE b = [NoChange EXCEPT !.leaf = With(@, e, h)]
  <2>1. IsLeaf(b, e, h)
    BY <1>1 DEF IsLeaf, NoChange
  <2>2. GoodChange(m, b, H) /\ Remade(b) = {} /\ DOMAIN b.leaf = {e}
    BY <2>1, LeafGood
  <2> QED
    BY <2>1, <2>2 DEF IsLeaf
<1>2. CASE z \in r.nodes /\ b = EntryBlock(r, m, z, e)
  <2> DEFINE q == IF z = e THEN r ELSE Moved(r, z, e)
             c == Inode(q, m, e)
  <2>1. e \in Blocks
    BY BlocksAre, Lengths
  <2>2. b = LinkEntry(c, e)
    BY <1>2 DEF EntryBlock
  <2>3. RibOK(q, H) /\ e \in q.nodes
    BY <1>2, MovedRib
  <2> HIDE DEF q
  <2>4. /\ Part(m, c, H, e) /\ e \in DOMAIN c.vec /\ e \in DOMAIN c.hops
        /\ \A y \in Remade(c) : Above(e, y)
    BY <2>1, <2>3, InodePart
  <2> HIDE DEF c
  <2>5. GoodChange(m, b, H) /\ EntryLinked(b, c, e)
    BY <2>2, <2>4, LinkEntryGood
  <2>6. \A y \in Remade(b) : Above(e, y)
    BY <2>4, <2>5 DEF Remade, EntryLinked
  <2> QED
    BY <2>5, <2>6 DEF EntryLinked
<1> QED
  BY <1>1, <1>2

\* The last node there is on the way to an index below a node.
LEMMA LastNode ==
  ASSUME NEW r, NEW H, RibOK(r, H), NEW p \in r.nodes, NEW z \in Index, Above(p, z),
         NEW n, n = Deepest(Path(z) \cap r.nodes)
  PROVE  /\ n \in r.nodes /\ n \in Path(z) /\ n.plen \in p.plen .. S
         /\ n.plen = S => n = z
         /\ \A y \in Path(z) \cap r.nodes : y.plen <= n.plen
<1> DEFINE C == Path(z) \cap r.nodes
<1>1. p \in Prefix /\ z \in Prefix /\ z.plen = S /\ z.net \in Addr /\ p.plen \in 0 .. Width
      /\ p.plen <= S /\ p.plen \in Nat
  BY BlocksAre, PrefixType, Lengths DEF RibOK, Above
<1>2. p \in C
  <2>1. p = PrefixOf(z.net, p.plen) /\ p.plen \in 0 .. z.plen
    BY <1>1, PrefixType, Lengths DEF Above, PrefixOf
  <2> QED
    BY <2>1 DEF Path
<1>3. C \subseteq Prefix /\ C # {}
  BY <1>2 DEF RibOK
<1> HIDE DEF C
<1>4. \E y \in C : \A w \in C : w.plen <= y.plen
  BY <1>3, LongestExists
<1>5. n = CHOOSE y \in C : \A w \in C : w.plen <= y.plen
  BY DEF Deepest, C
<1>6. n \in C /\ \A y \in C : y.plen <= n.plen
  BY <1>4, <1>5
<1>7. PICK l \in 0 .. S : n = PrefixOf(z.net, l)
  BY <1>1, <1>6 DEF C, Path
<1>8. n.plen = l /\ p.plen <= l
  BY <1>2, <1>6, <1>7 DEF PrefixOf
<1>9. n.plen = S => n = z
  BY <1>1, <1>7, <1>8, StartsItself
<1>10. n.plen \in p.plen .. S
  BY <1>1, <1>8, Lengths
<1> QED
  BY <1>6, <1>9, <1>10 DEF C

\* Of two indices one comes first at most.
LEMMA OneAfterOther ==
  ASSUME NEW y \in Index, NEW z \in Index, Before(y.net, z.net)
  PROVE  ~ Before(z.net, y.net)
<1>1. DOMAIN y.net = 1 .. Width /\ DOMAIN z.net = 1 .. Width /\ Width \in Nat
  <2>1. y.net \in Addr /\ z.net \in Addr
    BY BlocksAre, PrefixType
  <2> QED
    BY <2>1, Lengths DEF Addr
<1>2. PICK k \in 1 .. Width : /\ y.net[k] = 0 /\ z.net[k] = 1
                              /\ \A l \in 1 .. k - 1 : y.net[l] = z.net[l]
  BY <1>1 DEF Before
<1>3. ASSUME NEW j \in 1 .. Width, z.net[j] = 0, y.net[j] = 1,
             \A l \in 1 .. j - 1 : z.net[l] = y.net[l]
      PROVE  FALSE
  <2>1. j = k \/ j \in 1 .. k - 1 \/ k \in 1 .. j - 1
    BY <1>1
  <2> QED
    BY <1>2, <1>3, <2>1
<1> QED
  BY <1>1, <1>3 DEF Before

\* A write of the update of p, as the walk over the table makes it.
WriteFor(turn, r, m, p, addr, z) ==
  LET n == Deepest(Path(z) \cap r.nodes)
      e == Written(turn, p, addr, z, n.plen)
  IN  [index |-> z, entry |-> e,
       change |-> IF n.plen = S THEN EntryBlock(r, m, z, e)
                  ELSE [NoChange EXCEPT !.leaf = With(@, e, r.nh[n])]]

\* The writes that stay: each is one for an index below the route, and there is one
\* for an entry; they are all there are if none failed and none has another's entry.
TriedFor(turn, r, m, p, addr) == {WriteFor(turn, r, m, p, addr, z) : z \in {x \in Index : Above(p, x)}}

Stays(ts, turn, r, m, p, addr, H) ==
  /\ ts \subseteq TriedFor(turn, r, m, p, addr)
  /\ OnePerEntry(ts)
  /\ \A t \in ts : IsWrite(m, H, t) /\ Above(p, t.entry)

OwnEntries(tried) == \A t, u \in tried : t.entry = u.entry => t.index = u.index

StaysAll(ts, tried, short) == ~ short /\ OwnEntries(tried) => ts = tried

\* The names that leaked arrays have.
ArrayNames == {"root", "nodes", "leaves"} \X Blocks

LEMMA TakenNamed ==
  ASSUME NEW m, NEW H, NEW b, GoodChange(m, b, H)
  PROVE  Taken(b) \subseteq ArrayNames
<1>1. DOMAIN b.vec \subseteq Blocks /\ DOMAIN b.hops \subseteq Blocks /\ b.roots \subseteq Blocks
  BY DEF GoodChange, Remade
<1> QED
  BY <1>1 DEF Taken, Asked, ArrayNames

\* The update of a short prefix, whatever bits its address has beyond its length.
LEMMA DirectUnion ==
  ASSUME NEW m, NEW H, HeapOK(m, H), NEW r, RibOK(r, H), NEW p \in r.nodes,
         NEW addr \in Addr, Covers(p, addr), NEW faults, NEW turn, TurnsAhead(turn),
         NEW o, o = Direct(r, m, p, addr, turn, faults)
  PROVE  /\ o.failed \in BOOLEAN /\ o.short \in BOOLEAN
         /\ \E ts : /\ Stays(ts, turn, r, m, p, addr, H) /\ IsUnion(o.change, ts)
                    /\ StaysAll(ts, TriedFor(turn, r, m, p, addr), o.short)
         /\ o.dropped \subseteq ArrayNames
         /\ OwnEntries(TriedFor(turn, r, m, p, addr)) => o.dropped = {}
<1> DEFINE Z == {x \in Index : Above(p, x)}
           tried == {WriteFor(turn, r, m, p, addr, z) : z \in Z}
           fails(t) == Fails(t.change, faults)
           last(t, ts) == \A u \in ts : u.index = t.index \/ Before(u.index.net, t.index.net)
           stays == {t \in tried : /\ ~ fails(t)
                                   /\ last(t, {u \in tried : ~ fails(u) /\ u.entry = t.entry})}
           lose == {t \in tried \ stays : ~ fails(t)}
           b == o.change
<1>1. o = Writes(tried, faults)
  BY DEF Direct, WriteFor
<1>2. ASSUME NEW t \in tried
      PROVE  IsWrite(m, H, t) /\ Above(p, t.entry)
  <2>1. PICK z \in Index : Above(p, z) /\ t = WriteFor(turn, r, m, p, addr, z)
    OBVIOUS
  <2> DEFINE n == Deepest(Path(z) \cap r.nodes)
             e == Written(turn, p, addr, z, n.plen)
             c == t.change
  <2>2. n \in r.nodes /\ n.plen \in p.plen .. S /\ (n.plen = S => n = z)
    BY <2>1, LastNode
  <2>3. /\ t.entry = e
        /\ c = IF n.plen = S THEN EntryBlock(r, m, z, e)
               ELSE [NoChange EXCEPT !.leaf = With(@, e, r.nh[n])]
    BY <2>1 DEF WriteFor
  <2> HIDE DEF n, c
  <2>4. r.nh[n] \in H /\ p \in Prefix
    BY <2>2 DEF RibOK
  <2>5. e \in Index /\ Above(p, e)
    BY <2>1, <2>2, <2>4, WrittenUnder
  <2> HIDE DEF e
  <2>6. \/ z \in r.nodes /\ c = EntryBlock(r, m, z, e)
        \/ c = [NoChange EXCEPT !.leaf = With(@, e, r.nh[n])]
    BY <2>2, <2>3
  <2>7. /\ GoodChange(m, c, H) /\ c.stored = {}
        /\ DOMAIN c.leaf \cup c.roots = {e}
        /\ \A y \in Remade(c) : Above(e, y)
    BY <2>4, <2>5, <2>6, EntryWrite
  <2> QED
    BY <2>3, <2>5, <2>7 DEF IsWrite, c
<1>3. ASSUME NEW t \in tried, NEW u \in tried, t.index = u.index
      PROVE  t = u
  <2>1. \A z \in Index : WriteFor(turn, r, m, p, addr, z).index = z
    BY DEF WriteFor
  <2> QED
    BY <1>3, <2>1
<1>4. ASSUME NEW t \in tried
      PROVE  t.index \in Index
  <2>1. \A z \in Index : WriteFor(turn, r, m, p, addr, z).index = z
    BY DEF WriteFor
  <2> QED
    BY <2>1
<1>5. OnePerEntry(stays)
  <2> SUFFICES ASSUME NEW t \in stays, NEW u \in stays, t.entry = u.entry
               PROVE  t = u
    BY DEF OnePerEntry
  <2>1. \/ u.index = t.index
        \/ Before(u.index.net, t.index.net) /\ Before(t.index.net, u.index.net)
    OBVIOUS
  <2>2. ~ (Before(u.index.net, t.index.net) /\ Before(t.index.net, u.index.net))
    BY <1>4, OneAfterOther
  <2> QED
    BY <1>3, <2>1, <2>2
<1>6. /\ IsUnion(b, stays) /\ o.failed \in BOOLEAN /\ o.short \in BOOLEAN
      /\ o.dropped = UNION {Taken(t.change) : t \in lose}
  <2>1. /\ o.change = [NoChange EXCEPT !.vec = Together({t.change.vec : t \in stays}),
                                       !.hops = Together({t.change.hops : t \in stays}),
                                       !.leaf = Together({t.change.leaf : t \in stays}),
                                       !.roots = UNION {t.change.roots : t \in stays}]
        /\ o.failed = (\E t \in tried : fails(t) /\ last(t, tried))
        /\ o.short = (\E t \in tried : fails(t))
        /\ o.dropped = UNION {Taken(t.change) : t \in lose}
    <3> HIDE DEF tried
    <3> QED
      BY <1>1 DEF Writes
  <2> HIDE DEF stays, fails, last, tried, lose
  <2> QED
    BY <2>1 DEF IsUnion, NoChange
<1>7. stays \subseteq tried
  OBVIOUS
<1>8. ASSUME OwnEntries(tried)
      PROVE  lose = {} /\ (~ o.short => stays = tried)
  <2>1. ~ o.short => \A t \in tried : ~ fails(t)
    BY <1>1 DEF Writes
  <2>2. \A t \in tried : last(t, {u \in tried : ~ fails(u) /\ u.entry = t.entry})
    BY <1>8 DEF OwnEntries
  <2> HIDE DEF tried, fails, last
  <2> QED
    BY <2>1, <2>2
<1>9. tried = TriedFor(turn, r, m, p, addr)
  BY DEF TriedFor
<1>10. lose \subseteq tried
  OBVIOUS
<1> HIDE DEF stays, tried, b, lose
<1>11. Stays(stays, turn, r, m, p, addr, H)
  BY <1>2, <1>5, <1>7, <1>9 DEF Stays
<1>12. StaysAll(stays, TriedFor(turn, r, m, p, addr), o.short)
  BY <1>8, <1>9 DEF StaysAll
<1>13. ASSUME NEW t \in lose
       PROVE  Taken(t.change) \subseteq ArrayNames
  BY <1>2, <1>10, TakenNamed DEF IsWrite
<1>14. o.dropped \subseteq ArrayNames
  BY <1>6, <1>13
<1>15. OwnEntries(TriedFor(turn, r, m, p, addr)) => o.dropped = {}
  BY <1>6, <1>8, <1>9
<1> QED
  BY <1>6, <1>11, <1>12, <1>14, <1>15 DEF b

LEMMA DirectGood ==
  ASSUME NEW m, NEW H, HeapOK(m, H), NEW r, RibOK(r, H), NEW p \in r.nodes,
         NEW addr \in Addr, Covers(p, addr), NEW faults, NEW turn, TurnsAhead(turn),
         NEW o, o = Direct(r, m, p, addr, turn, faults)
  PROVE  /\ GoodChange(m, o.change, H) /\ o.failed \in BOOLEAN /\ o.short \in BOOLEAN
         /\ o.dropped \subseteq ArrayNames
         /\ \A e \in DOMAIN o.change.leaf \cup o.change.roots : Above(p, e)
<1>1. PICK ts : Stays(ts, turn, r, m, p, addr, H) /\ IsUnion(o.change, ts)
  BY DirectUnion
<1>2. (\A t \in ts : IsWrite(m, H, t) /\ Above(p, t.entry)) /\ OnePerEntry(ts)
  BY <1>1 DEF Stays
<1>3. GoodChange(m, o.change, H) /\ EntriesOf(o.change, ts)
  BY <1>1, <1>2, UnionGood
<1>4. o.failed \in BOOLEAN /\ o.short \in BOOLEAN /\ o.dropped \subseteq ArrayNames
  BY DirectUnion
<1> QED
  BY <1>2, <1>3, <1>4 DEF EntriesOf

-----------------------------------------------------------------------------
\* The inductive invariant.

TrieOK ==
  /\ mark \subseteq nodes
  /\ leaked \subseteq ArrayNames
  /\ lost \in BOOLEAN
  /\ misfreed = FALSE
  /\ HeapOK(Trie, Hop)

TInv == IInv /\ PathsClosed /\ TrieOK

\* A heap is sound for more next hops than there were.
LEMMA MoreHops ==
  ASSUME NEW m, NEW H, HeapOK(m, H), NEW J, H \subseteq J
  PROVE  HeapOK(m, J)
<1>1. \A j \in Index : EntryOK(m, j, J)
  BY DEF HeapOK, EntryOK
<1> QED
  BY <1>1 DEF HeapOK

\* The next hops of the radix tree after a step.
LEMMA RibNow ==
  ASSUME IInv', PathsClosed', NEW marks, NEW r, r = Tree(marks)
  PROVE  RibOK(r, Hop') /\ r.nodes = nodes' /\ r.marked = marks
<1>1. r.nodes = nodes' /\ r.marked = marks /\ r.nh = [x \in nodes' |-> EXT_NH(x)']
  BY DEF Tree
<1>2. nodes' \subseteq Prefix /\ route' \in [valid' -> 1 .. Len(fib')] /\ Len(fib') \in Nat
      /\ \A x \in nodes' : ext'[x] = NULL \/ ext'[x] \in valid'
  <2>1. TypeOK' /\ ExtIsNearestRoute'
    BY DEF IInv
  <2>2. nodes' \subseteq Prefix /\ route' \in [valid' -> 1 .. Len(fib')] /\ Len(fib') \in Nat
    BY <2>1 DEF TypeOK
  <2>3. \A x \in nodes' : ext'[x] = NULL \/ ext'[x] \in valid'
    BY <2>1 DEF ExtIsNearestRoute
  <2> QED
    BY <2>2, <2>3
<1>3. ASSUME NEW x \in nodes'
      PROVE  r.nh[x] \in Hop'
  <2>1. r.nh[x] = IF ext'[x] = NULL THEN 0 ELSE route'[ext'[x]]
    BY <1>1 DEF EXT_NH
  <2>2. 0 \in 0 .. Len(fib') /\ 1 .. Len(fib') \subseteq 0 .. Len(fib')
    BY <1>2
  <2>3. ext'[x] # NULL => route'[ext'[x]] \in 1 .. Len(fib')
    BY <1>2
  <2> QED
    BY <2>1, <2>2, <2>3 DEF Hop
<1>4. \A y \in nodes' : Path(y) \subseteq nodes'
  BY DEF PathsClosed
<1> QED
  BY <1>1, <1>2, <1>3, <1>4 DEF RibOK

\* One installation of an outcome.
LEMMA InstallKeeps ==
  ASSUME NEW m, m = Trie, HeapOK(m, Hop'), misfreed = FALSE, lost \in BOOLEAN,
         leaked \subseteq ArrayNames, NEW o, GoodChange(m, o.change, Hop'),
         o.short \in BOOLEAN, o.dropped \subseteq ArrayNames,
         NEW p, \A e \in DOMAIN o.change.leaf \cup o.change.roots : Above(p, e) \/ Above(e, p),
         NEW marks, marks \subseteq nodes', Install(m, o, p, marks)
  PROVE  TrieOK'
<1> DEFINE b == o.change
<1>1. PICK n \in {Linked(m, b)} :
        \E garbage \in {Garbage(m, n, b, p)} :
          /\ dir' = n.dir
          /\ cnodes' = Freed(n, garbage).nodes
          /\ cleaves' = Freed(n, garbage).leaves
          /\ leaked' = leaked \cup o.dropped
          /\ misfreed' = (misfreed \/ Misfrees(n, garbage))
          /\ lost' = (lost \/ o.short)
          /\ mark' = IF o.failed THEN marks ELSE Cleared(marks, p)
  BY DEF Install
<1>2. PICK garbage \in {Garbage(m, n, b, p)} :
        /\ dir' = n.dir
        /\ cnodes' = Freed(n, garbage).nodes
        /\ cleaves' = Freed(n, garbage).leaves
        /\ leaked' = leaked \cup o.dropped
        /\ misfreed' = (misfreed \/ Misfrees(n, garbage))
        /\ lost' = (lost \/ o.short)
        /\ mark' = IF o.failed THEN marks ELSE Cleared(marks, p)
  BY <1>1
<1>3. n = Linked(m, b) /\ garbage = Garbage(m, n, b, p)
  OBVIOUS
<1> DEFINE f == Heap(n.dir, Freed(n, garbage).nodes, Freed(n, garbage).leaves)
<1>4. HeapOK(f, Hop') /\ ~ Misfrees(n, garbage)
  <2> HIDE DEF f, b
  <2>1. f = Heap(n.dir, Freed(n, garbage).nodes, Freed(n, garbage).leaves)
    BY DEF f
  <2>2. GoodChange(m, b, Hop') /\ \A e \in DOMAIN b.leaf \cup b.roots : Above(p, e) \/ Above(e, p)
    BY DEF b
  <2> QED
    BY <1>3, <2>1, <2>2, ChangeKeeps
<1>5. Trie' = f
  BY <1>2 DEF Trie
<1>6. HeapOK(Trie, Hop)'
  <2> HIDE DEF f
  <2> QED
    BY <1>4, <1>5
<1>7. mark' \subseteq nodes'
  <2>1. Cleared(marks, p) \subseteq marks
    BY DEF Cleared
  <2> QED
    BY <1>2, <2>1
<1>8. misfreed' = FALSE /\ lost' \in BOOLEAN /\ leaked' \subseteq ArrayNames
  BY <1>2, <1>4
<1> QED
  BY <1>6, <1>7, <1>8 DEF TrieOK, ArrayNames

\* The next hop table only grows.
LEMMA HopsGrow ==
  ASSUME TypeOK, NEW h \in NextHop, fib' = fibWith(h)
  PROVE  Hop \subseteq Hop'
<1>1. Len(fib) <= Len(fib') /\ Len(fib) \in Nat /\ Len(fib') \in Nat
  <2>1. fibWith(h) \in Seq(NextHop) /\ Len(fib) <= Len(fibWith(h))
    BY SlotSpec
  <2> QED
    BY <2>1 DEF TypeOK
<1> QED
  BY <1>1 DEF Hop

\* The update of the trie keeps it sound, whichever allocation fails.
LEMMA UpdateKeeps ==
  ASSUME TrieOK, Hop \subseteq Hop', IInv', PathsClosed', NEW p \in nodes',
         NEW marks, marks \subseteq nodes', NEW turn, TurnsAhead(turn),
         UpdateTrie(turn, p, marks)
  PROVE  TrieOK'
<1>1. PICK addr \in Given(p), faults \in Failing, r \in {Tree(marks)}, m \in {Trie} :
        \E o \in {Subtree(r, m, p, addr, turn, faults)} : Install(m, o, p, r.marked)
  BY DEF UpdateTrie
<1>2. r = Tree(marks) /\ m = Trie
  OBVIOUS
<1>3. PICK o : o = Subtree(r, m, p, addr, turn, faults) /\ Install(m, o, p, r.marked)
  BY <1>1
<1>4. RibOK(r, Hop') /\ r.nodes = nodes' /\ r.marked = marks
  BY <1>2, RibNow
<1>5. HeapOK(m, Hop')
  BY <1>2, MoreHops DEF TrieOK
<1>6. p \in r.nodes /\ p.plen \in Nat
  <2>1. p \in Prefix
    BY <1>4 DEF RibOK
  <2> QED
    BY <1>4, <2>1, PrefixType, Lengths
<1>7. addr \in Addr /\ Covers(p, addr)
  <2>1. p \in Prefix
    BY <1>4 DEF RibOK
  <2> QED
    BY <2>1, PrefixType DEF Given, Covers
<1>8. /\ GoodChange(m, o.change, Hop') /\ o.short \in BOOLEAN /\ o.dropped \subseteq ArrayNames
      /\ \A e \in DOMAIN o.change.leaf \cup o.change.roots : Above(p, e) \/ Above(e, p)
  <2>1. CASE p.plen < S
    <3>1. o = Direct(r, m, p, addr, turn, faults)
      BY <1>3, <2>1 DEF Subtree
    <3>2. /\ GoodChange(m, o.change, Hop') /\ o.failed \in BOOLEAN /\ o.short \in BOOLEAN
          /\ \A e \in DOMAIN o.change.leaf \cup o.change.roots : Above(p, e)
          /\ o.dropped \subseteq ArrayNames
      BY <1>4, <1>5, <1>6, <1>7, <3>1, DirectGood
    <3> QED
      BY <3>2
  <2>2. CASE ~ p.plen < S
    <3>1. o = Deep(r, m, p, faults) /\ p.plen >= S
      BY <1>3, <1>6, <2>2, Lengths DEF Subtree
    <3>2. /\ GoodChange(m, o.change, Hop') /\ o.failed \in BOOLEAN /\ o.short \in BOOLEAN
          /\ \A e \in DOMAIN o.change.leaf \cup o.change.roots : Above(e, p)
          /\ o.dropped = {}
      BY <1>4, <1>5, <1>6, <3>1, DeepGood
    <3> QED
      BY <3>2
  <2> QED
    BY <2>1, <2>2
<1>9. misfreed = FALSE /\ lost \in BOOLEAN /\ leaked \subseteq ArrayNames
  BY DEF TrieOK
<1> QED
  BY <1>2, <1>3, <1>4, <1>5, <1>8, <1>9, InstallKeeps

\* A table without any node.
LEMMA EmptyHeap ==
  ASSUME NEW m, NEW d, d = [j \in Index |-> LeafEntry(0)],
         NEW ns, ns = [a \in {} |-> <<>>], NEW ls, ls = [a \in {} |-> <<>>],
         m = Heap(d, ns, ls), NEW H, 0 \in H
  PROVE  HeapOK(m, H)
<1>1. m.dir = d /\ m.nodes = ns /\ m.leaves = ls /\ m = Heap(m.dir, m.nodes, m.leaves)
  BY DEF Heap
<1> DEFINE T == {y \in Blocks : m.pos[y] = NULL}
<1>2. ASSUME NEW j \in Index
      PROVE  EntryOK(m, j, H) /\ Entry(m, j) = NULL
  <2>1. m.dir[j] = LeafEntry(0)
    BY <1>1
  <2> QED
    BY <2>1 DEF EntryOK, Entry, LeafEntry
<1>3. Blocks \subseteq T
  <2>1. Index \subseteq T
    <3>1. ASSUME NEW y \in Index
          PROVE  y \in T
      <4>1. y \in Blocks /\ y.plen = S
        BY BlocksAre, Lengths
      <4> QED
        BY <1>1, <1>2, <4>1, Walk
    <3> QED
      BY <3>1
  <2>2. ASSUME NEW y \in Blocks, y.plen # S, y.plen < S + K
        PROVE  y \in T
    BY <1>1, <2>2, Walk
  <2>3. ASSUME NEW y \in Blocks, y.plen >= S + K, Over(y) \in T
        PROVE  y \in T
    <3>1. m.pos[y] = Child(NodeAt(m, Over(y)), INDEX(y.net, y.plen - K))
      BY <1>1, <2>3, Walk
    <3>2. NodeAt(m, Over(y)).vector = {}
      BY <2>3 DEF NodeAt, At, NoNode, Node
    <3> QED
      BY <3>1, <3>2 DEF Child
  <2> HIDE DEF T
  <2> QED
    BY <2>1, <2>2, <2>3, BlockInduction
<1>4. \A y \in Blocks : m.pos[y] = NULL
  BY <1>3
<1>5. DOMAIN m.nodes = {} /\ DOMAIN m.leaves = {} /\ DOMAIN m.dir = Index
  BY <1>1
<1> QED
  BY <1>1, <1>2, <1>4, <1>5 DEF HeapOK

LEMMA TInvInit == TrieInit => TInv
<1> SUFFICES ASSUME TrieInit
             PROVE  TInv
  OBVIOUS
<1>1. nodes = {} /\ fib = <<>> /\ mark = {} /\ lost = FALSE /\ misfreed = FALSE /\ leaked = {}
      /\ route = [p \in {} |-> 0] /\ ext = [p \in {} |-> NULL]
  BY DEF TrieInit, Init
<1>2. IInv
  BY <1>1, RadixAssumption DEF IInv, TypeOK, ExtIsNearestRoute, valid
<1>3. PathsClosed
  BY <1>1 DEF PathsClosed
<1>4. 0 \in Hop
  BY <1>1 DEF Hop
<1>5. HeapOK(Trie, Hop)
  <2>1. dir = [j \in Index |-> LeafEntry(0)] /\ cnodes = [a \in {} |-> <<>>]
        /\ cleaves = [a \in {} |-> <<>>] /\ Trie = Heap(dir, cnodes, cleaves)
    BY DEF TrieInit, Trie
  <2> QED
    BY <1>4, <2>1, EmptyHeap
<1> QED
  BY <1>1, <1>2, <1>3, <1>5 DEF TInv, TrieOK

\* The steps of a trie whose updates make the turns in the table that turn says.
NextBy(turn) ==
  \E p \in Routes :
    \/ \E h \in NextHop :
         \/ /\ RouteAdd(p, h)
            /\ IF p \in valid THEN KeepTrie ELSE UpdateTrie(turn, p, AddMarks(p))
         \/ /\ RouteUpdate(p, h)
            /\ IF p \notin valid THEN UpdateTrie(turn, p, AddMarks(p))
               ELSE IF route[p] = Slot(h) THEN KeepTrie
               ELSE UpdateTrie(turn, p, HopMarks(p))
         \/ /\ RouteChange(p, h)
            /\ IF p \notin valid \/ route[p] = Slot(h) THEN KeepTrie
               ELSE UpdateTrie(turn, p, HopMarks(p))
         \/ (\E k \in 0 .. p.plen : OutOfMemory(p, h, k)) /\ KeepTrie
    \/ RouteDel(p) /\ UpdateTrie(turn, p, HopMarks(p))

LEMMA TrieNextBy == [TrieNext]_allVars => [NextBy(Turn)]_allVars
BY DEF TrieNext, NextBy, TrieAdd, TrieUpdate, TrieChange, TrieDel

\* The radix tree takes the steps it takes alone.
LEMMA TrieStep ==
  ASSUME NEW turn, [NextBy(turn)]_allVars
  PROVE  [Next]_vars
<1>1. CASE NextBy(turn)
  BY <1>1 DEF NextBy, Next
<1>2. CASE UNCHANGED allVars
  BY <1>2 DEF allVars, vars
<1> QED
  BY <1>1, <1>2

\* The trie is as it was, for more next hops perhaps.
LEMMA KeptOK ==
  ASSUME TrieOK, UNCHANGED <<mark, trie>>, nodes \subseteq nodes', Hop \subseteq Hop'
  PROVE  TrieOK'
<1>1. Trie' = Trie
  BY DEF Trie, trie
<1>2. HeapOK(Trie, Hop')
  BY MoreHops DEF TrieOK
<1>3. HeapOK(Trie, Hop)'
  BY <1>1, <1>2
<1> QED
  BY <1>3 DEF TrieOK, trie, ArrayNames

\* What the operations of the radix tree change that the trie depends on.
LEMMA RibSteps ==
  ASSUME TypeOK, NEW p \in Prefix, NEW h \in NextHop
  PROVE  /\ RouteAdd(p, h) \/ RouteUpdate(p, h) \/ RouteChange(p, h)
            \/ (\E k \in 0 .. p.plen : OutOfMemory(p, h, k)) \/ RouteDel(p)
              => nodes \subseteq nodes' /\ Hop \subseteq Hop'
         /\ RouteAdd(p, h) \/ RouteUpdate(p, h) \/ RouteDel(p) => p \in nodes'
         /\ RouteChange(p, h) /\ p \in valid => p \in nodes'
<1>1. valid \subseteq nodes
  BY DEF TypeOK
<1>2. p \in Path(p)
  BY PathType
<1>3. InsertRoute(p, Slot(h)) => nodes \subseteq nodes' /\ p \in nodes'
  BY <1>2 DEF InsertRoute
<1>4. ReplaceHop(p, Slot(h)) => nodes' = nodes
  BY DEF ReplaceHop
<1>5. fib' = fibWith(h) => Hop \subseteq Hop'
  BY HopsGrow
<1>6. RouteDel(p) => nodes' = nodes /\ Hop' = Hop /\ p \in nodes'
  BY <1>1 DEF RouteDel, Hop
<1>7. RouteAdd(p, h) => nodes \subseteq nodes' /\ Hop \subseteq Hop' /\ p \in nodes'
  BY <1>1, <1>3, <1>5 DEF RouteAdd
<1>8. RouteUpdate(p, h) => nodes \subseteq nodes' /\ Hop \subseteq Hop' /\ p \in nodes'
  BY <1>1, <1>3, <1>4, <1>5 DEF RouteUpdate
<1>9. RouteChange(p, h) => nodes' = nodes /\ Hop \subseteq Hop'
  BY <1>4, <1>5 DEF RouteChange
<1>10. \A k \in 0 .. p.plen : OutOfMemory(p, h, k) => nodes \subseteq nodes' /\ Hop \subseteq Hop'
  BY <1>5 DEF OutOfMemory
<1> QED
  BY <1>1, <1>6, <1>7, <1>8, <1>9, <1>10

\* A step leaves the trie as it was, or updates it for a route.
LEMMA UpdateOrNot ==
  ASSUME NEW turn, TypeOK, mark \subseteq nodes, [NextBy(turn)]_allVars
  PROVE  /\ nodes \subseteq nodes' /\ Hop \subseteq Hop'
         /\ \/ UNCHANGED <<mark, trie>>
            \/ \E p \in nodes', marks \in SUBSET nodes' : UpdateTrie(turn, p, marks)
<1>1. CASE UNCHANGED allVars
  <2>1. UNCHANGED <<mark, trie>> /\ nodes' = nodes /\ Hop' = Hop
    BY <1>1 DEF allVars, vars, Hop
  <2> QED
    BY <2>1
<1>2. CASE NextBy(turn)
  <2>1. PICK p \in Routes :
          \/ \E h \in NextHop :
               \/ /\ RouteAdd(p, h)
                  /\ KeepTrie \/ UpdateTrie(turn, p, AddMarks(p))
               \/ /\ RouteUpdate(p, h)
                  /\ \/ KeepTrie \/ UpdateTrie(turn, p, AddMarks(p))
                     \/ UpdateTrie(turn, p, HopMarks(p))
               \/ /\ RouteChange(p, h)
                  /\ KeepTrie \/ (p \in valid /\ UpdateTrie(turn, p, HopMarks(p)))
               \/ (\E k \in 0 .. p.plen : OutOfMemory(p, h, k)) /\ KeepTrie
          \/ RouteDel(p) /\ UpdateTrie(turn, p, HopMarks(p))
    BY <1>2 DEF NextBy
  <2>2. p \in Prefix
    BY RadixAssumption
  <2>3. nodes \subseteq nodes' => AddMarks(p) \subseteq nodes' /\ HopMarks(p) \subseteq nodes'
    BY DEF AddMarks, HopMarks
  <2>4. ASSUME NEW h \in NextHop, RouteAdd(p, h) \/ RouteUpdate(p, h)
        PROVE  nodes \subseteq nodes' /\ Hop \subseteq Hop' /\ p \in nodes'
    BY <2>2, <2>4, RibSteps
  <2>5. ASSUME NEW h \in NextHop, RouteChange(p, h)
        PROVE  nodes \subseteq nodes' /\ Hop \subseteq Hop' /\ (p \in valid => p \in nodes')
    BY <2>2, <2>5, RibSteps
  <2>6. ASSUME NEW h \in NextHop, \E k \in 0 .. p.plen : OutOfMemory(p, h, k)
        PROVE  nodes \subseteq nodes' /\ Hop \subseteq Hop'
    BY <2>2, <2>6, RibSteps
  <2>7. RouteDel(p) => nodes \subseteq nodes' /\ Hop \subseteq Hop' /\ p \in nodes'
    BY DEF RouteDel, Hop, TypeOK
  <2> QED
    BY <2>1, <2>3, <2>4, <2>5, <2>6, <2>7 DEF KeepTrie
<1> QED
  BY <1>1, <1>2

\* The radix tree keeps its invariant, as it takes its own steps only.
LEMMA RibStep ==
  ASSUME NEW turn, IInv, PathsClosed, [NextBy(turn)]_allVars
  PROVE  IInv' /\ PathsClosed'
<1>1. [Next]_vars
  BY TrieStep
<1>2. CASE UNCHANGED vars
  <2>1. UNCHANGED <<nodes, route, ext, fib>>
    BY <1>2 DEF vars
  <2> QED
    BY <2>1 DEF IInv, TypeOK, ExtIsNearestRoute, valid, PathsClosed
<1>3. CASE Next
  <2>1. PICK p \in Routes :
          \/ \E h \in NextHop :
               \/ RouteAdd(p, h)
               \/ RouteUpdate(p, h)
               \/ RouteChange(p, h)
               \/ \E k \in 0 .. p.plen : OutOfMemory(p, h, k)
          \/ RouteDel(p)
    BY <1>3 DEF Next
  <2>2. p \in Prefix
    BY RadixAssumption
  <2>3. RouteDel(p) => IInv'
    BY <2>2, DeleteKeeps DEF IInv
  <2>4. ASSUME NEW h \in NextHop
        PROVE  RouteAdd(p, h) \/ RouteUpdate(p, h) \/ RouteChange(p, h)
                 \/ (\E k \in 0 .. p.plen : OutOfMemory(p, h, k)) => IInv'
    BY <2>2, StepKeeps
  <2>5. IInv' /\ TypeOK
    BY <2>1, <2>3, <2>4 DEF IInv
  <2> QED
    BY <1>1, <2>5, PathsStayClosed
<1> QED
  BY <1>1, <1>2, <1>3

LEMMA TInvStep ==
  ASSUME NEW turn, TurnsAhead(turn), TInv, [NextBy(turn)]_allVars
  PROVE  TInv'
<1>1. IInv /\ PathsClosed /\ TrieOK /\ TypeOK /\ mark \subseteq nodes
  BY DEF TInv, IInv, TrieOK
<1>2. IInv' /\ PathsClosed'
  BY <1>1, RibStep
<1>3. /\ nodes \subseteq nodes' /\ Hop \subseteq Hop'
      /\ \/ UNCHANGED <<mark, trie>>
         \/ \E p \in nodes', marks \in SUBSET nodes' : UpdateTrie(turn, p, marks)
  BY <1>1, UpdateOrNot
<1>4. TrieOK'
  <2>1. CASE UNCHANGED <<mark, trie>>
    BY <1>1, <1>3, <2>1, KeptOK
  <2>2. CASE \E p \in nodes', marks \in SUBSET nodes' : UpdateTrie(turn, p, marks)
    BY <1>1, <1>2, <1>3, <2>2, UpdateKeeps
  <2> QED
    BY <1>3, <2>1, <2>2
<1> QED
  BY <1>2, <1>4 DEF TInv

\* The inductive invariant, whatever addresses the callers pass for a prefix.  It is
\* about the arrays the table has ever led to; those that were lost before, as their
\* entry was written once more, are in leaked, and it says only what they are.
THEOREM TrieInvariance == TrieSpec => []TInv
<1>1. TInv /\ [TrieNext]_allVars => TInv'
  BY TInvStep, TurnAhead, TrieNextBy
<1> QED
  BY <1>1, TInvInit, PTL DEF TrieSpec

-----------------------------------------------------------------------------
\* What the invariant says.

\* The blocks that use an array are those it was made for.
LEMMA HolderIs ==
  ASSUME TrieOK, NEW y \in Blocks, NEW a, a # NULL
  PROVE  /\ NodeAt(Trie, y).base1 = a => Named(a, "nodes", y)
         /\ NodeAt(Trie, y).base0 = a => Named(a, "leaves", y)
<1>1. HeapOK(Trie, Hop)
  BY DEF TrieOK
<1>2. CASE Trie.pos[y] = NULL
  BY <1>2 DEF NodeAt, At, NoNode, Node
<1>3. CASE Trie.pos[y] # NULL
  <2>1. NodeOK(Trie, y, NodeAt(Trie, y))
    BY <1>1, <1>3 DEF HeapOK
  <2> QED
    BY <2>1 DEF NodeOK, KidsOK, LeavesOK
<1> QED
  BY <1>2, <1>3

\* A set whose members are equal has one at most.
LEMMA OneAtMost ==
  ASSUME NEW T, \A x, y \in T : x = y
  PROVE  Cardinality(T) <= 1
<1>1. CASE T = {}
  BY <1>1, FS_EmptySet
<1>2. CASE T # {}
  <2>1. PICK x \in T : T = {x}
    BY <1>2
  <2>2. Cardinality({x}) = 1
    BY FS_Singleton
  <2>3. Cardinality(T) = 1
    BY <2>1, <2>2
  <2> QED
    BY <2>3
<1> QED
  BY <1>1, <1>2

\* The heap of the program, in its own variables.
LEMMA TrieIs == Trie.dir = dir /\ Trie.nodes = cnodes /\ Trie.leaves = cleaves
BY DEF Trie, Heap

\* Every array has one holder.
LEMMA Holders ==
  ASSUME TrieOK
  PROVE  /\ \A a \in DOMAIN cnodes : NodeHolders(a) # {} /\ Cardinality(NodeHolders(a)) <= 1
         /\ \A a \in DOMAIN cleaves : LeafHolders(a) # {} /\ Cardinality(LeafHolders(a)) <= 1
<1>1. HeapOK(Trie, Hop) /\ Trie.dir = dir /\ Trie.nodes = cnodes /\ Trie.leaves = cleaves
  BY TrieIs DEF TrieOK
<1>2. Index \subseteq Blocks
  BY BlocksAre, Lengths
<1>3. ASSUME NEW a \in DOMAIN cnodes
      PROVE  NodeHolders(a) # {} /\ Cardinality(NodeHolders(a)) <= 1
  <2>1. NodesHeld(Trie, a)
    BY <1>1 DEF HeapOK
  <2>2. a # NULL
    BY <1>2, <2>1, NamesType DEF NodesHeld
  <2>3. NodeHolders(a) # {}
    <3>1. CASE \E j \in Index : Trie.dir[j] = RootEntry(a) /\ Named(a, "root", j)
      BY <1>1, <3>1 DEF NodeHolders
    <3>2. CASE \E y \in Blocks : /\ Trie.pos[y] # NULL /\ NodeAt(Trie, y).base1 = a
                                 /\ Named(a, "nodes", y)
      BY <3>2 DEF NodeHolders
    <3> QED
      BY <2>1, <3>1, <3>2 DEF NodesHeld
  <2>4. ASSUME NEW h \in NodeHolders(a)
        PROVE  \/ \E j \in Index : h = <<"entry", j>> /\ a[1] = "root" /\ a[2] = j
               \/ \E y \in Blocks : h = <<"node", y>> /\ a[1] = "nodes" /\ a[2] = y
    <3>1. CASE \E j \in Index : h = <<"entry", j>> /\ dir[j] = RootEntry(a)
      <4>1. PICK j \in Index : h = <<"entry", j>> /\ dir[j] = RootEntry(a)
        BY <3>1
      <4>2. EntryOK(Trie, j, Hop)
        BY <1>1 DEF HeapOK
      <4>3. Trie.dir[j].base = a /\ Trie.dir[j].kind = "root"
        BY <1>1, <4>1 DEF RootEntry
      <4>4. Named(a, "root", j)
        BY <4>2, <4>3, EntrySays, PoptrieAssumption
      <4> QED
        BY <1>2, <4>1, <4>4, NamesType
    <3>2. CASE \E y \in Blocks : h = <<"node", y>> /\ NodeAt(Trie, y).base1 = a
      <4>1. PICK y \in Blocks : h = <<"node", y>> /\ NodeAt(Trie, y).base1 = a
        BY <3>2
      <4>2. Named(a, "nodes", y)
        BY <2>2, <4>1, HolderIs
      <4> QED
        BY <4>1, <4>2, NamesType
    <3> QED
      BY <3>1, <3>2 DEF NodeHolders
  <2>5. \A g, h \in NodeHolders(a) : g = h
    BY <2>4
  <2> QED
    BY <2>3, <2>5, OneAtMost
<1>4. ASSUME NEW a \in DOMAIN cleaves
      PROVE  LeafHolders(a) # {} /\ Cardinality(LeafHolders(a)) <= 1
  <2>1. LeavesHeld(Trie, a)
    BY <1>1 DEF HeapOK
  <2>2. a # NULL
    BY <2>1, NamesType DEF LeavesHeld
  <2>3. LeafHolders(a) # {}
    BY <2>1 DEF LeavesHeld, LeafHolders
  <2>4. ASSUME NEW y \in LeafHolders(a)
        PROVE  y = a[2]
    <3>1. y \in Blocks /\ NodeAt(Trie, y).base0 = a
      BY DEF LeafHolders
    <3>2. Named(a, "leaves", y)
      BY <2>2, <3>1, HolderIs
    <3> QED
      BY <3>1, <3>2, NamesType
  <2>5. \A g, h \in LeafHolders(a) : g = h
    BY <2>4
  <2> QED
    BY <2>3, <2>5, OneAtMost
<1> QED
  BY <1>3, <1>4

\* The invariant implies the properties.
LEMMA TypesFollow == TInv => TrieTypeOK
<1> SUFFICES ASSUME TInv
             PROVE  TrieTypeOK
  OBVIOUS
<1>1. TrieOK /\ HeapOK(Trie, Hop) /\ Trie.dir = dir /\ Trie.nodes = cnodes /\ Trie.leaves = cleaves
  BY TrieIs DEF TInv, TrieOK
<1>2. DOMAIN dir = Index
  BY <1>1 DEF HeapOK
<1>3. ASSUME NEW j \in Index
      PROVE  \/ dir[j].kind = "leaf" /\ dir[j].hop \in Hop
             \/ dir[j].kind = "root" /\ dir[j].base \in DOMAIN cnodes
  <2>1. EntryOK(Trie, j, Hop)
    BY <1>1 DEF HeapOK
  <2> QED
    BY <1>1, <2>1, EntrySays, PoptrieAssumption
<1>4. \A a \in DOMAIN cleaves : \A k \in DOMAIN cleaves[a] : cleaves[a][k] \in Hop
  BY <1>1 DEF HeapOK
<1>5. /\ mark \subseteq nodes /\ lost \in BOOLEAN /\ misfreed \in BOOLEAN
      /\ leaked \subseteq {"root", "nodes", "leaves"} \X Blocks
  BY <1>1 DEF TrieOK, ArrayNames
<1> QED
  BY <1>2, <1>3, <1>4, <1>5 DEF TrieTypeOK

LEMMA IntactFollows == TInv => TrieIntact
<1> SUFFICES ASSUME TInv
             PROVE  TrieIntact
  OBVIOUS
<1>1. TrieOK /\ HeapOK(Trie, Hop) /\ Trie.dir = dir /\ Trie.nodes = cnodes /\ Trie.leaves = cleaves
  BY TrieIs DEF TInv, TrieOK
<1>2. ~ misfreed
  BY <1>1 DEF TrieOK
<1>3. ASSUME NEW j \in Index, dir[j].kind = "root"
      PROVE  dir[j].base \in DOMAIN cnodes /\ DOMAIN cnodes[dir[j].base] = 1 .. 1
  <2>1. EntryOK(Trie, j, Hop)
    BY <1>1 DEF HeapOK
  <2> QED
    BY <1>1, <1>3, <2>1, EntrySays, PoptrieAssumption
<1>4. ASSUME NEW y \in Blocks, Trie.pos[y] # NULL, NEW n, n = NodeAt(Trie, y),
             NEW leaves, leaves = Slots \ n.vector
      PROVE  /\ n.leafvec \subseteq leaves
             /\ IF n.vector = {} THEN n.base1 = NULL
                ELSE /\ n.base1 \in DOMAIN cnodes
                     /\ DOMAIN cnodes[n.base1] = 1 .. Cardinality(n.vector)
             /\ IF leaves = {} THEN n.base0 = NULL
                ELSE /\ \A i \in leaves : \E j \in n.leafvec : j = i \/ Before(j, i)
                     /\ n.base0 \in DOMAIN cleaves
                     /\ DOMAIN cleaves[n.base0] = 1 .. Cardinality(n.leafvec)
  <2>1. NodeOK(Trie, y, n)
    BY <1>1, <1>4 DEF HeapOK
  <2>2. n.vector \in SUBSET Slots /\ n.leafvec \in SUBSET (Slots \ n.vector)
        /\ KidsOK(Trie, y, n) /\ LeavesOK(Trie, y, n)
    BY <2>1 DEF NodeOK
  <2>3. IF n.vector = {} THEN n.base1 = NULL
        ELSE /\ n.base1 \in DOMAIN cnodes
             /\ DOMAIN cnodes[n.base1] = 1 .. Cardinality(n.vector)
    BY <1>1, <2>2 DEF KidsOK
  <2>4. leaves = {} <=> n.vector = Slots
    BY <1>4, <2>2
  <2>5. IF leaves = {} THEN n.base0 = NULL
        ELSE /\ \A i \in leaves : \E j \in n.leafvec : j = i \/ Before(j, i)
             /\ n.base0 \in DOMAIN cleaves
             /\ DOMAIN cleaves[n.base0] = 1 .. Cardinality(n.leafvec)
    BY <1>1, <1>4, <2>2, <2>4 DEF LeavesOK
  <2> QED
    BY <1>4, <2>2, <2>3, <2>5
<1>5. /\ \A a \in DOMAIN cnodes : Cardinality(NodeHolders(a)) <= 1
      /\ \A a \in DOMAIN cleaves : Cardinality(LeafHolders(a)) <= 1
  BY <1>1, Holders
<1> QED
  BY <1>2, <1>3, <1>4, <1>5 DEF TrieIntact

\* The types of the table, the arrays and the marks.
THEOREM TrieTypesCorrect == TrieSpec => []TrieTypeOK
<1>1. TrieSpec => []TInv
  BY TrieInvariance
<1> QED
  BY <1>1, TypesFollow, PTL

\* Whatever is added, updated, changed and deleted in whatever order, and whichever
\* allocation fails, an update of the trie leaves no dangling reference, gives back
\* no array that is in use or was given back before, and no two nodes share one.
THEOREM TrieStaysIntact == TrieSpec => []TrieIntact
<1>1. TrieSpec => []TInv
  BY TrieInvariance
<1> QED
  BY <1>1, IntactFollows, PTL

-----------------------------------------------------------------------------
\* The next hop table.

\* A table in which no pointer has two entries has one for a pointer at most.
LEMMA OnePerPointer ==
  ASSUME NEW f \in Seq(NextHop), IsFiniteSet(NextHop),
         \A i, j \in DOMAIN f : f[i] = f[j] => i = j
  PROVE  Len(f) <= Cardinality(NextHop)
<1> DEFINE n == Len(f)
<1>1. n \in Nat /\ f \in [1 .. n -> NextHop]
  OBVIOUS
<1>2. f \in Injection(1 .. n, NextHop)
  BY <1>1 DEF Injection, IsInjective
<1>3. Cardinality(1 .. n) <= Cardinality(NextHop)
  BY <1>2, FS_Injection
<1>4. Cardinality(1 .. n) = IF 1 > n THEN 0 ELSE n - 1 + 1
  BY <1>1, FS_Interval
<1> QED
  BY <1>1, <1>3, <1>4

\* A pointer is appended when the table does not have it.
LEMMA GrowFits ==
  ASSUME TypeOK, TableFits, NEW h \in NextHop, fib' = fibWith(h),
         HasRoom(h) \/ Operations \cap {"update", "change"} # {}
  PROVE  TableFits'
<1>1. fib \in Seq(NextHop) /\ Len(fib) \in Nat /\ FibSize \in Nat
  BY RadixAssumption DEF TypeOK
<1>2. fib' \in Seq(NextHop)
  BY GrowType
<1>3. \A i, j \in DOMAIN fib' : fib'[i] = fib'[j] => i = j
  <2>1. CASE Known(h)
    BY <2>1 DEF fibWith, TableFits
  <2>2. CASE ~ Known(h)
    <3>1. fib' = Append(fib, h)
      BY <2>2 DEF fibWith
    <3> QED
      BY <1>1, <2>2, <3>1 DEF Known, TableFits
  <2> QED
    BY <2>1, <2>2
<1>4. Len(fib') < FibSize
  <2>1. CASE HasRoom(h)
    BY <1>1, <2>1 DEF HasRoom, fibWith, TableFits
  <2>2. CASE Operations \cap {"update", "change"} # {}
    <3>1. IsFiniteSet(NextHop) /\ Cardinality(NextHop) < FibSize
      BY <2>2, FibAssumption
    <3>2. Cardinality(NextHop) \in Nat /\ Len(fib') \in Nat
      BY <1>2, <3>1, FS_CardinalityType
    <3>3. Len(fib') <= Cardinality(NextHop)
      BY <1>2, <1>3, <3>1, OnePerPointer
    <3> QED
      BY <1>1, <3>1, <3>2, <3>3
  <2> QED
    BY <2>1, <2>2
<1> QED
  BY <1>3, <1>4 DEF TableFits

LEMMA StepFits ==
  ASSUME TypeOK, TableFits, [TrieNext]_allVars
  PROVE  TableFits'
<1>1. CASE fib' = fib
  BY <1>1 DEF TableFits
<1>2. ASSUME NEW h \in NextHop, fib' = fibWith(h),
             HasRoom(h) \/ Operations \cap {"update", "change"} # {}
      PROVE  TableFits'
  BY <1>2, GrowFits
<1>3. CASE UNCHANGED allVars
  BY <1>1, <1>3 DEF allVars, vars
<1>4. CASE TrieNext
  <2>1. PICK p \in Routes :
          \/ \E h \in NextHop :
               \/ "add" \in Operations /\ TrieAdd(p, h)
               \/ "update" \in Operations /\ TrieUpdate(p, h)
               \/ "change" \in Operations /\ TrieChange(p, h)
               \/ Inserting(h) # {} /\ \E k \in 0 .. p.plen : OutOfMemory(p, h, k)
          \/ TrieDel(p)
    BY <1>4 DEF TrieNext
  <2>2. CASE TrieDel(p)
    BY <1>1, <2>2 DEF TrieDel, RouteDel
  <2>3. ASSUME NEW h \in NextHop,
               \/ "add" \in Operations /\ TrieAdd(p, h)
               \/ "update" \in Operations /\ TrieUpdate(p, h)
               \/ "change" \in Operations /\ TrieChange(p, h)
        PROVE  /\ fib' = fibWith(h)
               /\ HasRoom(h) \/ Operations \cap {"update", "change"} # {}
    BY <2>3 DEF TrieAdd, TrieUpdate, TrieChange, RouteAdd, RouteUpdate, RouteChange
  <2>4. ASSUME NEW h \in NextHop, Inserting(h) # {}, \E k \in 0 .. p.plen : OutOfMemory(p, h, k)
        PROVE  /\ fib' = fibWith(h)
               /\ HasRoom(h) \/ Operations \cap {"update", "change"} # {}
    BY <2>4 DEF OutOfMemory, Inserting
  <2> QED
    BY <1>2, <2>1, <2>2, <2>3, <2>4
<1> QED
  BY <1>3, <1>4

\* The next hop table is never overrun.  Where routes are only added and deleted, the
\* test of poptrie_route_add sees to it, for any number of pointers; where routes are
\* changed or updated, which is done without a test, that no pointer takes two entries
\* and that the callers use fewer pointers than there are (FibAssumption).
THEOREM TableNeverOverrun == TrieSpec => []TableFits
<1>1. TrieInit => TableFits
  BY RadixAssumption DEF TrieInit, Init, TableFits
<1>2. TInv => TypeOK
  BY DEF TInv, IInv
<1>3. TableFits /\ TypeOK /\ [TrieNext]_allVars => TableFits'
  BY StepFits
<1> QED
  BY <1>1, <1>2, <1>3, TrieInvariance, PTL DEF TrieSpec
=============================================================================
