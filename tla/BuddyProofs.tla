---------------------------- MODULE BuddyProofs -----------------------------
(***************************************************************************)
(* The allocator for an arena and for blocks of every size: the blocks     *)
(* that are free and those that callers hold tile the arena, the bitmap    *)
(* knows the sizes of the latter, and no request fails without need.       *)
(*                                                                         *)
(* The argument is about the sets of free offsets, F[k] for level k, and   *)
(* the function h from the offsets that are held to their levels; what the *)
(* lists add to it is that no offset is in a list twice.                   *)
(***************************************************************************)
EXTENDS Buddy, NaturalLemmas, FiniteSetTheorems, SequenceTheorems

-----------------------------------------------------------------------------
\* The sizes of the levels.

\* The recursion that defines Size has a solution, in the naturals.
LEMMA SizeType ==
  /\ Size \in [0 .. sz -> Nat \ {0}]
  /\ Size[0] = 1
  /\ \A k \in 1 .. sz : Size[k] = 2 * Size[k - 1]
<1> DEFINE P == Nat \ {0}
           g == [x \in P \X (1 .. sz) |-> 2 * x[1]]
           Eqn(w) == w = [k \in 0 .. sz |-> IF k = 0 THEN 1 ELSE 2 * w[k - 1]]
           W == CHOOSE w : Eqn(w)
<1>1. sz \in Nat
  BY BuddyAssumption
<1>2. g \in [P \X (1 .. sz) -> P]
  OBVIOUS
<1>3. PICK f \in [0 .. sz -> P] : Solves(f, sz, 1, g)
  <2> HIDE DEF g
  <2>1. 1 \in P
    OBVIOUS
  <2> HIDE DEF P
  <2> QED
    BY <1>1, <1>2, <2>1, IntervalRecursion
<1>4. Eqn(f)
  <2>1. ASSUME NEW n \in 0 .. sz, n # 0
        PROVE  f[n] = 2 * f[n - 1]
    <3>1. f[n - 1] \in P /\ n \in 1 .. sz
      BY <1>1, <2>1
    <3>2. f[n] = g[<<f[n - 1], n>>]
      BY <1>3, <2>1 DEF Solves
    <3> QED
      BY <3>1, <3>2
  <2>2. f[0] = 1
    <3>1. 0 \in 0 .. sz
      BY <1>1
    <3>2. f[0] = IF 0 = 0 THEN 1 ELSE g[<<f[0 - 1], 0>>]
      BY <1>3, <3>1, Zenon DEF Solves
    <3> QED
      BY <3>2
  <2> QED
    BY <2>1, <2>2
<1>5. Eqn(W)
  <2> HIDE DEF Eqn
  <2> QED
    BY <1>4
<1>6. Size = W
  BY DEF Size
<1>7. Size[0] = 1 /\ \A k \in 1 .. sz : Size[k] = 2 * Size[k - 1]
  <2>1. Eqn(Size)
    BY <1>5, <1>6
  <2>2. \A k \in 0 .. sz : Size[k] = IF k = 0 THEN 1 ELSE 2 * Size[k - 1]
    BY <2>1, Zenon
  <2> QED
    BY <1>1, <2>2
<1>8. \A k \in 0 .. sz : Size[k] \in P
  <2> SUFFICES ASSUME NEW k \in 0 .. sz
               PROVE  Size[k] \in P
    OBVIOUS
  <2>1. Size[0] \in P /\ \A n \in 1 .. k : Size[n - 1] \in P => Size[n] \in P
    BY <1>1, <1>7
  <2> HIDE DEF P
  <2> QED
    BY <2>1, IntervalInduction
<1>9. Size = [k \in 0 .. sz |-> Size[k]]
  <2>1. Eqn(Size)
    BY <1>5, <1>6
  <2> QED
    BY <2>1, Zenon
<1> QED
  BY <1>7, <1>8, <1>9

\* The sizes are powers: those of two levels multiply to that of their sum.
LEMMA SizeSum ==
  ASSUME NEW i \in Nat, NEW j \in Nat, i + j <= sz
  PROVE  Size[i + j] = Size[i] * Size[j]
<1> DEFINE f == [n \in 0 .. i |-> IF Size[n + j] = Size[n] * Size[j] THEN 1 ELSE 0]
           R == {1}
<1>0. sz \in Nat
  BY BuddyAssumption
<1>1. f[0] \in R
  <2>1. Size[j] \in Nat
    BY <1>0, SizeType
  <2> QED
    BY <2>1, SizeType
<1>2. ASSUME NEW n \in 1 .. i, f[n - 1] \in R
      PROVE  f[n] \in R
  <2>1. Size[(n - 1) + j] = Size[n - 1] * Size[j]
    BY <1>2
  <2>2. n \in 1 .. sz /\ n + j \in 1 .. sz /\ (n - 1) + j = (n + j) - 1
    BY <1>0
  <2>3. Size[n] = 2 * Size[n - 1] /\ Size[n + j] = 2 * Size[(n - 1) + j]
    BY <2>2, SizeType
  <2>4. Size[n - 1] \in Nat /\ Size[j] \in Nat
    BY <1>0, <2>2, SizeType
  <2>5. Size[n + j] = Size[n] * Size[j]
    BY <2>1, <2>3, <2>4
  <2> QED
    BY <2>5
<1>3. f[i] \in R
  <2>1. \A n \in 1 .. i : f[n - 1] \in R => f[n] \in R
    BY <1>2
  <2>2. i \in Nat
    OBVIOUS
  <2> HIDE DEF f, R
  <2> QED
    BY <1>1, <2>1, <2>2, IntervalInduction
<1>4. f[i] = 1
  BY <1>3
<1> QED
  BY <1>4

\* A larger level is at least twice as large.
LEMMA SizeOrder ==
  ASSUME NEW j \in 0 .. sz, NEW k \in 0 .. sz
  PROVE  /\ j <= k => Size[j] <= Size[k]
         /\ j < k => 2 * Size[j] <= Size[k]
         /\ \E m \in Nat \ {0} : j <= k => Size[k] = m * Size[j]
<1>0. sz \in Nat
  BY BuddyAssumption
<1>1. CASE j <= k
  <2>1. k - j \in Nat /\ j \in Nat /\ k - j + j = k /\ k - j \in 0 .. sz
    BY <1>0, <1>1
  <2>2. Size[k] = Size[k - j] * Size[j]
    BY <2>1, SizeSum
  <2>3. Size[k - j] \in Nat \ {0} /\ Size[j] \in Nat \ {0}
    BY <2>1, SizeType
  <2>4. ASSUME j < k
        PROVE  Size[k - j] >= 2
    <3>1. k - j \in 1 .. sz /\ k - j - 1 \in 0 .. sz
      BY <1>0, <2>4
    <3>2. Size[k - j] = 2 * Size[k - j - 1] /\ Size[k - j - 1] \in Nat \ {0}
      BY <3>1, SizeType
    <3> QED
      BY <3>2
  <2>5. \A x, y, s \in Nat : x <= y => x * s <= y * s
    OBVIOUS
  <2>6. 1 * Size[j] <= Size[k - j] * Size[j]
    BY <2>3, <2>5
  <2>7. j < k => 2 * Size[j] <= Size[k - j] * Size[j]
    BY <2>3, <2>4, <2>5
  <2> QED
    BY <2>2, <2>3, <2>6, <2>7
<1>2. CASE ~ (j <= k)
  BY <1>0, <1>2
<1> QED
  BY <1>1, <1>2

-----------------------------------------------------------------------------
\* The aligned block of a level around a unit.

\* Multiples of a number, for the provers.
LEMMA Multiples ==
  ASSUME NEW s \in Nat \ {0}
  PROVE  /\ \A u \in Nat : /\ u \div s \in Nat
                         /\ (u \div s) * s <= u
                         /\ u < (u \div s) * s + s
         /\ \A q \in Nat : (q * s) % s = 0 /\ (q * s) \div s = q
         /\ \A u \in Nat : u % s = 0 => (u \div s) * s = u
         /\ \A p, q \in Nat : p < q => p * s + s <= q * s
<1>1. \A u \in Nat : u \div s \in Nat
  OBVIOUS
<1>2. \A u \in Nat : (u \div s) * s <= u /\ u < (u \div s) * s + s
  OBVIOUS
<1>3. \A q \in Nat : (q * s) % s = 0
  OBVIOUS
<1>4. \A q \in Nat : (q * s) \div s = q
  OBVIOUS
<1>5. \A u \in Nat : u % s = 0 => (u \div s) * s = u
  OBVIOUS
<1>6. ASSUME NEW p \in Nat, NEW q \in Nat, p < q
      PROVE  p * s + s <= q * s
  <2>1. \A x, y \in Nat : x <= y => x * s <= y * s
    OBVIOUS
  <2>2. (p + 1) * s <= q * s
    BY <1>6, <2>1
  <2> QED
    BY <2>2
<1> QED
  BY <1>1, <1>2, <1>3, <1>4, <1>5, <1>6

\* It is around the unit, it is aligned, and no other aligned block is.
LEMMA AroundUnit ==
  ASSUME NEW u \in Nat, NEW k \in 0 .. sz
  PROVE  /\ Around(u, k) \in Nat
         /\ u \in Block(Around(u, k), k)
         /\ Around(u, k) <= u
         /\ Around(u, k) % Size[k] = 0
         /\ \A a \in Nat : a % Size[k] = 0 /\ u \in Block(a, k) => a = Around(u, k)
<1> DEFINE s == Size[k]
           q == u \div s
<1>1. s \in Nat \ {0}
  BY SizeType, BuddyAssumption
<1> HIDE DEF s
<1>2. q \in Nat /\ q * s <= u /\ u < q * s + s /\ (q * s) % s = 0
  BY <1>1, Multiples
<1>3. Around(u, k) = q * s
  BY DEF Around, s
<1>4. ASSUME NEW a \in Nat, a % s = 0, u \in Block(a, k)
      PROVE  a = q * s
  <2> DEFINE p == a \div s
  <2>1. p \in Nat /\ p * s = a
    BY <1>1, <1>4, Multiples
  <2>2. a <= u /\ u < a + s
    BY <1>1, <1>4 DEF Block, s
  <2> HIDE DEF p, q
  <2>3. ~ (p < q) /\ ~ (q < p)
    <3>1. p < q => p * s + s <= q * s
      BY <1>1, <1>2, <2>1, Multiples
    <3>2. q < p => q * s + s <= p * s
      BY <1>1, <1>2, <2>1, Multiples
    <3>3. p * s \in Nat /\ q * s \in Nat
      BY <1>1, <1>2, <2>1
    <3> QED
      BY <1>1, <1>2, <2>1, <2>2, <3>1, <3>2, <3>3
  <2>4. p = q
    BY <1>2, <2>1, <2>3
  <2> QED
    BY <2>1, <2>4
<1>5. q * s \in Nat
  BY <1>1, <1>2
<1>6. u \in Block(q * s, k)
  BY <1>1, <1>2, <1>5 DEF Block, s
<1> QED
  BY <1>2, <1>3, <1>4, <1>5, <1>6 DEF s

\* An offset is aligned if it is that of the block around it.
LEMMA Aligned ==
  ASSUME NEW a \in Nat, NEW k \in 0 .. sz
  PROVE  a % Size[k] = 0 <=> Around(a, k) = a
<1>1. Size[k] \in Nat \ {0}
  BY SizeType, BuddyAssumption
<1>2. a \in Block(a, k)
  BY <1>1 DEF Block
<1> QED
  BY <1>2, AroundUnit

\* What is aligned for a level is aligned for the levels below it.
LEMMA AlignedBelow ==
  ASSUME NEW j \in 0 .. sz, NEW k \in j .. sz, NEW a \in Nat, Around(a, k) = a
  PROVE  Around(a, j) = a
<1>0. sz \in Nat /\ k \in 0 .. sz /\ j <= k
  BY BuddyAssumption
<1>1. Size[j] \in Nat \ {0} /\ Size[k] \in Nat \ {0}
  BY <1>0, SizeType
<1>2. PICK m \in Nat \ {0} : Size[k] = m * Size[j]
  BY <1>0, SizeOrder
<1>3. a = (a \div Size[k]) * Size[k] /\ a \div Size[k] \in Nat
  BY <1>1, Multiples DEF Around
<1>4. ASSUME NEW q \in Nat, NEW s \in Nat \ {0}, a = q * (m * s)
      PROVE  a % s = 0
  <2>1. q * (m * s) = (q * m) * s /\ q * m \in Nat
    OBVIOUS
  <2>2. PICK t \in Nat : t = q * m
    BY <2>1
  <2>3. a = t * s
    BY <1>4, <2>1, <2>2
  <2>4. (t * s) % s = 0
    BY Multiples
  <2> QED
    BY <2>3, <2>4
<1>5. a % Size[j] = 0
  BY <1>1, <1>2, <1>3, <1>4
<1> QED
  BY <1>0, <1>5, Aligned

\* An aligned offset below a unit is at most that of the block around the unit.
LEMMA AroundAbove ==
  ASSUME NEW j \in 0 .. sz, NEW a \in Nat, Around(a, j) = a,
         NEW u \in Nat, a <= u
  PROVE  a <= Around(u, j)
<1> DEFINE s == Size[j]
           p == a \div s
           q == u \div s
<1>1. s \in Nat \ {0}
  BY SizeType, BuddyAssumption
<1> HIDE DEF s
<1>2. p \in Nat /\ q \in Nat /\ q * s <= u /\ u < q * s + s
  BY <1>1, Multiples
<1>3. a = p * s /\ Around(u, j) = q * s
  BY DEF Around, s
<1> HIDE DEF p, q
<1>4. q < p => q * s + s <= p * s
  BY <1>1, <1>2, Multiples
<1>5. p <= q => p * s <= q * s
  <2>1. \A x, y, t \in Nat : x <= y => x * t <= y * t
    OBVIOUS
  <2> QED
    BY <1>1, <1>2, <2>1
<1>6. p * s \in Nat /\ q * s \in Nat
  BY <1>1, <1>2
<1> QED
  BY <1>1, <1>2, <1>3, <1>4, <1>5, <1>6

\* The blocks around a unit are nested.
LEMMA AroundAround ==
  ASSUME NEW j \in 0 .. sz, NEW k \in j .. sz, NEW u \in Nat
  PROVE  /\ Around(Around(u, j), k) = Around(u, k)
         /\ Around(Around(u, k), j) = Around(u, k)
         /\ Around(Around(u, k), k) = Around(u, k)
<1> DEFINE b == Around(u, k)
           c == Around(u, j)
<1>0. k \in 0 .. sz /\ j <= k
  BY BuddyAssumption
<1>1. /\ b \in Nat /\ b <= u /\ u \in Block(b, k) /\ b % Size[k] = 0
      /\ c \in Nat /\ c <= u
  BY <1>0, AroundUnit
<1>2. Around(b, k) = b
  BY <1>0, <1>1, Aligned
<1>3. Around(b, j) = b
  BY <1>1, <1>2, AlignedBelow
<1>4. b <= c
  BY <1>1, <1>3, AroundAbove
<1>5. c \in Block(b, k)
  <2>1. Size[k] \in Nat
    BY <1>0, SizeType
  <2> HIDE DEF b, c
  <2> QED
    BY <1>1, <1>4, <2>1 DEF Block
<1>6. Around(c, k) = b
  <2> HIDE DEF b, c
  <2> QED
    BY <1>0, <1>1, <1>5, AroundUnit
<1> QED
  BY <1>2, <1>3, <1>6

\* The units of an aligned block are those it is around.
LEMMA UnitsOfBlock ==
  ASSUME NEW k \in 0 .. sz, NEW a \in Nat, Around(a, k) = a, NEW u \in Nat
  PROVE  u \in Block(a, k) <=> Around(u, k) = a
<1>1. a % Size[k] = 0
  BY Aligned
<1> QED
  BY <1>1, AroundUnit

\* The blocks around the units of the arena lie in the arena.
LEMMA InsideArena ==
  ASSUME NEW u \in Units, NEW k \in 0 .. sz
  PROVE  Around(u, k) \in Units /\ Block(Around(u, k), k) \subseteq Units
<1>0. sz \in 0 .. sz /\ k \in 0 .. sz /\ sz \in k .. sz
  BY BuddyAssumption
<1>1. Size[sz] \in Nat \ {0} /\ Size[k] \in Nat \ {0}
  BY <1>0, SizeType
<1>2. Units = Block(0, sz) /\ Units \subseteq Nat
  BY <1>1 DEF Units, Block
<1>3. Around(0, sz) = 0
  BY <1>1 DEF Around
<1> DEFINE b == Around(u, k)
<1>4. b \in Nat /\ b <= u /\ Around(b, sz) = Around(u, sz) /\ Around(b, k) = b
  BY <1>0, <1>2, AroundUnit, AroundAround
<1>5. Around(u, sz) = 0
  BY <1>0, <1>2, <1>3, UnitsOfBlock
<1> HIDE DEF b
<1>6. ASSUME NEW v \in Block(b, k)
      PROVE  v \in Units
  <2>1. v \in Nat
    BY <1>1, <1>4 DEF Block
  <2>2. Around(v, k) = b
    BY <1>4, <2>1, UnitsOfBlock
  <2>3. Around(v, sz) = 0
    BY <1>0, <1>4, <1>5, <2>1, <2>2, AroundAround
  <2> QED
    BY <1>0, <1>2, <1>3, <2>1, <2>3, UnitsOfBlock
<1>7. b \in Block(b, k)
  BY <1>1, <1>4 DEF Block
<1> QED
  BY <1>6, <1>7 DEF b

\* The block around a unit is one of the halves of the next larger one.
LEMMA Halves ==
  ASSUME NEW k \in 0 .. sz, k # sz, NEW p \in Nat, Around(p, k + 1) = p
  PROVE  /\ k + 1 \in 0 .. sz /\ Size[k + 1] = 2 * Size[k]
         /\ Around(p, k) = p
         /\ Around(p + Size[k], k) = p + Size[k]
         /\ Around(p + Size[k], k + 1) = p
         /\ \A u \in Nat : Around(u, k + 1) = p
              => Around(u, k) \in {p, p + Size[k]}
<1>1. k + 1 \in 1 .. sz /\ k + 1 \in 0 .. sz /\ k + 1 \in k .. sz /\ sz \in Nat
  BY BuddyAssumption
<1>2. Size[k + 1] = 2 * Size[k] /\ Size[k] \in Nat \ {0}
  BY <1>1, SizeType
<1>3. Around(p, k) = p
  BY <1>1, AlignedBelow
<1>4. (p + Size[k]) % Size[k] = 0
  <2>1. p = (p \div Size[k]) * Size[k] /\ p \div Size[k] \in Nat
    BY <1>2, <1>3, Multiples DEF Around
  <2>2. ASSUME NEW s \in Nat \ {0}, NEW q \in Nat, p = q * s
        PROVE  (p + s) % s = 0
    <3>1. p + s = (q + 1) * s /\ q + 1 \in Nat
      BY <2>2
    <3> QED
      BY <3>1, Multiples
  <2> QED
    BY <1>2, <2>1, <2>2
<1>5. p + Size[k] \in Nat
  BY <1>2
<1>6. Around(p + Size[k], k) = p + Size[k]
  BY <1>4, <1>5, Aligned
<1>7. p + Size[k] \in Block(p, k + 1)
  BY <1>2, <1>5 DEF Block
<1>8. Around(p + Size[k], k + 1) = p
  BY <1>1, <1>5, <1>7, UnitsOfBlock
<1>9. ASSUME NEW u \in Nat, Around(u, k + 1) = p
      PROVE  Around(u, k) \in {p, p + Size[k]}
  <2>1. u \in Block(p, k + 1)
    BY <1>1, <1>9, UnitsOfBlock
  <2>2. u \in Block(p, k) \/ u \in Block(p + Size[k], k)
    BY <1>2, <2>1 DEF Block
  <2> QED
    BY <1>3, <1>5, <1>6, <2>2, UnitsOfBlock
<1> QED
  BY <1>1, <1>2, <1>3, <1>6, <1>8, <1>9

-----------------------------------------------------------------------------
\* The free lists.

Offsets(list) == {list[i] : i \in DOMAIN list}

Distinct(list) == \A i, j \in DOMAIN list : list[i] = list[j] => i = j

\* Two lists without repetition and with nothing in common are chained.
LEMMA Chained ==
  ASSUME NEW S, NEW l \in Seq(S), NEW r \in Seq(S)
  PROVE  /\ l \o r \in Seq(S)
         /\ Offsets(l \o r) = Offsets(l) \cup Offsets(r)
         /\ Distinct(l) /\ Distinct(r) /\ Offsets(l) \cap Offsets(r) = {}
              => Distinct(l \o r)
<1> DEFINE c == l \o r
           L == Len(l)
           R == Len(r)
<1>1. L \in Nat /\ R \in Nat /\ DOMAIN l = 1 .. L /\ DOMAIN r = 1 .. R
  OBVIOUS
<1>2. c \in Seq(S) /\ DOMAIN c = 1 .. L + R
  <2>1. c \in Seq(S) /\ Len(c) = L + R
    BY ConcatProperties
  <2> QED
    BY <2>1
<1>3. \A i \in 1 .. L + R : c[i] = IF i <= L THEN l[i] ELSE r[i - L]
  BY ConcatProperties
<1> HIDE DEF c, L, R
<1>4. Offsets(c) = Offsets(l) \cup Offsets(r)
  <2>1. ASSUME NEW x \in Offsets(c)
        PROVE  x \in Offsets(l) \cup Offsets(r)
    <3>1. PICK i \in 1 .. L + R : x = c[i]
      BY <1>2, <2>1 DEF Offsets
    <3>2. i <= L => i \in 1 .. L /\ x = l[i]
      BY <1>1, <1>3, <3>1
    <3>3. ~ (i <= L) => i - L \in 1 .. R /\ x = r[i - L]
      BY <1>1, <1>3, <3>1
    <3> QED
      BY <1>1, <3>2, <3>3 DEF Offsets
  <2>2. ASSUME NEW x \in Offsets(l)
        PROVE  x \in Offsets(c)
    <3>1. PICK i \in 1 .. L : x = l[i]
      BY <1>1 DEF Offsets
    <3>2. i \in 1 .. L + R /\ x = c[i]
      BY <1>1, <1>3, <3>1
    <3> QED
      BY <1>2, <3>2 DEF Offsets
  <2>3. ASSUME NEW x \in Offsets(r)
        PROVE  x \in Offsets(c)
    <3>1. PICK i \in 1 .. R : x = r[i]
      BY <1>1 DEF Offsets
    <3>2. PICK k \in 1 .. L + R : ~ (k <= L) /\ k - L = i
      <4>1. i + L \in 1 .. L + R /\ ~ (i + L <= L) /\ i + L - L = i
        BY <1>1
      <4> QED
        BY <1>1, <4>1
    <3>3. x = c[k]
      BY <1>3, <3>1, <3>2
    <3> QED
      BY <1>2, <3>3 DEF Offsets
  <2> QED
    BY <2>1, <2>2, <2>3
<1>5. ASSUME Distinct(l), Distinct(r), Offsets(l) \cap Offsets(r) = {},
             NEW i \in 1 .. L + R, NEW j \in 1 .. L + R, c[i] = c[j]
      PROVE  i = j
  <2>1. CASE i <= L /\ j <= L
    <3>1. i \in 1 .. L /\ j \in 1 .. L /\ l[i] = l[j]
      BY <1>1, <1>3, <1>5, <2>1
    <3> QED
      BY <1>1, <1>5, <3>1 DEF Distinct
  <2>2. CASE ~ (i <= L) /\ ~ (j <= L)
    <3>1. i - L \in 1 .. R /\ j - L \in 1 .. R /\ r[i - L] = r[j - L]
      BY <1>1, <1>3, <1>5, <2>2
    <3>2. i - L = j - L
      BY <1>1, <1>5, <3>1 DEF Distinct
    <3> QED
      BY <1>1, <3>2
  <2>3. ASSUME NEW m \in 1 .. L + R, NEW n \in 1 .. L + R, c[m] = c[n],
               m <= L, ~ (n <= L)
        PROVE  FALSE
    <3>1. m \in 1 .. L /\ n - L \in 1 .. R /\ l[m] = r[n - L]
      BY <1>1, <1>3, <2>3
    <3>2. l[m] \in Offsets(l) /\ r[n - L] \in Offsets(r)
      BY <1>1, <3>1 DEF Offsets
    <3> QED
      BY <1>5, <3>1, <3>2
  <2> QED
    BY <1>5, <2>1, <2>2, <2>3
<1> QED
  BY <1>2, <1>4, <1>5 DEF c, Distinct

\* The list of one block.
LEMMA OneBlock ==
  ASSUME NEW S, NEW x \in S
  PROVE  /\ <<x>> \in Seq(S)
         /\ Offsets(<<x>>) = {x}
         /\ Distinct(<<x>>)
<1>1. <<x>> \in Seq(S) /\ DOMAIN <<x>> = {1} /\ <<x>>[1] = x
  OBVIOUS
<1> QED
  BY <1>1 DEF Offsets, Distinct

\* The rest of a list after its first block was taken.
LEMMA RestOfList ==
  ASSUME NEW S, NEW l \in Seq(S), l # <<>>, Distinct(l)
  PROVE  /\ Head(l) \in Offsets(l)
         /\ Tail(l) \in Seq(S)
         /\ Offsets(Tail(l)) = Offsets(l) \ {Head(l)}
         /\ Distinct(Tail(l))
<1> DEFINE t == Tail(l)
           L == Len(l)
<1>1. L \in Nat \ {0} /\ DOMAIN l = 1 .. L /\ Head(l) = l[1]
  OBVIOUS
<1>2. t \in Seq(S) /\ DOMAIN t = 1 .. L - 1
  <2>1. t \in Seq(S) /\ Len(t) = L - 1
    BY HeadTailProperties
  <2> QED
    BY <2>1
<1>3. \A i \in 1 .. L - 1 : t[i] = l[i + 1]
  BY HeadTailProperties
<1> HIDE DEF t, L
<1>4. Offsets(t) = Offsets(l) \ {l[1]}
  <2>1. ASSUME NEW i \in 1 .. L - 1
        PROVE  t[i] \in Offsets(l) \ {l[1]}
    <3>1. i + 1 \in 1 .. L /\ 1 \in 1 .. L /\ i + 1 # 1 /\ t[i] = l[i + 1]
      BY <1>1, <1>3
    <3> QED
      BY <1>1, <3>1 DEF Offsets, Distinct
  <2>2. ASSUME NEW i \in 1 .. L, l[i] # l[1]
        PROVE  l[i] \in Offsets(t)
    <3>1. i - 1 \in 1 .. L - 1 /\ i - 1 + 1 = i
      BY <1>1, <2>2
    <3>2. l[i] = t[i - 1]
      BY <1>3, <3>1
    <3> QED
      BY <1>2, <3>1, <3>2 DEF Offsets
  <2> QED
    BY <1>1, <1>2, <2>1, <2>2 DEF Offsets
<1>5. ASSUME NEW i \in 1 .. L - 1, NEW j \in 1 .. L - 1, t[i] = t[j]
      PROVE  i = j
  <2>1. i + 1 \in 1 .. L /\ j + 1 \in 1 .. L /\ l[i + 1] = l[j + 1]
    BY <1>1, <1>3, <1>5
  <2>2. i + 1 = j + 1
    BY <1>1, <2>1 DEF Distinct
  <2> QED
    BY <2>2
<1>6. l[1] \in Offsets(l)
  BY <1>1 DEF Offsets
<1> QED
  BY <1>1, <1>2, <1>4, <1>5, <1>6 DEF t, Distinct

\* A part of a list.
LEMMA PartOfList ==
  ASSUME NEW S, NEW l \in Seq(S), NEW m \in 1 .. Len(l) + 1, NEW n \in 0 .. Len(l)
  PROVE  /\ SubSeq(l, m, n) \in Seq(S)
         /\ Offsets(SubSeq(l, m, n)) = {l[i] : i \in m .. n}
         /\ Distinct(l) => Distinct(SubSeq(l, m, n))
<1> DEFINE t == SubSeq(l, m, n)
           L == Len(l)
<1>1. L \in Nat /\ DOMAIN l = 1 .. L /\ m \in Int /\ n \in Int
  OBVIOUS
<1>2. \A i \in m .. n : i \in 1 .. L /\ l[i] \in S
  OBVIOUS
<1>3. /\ t \in Seq(S)
      /\ Len(t) = IF m <= n THEN n - m + 1 ELSE 0
      /\ \A i \in 1 .. n - m + 1 : t[i] = l[m + i - 1]
  BY <1>1, <1>2, SubSeqProperties
<1>4. DOMAIN t = 1 .. n - m + 1
  <2>1. DOMAIN t = 1 .. Len(t)
    BY <1>3
  <2> QED
    BY <1>1, <1>3, <2>1
<1> HIDE DEF t, L
<1>5. ASSUME NEW i \in 1 .. n - m + 1
      PROVE  m + i - 1 \in m .. n /\ m + i - 1 \in 1 .. L /\ t[i] = l[m + i - 1]
  <2>1. m + i - 1 \in m .. n
    OBVIOUS
  <2> QED
    BY <1>2, <1>3, <2>1
<1>6. ASSUME NEW i \in m .. n
      PROVE  l[i] \in Offsets(t)
  <2>1. i - m + 1 \in 1 .. n - m + 1 /\ m + (i - m + 1) - 1 = i
    OBVIOUS
  <2>2. t[i - m + 1] = l[m + (i - m + 1) - 1]
    BY <1>3, <2>1
  <2> QED
    BY <1>4, <2>1, <2>2 DEF Offsets
<1>7. Offsets(t) = {l[i] : i \in m .. n}
  <2>1. ASSUME NEW x \in Offsets(t)
        PROVE  x \in {l[i] : i \in m .. n}
    BY <1>4, <1>5, <2>1 DEF Offsets
  <2> QED
    BY <1>6, <2>1
<1>8. ASSUME Distinct(l), NEW i \in 1 .. n - m + 1, NEW j \in 1 .. n - m + 1,
             t[i] = t[j]
      PROVE  i = j
  <2>1. m + i - 1 = m + j - 1
    BY <1>1, <1>5, <1>8 DEF Distinct
  <2> QED
    BY <1>1, <2>1
<1> QED
  BY <1>3, <1>4, <1>7, <1>8 DEF t, Distinct

\* A block is put somewhere into its list, and everything else stays.
LEMMA Inserted ==
  ASSUME NEW S, NEW l \in Seq(S), NEW a \in S
  PROVE  /\ Insert(l, a) \in Seq(S)
         /\ Offsets(Insert(l, a)) = Offsets(l) \cup {a}
         /\ Distinct(l) /\ a \notin Offsets(l) => Distinct(Insert(l, a))
<1> DEFINE L == Len(l)
           before == {i \in DOMAIN l : \A j \in 1 .. i : l[j] <= a}
           n == Cardinality(before)
           x == SubSeq(l, 1, n)
           y == SubSeq(l, n + 1, L)
<1>1. L \in Nat /\ DOMAIN l = 1 .. L
  OBVIOUS
<1>2. n \in 0 .. L
  <2>1. IsFiniteSet(1 .. L) /\ Cardinality(1 .. L) = L
    BY <1>1, FS_Interval
  <2>2. before \in SUBSET (1 .. L)
    BY <1>1
  <2> HIDE DEF before, L
  <2>3. IsFiniteSet(before) /\ n <= L
    BY <2>1, <2>2, FS_Subset
  <2>4. n \in Nat
    BY <2>3, FS_CardinalityType
  <2> QED
    BY <1>1, <2>3, <2>4
<1> HIDE DEF before, n
<1>3. /\ x \in Seq(S) /\ Offsets(x) = {l[i] : i \in 1 .. n}
      /\ Distinct(l) => Distinct(x)
  BY <1>1, <1>2, PartOfList
<1>4. /\ y \in Seq(S) /\ Offsets(y) = {l[i] : i \in n + 1 .. L}
      /\ Distinct(l) => Distinct(y)
  BY <1>1, <1>2, PartOfList
<1> DEFINE o == <<a>>
<1>5. Insert(l, a) = x \o o \o y
  <2> DEFINE p == n + 1
  <2>1. Insert(l, a) = InsertAt(l, p, a)
    BY Zenon DEF Insert, n, before
  <2>2. p - 1 = n
    BY <1>2
  <2>3. y = SubSeq(l, p, Len(l))
    OBVIOUS
  <2> HIDE DEF p
  <2>4. InsertAt(l, p, a) = SubSeq(l, 1, p - 1) \o <<a>> \o SubSeq(l, p, Len(l))
    BY DEF InsertAt
  <2> QED
    BY <2>1, <2>2, <2>3, <2>4
<1>6. Offsets(l) = Offsets(x) \cup Offsets(y)
  <2>1. \A i \in 1 .. L : i \in 1 .. n \/ i \in n + 1 .. L
    BY <1>1, <1>2
  <2>2. \A i \in 1 .. n : i \in 1 .. L
    BY <1>1, <1>2
  <2>3. \A i \in n + 1 .. L : i \in 1 .. L
    BY <1>1, <1>2
  <2> HIDE DEF x, y, L
  <2> QED
    BY <1>1, <1>3, <1>4, <2>1, <2>2, <2>3 DEF Offsets
<1>7. ASSUME Distinct(l)
      PROVE  Offsets(x) \cap Offsets(y) = {}
  <2> SUFFICES ASSUME NEW i \in 1 .. n, NEW j \in n + 1 .. L, l[i] = l[j]
               PROVE  FALSE
    BY <1>3, <1>4
  <2>1. i \in 1 .. L /\ j \in 1 .. L /\ i # j
    BY <1>1, <1>2
  <2> QED
    BY <1>1, <1>7, <2>1 DEF Distinct
<1>8. o \in Seq(S) /\ Offsets(o) = {a} /\ Distinct(o)
  BY OneBlock
<1> HIDE DEF x, y, L, o
<1> DEFINE xo == x \o o
<1>9. /\ xo \in Seq(S) /\ Offsets(xo) = Offsets(x) \cup {a}
      /\ Distinct(l) /\ a \notin Offsets(l) => Distinct(xo)
  <2>1. xo \in Seq(S) /\ Offsets(xo) = Offsets(x) \cup Offsets(o)
    BY <1>3, <1>8, Chained
  <2>2. ASSUME Distinct(l), a \notin Offsets(l)
        PROVE  Distinct(xo)
    <3>1. Distinct(x) /\ Offsets(x) \cap Offsets(o) = {}
      BY <1>3, <1>6, <1>8, <2>2
    <3> QED
      BY <1>3, <1>8, <3>1, Chained
  <2> QED
    BY <1>8, <2>1, <2>2
<1> HIDE DEF xo
<1>10. /\ xo \o y \in Seq(S) /\ Offsets(xo \o y) = Offsets(xo) \cup Offsets(y)
       /\ Distinct(l) /\ a \notin Offsets(l) => Distinct(xo \o y)
  <2>1. xo \o y \in Seq(S) /\ Offsets(xo \o y) = Offsets(xo) \cup Offsets(y)
    BY <1>4, <1>9, Chained
  <2>2. ASSUME Distinct(l), a \notin Offsets(l)
        PROVE  Distinct(xo \o y)
    <3>1. Distinct(xo) /\ Distinct(y) /\ Offsets(xo) \cap Offsets(y) = {}
      BY <1>4, <1>6, <1>7, <1>9, <2>2
    <3> QED
      BY <1>4, <1>9, <3>1, Chained
  <2> QED
    BY <2>1, <2>2
<1> QED
  BY <1>5, <1>6, <1>9, <1>10 DEF xo

\* The loop over a list takes out what it is to take out, and nothing else.
LEMMA TakenOut ==
  ASSUME NEW S, NEW l \in Seq(S), NEW gone
  PROVE  /\ Without(l, gone) \in Seq(S)
         /\ Offsets(Without(l, gone)) = Offsets(l) \ gone
         /\ Distinct(l) => Distinct(Without(l, gone))
<1> DEFINE N == Len(l)
           R == Seq(S)
           Turn(w, i) == IF l[i] \in gone THEN w ELSE Append(w, l[i])
           Eqn(w) == w = [i \in 0 .. N |-> IF i = 0 THEN <<>>
                            ELSE IF l[i] \in gone THEN w[i - 1]
                            ELSE Append(w[i - 1], l[i])]
           W == CHOOSE w : Eqn(w)
           g == [x \in R \X (1 .. N) |-> Turn(x[1], x[2])]
<1>1. N \in Nat /\ DOMAIN l = 1 .. N /\ <<>> \in R /\ \A i \in 1 .. N : l[i] \in S
  OBVIOUS
<1>2. ASSUME NEW w \in R, NEW i \in 1 .. N
      PROVE  Turn(w, i) \in R
  BY <1>1
<1> HIDE DEF R, N
<1>3. g \in [R \X (1 .. N) -> R]
  <2>1. ASSUME NEW x \in R \X (1 .. N)
        PROVE  Turn(x[1], x[2]) \in R
    BY <1>2
  <2> HIDE DEF Turn
  <2> QED
    BY <2>1
<1>4. \E w : Eqn(w)
  <2>1. PICK f \in [0 .. N -> R] : Solves(f, N, <<>>, g)
    <3> HIDE DEF g
    <3> QED
      BY <1>1, <1>3, IntervalRecursion
  <2>2. ASSUME NEW i \in 0 .. N, i # 0
        PROVE  g[<<f[i - 1], i>>] = Turn(f[i - 1], i)
    <3>1. <<f[i - 1], i>> \in R \X (1 .. N)
      BY <1>1, <2>2
    <3> HIDE DEF Turn
    <3> QED
      BY <3>1
  <2> HIDE DEF g
  <2>3. Eqn(f)
    BY <2>1, <2>2 DEF Solves
  <2> QED
    BY <2>3
<1>5. Eqn(W)
  <2> HIDE DEF Eqn
  <2> QED
    BY <1>4
<1>6. W[0] = <<>> /\ \A i \in 1 .. N : W[i] = Turn(W[i - 1], i)
  <2> HIDE DEF W
  <2>1. \A i \in 0 .. N : W[i] = IF i = 0 THEN <<>>
                                 ELSE IF l[i] \in gone THEN W[i - 1]
                                 ELSE Append(W[i - 1], l[i])
    BY <1>5, Zenon
  <2> QED
    BY <1>1, <2>1
<1>7. Without(l, gone) = W[N]
  BY DEF Without, N
<1> HIDE DEF W, Turn
<1> DEFINE Good(i) == /\ W[i] \in R
                      /\ Offsets(W[i]) = {l[n] : n \in 1 .. i} \ gone
                      /\ Distinct(l) => Distinct(W[i])
           mark == [i \in 0 .. N |-> IF Good(i) THEN 1 ELSE 0]
           One == {1}
<1>8. Good(0)
  <2>1. DOMAIN W[0] = {} /\ 1 .. 0 = {}
    BY <1>6
  <2> QED
    BY <1>1, <1>6, <2>1 DEF Offsets, Distinct
<1>9. ASSUME NEW i \in 1 .. N, Good(i - 1)
      PROVE  Good(i)
  <2>0. {l[n] : n \in 1 .. i} = {l[n] : n \in 1 .. i - 1} \cup {l[i]}
    <3>1. \A n \in 1 .. i : n = i \/ n \in 1 .. i - 1
      BY <1>1
    <3>2. i \in 1 .. i /\ \A n \in 1 .. i - 1 : n \in 1 .. i
      BY <1>1
    <3> QED
      BY <3>1, <3>2
  <2>1. CASE l[i] \in gone
    <3>1. W[i] = W[i - 1]
      BY <1>6, <2>1 DEF Turn
    <3> QED
      BY <1>9, <2>0, <2>1, <3>1
  <2>2. CASE l[i] \notin gone
    <3> DEFINE w == W[i - 1]
               o == <<l[i]>>
    <3>1. W[i] = w \o o
      <4>1. W[i] = Append(w, l[i])
        BY <1>6, <2>2 DEF Turn
      <4>2. w \in Seq(S) /\ l[i] \in S
        BY <1>1, <1>9 DEF R
      <4> HIDE DEF w
      <4> QED
        BY <4>1, <4>2, AppendIsConcat
    <3>2. w \in Seq(S) /\ Offsets(w) = {l[n] : n \in 1 .. i - 1} \ gone
      BY <1>9 DEF R
    <3>3. o \in Seq(S) /\ Offsets(o) = {l[i]} /\ Distinct(o)
      BY <1>1, OneBlock
    <3>4. Distinct(l) => Distinct(w) /\ Offsets(w) \cap Offsets(o) = {}
      <4>1. ASSUME Distinct(l), NEW n \in 1 .. i - 1
            PROVE  l[n] # l[i]
        <5>1. n \in 1 .. N /\ i \in 1 .. N /\ n # i
          BY <1>1
        <5> QED
          BY <1>1, <4>1, <5>1 DEF Distinct
      <4> QED
        BY <1>9, <3>2, <3>3, <4>1
    <3> HIDE DEF w, o
    <3>5. w \o o \in Seq(S) /\ Offsets(w \o o) = Offsets(w) \cup Offsets(o)
      BY <3>2, <3>3, Chained
    <3>6. Distinct(l) => Distinct(w \o o)
      BY <3>2, <3>3, <3>4, Chained
    <3> QED
      BY <2>0, <2>2, <3>1, <3>2, <3>3, <3>5, <3>6 DEF R
  <2> QED
    BY <2>1, <2>2
<1> HIDE DEF Good
<1>10. mark[0] \in One /\ \A i \in 1 .. N : mark[i - 1] \in One => mark[i] \in One
  <2>1. ASSUME NEW i \in 1 .. N, mark[i - 1] \in One
        PROVE  mark[i] \in One
    <3>1. i - 1 \in 0 .. N /\ i \in 0 .. N
      BY <1>1
    <3>2. Good(i - 1)
      BY <2>1, <3>1
    <3> QED
      BY <1>9, <3>1, <3>2
  <2> QED
    BY <1>1, <1>8, <2>1
<1>11. Good(N)
  <2>1. mark[N] \in One
    <3> HIDE DEF mark, One
    <3> QED
      BY <1>1, <1>10, IntervalInduction
  <2>2. mark[N] = 1 /\ N \in 0 .. N
    BY <1>1, <2>1
  <2> QED
    BY <2>2
<1> QED
  BY <1>1, <1>7, <1>11 DEF Good, R, Offsets

-----------------------------------------------------------------------------
\* The invariant.

HeldBy(h, u, k) == Around(u, k) \in DOMAIN h /\ h[Around(u, k)] = k

FreeIn(F, u, k) == Around(u, k) \in F[k]

\* Every unit lies in one block, of one level, which is free or held, not both.
Tiling(F, h) ==
  /\ F \in [Levels -> SUBSET Units]
  /\ DOMAIN h \subseteq Units /\ h \in [DOMAIN h -> Levels]
  /\ \A k \in Levels : \A a \in F[k] : Around(a, k) = a
  /\ \A a \in DOMAIN h : Around(a, h[a]) = a /\ a \notin F[h[a]]
  /\ \A u \in Units : \E k \in Levels :
       /\ FreeIn(F, u, k) \/ HeldBy(h, u, k)
       /\ \A j \in Levels : FreeIn(F, u, j) \/ HeldBy(h, u, j) => j = k

\* No block is free in two halves.
Merged(F) ==
  \A k \in Levels \ {level - 1} : \A b \in F[k] :
    Around(b, k + 1) = b => b + Size[k] \notin F[k]

\* The last units of the blocks that are held.
Tails(h) == {a + Size[h[a]] - 1 : a \in DOMAIN h}

-----------------------------------------------------------------------------
\* Consequences of the tiling.

\* The levels are those of the arena.
LEMMA LevelsOfArena ==
  /\ sz \in Nat /\ level \in Nat \ {0} /\ level <= sz
  /\ Levels = 0 .. level - 1
  /\ \A k \in Levels : k \in Nat /\ k \in 0 .. sz /\ k # sz /\ k + 1 \in 0 .. sz
  /\ \A j, k \in Levels : j <= k => k \in j .. sz
  /\ Units \subseteq Nat
<1>1. Size[sz] \in Nat
  BY BuddyAssumption, SizeType
<1> QED
  BY <1>1, BuddyAssumption DEF Levels, Units

\* A unit has one owner.
LEMMA OneOwner ==
  ASSUME NEW F, NEW h, Tiling(F, h), NEW u \in Units, NEW j \in Levels,
         NEW k \in Levels
  PROVE  /\ FreeIn(F, u, j) /\ FreeIn(F, u, k) => j = k
         /\ HeldBy(h, u, j) /\ HeldBy(h, u, k) => j = k
         /\ ~ (FreeIn(F, u, j) /\ HeldBy(h, u, k))
<1>1. /\ FreeIn(F, u, j) /\ FreeIn(F, u, k) => j = k
      /\ HeldBy(h, u, j) /\ HeldBy(h, u, k) => j = k
      /\ FreeIn(F, u, j) /\ HeldBy(h, u, k) => j = k
  BY DEF Tiling
<1>2. ~ (FreeIn(F, u, k) /\ HeldBy(h, u, k))
  BY DEF Tiling, FreeIn, HeldBy
<1> QED
  BY <1>1, <1>2

\* A free block owns its units, and so does a block that is held.
LEMMA Owned ==
  ASSUME NEW F, NEW h, Tiling(F, h), NEW k \in Levels, NEW a, NEW u,
         u \in Units \/ u \in Block(a, k)
  PROVE  /\ a \in F[k]
              => /\ u \in Block(a, k) <=> (u \in Units /\ Around(u, k) = a)
                 /\ u \in Block(a, k) => FreeIn(F, u, k)
         /\ a \in DOMAIN h /\ h[a] = k
              => /\ u \in Block(a, k) <=> (u \in Units /\ Around(u, k) = a)
                 /\ u \in Block(a, k) => HeldBy(h, u, k)
<1>1. k \in 0 .. sz /\ Size[k] \in Nat \ {0} /\ Units \subseteq Nat
  BY LevelsOfArena, SizeType
<1>2. a \in F[k] => a \in Units /\ Around(a, k) = a
  BY DEF Tiling
<1>3. a \in DOMAIN h /\ h[a] = k => a \in Units /\ Around(a, k) = a
  BY DEF Tiling
<1>4. ASSUME a \in Units, Around(a, k) = a
      PROVE  u \in Block(a, k) <=> (u \in Units /\ Around(u, k) = a)
  <2>1. Block(a, k) \subseteq Units
    BY <1>1, <1>4, InsideArena
  <2>2. u \in Nat
    BY <1>1, <2>1
  <2> QED
    BY <1>1, <1>4, <2>1, <2>2, UnitsOfBlock
<1> QED
  BY <1>2, <1>3, <1>4 DEF FreeIn, HeldBy

\* An aligned block without a unit that is held lies in a free block.
LEMMA FullyFree ==
  ASSUME NEW F, NEW h, Tiling(F, h), Merged(F), NEW l \in Levels,
         NEW b \in Units, Around(b, l) = b,
         \A u \in Units : Around(u, l) = b => \A k \in Levels : ~ HeldBy(h, u, k)
  PROVE  \E i \in l .. level - 1 : Around(b, i) \in F[i]
<1> DEFINE T == {i \in 0 .. l - 1 : \E c \in F[i] : Around(c, l) = b}
<1>0. /\ sz \in Nat /\ level \in Nat \ {0} /\ Levels = 0 .. level - 1
      /\ level <= sz /\ Units \subseteq Nat /\ l \in Nat /\ l <= level - 1
  BY LevelsOfArena
<1>1. ASSUME NEW u \in Units, Around(u, l) = b
      PROVE  \E i \in Levels : FreeIn(F, u, i)
  BY <1>1 DEF Tiling
<1>2. ASSUME NEW u \in Units, Around(u, l) = b, NEW i \in Levels, FreeIn(F, u, i),
             i < l
      PROVE  i \in T
  <2>1. i \in 0 .. sz /\ l \in i .. sz /\ i \in 0 .. l - 1
    BY <1>0, <1>2
  <2>2. Around(Around(u, i), l) = b
    BY <1>0, <1>2, <2>1, AroundAround
  <2> QED
    BY <1>2, <2>1, <2>2 DEF FreeIn
<1>3. ASSUME NEW u \in Units, Around(u, l) = b, NEW i \in Levels, FreeIn(F, u, i),
             ~ (i < l)
      PROVE  i \in l .. level - 1 /\ Around(b, i) \in F[i]
  <2>1. l \in 0 .. sz /\ i \in l .. sz /\ i \in l .. level - 1
    BY <1>0, <1>3
  <2>2. Around(b, i) = Around(u, i)
    BY <1>0, <1>3, <2>1, AroundAround
  <2> QED
    BY <1>3, <2>1, <2>2 DEF FreeIn
<1>4. CASE T = {}
  <2>1. PICK i \in Levels : FreeIn(F, b, i)
    BY <1>1
  <2>2. ~ (i < l)
    BY <1>2, <1>4, <2>1
  <2> QED
    BY <1>3, <2>1, <2>2
<1>5. CASE T # {}
  <2>1. PICK i \in T : \A j \in T : i <= j
    <3>1. T \subseteq Nat
      OBVIOUS
    <3> HIDE DEF T
    <3> QED
      BY <1>5, <3>1, LeastNatural
  <2>2. PICK c \in F[i] : Around(c, l) = b
    BY <2>1
  <2>3. /\ i \in Levels /\ i \in 0 .. sz /\ i # sz /\ i < l /\ l \in i + 1 .. sz
        /\ i + 1 \in 0 .. sz /\ i # level - 1
    BY <1>0, <2>1
  <2>4. c \in Units /\ c \in Nat /\ Around(c, i) = c
    BY <1>0, <2>2, <2>3 DEF Tiling
  <2> DEFINE p == Around(c, i + 1)
             s == Size[i]
  <2>5. p \in Nat /\ p \in Units /\ Around(p, i + 1) = p /\ Around(p, l) = b
    <3>1. i + 1 \in i + 1 .. sz
      BY <2>3
    <3> QED
      BY <1>0, <2>2, <2>3, <2>4, <3>1, AroundAround, InsideArena
  <2>6. s \in Nat \ {0}
    BY <2>3, SizeType
  <2> HIDE DEF p, s
  <2>7. /\ Around(p, i) = p /\ Around(p + s, i) = p + s
        /\ Around(p + s, i + 1) = p /\ c \in {p, p + s} /\ Size[i + 1] = 2 * s
    BY <2>3, <2>4, <2>5, Halves DEF p, s
  <2>8. p + s \in Units /\ Around(p + s, l) = b
    <3>1. p + s \in Block(p, i + 1)
      BY <2>5, <2>6, <2>7 DEF Block
    <3>2. p + s \in Units
      BY <2>3, <2>5, <3>1, InsideArena
    <3>3. Around(Around(p + s, i + 1), l) = Around(p + s, l)
      BY <1>0, <2>3, <3>2, AroundAround
    <3> QED
      BY <2>5, <2>7, <3>2, <3>3
  <2>9. ASSUME NEW d \in {p, p + s}
        PROVE  d \in F[i]
    <3>1. d \in Units /\ Around(d, l) = b /\ Around(d, i) = d /\ Around(d, i + 1) = p
      BY <2>5, <2>7, <2>8, <2>9
    <3>2. PICK j \in Levels : FreeIn(F, d, j)
      BY <1>1, <3>1
    <3>3. ~ (j < i)
      <4> SUFFICES ASSUME j < i PROVE FALSE
        OBVIOUS
      <4>1. j \in T
        BY <1>0, <1>2, <2>3, <3>1, <3>2
      <4> QED
        BY <1>0, <2>1, <2>3, <4>1
    <3>4. ~ (i < j)
      <4> SUFFICES ASSUME i < j PROVE FALSE
        OBVIOUS
      <4>1. j \in i + 1 .. sz
        BY <1>0, <2>3
      <4>2. Around(d, j) = Around(p, j) /\ Around(c, j) = Around(p, j)
        BY <1>0, <2>3, <2>4, <3>1, <4>1, AroundAround DEF p
      <4>3. FreeIn(F, c, j) /\ FreeIn(F, c, i)
        BY <2>2, <2>4, <3>2, <4>2 DEF FreeIn
      <4> QED
        BY <1>0, <2>3, <2>4, <4>3, OneOwner
    <3>5. j = i
      BY <1>0, <2>3, <3>3, <3>4
    <3> QED
      BY <3>1, <3>2, <3>5 DEF FreeIn
  <2>10. p \in F[i] /\ p + s \in F[i]
    BY <2>9
  <2> QED
    BY <2>3, <2>5, <2>10 DEF Merged, s
<1> QED
  BY <1>4, <1>5

-----------------------------------------------------------------------------
\* Splitting.

\* The sets of free offsets after the block a of level m was split down to level
\* k and its first part was taken.
SplitSets(F, a, k, m) ==
  [j \in Levels |-> IF j = m THEN F[j] \ {a}
                    ELSE IF j \in k .. m - 1 THEN {a + Size[j]} ELSE F[j]]

Holding(h, a, k) ==
  [b \in DOMAIN h \cup {a} |-> IF b = a THEN k ELSE h[b]]

\* The halves that are left over by a split: aligned, in the block, disjoint.
LEMMA LeftOver ==
  ASSUME NEW m \in Levels, NEW j \in 0 .. m - 1, NEW a \in Units, Around(a, m) = a
  PROVE  /\ a + Size[j] \in Units
         /\ Around(a + Size[j], j) = a + Size[j]
         /\ Around(a + Size[j], j + 1) = a
         /\ Around(a + Size[j], m) = a
         /\ a + Size[j] # a
         /\ \A u \in Nat : Around(u, j + 1) = a => Around(u, j) \in {a, a + Size[j]}
<1>1. /\ sz \in Nat /\ m \in 0 .. sz /\ j \in 0 .. sz /\ j # sz /\ j + 1 \in 0 .. sz
      /\ m \in j + 1 .. sz /\ a \in Nat /\ Units \subseteq Nat
  BY LevelsOfArena
<1>2. Around(a, j + 1) = a
  BY <1>1, AlignedBelow
<1>3. Size[j] \in Nat \ {0}
  BY <1>1, SizeType
<1>4. /\ Size[j + 1] = 2 * Size[j]
      /\ Around(a + Size[j], j) = a + Size[j] /\ Around(a + Size[j], j + 1) = a
      /\ \A u \in Nat : Around(u, j + 1) = a => Around(u, j) \in {a, a + Size[j]}
  BY <1>1, <1>2, Halves
<1>5. a + Size[j] \in Units
  <2>1. a + Size[j] \in Block(a, j + 1)
    BY <1>1, <1>3, <1>4 DEF Block
  <2> QED
    BY <1>1, <1>2, <2>1, InsideArena
<1>6. Around(Around(a + Size[j], j + 1), m) = Around(a + Size[j], m)
  BY <1>1, <1>5, AroundAround
<1> QED
  BY <1>1, <1>3, <1>4, <1>5, <1>6

\* A split keeps the tiling, and leaves no halves to be merged.
LEMMA SplitTiling ==
  ASSUME NEW F, NEW h, Tiling(F, h), Merged(F), NEW m \in Levels, NEW k \in 0 .. m,
         NEW a \in F[m], \A j \in k .. m - 1 : F[j] = {}
  PROVE  /\ a \notin DOMAIN h
         /\ Tiling(SplitSets(F, a, k, m), Holding(h, a, k))
         /\ Merged(SplitSets(F, a, k, m))
         /\ Tails(Holding(h, a, k)) = Tails(h) \cup {a + Size[k] - 1}
<1> DEFINE F2 == SplitSets(F, a, k, m)
           h2 == Holding(h, a, k)
<1>0. /\ sz \in Nat /\ level \in Nat \ {0} /\ Levels = 0 .. level - 1
      /\ level <= sz /\ Units \subseteq Nat /\ m \in Nat /\ m <= level - 1
      /\ k \in Levels /\ k \in Nat /\ k <= m /\ k \in 0 .. sz /\ m \in k .. sz
      /\ m \in 0 .. sz
  BY LevelsOfArena
<1>1. a \in Units /\ Around(a, m) = a /\ a \in Nat
  BY <1>0 DEF Tiling
<1>2. Around(a, k) = a
  BY <1>0, <1>1, AlignedBelow
<1>3. a \notin DOMAIN h
  <2> SUFFICES ASSUME a \in DOMAIN h PROVE FALSE
    OBVIOUS
  <2>1. h[a] \in Levels /\ Around(a, h[a]) = a
    BY DEF Tiling
  <2>2. HeldBy(h, a, h[a]) /\ FreeIn(F, a, m)
    BY <1>1, <2>1 DEF HeldBy, FreeIn
  <2> QED
    BY <1>1, <2>1, <2>2, OneOwner
<1>4. \A j \in k .. m - 1 : j \in 0 .. m - 1 /\ j \in Levels /\ j # m /\ j \in Nat
  BY <1>0
<1>5. /\ DOMAIN h2 = DOMAIN h \cup {a} /\ h2[a] = k
      /\ \A b \in DOMAIN h : b # a /\ h2[b] = h[b]
  BY <1>3 DEF Holding
<1>6. /\ F2[m] = F[m] \ {a}
      /\ \A j \in k .. m - 1 : F2[j] = {a + Size[j]}
      /\ \A j \in Levels : j # m /\ j \notin k .. m - 1 => F2[j] = F[j]
  BY <1>4 DEF SplitSets
<1>7. DOMAIN F2 = Levels
  BY DEF SplitSets
<1>8. F2 = [j \in Levels |-> F2[j]]
  BY DEF SplitSets
<1> HIDE DEF F2, h2
<1>9. ASSUME NEW u \in Units, Around(u, m) # a, NEW j \in Levels
      PROVE  /\ FreeIn(F2, u, j) <=> FreeIn(F, u, j)
             /\ HeldBy(h2, u, j) <=> HeldBy(h, u, j)
  <2>1. ASSUME j \in k .. m - 1, Around(u, j) = a + Size[j]
        PROVE  FALSE
    <3>1. Around(a + Size[j], m) = a
      BY <1>1, <1>4, <2>1, LeftOver
    <3>2. j \in 0 .. sz /\ m \in j .. sz
      BY <1>0, <2>1
    <3>3. Around(Around(u, j), m) = Around(u, m)
      BY <1>0, <3>2, AroundAround
    <3> QED
      BY <1>9, <2>1, <3>1, <3>3
  <2>2. FreeIn(F2, u, j) <=> FreeIn(F, u, j)
    <3>1. CASE j = m
      BY <1>6, <1>9, <3>1 DEF FreeIn
    <3>2. CASE j \in k .. m - 1
      BY <1>6, <2>1, <3>2 DEF FreeIn
    <3> QED
      BY <1>6, <3>1, <3>2 DEF FreeIn
  <2>3. ASSUME Around(u, k) = a
        PROVE  FALSE
    <3>1. Around(Around(u, k), m) = Around(u, m)
      BY <1>0, AroundAround
    <3> QED
      BY <1>1, <1>9, <2>3, <3>1
  <2>4. HeldBy(h2, u, j) <=> HeldBy(h, u, j)
    BY <1>3, <1>5, <2>3 DEF HeldBy
  <2> QED
    BY <2>2, <2>4
<1>10. ASSUME NEW u \in Units, Around(u, m) = a, NEW j \in Levels
       PROVE  /\ ~ HeldBy(h, u, j)
              /\ FreeIn(F2, u, j) <=> j \in k .. m - 1 /\ Around(u, j) = a + Size[j]
              /\ HeldBy(h2, u, j) <=> j = k /\ Around(u, k) = a
  <2>1. FreeIn(F, u, m)
    BY <1>10 DEF FreeIn
  <2>2. ~ HeldBy(h, u, j) /\ (FreeIn(F, u, j) => j = m)
    BY <2>1, OneOwner
  <2>3. HeldBy(h2, u, j) <=> j = k /\ Around(u, k) = a
    BY <1>5, <2>2 DEF HeldBy
  <2>4. FreeIn(F2, u, j) <=> j \in k .. m - 1 /\ Around(u, j) = a + Size[j]
    <3>1. CASE j = m
      BY <1>4, <1>6, <1>10, <3>1 DEF FreeIn
    <3>2. CASE j \in k .. m - 1
      BY <1>6, <3>2 DEF FreeIn
    <3> QED
      BY <1>6, <2>2, <3>1, <3>2 DEF FreeIn
  <2> QED
    BY <2>2, <2>3, <2>4
<1>11. ASSUME NEW u \in Units, Around(u, m) = a
       PROVE  \E i \in Levels :
                /\ FreeIn(F2, u, i) \/ HeldBy(h2, u, i)
                /\ \A j \in Levels : FreeIn(F2, u, j) \/ HeldBy(h2, u, j) => j = i
  <2>1. ASSUME NEW j \in k .. m - 1, NEW i \in k .. j, Around(u, i) = a
        PROVE  Around(u, j) = a /\ a + Size[j] # a
    <3>1. /\ i \in 0 .. sz /\ j \in i .. sz /\ j \in 0 .. sz /\ m \in j .. sz
          /\ j \in 0 .. m - 1
      BY <1>0
    <3>2. Around(Around(u, i), j) = Around(u, j) /\ Around(a, j) = a
      BY <1>0, <1>1, <3>1, AroundAround, AlignedBelow
    <3> QED
      BY <1>1, <2>1, <3>1, <3>2, LeftOver
  <2>2. CASE Around(u, k) = a
    <3>1. HeldBy(h2, u, k)
      BY <1>0, <1>10, <1>11, <2>2
    <3>2. ASSUME NEW j \in Levels, FreeIn(F2, u, j) \/ HeldBy(h2, u, j)
          PROVE  j = k
      <4>1. CASE FreeIn(F2, u, j)
        <5>1. j \in k .. m - 1 /\ Around(u, j) = a + Size[j]
          BY <1>10, <1>11, <4>1
        <5>2. k \in k .. j
          BY <1>0, <5>1
        <5> QED
          BY <2>1, <2>2, <5>1, <5>2
      <4> QED
        BY <1>10, <1>11, <3>2, <4>1
    <3> QED
      BY <1>0, <3>1, <3>2
  <2>3. CASE Around(u, k) # a
    <3> DEFINE T == {j \in k .. m : Around(u, j) = a}
    <3>1. PICK i \in T : \A j \in T : i <= j
      <4>1. m \in T /\ T \subseteq Nat
        BY <1>0, <1>11
      <4> HIDE DEF T
      <4> QED
        BY <4>1, LeastNatural
    <3>2. i \in k .. m /\ Around(u, i) = a /\ i # k
      BY <2>3, <3>1
    <3> DEFINE n == i - 1
    <3>3. n \in k .. m - 1 /\ n \in 0 .. m - 1 /\ n + 1 = i /\ n \in Levels
      BY <1>0, <3>2
    <3>4. n \notin T
      BY <1>0, <3>1, <3>3
    <3> HIDE DEF n
    <3>5. Around(u, n) = a + Size[n]
      <4>1. Around(u, n) # a
        BY <1>0, <3>3, <3>4
      <4>2. u \in Nat /\ Around(u, n + 1) = a
        BY <1>0, <3>2, <3>3
      <4> QED
        BY <1>1, <3>3, <4>1, <4>2, LeftOver
    <3>6. FreeIn(F2, u, n)
      BY <1>10, <1>11, <3>3, <3>5
    <3>7. ASSUME NEW j \in Levels, FreeIn(F2, u, j) \/ HeldBy(h2, u, j)
          PROVE  j = n
      <4>1. j \in k .. m - 1 /\ Around(u, j) = a + Size[j]
        BY <1>10, <1>11, <2>3, <3>7
      <4>2. j + 1 \in k .. m /\ j \in 0 .. sz /\ j + 1 \in 0 .. sz /\ j + 1 \in j + 1 .. sz
            /\ j \in 0 .. m - 1
        BY <1>0, <4>1
      <4>3. Around(u, j + 1) = a
        <5>1. Around(a + Size[j], j + 1) = a
          BY <1>1, <4>2, LeftOver
        <5>2. Around(Around(u, j), j + 1) = Around(u, j + 1)
          <6>1. j + 1 \in j .. sz /\ u \in Nat
            BY <1>0, <4>2
          <6> QED
            BY <4>2, <6>1, AroundAround
        <5> QED
          BY <4>1, <5>1, <5>2
      <4>4. i <= j + 1
        BY <3>1, <4>2, <4>3
      <4>5. ~ (i <= j)
        <5> SUFFICES ASSUME i <= j PROVE FALSE
          OBVIOUS
        <5>1. i \in k .. j
          BY <1>0, <3>2, <4>1
        <5> QED
          BY <2>1, <3>2, <4>1, <5>1
      <4> QED
        BY <1>0, <3>2, <3>3, <4>1, <4>4, <4>5
    <3> QED
      BY <3>3, <3>6, <3>7
  <2> QED
    BY <2>2, <2>3
<1>12. ASSUME NEW u \in Units
       PROVE  \E i \in Levels :
                /\ FreeIn(F2, u, i) \/ HeldBy(h2, u, i)
                /\ \A j \in Levels : FreeIn(F2, u, j) \/ HeldBy(h2, u, j) => j = i
  <2>1. CASE Around(u, m) # a
    BY <1>9, <2>1 DEF Tiling
  <2> QED
    BY <1>11, <2>1
<1>13. ASSUME NEW j \in Levels
       PROVE  /\ F2[j] \subseteq Units
              /\ \A b \in F2[j] : Around(b, j) = b
              /\ j \in k .. m - 1 \/ F2[j] \subseteq F[j]
  <2>1. CASE j \in k .. m - 1
    <3>1. a + Size[j] \in Units /\ Around(a + Size[j], j) = a + Size[j]
      BY <1>1, <1>4, <2>1, LeftOver
    <3> QED
      BY <1>6, <2>1, <3>1
  <2>2. CASE j \notin k .. m - 1
    <3>1. F2[j] \subseteq F[j]
      BY <1>6, <2>2
    <3> QED
      BY <3>1 DEF Tiling
  <2> QED
    BY <2>1, <2>2
<1>14. F2 \in [Levels -> SUBSET Units]
  BY <1>8, <1>13
<1>15. DOMAIN h2 \subseteq Units /\ h2 \in [DOMAIN h2 -> Levels]
  <2>1. DOMAIN h2 \subseteq Units
    BY <1>1, <1>5 DEF Tiling
  <2>2. \A b \in DOMAIN h2 : h2[b] \in Levels
    BY <1>0, <1>5 DEF Tiling
  <2>3. h2 = [b \in DOMAIN h2 |-> h2[b]]
    BY <1>5 DEF h2, Holding
  <2> QED
    BY <2>1, <2>2, <2>3
<1>16. ASSUME NEW b \in DOMAIN h2
       PROVE  Around(b, h2[b]) = b /\ b \notin F2[h2[b]]
  <2>1. CASE b = a
    <3>1. a \notin F2[k]
      <4>1. CASE k = m
        BY <1>6, <4>1
      <4>2. CASE k # m
        <5>1. k \in k .. m - 1
          BY <1>0, <4>2
        <5>2. k \in 0 .. m - 1
          BY <1>4, <5>1
        <5>3. a + Size[k] # a
          BY <1>1, <5>2, LeftOver
        <5> QED
          BY <1>6, <5>1, <5>3
      <4> QED
        BY <4>1, <4>2
    <3> QED
      BY <1>2, <1>5, <2>1, <3>1
  <2>2. CASE b # a
    <3>1. b \in DOMAIN h /\ h2[b] = h[b]
      BY <1>5, <2>2
    <3>2. b \in Units /\ h[b] \in Levels /\ Around(b, h[b]) = b
      BY <3>1 DEF Tiling
    <3>3. HeldBy(h, b, h[b])
      BY <3>1, <3>2 DEF HeldBy
    <3>4. ~ FreeIn(F2, b, h[b])
      <4>1. Around(b, m) # a
        BY <1>10, <3>2, <3>3
      <4>2. ~ FreeIn(F, b, h[b])
        BY <3>2, <3>3, OneOwner
      <4> QED
        BY <1>9, <3>2, <4>1, <4>2
    <3> QED
      BY <3>1, <3>2, <3>4 DEF FreeIn
  <2> QED
    BY <2>1, <2>2
<1>17. Tiling(F2, h2)
  BY <1>12, <1>13, <1>14, <1>15, <1>16 DEF Tiling
<1>18. Merged(F2)
  <2> SUFFICES ASSUME NEW j \in Levels \ {level - 1}, NEW b \in F2[j],
                      Around(b, j + 1) = b, b + Size[j] \in F2[j]
               PROVE  FALSE
    BY DEF Merged
  <2>1. CASE j \in k .. m - 1
    <3>1. b = a + Size[j] /\ b + Size[j] = a + Size[j]
      BY <1>6, <2>1
    <3>2. j \in 0 .. sz
      BY LevelsOfArena
    <3>3. Size[j] \in Nat \ {0}
      BY <3>2, SizeType
    <3> QED
      BY <1>1, <3>1, <3>3
  <2>2. CASE F2[j] \subseteq F[j]
    BY <2>2 DEF Merged
  <2> QED
    BY <1>13, <2>1, <2>2
<1>19. Tails(h2) = Tails(h) \cup {a + Size[k] - 1}
  BY <1>5 DEF Tails
<1> QED
  BY <1>3, <1>17, <1>18, <1>19 DEF F2, h2

-----------------------------------------------------------------------------
\* Merging.

\* The sets of free offsets after the block at a, of level k, was returned and
\* merged up to level m.
MergeSets(F, a, k, m) ==
  [j \in Levels |->
     IF j \in k .. m - 1
     THEN F[j] \ {Around(a, j + 1), Around(a, j + 1) + Size[j]}
     ELSE IF j = m THEN F[j] \cup {Around(a, m)} ELSE F[j]]

Returned(h, a) == [b \in DOMAIN h \ {a} |-> h[b]]

\* The last unit of a block that is held lies in it, and in no other.
LEMMA TailOwned ==
  ASSUME NEW F, NEW h, Tiling(F, h), NEW c \in DOMAIN h
  PROVE  /\ c + Size[h[c]] - 1 \in Units
         /\ HeldBy(h, c + Size[h[c]] - 1, h[c])
         /\ Around(c + Size[h[c]] - 1, h[c]) = c
         /\ \A b \in DOMAIN h : b + Size[h[b]] - 1 = c + Size[h[c]] - 1 => b = c
<1>1. ASSUME NEW b \in DOMAIN h
      PROVE  /\ h[b] \in Levels
             /\ b + Size[h[b]] - 1 \in Units
             /\ HeldBy(h, b + Size[h[b]] - 1, h[b])
             /\ Around(b + Size[h[b]] - 1, h[b]) = b
  <2>1. h[b] \in Levels /\ b \in Units
    BY DEF Tiling
  <2>2. h[b] \in 0 .. sz /\ Units \subseteq Nat
    BY <2>1, LevelsOfArena
  <2>3. Size[h[b]] \in Nat \ {0}
    BY <2>2, SizeType
  <2>4. b + Size[h[b]] - 1 \in Block(b, h[b])
    BY <2>1, <2>2, <2>3 DEF Block
  <2> QED
    BY <2>1, <2>4, Owned
<1>2. ASSUME NEW b \in DOMAIN h, b + Size[h[b]] - 1 = c + Size[h[c]] - 1
      PROVE  b = c
  <2>1. h[b] = h[c]
    BY <1>1, <1>2, OneOwner
  <2> QED
    BY <1>1, <1>2, <2>1
<1> QED
  BY <1>1, <1>2

\* What is in the merged block besides the block that was returned is free, and
\* taken out of the lists.
LEMMA MergedUnits ==
  ASSUME NEW F, NEW h, Tiling(F, h), Merged(F), NEW a \in DOMAIN h,
         NEW m \in h[a] .. level - 1,
         Block(Around(a, m), m) \cap (Tails(h) \ {a + Size[h[a]] - 1}) = {},
         NEW u \in Units, Around(u, m) = Around(a, m), NEW i \in Levels
  PROVE  /\ HeldBy(h, u, i) => i = h[a] /\ Around(u, i) = a
         /\ FreeIn(F, u, i)
              => /\ i \in h[a] .. m - 1
                 /\ Around(u, i) \in {Around(a, i + 1), Around(a, i + 1) + Size[i]}
<1> DEFINE k == h[a]
           B == Around(a, m)
<1>0. /\ sz \in Nat /\ level \in Nat \ {0} /\ Levels = 0 .. level - 1
      /\ level <= sz /\ Units \subseteq Nat
  BY LevelsOfArena
<1>1. a \in Units /\ k \in Levels /\ Around(a, k) = a /\ HeldBy(h, a, k)
  BY DEF Tiling, HeldBy
<1>2. /\ k \in Nat /\ m \in Nat /\ m \in Levels /\ k <= m /\ m \in 0 .. sz
      /\ k \in 0 .. sz /\ m \in k .. sz /\ a \in Nat
  <2>1. m \in k .. level - 1
    OBVIOUS
  <2> HIDE DEF k
  <2>2. k \in Nat /\ k <= level - 1 /\ a \in Nat
    <3>1. k \in 0 .. level - 1
      BY <1>0, <1>1, Zenon
    <3>2. a \in Nat
      BY <1>0, <1>1, Zenon
    <3> QED
      BY <1>0, <3>1, <3>2
  <2> QED
    BY <1>0, <2>1, <2>2
<1> HIDE DEF k
<1>3. \A j \in Levels : ~ FreeIn(F, a, j) /\ (HeldBy(h, a, j) => j = k)
  BY <1>1, OneOwner
<1>4. ASSUME NEW v \in Units, NEW n \in Levels, Around(v, n) = Around(a, n),
             NEW j \in n .. level - 1
      PROVE  Around(v, j) = Around(a, j)
  <2>1. n \in 0 .. sz /\ j \in n .. sz
    BY <1>0
  <2>2. Around(Around(v, n), j) = Around(v, j) /\ Around(Around(a, n), j) = Around(a, j)
    BY <1>0, <1>2, <2>1, AroundAround
  <2> QED
    BY <1>4, <2>2
<1>5. ASSUME NEW v \in Units, Around(v, m) = B, NEW j \in Levels, HeldBy(h, v, j)
      PROVE  j = k /\ Around(v, j) = a
  <2> DEFINE c == Around(v, j)
             t == c + Size[j] - 1
  <2>1. c \in DOMAIN h /\ h[c] = j
    BY <1>5 DEF HeldBy
  <2> SUFFICES ASSUME c # a PROVE FALSE
    BY <2>1 DEF k
  <2>2. CASE j <= m
    <3>1. t \in Units /\ Around(t, j) = c /\ (t = a + Size[k] - 1 => c = a)
      BY <1>1, <2>1, TailOwned DEF k
    <3>2. j \in 0 .. sz /\ m \in j .. sz
      BY <1>0, <2>2
    <3>3. Around(t, m) = B
      <4>1. Around(Around(t, j), m) = Around(t, m)
        BY <1>0, <3>1, <3>2, AroundAround
      <4>2. Around(Around(v, j), m) = Around(v, m)
        BY <1>0, <3>2, AroundAround
      <4> QED
        BY <1>5, <3>1, <4>1, <4>2
    <3>4. t \in Block(B, m)
      BY <1>0, <1>2, <3>1, <3>3, AroundUnit
    <3>5. t \in Tails(h) \ {a + Size[k] - 1}
      BY <2>1, <3>1 DEF Tails
    <3> QED
      BY <3>4, <3>5 DEF k
  <2>3. CASE ~ (j <= m)
    <3>1. j \in m .. level - 1
      BY <1>0, <1>2, <2>3
    <3>2. Around(v, j) = Around(a, j)
      BY <1>2, <1>4, <1>5, <3>1
    <3>3. HeldBy(h, a, j)
      BY <1>5, <3>2 DEF HeldBy
    <3> QED
      BY <1>0, <1>2, <1>3, <2>3, <3>3
  <2> QED
    BY <2>2, <2>3
<1>6. ASSUME FreeIn(F, u, i)
      PROVE  /\ i \in k .. m - 1
             /\ Around(u, i) \in {Around(a, i + 1), Around(a, i + 1) + Size[i]}
  <2> DEFINE J == {j \in k .. m : Around(u, j) = Around(a, j)}
  <2>1. PICK j \in J : \A n \in J : j <= n
    <3>1. m \in J /\ J \subseteq Nat
      BY <1>2
    <3> HIDE DEF J
    <3> QED
      BY <3>1, LeastNatural
  <2>2. j # k
    <3> SUFFICES ASSUME j = k PROVE FALSE
      OBVIOUS
    <3>1. HeldBy(h, u, k)
      BY <1>1, <2>1 DEF HeldBy
    <3> QED
      BY <1>1, <1>6, <3>1, OneOwner
  <2> DEFINE n == j - 1
             S == Around(u, n)
  <2>3. /\ n \in k .. m - 1 /\ n \in Levels /\ n \in Nat /\ n + 1 = j /\ n \in 0 .. sz
        /\ n # sz /\ n + 1 \in 0 .. sz /\ m \in n .. sz /\ n \in k .. sz
        /\ n \in k .. level - 1 /\ j \in Levels /\ Around(u, j) = Around(a, j)
    BY <1>0, <1>2, <2>1, <2>2
  <2>4. n \notin J
    BY <1>2, <2>1, <2>3
  <2>5. Around(u, n) # Around(a, n) /\ Around(u, n + 1) = Around(a, n + 1)
    BY <1>2, <2>1, <2>3, <2>4
  <2> HIDE DEF n, J
  <2>6. S \in Units /\ Around(S, n) = S /\ Around(S, m) = B
    <3>1. n \in n .. sz /\ u \in Nat
      BY <1>0, <2>3
    <3> QED
      BY <2>3, <3>1, AroundAround, InsideArena
  <2>7. ASSUME NEW v \in Units, Around(v, n) = S, NEW l \in Levels, HeldBy(h, v, l)
        PROVE  FALSE
    <3>1. Around(Around(v, n), m) = Around(v, m)
      BY <1>0, <2>3, AroundAround
    <3>2. l = k /\ Around(v, k) = a
      BY <1>5, <2>6, <2>7, <3>1
    <3>3. Around(v, n) = Around(a, n)
      BY <1>1, <1>4, <2>3, <3>2
    <3> QED
      BY <2>5, <2>7, <3>3
  <2>8. PICK l \in n .. level - 1 : Around(S, l) \in F[l]
    <3> HIDE DEF S
    <3> QED
      BY <2>3, <2>6, <2>7, FullyFree
  <2>9. l = i
    <3>1. l \in Levels /\ l \in n .. sz /\ u \in Nat
      BY <1>0, <2>3
    <3>2. Around(S, l) = Around(u, l)
      BY <2>3, <3>1, AroundAround
    <3>3. FreeIn(F, u, l)
      BY <2>8, <3>2 DEF FreeIn
    <3> QED
      BY <1>6, <3>1, <3>3, OneOwner
  <2>10. i = n
    <3> SUFFICES ASSUME i # n PROVE FALSE
      OBVIOUS
    <3>1. j \in Levels /\ i \in j .. level - 1 /\ Around(u, j) = Around(a, j)
      BY <1>0, <2>3, <2>8, <2>9
    <3>2. Around(u, i) = Around(a, i)
      BY <1>4, <3>1
    <3>3. FreeIn(F, a, i)
      BY <1>6, <3>2 DEF FreeIn
    <3> QED
      BY <1>3, <3>3
  <2>11. Around(u, n) \in {Around(a, n + 1), Around(a, n + 1) + Size[n]}
    <3> DEFINE p == Around(a, n + 1)
    <3>1. p \in Nat /\ Around(p, n + 1) = p
      <4>1. n + 1 \in n + 1 .. sz
        BY <2>3
      <4> QED
        BY <1>2, <2>3, <4>1, AroundUnit, AroundAround
    <3> HIDE DEF p
    <3>2. u \in Nat /\ Around(u, n + 1) = p
      BY <1>0, <2>5 DEF p
    <3>3. Around(u, n) \in {p, p + Size[n]}
      BY <2>3, <3>1, <3>2, Halves
    <3> QED
      BY <3>3 DEF p
  <2> QED
    BY <2>3, <2>10, <2>11
<1> QED
  BY <1>5, <1>6 DEF k

\* A merge keeps the tiling; at the level where it ends there is nothing left to
\* be merged.
LEMMA MergeTiling ==
  ASSUME NEW F, NEW h, Tiling(F, h), Merged(F), NEW a \in DOMAIN h,
         NEW m \in h[a] .. level - 1,
         Block(Around(a, m), m) \cap (Tails(h) \ {a + Size[h[a]] - 1}) = {},
         m < level - 1 =>
           Block(Around(a, m + 1), m + 1) \cap (Tails(h) \ {a + Size[h[a]] - 1}) # {}
  PROVE  /\ a \in Units /\ a \notin F[h[a]] /\ Around(a, m) \notin F[m]
         /\ Tiling(MergeSets(F, a, h[a], m), Returned(h, a))
         /\ Merged(MergeSets(F, a, h[a], m))
         /\ Tails(Returned(h, a)) = Tails(h) \ {a + Size[h[a]] - 1}
<1> DEFINE k == h[a]
           B == Around(a, m)
           bits == Tails(h) \ {a + Size[h[a]] - 1}
           F2 == MergeSets(F, a, k, m)
           h2 == Returned(h, a)
<1>0. /\ sz \in Nat /\ level \in Nat \ {0} /\ Levels = 0 .. level - 1
      /\ level <= sz /\ Units \subseteq Nat
  BY LevelsOfArena
<1>1. a \in Units /\ k \in Levels /\ Around(a, k) = a /\ HeldBy(h, a, k)
  BY DEF Tiling, HeldBy
<1>2. /\ k \in Nat /\ m \in Nat /\ m \in Levels /\ k <= m /\ m \in 0 .. sz
      /\ k \in 0 .. sz /\ m \in k .. sz /\ a \in Nat
  <2>1. m \in k .. level - 1
    OBVIOUS
  <2> HIDE DEF k
  <2>2. k \in Nat /\ k <= level - 1 /\ a \in Nat
    <3>1. k \in 0 .. level - 1
      BY <1>0, <1>1, Zenon
    <3>2. a \in Nat
      BY <1>0, <1>1, Zenon
    <3> QED
      BY <1>0, <3>1, <3>2
  <2> QED
    BY <1>0, <2>1, <2>2
<1>3. \A j \in Levels : ~ FreeIn(F, a, j) /\ (HeldBy(h, a, j) => j = k)
  BY <1>1, OneOwner
<1>4. B \in Units /\ Around(B, m) = B
  BY <1>1, <1>2, AroundAround, InsideArena
<1>5. ASSUME NEW u \in Units, Around(u, m) = B, NEW i \in Levels
      PROVE  /\ HeldBy(h, u, i) => i = k /\ Around(u, i) = a
             /\ FreeIn(F, u, i)
                  => /\ i \in k .. m - 1
                     /\ Around(u, i) \in {Around(a, i + 1), Around(a, i + 1) + Size[i]}
  BY <1>5, MergedUnits
<1>6. /\ DOMAIN h2 = DOMAIN h \ {a}
      /\ \A b \in DOMAIN h2 : h2[b] = h[b]
      /\ h2 = [b \in DOMAIN h2 |-> h2[b]]
  BY DEF Returned
<1>7. /\ \A j \in k .. m - 1 :
           F2[j] = F[j] \ {Around(a, j + 1), Around(a, j + 1) + Size[j]}
      /\ F2[m] = F[m] \cup {B}
      /\ \A j \in Levels : j # m /\ j \notin k .. m - 1 => F2[j] = F[j]
      /\ F2 = [j \in Levels |-> F2[j]]
  <2>1. m \notin k .. m - 1 /\ \A j \in k .. m - 1 : j \in Levels
    <3> HIDE DEF k
    <3> QED
      BY <1>0, <1>2
  <2> QED
    BY <1>2, <2>1 DEF MergeSets
<1> HIDE DEF k, F2, h2
<1>8. \A j \in Levels : F2[j] \subseteq F[j] \/ j = m
  BY <1>7
<1>9. Tails(h2) = bits
  <2>1. ASSUME NEW b \in DOMAIN h2
        PROVE  b + Size[h2[b]] - 1 \in bits
    <3>1. b \in DOMAIN h /\ b # a /\ h2[b] = h[b]
      BY <1>6
    <3>2. b + Size[h[b]] - 1 # a + Size[h[a]] - 1
      BY <3>1, TailOwned
    <3> QED
      BY <3>1, <3>2 DEF Tails
  <2>2. ASSUME NEW t \in bits
        PROVE  t \in Tails(h2)
    <3>1. PICK b \in DOMAIN h : t = b + Size[h[b]] - 1
      BY <2>2 DEF Tails
    <3>2. b \in DOMAIN h2 /\ h2[b] = h[b]
      BY <1>6, <2>2, <3>1
    <3> QED
      BY <3>1, <3>2 DEF Tails
  <2> HIDE DEF bits
  <2> QED
    BY <2>1, <2>2 DEF Tails
<1>10. ASSUME NEW u \in Units, Around(u, m) # B, NEW j \in Levels
       PROVE  /\ FreeIn(F2, u, j) <=> FreeIn(F, u, j)
              /\ HeldBy(h2, u, j) <=> HeldBy(h, u, j)
  <2>1. ASSUME j \in k .. m - 1,
               Around(u, j) \in {Around(a, j + 1), Around(a, j + 1) + Size[j]}
        PROVE  FALSE
    <3> DEFINE p == Around(a, j + 1)
    <3>1. /\ j \in 0 .. sz /\ j # sz /\ j + 1 \in 0 .. sz /\ m \in j + 1 .. sz
          /\ j + 1 \in j + 1 .. sz /\ j + 1 \in j .. sz
      BY <1>0, <1>2, <2>1
    <3>2. p \in Nat /\ Around(p, j + 1) = p /\ Around(p, m) = B
      BY <1>2, <3>1, AroundUnit, AroundAround
    <3> HIDE DEF p
    <3>3. Around(p + Size[j], j + 1) = p
      BY <3>1, <3>2, Halves
    <3>4. Around(u, j + 1) = p
      <4>1. Around(Around(u, j), j + 1) = Around(u, j + 1)
        BY <1>0, <3>1, AroundAround
      <4> QED
        BY <2>1, <3>2, <3>3, <4>1 DEF p
    <3>5. Around(Around(u, j + 1), m) = Around(u, m)
      BY <1>0, <3>1, AroundAround
    <3> QED
      BY <1>10, <3>2, <3>4, <3>5
  <2>2. FreeIn(F2, u, j) <=> FreeIn(F, u, j)
    <3>1. CASE j = m
      BY <1>7, <1>10, <3>1 DEF FreeIn
    <3>2. CASE j \in k .. m - 1
      BY <1>7, <2>1, <3>2 DEF FreeIn
    <3> QED
      BY <1>7, <3>1, <3>2 DEF FreeIn
  <2>3. ASSUME HeldBy(h, u, j), Around(u, j) = a
        PROVE  FALSE
    <3>1. j = k
      BY <2>3 DEF HeldBy, k
    <3>2. Around(Around(u, k), m) = Around(u, m)
      BY <1>0, <1>2, AroundAround
    <3> QED
      BY <1>10, <2>3, <3>1, <3>2
  <2>4. HeldBy(h2, u, j) <=> HeldBy(h, u, j)
    BY <1>6, <2>3 DEF HeldBy
  <2> QED
    BY <2>2, <2>4
<1>11. ASSUME NEW u \in Units, Around(u, m) = B, NEW j \in Levels
       PROVE  ~ HeldBy(h2, u, j) /\ (FreeIn(F2, u, j) <=> j = m)
  <2>1. ~ HeldBy(h2, u, j)
    BY <1>5, <1>6, <1>11 DEF HeldBy
  <2>2. CASE j = m
    BY <1>7, <1>11, <2>1, <2>2 DEF FreeIn
  <2>3. CASE j \in k .. m - 1
    <3>1. j # m
      BY <1>2, <2>3
    <3> QED
      BY <1>5, <1>7, <1>11, <2>1, <2>3, <3>1 DEF FreeIn
  <2> QED
    BY <1>5, <1>7, <1>11, <2>1, <2>2, <2>3 DEF FreeIn
<1>12. ASSUME NEW u \in Units
       PROVE  \E i \in Levels :
                /\ FreeIn(F2, u, i) \/ HeldBy(h2, u, i)
                /\ \A j \in Levels : FreeIn(F2, u, j) \/ HeldBy(h2, u, j) => j = i
  <2>1. CASE Around(u, m) # B
    BY <1>10, <2>1 DEF Tiling
  <2>2. CASE Around(u, m) = B
    BY <1>2, <1>11, <2>2
  <2> QED
    BY <2>1, <2>2
<1>13. ASSUME NEW j \in Levels
       PROVE  F2[j] \subseteq Units /\ \A b \in F2[j] : Around(b, j) = b
  <2>1. F[j] \subseteq Units /\ \A b \in F[j] : Around(b, j) = b
    BY DEF Tiling
  <2> QED
    BY <1>4, <1>7, <1>8, <2>1
<1>14. ASSUME NEW b \in DOMAIN h2
       PROVE  /\ b \in Units /\ h2[b] \in Levels
              /\ Around(b, h2[b]) = b /\ b \notin F2[h2[b]]
  <2>1. b \in DOMAIN h /\ b # a /\ h2[b] = h[b]
    BY <1>6
  <2>2. b \in Units /\ h[b] \in Levels /\ Around(b, h[b]) = b
    BY <2>1 DEF Tiling
  <2>3. HeldBy(h, b, h[b])
    BY <2>1, <2>2 DEF HeldBy
  <2>4. Around(b, m) # B
    BY <1>5, <2>1, <2>2, <2>3
  <2>5. ~ FreeIn(F, b, h[b])
    BY <2>2, <2>3, OneOwner
  <2>6. ~ FreeIn(F2, b, h[b])
    BY <1>10, <2>2, <2>4, <2>5
  <2> QED
    BY <2>1, <2>2, <2>6 DEF FreeIn
<1>15. Tiling(F2, h2)
  <2>1. F2 \in [Levels -> SUBSET Units]
    BY <1>7, <1>13
  <2>2. DOMAIN h2 \subseteq Units /\ h2 \in [DOMAIN h2 -> Levels]
    BY <1>6, <1>14
  <2> QED
    BY <1>12, <1>13, <1>14, <2>1, <2>2 DEF Tiling
<1>16. Merged(F2)
  <2> SUFFICES ASSUME NEW j \in Levels \ {level - 1}, NEW b \in F2[j],
                      Around(b, j + 1) = b, b + Size[j] \in F2[j]
               PROVE  FALSE
    BY DEF Merged
  <2>1. j = m
    BY <1>8 DEF Merged
  <2>2. /\ m # sz /\ m + 1 \in 0 .. sz /\ m + 1 \in m .. sz /\ m < level - 1
        /\ m + 1 \in m + 1 .. sz /\ b \in Nat
    <3>1. m < level - 1
      BY <1>0, <2>1
    <3>2. b \in Nat
      BY <1>0, <1>13
    <3> QED
      BY <1>0, <1>2, <3>1, <3>2
  <2>3. /\ Around(b, m) = b /\ Around(b + Size[m], m) = b + Size[m]
        /\ Around(b + Size[m], m + 1) = b
        /\ \A u \in Nat : Around(u, m + 1) = b => Around(u, m) \in {b, b + Size[m]}
    BY <1>2, <2>1, <2>2, Halves
  <2>4. B \in {b, b + Size[m]}
    <3> SUFFICES ASSUME B \notin {b, b + Size[m]} PROVE FALSE
      OBVIOUS
    <3>1. b \in F[m] /\ b + Size[m] \in F[m]
      BY <1>7, <2>1
    <3> QED
      BY <2>1, <3>1 DEF Merged
  <2>5. Around(a, m + 1) = b
    <3>1. Around(Around(a, m), m + 1) = Around(a, m + 1)
      BY <1>2, <2>2, AroundAround
    <3> QED
      BY <2>1, <2>3, <2>4, <3>1
  <2>6. PICK t \in bits : t \in Block(b, m + 1)
    BY <2>2, <2>5
  <2>7. PICK c \in DOMAIN h : t = c + Size[h[c]] - 1
    BY <2>6 DEF Tails
  <2>8. t \in Units /\ HeldBy(h, t, h[c]) /\ h[c] \in Levels
    BY <2>7, TailOwned DEF Tiling
  <2>9. Around(t, m) \in {b, b + Size[m]}
    <3>1. t \in Nat
      BY <1>0, <2>8
    <3>2. Around(t, m + 1) = b
      BY <2>1, <2>2, <2>6, <3>1, UnitsOfBlock
    <3> QED
      BY <2>3, <3>1, <3>2
  <2>10. Around(t, m) # B
    <3> SUFFICES ASSUME Around(t, m) = B PROVE FALSE
      OBVIOUS
    <3>1. t \in Block(B, m)
      BY <1>0, <1>2, <2>8, AroundUnit
    <3> QED
      BY <2>6, <3>1
  <2>11. Around(t, m) \in F[m]
    BY <1>7, <2>1, <2>9, <2>10
  <2> QED
    BY <1>2, <2>8, <2>11, OneOwner DEF FreeIn
<1>17. a \notin F[k] /\ B \notin F[m]
  BY <1>1, <1>2, <1>3 DEF FreeIn
<1> QED
  BY <1>1, <1>9, <1>15, <1>16, <1>17 DEF k, F2, h2

-----------------------------------------------------------------------------
\* The inductive invariant.

\* The offsets in the free lists.
FreeSets == [k \in Levels |-> Offsets(buddy[k])]

\* No offset is twice in a list; the blocks in the lists and those that are held
\* tile the arena; no two halves are free; the bitmap has the last units of what
\* is held.
Tidy ==
  /\ \A k \in Levels : Distinct(buddy[k])
  /\ Tiling(FreeSets, held)
  /\ Merged(FreeSets)
  /\ tails = Tails(held)

Inv == TypeOK /\ Tidy /\ FailsOnlyWhenFull

\* The lists are empty or not, as their sets are.
LEMMA FreeFacts ==
  ASSUME TypeOK
  PROVE  /\ \A k \in Levels : /\ Free(k) = Offsets(buddy[k])
                              /\ FreeSets[k] = Offsets(buddy[k])
                              /\ buddy[k] \in Seq(Units)
                              /\ buddy[k] = <<>> <=> Offsets(buddy[k]) = {}
<1> SUFFICES ASSUME NEW k \in Levels
             PROVE  /\ Free(k) = Offsets(buddy[k])
                    /\ FreeSets[k] = Offsets(buddy[k])
                    /\ buddy[k] \in Seq(Units)
                    /\ buddy[k] = <<>> <=> Offsets(buddy[k]) = {}
  OBVIOUS
<1>1. buddy[k] \in Seq(Units)
  BY DEF TypeOK
<1>2. ASSUME NEW l \in Seq(Units)
      PROVE  l = <<>> <=> Offsets(l) = {}
  <2>1. CASE l = <<>>
    <3>1. DOMAIN l = {}
      BY <2>1
    <3> QED
      BY <2>1, <3>1 DEF Offsets
  <2>2. CASE l # <<>>
    <3>1. 1 \in DOMAIN l
      BY <2>2
    <3>2. l[1] \in Offsets(l)
      BY <3>1 DEF Offsets
    <3> QED
      BY <2>2, <3>2
  <2> QED
    BY <2>1, <2>2
<1>3. Free(k) = Offsets(buddy[k])
  BY Zenon DEF Free, Offsets
<1>4. FreeSets[k] = Offsets(buddy[k])
  BY DEF FreeSets
<1> QED
  BY <1>1, <1>2, <1>3, <1>4

\* The size of a block that is held is found in the bitmap.
LEMMA SizeFound ==
  ASSUME TypeOK, Tidy, NEW a \in DOMAIN held
  PROVE  SizeAt(a) = held[a]
<1> DEFINE k == held[a]
           hits == {j \in Levels : a + Size[j] - 1 \in tails}
<1>1. /\ Levels \subseteq Nat /\ Units \subseteq Nat
      /\ \A j \in Levels : j \in 0 .. sz
  BY LevelsOfArena
<1>2. a \in Units /\ k \in Levels /\ a \in Nat
  BY <1>1 DEF TypeOK
<1>3. k \in hits
  BY <1>2 DEF Tidy, Tails
<1>4. ASSUME NEW j \in hits
      PROVE  k <= j
  <2>0. j \in Nat /\ k \in Nat
    BY <1>1, <1>2
  <2> SUFFICES ASSUME j < k PROVE FALSE
    <3> HIDE DEF k, hits
    <3> QED
      BY <2>0
  <2> DEFINE t == a + Size[j] - 1
  <2>1. /\ Size[j] \in Nat \ {0} /\ Size[k] \in Nat \ {0}
        /\ Size[j] < Size[k]
    <3>1. j \in 0 .. sz /\ k \in 0 .. sz
      BY <1>1, <1>2
    <3>2. Size[j] \in Nat \ {0} /\ Size[k] \in Nat \ {0} /\ 2 * Size[j] <= Size[k]
      BY <3>1, SizeType, SizeOrder
    <3> QED
      BY <3>2
  <2>2. t \in Block(a, k)
    BY <1>2, <2>1 DEF Block
  <2>3. Tiling(FreeSets, held)
    BY DEF Tidy
  <2>4. t \in Units /\ Around(t, k) = a /\ HeldBy(held, t, k)
    BY <1>2, <2>2, <2>3, Owned
  <2>5. PICK c \in DOMAIN held : t = c + Size[held[c]] - 1
    BY DEF Tidy, Tails
  <2>6. HeldBy(held, t, held[c]) /\ Around(t, held[c]) = c /\ held[c] \in Levels
    BY <2>3, <2>5, TailOwned DEF TypeOK
  <2>7. held[c] = k
    BY <1>2, <2>3, <2>4, <2>6, OneOwner
  <2>8. c = a
    BY <2>4, <2>6, <2>7
  <2> QED
    BY <1>2, <2>1, <2>5, <2>8
<1>5. \A i \in hits : (\A j \in hits : i <= j) => i = k
  <2>1. hits \subseteq Nat
    BY <1>1
  <2> HIDE DEF hits, k
  <2> QED
    BY <1>3, <1>4, <2>1
<1>6. SizeAt(a) = CHOOSE i \in hits : \A j \in hits : i <= j
  BY DEF SizeAt
<1> HIDE DEF hits, k
<1> QED
  BY <1>3, <1>4, <1>5, <1>6 DEF k

\* The level a request is served from, and the lists after it.
LEMMA SplitServes ==
  ASSUME TypeOK, Tidy, NEW k \in Levels, Stocked(k) # {},
         NEW m, m = SplitFrom(k), NEW a, a = Head(buddy[m])
  PROVE  /\ m \in Levels /\ k \in 0 .. m /\ a \in FreeSets[m]
         /\ \A j \in k .. m - 1 : FreeSets[j] = {}
         /\ SplitLists(k) \in [Levels -> Seq(Units)]
         /\ \A j \in Levels : Distinct(SplitLists(k)[j])
         /\ [j \in Levels |-> Offsets(SplitLists(k)[j])]
              = SplitSets(FreeSets, a, k, m)
<1>0. /\ sz \in Nat /\ level \in Nat \ {0} /\ Levels = 0 .. level - 1
      /\ level <= sz /\ Units \subseteq Nat
  BY LevelsOfArena
<1>1. m \in Stocked(k) /\ \A i \in Stocked(k) : m <= i
  <2>1. \E j \in Stocked(k) : \A i \in Stocked(k) : j <= i
    <3>1. Stocked(k) \subseteq Nat
      BY <1>0 DEF Stocked
    <3> QED
      BY <3>1, LeastNatural
  <2> QED
    BY <2>1 DEF SplitFrom
<1>2. m \in k .. level - 1 /\ buddy[m] # <<>>
  BY <1>1 DEF Stocked
<1>3. m \in Levels /\ k \in 0 .. m
  BY <1>0, <1>2
<1>4. ASSUME NEW j \in k .. m - 1
      PROVE  j \in Levels /\ j \in 0 .. m - 1 /\ buddy[j] = <<>>
  <2>1. j \in k .. level - 1 /\ j \in Levels /\ ~ (m <= j) /\ j \in 0 .. m - 1
    BY <1>0, <1>2, <1>3
  <2> QED
    BY <1>1, <2>1 DEF Stocked
<1>5. /\ a \in Offsets(buddy[m]) /\ Tail(buddy[m]) \in Seq(Units)
      /\ Offsets(Tail(buddy[m])) = Offsets(buddy[m]) \ {a}
      /\ Distinct(Tail(buddy[m]))
  <2>1. buddy[m] \in Seq(Units) /\ Distinct(buddy[m])
    BY <1>3, FreeFacts DEF Tidy
  <2> QED
    BY <1>2, <2>1, RestOfList
<1>6. a \in Units /\ Around(a, m) = a
  BY <1>3, <1>5, FreeFacts DEF Tidy, Tiling
<1>7. \A j \in Levels :
        SplitLists(k)[j] = IF j = m THEN Tail(buddy[j])
                           ELSE IF j \in k .. m - 1 THEN <<a + Size[j]>>
                           ELSE buddy[j]
  BY DEF SplitLists
<1>8. ASSUME NEW j \in Levels
      PROVE  /\ SplitLists(k)[j] \in Seq(Units)
             /\ Distinct(SplitLists(k)[j])
             /\ Offsets(SplitLists(k)[j])
                  = IF j = m THEN FreeSets[j] \ {a}
                    ELSE IF j \in k .. m - 1 THEN {a + Size[j]} ELSE FreeSets[j]
  <2>1. CASE j = m
    BY <1>5, <1>7, <2>1, FreeFacts
  <2>2. CASE j # m /\ j \in k .. m - 1
    <3>1. a + Size[j] \in Units
      BY <1>3, <1>4, <1>6, <2>2, LeftOver
    <3>2. SplitLists(k)[j] = <<a + Size[j]>>
      BY <1>7, <2>2
    <3> QED
      BY <2>2, <3>1, <3>2, OneBlock
  <2>3. CASE j # m /\ j \notin k .. m - 1
    <3>1. SplitLists(k)[j] = buddy[j]
      BY <1>7, <2>3
    <3> QED
      BY <2>3, <3>1, FreeFacts DEF Tidy
  <2> QED
    BY <2>1, <2>2, <2>3
<1>9. SplitLists(k) = [j \in Levels |-> SplitLists(k)[j]]
  BY DEF SplitLists
<1>10. SplitLists(k) \in [Levels -> Seq(Units)]
  BY <1>8, <1>9
<1>11. [j \in Levels |-> Offsets(SplitLists(k)[j])] = SplitSets(FreeSets, a, k, m)
  BY <1>8 DEF SplitSets
<1>12. \A j \in k .. m - 1 : FreeSets[j] = {}
  BY <1>4, FreeFacts
<1>13. a \in FreeSets[m]
  BY <1>3, <1>5, FreeFacts
<1> QED
  BY <1>3, <1>8, <1>10, <1>11, <1>12, <1>13

\* The level up to which a returned block is merged, and the lists after it.
LEMMA MergeReaches ==
  ASSUME TypeOK, Tidy, NEW a \in DOMAIN held, NEW k, k = held[a],
         NEW bits, bits = Unflagged(a, k), NEW m, m = MergeTo(a, k, bits)
  PROVE  /\ m \in k .. level - 1
         /\ bits = Tails(held) \ {a + Size[held[a]] - 1}
         /\ Block(Around(a, m), m) \cap bits = {}
         /\ m < level - 1 => Block(Around(a, m + 1), m + 1) \cap bits # {}
<1>0. /\ sz \in Nat /\ level \in Nat \ {0} /\ Levels = 0 .. level - 1
      /\ level <= sz /\ Units \subseteq Nat
  BY LevelsOfArena
<1>1. Tiling(FreeSets, held)
  BY DEF Tidy
<1>2. a \in Units /\ k \in Levels /\ Around(a, k) = a
  BY <1>1 DEF Tiling
<1>3. bits = Tails(held) \ {a + Size[held[a]] - 1}
  BY DEF Unflagged, Tidy
<1>4. k \in Merges(a, k, bits)
  <2>1. ASSUME NEW t \in bits, t \in Block(a, k)
        PROVE  FALSE
    <3>1. PICK c \in DOMAIN held : t = c + Size[held[c]] - 1
      BY <1>3 DEF Tails
    <3>2. HeldBy(held, t, held[c]) /\ Around(t, held[c]) = c /\ held[c] \in Levels
      BY <1>1, <3>1, TailOwned DEF TypeOK
    <3>3. t \in Units /\ Around(t, k) = a /\ HeldBy(held, t, k)
      BY <1>1, <1>2, <2>1, Owned
    <3>4. held[c] = k
      BY <1>1, <1>2, <3>2, <3>3, OneOwner
    <3>5. c = a
      BY <3>2, <3>3, <3>4
    <3> QED
      BY <1>3, <3>1, <3>5
  <2>2. Block(Around(a, k), k) \cap bits = {}
    BY <1>2, <2>1
  <2>3. k \in k .. level - 1
    BY <1>0, <1>2
  <2> QED
    BY <2>2, <2>3 DEF Merges
<1>5. m \in Merges(a, k, bits) /\ \A i \in Merges(a, k, bits) : i <= m
  <2> DEFINE T == {n \in 0 .. level - 1 : level - 1 - n \in Merges(a, k, bits)}
  <2>1. \A i \in Merges(a, k, bits) : i \in 0 .. level - 1 /\ level - 1 - i \in T
    <3>1. ASSUME NEW i \in Merges(a, k, bits)
          PROVE  i \in 0 .. level - 1 /\ level - 1 - i \in T
      <4>1. i \in k .. level - 1
        BY DEF Merges
      <4>2. /\ i \in 0 .. level - 1 /\ level - 1 - i \in 0 .. level - 1
            /\ level - 1 - (level - 1 - i) = i
        BY <1>0, <1>2, <4>1
      <4> QED
        BY <4>2
    <3> QED
      BY <3>1
  <2>2. T \subseteq Nat
    OBVIOUS
  <2>3. PICK n \in T : \A l \in T : n <= l
    <3>1. T # {}
      BY <1>4, <2>1
    <3> HIDE DEF T
    <3> QED
      BY <2>2, <3>1, LeastNatural
  <2> DEFINE j == level - 1 - n
  <2>4. j \in Merges(a, k, bits) /\ n \in 0 .. level - 1
    BY <2>3
  <2>5. ASSUME NEW i \in Merges(a, k, bits)
        PROVE  i <= j
    <3>1. n <= level - 1 - i /\ i \in 0 .. level - 1
      BY <2>1, <2>3
    <3> QED
      BY <1>0, <2>4, <3>1
  <2> HIDE DEF T, j
  <2> QED
    BY <2>4, <2>5 DEF MergeTo
<1>6. m \in k .. level - 1 /\ Block(Around(a, m), m) \cap bits = {}
  BY <1>5 DEF Merges
<1>7. ASSUME m < level - 1
      PROVE  Block(Around(a, m + 1), m + 1) \cap bits # {}
  <2>1. m + 1 \in k .. level - 1 /\ ~ (m + 1 <= m)
    BY <1>0, <1>2, <1>6, <1>7
  <2>2. m + 1 \notin Merges(a, k, bits)
    BY <1>5, <2>1
  <2> QED
    BY <2>1, <2>2 DEF Merges
<1> QED
  BY <1>3, <1>6, <1>7

\* The lists after a merge.
LEMMA MergeReturns ==
  ASSUME TypeOK, Tidy, NEW a \in Units, NEW k \in Levels, NEW bits,
         NEW m \in k .. level - 1, m = MergeTo(a, k, bits), Around(a, k) = a,
         Around(a, m) \notin FreeSets[m]
  PROVE  /\ MergedLists(a, k, bits) \in [Levels -> Seq(Units)]
         /\ \A j \in Levels : Distinct(MergedLists(a, k, bits)[j])
         /\ [j \in Levels |-> Offsets(MergedLists(a, k, bits)[j])]
              = MergeSets(FreeSets, a, k, m)
<1> DEFINE M == MergedLists(a, k, bits)
           halves(j) == {Around(a, j + 1), Around(a, j + 1) + Size[j]}
<1>0. /\ sz \in Nat /\ level \in Nat \ {0} /\ Levels = 0 .. level - 1
      /\ level <= sz /\ Units \subseteq Nat
  BY LevelsOfArena
<1>1. m \in Levels /\ m \in 0 .. sz /\ m \notin k .. m - 1
  BY <1>0
<1>2. \A j \in Levels :
        M[j] = IF j \in k .. m - 1 THEN Without(buddy[j], halves(j))
               ELSE IF j # m THEN buddy[j]
               ELSE IF m = k THEN Insert(buddy[k], a)
               ELSE <<Around(a, m)>> \o buddy[m]
  BY DEF MergedLists
<1>3. M = [j \in Levels |-> M[j]]
  BY DEF MergedLists
<1> HIDE DEF M
<1>4. ASSUME NEW j \in Levels
      PROVE  /\ M[j] \in Seq(Units)
             /\ Distinct(M[j])
             /\ Offsets(M[j]) = IF j \in k .. m - 1 THEN FreeSets[j] \ halves(j)
                                ELSE IF j = m THEN FreeSets[j] \cup {Around(a, m)}
                                ELSE FreeSets[j]
  <2>0. buddy[j] \in Seq(Units) /\ Distinct(buddy[j]) /\ FreeSets[j] = Offsets(buddy[j])
    BY FreeFacts DEF Tidy
  <2>1. CASE j \in k .. m - 1
    <3>1. M[j] = Without(buddy[j], halves(j))
      BY <1>2, <2>1
    <3> HIDE DEF halves
    <3> QED
      BY <2>0, <2>1, <3>1, TakenOut
  <2>2. CASE j # m /\ j \notin k .. m - 1
    BY <1>2, <2>0, <2>2
  <2>3. CASE j = m /\ m = k
    <3>1. M[j] = Insert(buddy[j], a) /\ Around(a, m) = a
      BY <1>1, <1>2, <2>3
    <3>2. a \notin Offsets(buddy[j])
      BY <2>0, <2>3, <3>1
    <3> QED
      BY <1>1, <2>0, <2>3, <3>1, <3>2, Inserted
  <2>4. CASE j = m /\ m # k
    <3> DEFINE o == <<Around(a, m)>>
    <3>1. M[j] = o \o buddy[j]
      BY <1>1, <1>2, <2>4
    <3>2. Around(a, m) \in Units
      BY <1>1, InsideArena
    <3>3. o \in Seq(Units) /\ Offsets(o) = {Around(a, m)} /\ Distinct(o)
      BY <3>2, OneBlock
    <3>4. Offsets(o) \cap Offsets(buddy[j]) = {}
      BY <2>0, <2>4, <3>3
    <3> HIDE DEF o
    <3>5. /\ o \o buddy[j] \in Seq(Units) /\ Distinct(o \o buddy[j])
          /\ Offsets(o \o buddy[j]) = Offsets(o) \cup Offsets(buddy[j])
      BY <2>0, <3>3, <3>4, Chained
    <3> QED
      BY <1>1, <2>0, <2>4, <3>1, <3>3, <3>5
  <2> QED
    BY <2>1, <2>2, <2>3, <2>4
<1>5. M \in [Levels -> Seq(Units)]
  BY <1>3, <1>4
<1>6. [j \in Levels |-> Offsets(M[j])] = MergeSets(FreeSets, a, k, m)
  BY <1>4 DEF MergeSets
<1> QED
  BY <1>4, <1>5, <1>6 DEF M

-----------------------------------------------------------------------------
\* The invariance.

\* At the start the blocks of the highest level tile the arena.
LEMMA StartTidy == Init => Inv
<1> SUFFICES ASSUME Init PROVE Inv
  OBVIOUS
<1> DEFINE n == Size[sz - level + 1]
           s == Size[level - 1]
           q == level - 1
<1>0. /\ sz \in Nat /\ level \in Nat \ {0} /\ Levels = 0 .. level - 1
      /\ level <= sz /\ Units \subseteq Nat
  BY LevelsOfArena
<1>1. n \in Nat \ {0} /\ s \in Nat \ {0} /\ n * s = Size[sz] /\ Size[sz] \in Nat \ {0}
  <2>1. /\ sz - level + 1 \in Nat /\ q \in Nat /\ sz - level + 1 + q = sz
        /\ sz - level + 1 \in 0 .. sz /\ q \in 0 .. sz /\ sz \in 0 .. sz
    BY <1>0
  <2>2. Size[sz - level + 1 + q] = n * s
    BY <2>1, SizeSum
  <2> QED
    BY <2>1, <2>2, SizeType
<1>2. Units = 0 .. n * s - 1
  BY <1>1 DEF Units
<1>3. q \in Levels /\ q \in 0 .. sz
  BY <1>0
<1>4. buddy = [k \in Levels |-> IF k = q THEN TopBlocks ELSE <<>>]
  BY DEF Init
<1>5. TopBlocks = [i \in 1 .. n |-> (i - 1) * s]
  BY DEF TopBlocks
<1> HIDE DEF n, s, q
<1>6. /\ TopBlocks \in Seq(Units) /\ DOMAIN TopBlocks = 1 .. n
      /\ \A i \in 1 .. n : TopBlocks[i] = (i - 1) * s /\ TopBlocks[i] \in Units
  <2>1. ASSUME NEW i \in 1 .. n
        PROVE  (i - 1) * s \in Units
    <3>1. i - 1 \in Nat /\ i - 1 < n
      BY <1>1
    <3>2. (i - 1) * s + s <= n * s
      BY <1>1, <3>1, Multiples
    <3>3. (i - 1) * s \in Nat
      BY <1>1, <3>1
    <3> QED
      BY <1>1, <1>2, <3>2, <3>3
  <2>2. TopBlocks \in [1 .. n -> Units]
    BY <1>5, <2>1
  <2>3. TopBlocks \in Seq(Units)
    BY <1>1, <2>2, IsASeq
  <2> QED
    BY <1>5, <2>1, <2>3
<1>7. Offsets(TopBlocks) = {(i - 1) * s : i \in 1 .. n}
  BY <1>6 DEF Offsets
<1>8. Distinct(TopBlocks)
  <2> SUFFICES ASSUME NEW i \in 1 .. n, NEW j \in 1 .. n, (i - 1) * s = (j - 1) * s
               PROVE  i = j
    BY <1>6 DEF Distinct
  <2>1. i - 1 \in Nat /\ j - 1 \in Nat
    BY <1>1
  <2>2. ((i - 1) * s) \div s = i - 1 /\ ((j - 1) * s) \div s = j - 1
    BY <1>1, <2>1, Multiples
  <2> QED
    BY <2>1, <2>2
<1>9. /\ DOMAIN held = {} /\ held = [a \in {} |-> 0] /\ tails = {}
      /\ failed = NoLevel
  BY DEF Init, ArenaInit
<1>10. TypeOK
  <2>1. \A k \in Levels : (IF k = q THEN TopBlocks ELSE <<>>) \in Seq(Units)
    BY <1>6
  <2>2. buddy \in [Levels -> Seq(Units)]
    BY <1>4, <2>1
  <2>3. held \in [DOMAIN held -> Levels]
    BY <1>9
  <2> QED
    BY <1>9, <2>2, <2>3 DEF TypeOK
<1>11. ASSUME NEW k \in Levels
       PROVE  /\ Distinct(buddy[k])
              /\ FreeSets[k] = IF k = q THEN {(i - 1) * s : i \in 1 .. n} ELSE {}
  <2>1. CASE k = q
    BY <1>4, <1>7, <1>8, <2>1 DEF FreeSets
  <2>2. CASE k # q
    <3>1. buddy[k] = <<>> /\ DOMAIN buddy[k] = {}
      BY <1>4, <2>2
    <3> QED
      BY <2>2, <3>1 DEF FreeSets, Offsets, Distinct
  <2> QED
    BY <2>1, <2>2
<1>12. ASSUME NEW i \in 1 .. n
       PROVE  (i - 1) * s \in Units /\ Around((i - 1) * s, q) = (i - 1) * s
  <2>1. (i - 1) * s \in Units
    BY <1>6
  <2>2. i - 1 \in Nat
    BY <1>1
  <2>3. ((i - 1) * s) \div s = i - 1
    BY <1>1, <2>2, Multiples
  <2> QED
    BY <2>1, <2>3 DEF Around, s, q
<1>13. ASSUME NEW u \in Units
       PROVE  FreeIn(FreeSets, u, q)
  <2> DEFINE d == u \div s
  <2>1. u \in Nat /\ u < n * s
    BY <1>1, <1>2
  <2>2. d \in Nat /\ d * s <= u
    BY <1>1, <2>1, Multiples
  <2> HIDE DEF d
  <2>3. d < n
    <3>1. n < d => n * s + s <= d * s
      BY <1>1, <2>2, Multiples
    <3>2. n * s \in Nat /\ d * s \in Nat /\ n # d
      BY <1>1, <2>1, <2>2
    <3> QED
      BY <1>1, <2>1, <2>2, <3>1, <3>2
  <2>4. d + 1 \in 1 .. n /\ d + 1 - 1 = d
    BY <1>1, <2>2, <2>3
  <2>5. d * s \in {(i - 1) * s : i \in 1 .. n}
    <3>1. \E i \in 1 .. n : i - 1 = d
      BY <1>1, <2>2, <2>4
    <3> QED
      BY <3>1
  <2>6. Around(u, q) = d * s
    BY DEF Around, d, s, q
  <2> QED
    BY <1>3, <1>11, <2>5, <2>6 DEF FreeIn
<1>14. Tiling(FreeSets, held)
  <2>0. ASSUME NEW k \in Levels, NEW a \in FreeSets[k]
        PROVE  a \in Units /\ Around(a, k) = a
    <3>1. k = q /\ a \in {(i - 1) * s : i \in 1 .. n}
      BY <1>11
    <3> QED
      BY <1>12, <3>1
  <2>1. FreeSets \in [Levels -> SUBSET Units]
    <3>1. \A k \in Levels : FreeSets[k] \subseteq Units
      BY <2>0
    <3> QED
      BY <3>1 DEF FreeSets
  <2>2. \A k \in Levels : \A a \in FreeSets[k] : Around(a, k) = a
    BY <2>0
  <2>3. \A u \in Units : \E k \in Levels :
          /\ FreeIn(FreeSets, u, k) \/ HeldBy(held, u, k)
          /\ \A j \in Levels : FreeIn(FreeSets, u, j) \/ HeldBy(held, u, j) => j = k
    <3>1. \A u, j : ~ HeldBy(held, u, j)
      BY <1>9 DEF HeldBy
    <3>2. \A u \in Units, j \in Levels : FreeIn(FreeSets, u, j) => j = q
      BY <1>11 DEF FreeIn
    <3> QED
      BY <1>3, <1>13, <3>1, <3>2
  <2> QED
    BY <1>9, <1>10, <2>1, <2>2, <2>3 DEF Tiling, TypeOK
<1>15. Merged(FreeSets)
  BY <1>11 DEF Merged, q
<1>16. tails = Tails(held)
  BY <1>9 DEF Tails
<1>17. FailsOnlyWhenFull
  BY <1>9 DEF FailsOnlyWhenFull
<1> QED
  BY <1>10, <1>11, <1>14, <1>15, <1>16, <1>17 DEF Inv, Tidy

\* A request that succeeds takes a place of the arena.
LEMMA AllocStep ==
  ASSUME TypeOK, Tidy, NEW k \in Levels, Alloc(k)
  PROVE  TypeOK' /\ Tidy' /\ FailsOnlyWhenFull' /\ Obtain(k)
<1> DEFINE m == SplitFrom(k)
           a == Head(buddy[m])
<1>1. /\ Stocked(k) # {} /\ held' = Holding(held, a, k)
      /\ tails' = tails \cup {a + Size[k] - 1} /\ buddy' = SplitLists(k)
      /\ failed' = NoLevel
  BY DEF Alloc, Holding, Flagged
<1>2. /\ m \in Levels /\ k \in 0 .. m /\ a \in FreeSets[m]
      /\ \A j \in k .. m - 1 : FreeSets[j] = {}
      /\ SplitLists(k) \in [Levels -> Seq(Units)]
      /\ \A j \in Levels : Distinct(SplitLists(k)[j])
      /\ [j \in Levels |-> Offsets(SplitLists(k)[j])] = SplitSets(FreeSets, a, k, m)
  BY <1>1, SplitServes
<1> HIDE DEF m, a
<1>3. Tiling(FreeSets, held) /\ Merged(FreeSets) /\ tails = Tails(held)
  BY DEF Tidy
<1>4. FreeSets' = SplitSets(FreeSets, a, k, m)
  BY <1>1, <1>2 DEF FreeSets
<1>5. /\ a \notin DOMAIN held
      /\ Tiling(FreeSets', held') /\ Merged(FreeSets') /\ tails' = Tails(held')
  BY <1>1, <1>2, <1>3, <1>4, SplitTiling
<1>6. TypeOK'
  <2>1. tails' \subseteq Units
    <3>1. Tiling(FreeSets', held') /\ tails' = Tails(held')
      BY <1>5
    <3>2. \A c \in DOMAIN held' : c + Size[held'[c]] - 1 \in Units
      BY <3>1, TailOwned
    <3> QED
      BY <3>1, <3>2 DEF Tails
  <2>2. DOMAIN held' \subseteq Units /\ held' \in [DOMAIN held' -> Levels]
    BY <1>5 DEF Tiling
  <2> QED
    BY <1>1, <1>2, <2>1, <2>2 DEF TypeOK
<1>7. Tidy'
  BY <1>1, <1>2, <1>5 DEF Tidy
<1>8. a \in Places(k)
  <2>1. a \in Units /\ Around(a, m) = a
    BY <1>2, <1>3 DEF Tiling
  <2>2. /\ k \in 0 .. sz /\ m \in 0 .. sz /\ m \in k .. sz /\ a \in Nat
        /\ Units \subseteq Nat
    BY <1>2, <2>1, LevelsOfArena
  <2>3. Around(a, k) = a /\ a % Size[k] = 0
    BY <2>1, <2>2, AlignedBelow, Aligned
  <2>4. ASSUME NEW u \in Block(a, k), NEW c \in DOMAIN held, u \in Block(c, held[c])
        PROVE  FALSE
    <3>1. u \in Units /\ Around(u, k) = a
      <4>1. Block(a, k) \subseteq Units
        BY <2>1, <2>2, <2>3, InsideArena
      <4> QED
        BY <2>2, <2>3, <2>4, <4>1, UnitsOfBlock
    <3>2. Around(Around(u, k), m) = Around(u, m)
      BY <2>2, <3>1, AroundAround
    <3>3. FreeIn(FreeSets, u, m)
      BY <1>2, <2>1, <3>1, <3>2 DEF FreeIn
    <3>4. held[c] \in Levels
      BY DEF TypeOK
    <3>5. HeldBy(held, u, held[c])
      BY <1>3, <2>4, <3>1, <3>4, Owned
    <3> QED
      BY <1>2, <1>3, <3>1, <3>3, <3>4, <3>5, OneOwner
  <2>5. Block(a, k) \cap Taken = {}
    BY <2>4 DEF Taken
  <2> QED
    BY <2>1, <2>3, <2>5 DEF Places
<1>9. Obtain(k)
  BY <1>1, <1>8 DEF Obtain, Holding
<1> QED
  BY <1>1, <1>6, <1>7, <1>9 DEF FailsOnlyWhenFull, NoLevel

\* A request that fails finds no place in the arena.
LEMMA AllocFailsStep ==
  ASSUME TypeOK, Tidy, NEW k \in Levels, AllocFails(k)
  PROVE  TypeOK' /\ Tidy' /\ FailsOnlyWhenFull' /\ UNCHANGED held
<1>1. Stocked(k) = {} /\ failed' = k /\ UNCHANGED <<held, buddy, tails>>
  BY DEF AllocFails
<1>2. TypeOK'
  BY <1>1 DEF TypeOK
<1>3. FreeSets' = FreeSets
  BY <1>1 DEF FreeSets
<1>4. Tidy'
  BY <1>1, <1>3 DEF Tidy
<1>5. Tiling(FreeSets, held) /\ Merged(FreeSets)
  BY DEF Tidy
<1>6. ASSUME NEW b \in Places(k)
      PROVE  FALSE
  <2>1. b \in Units /\ b % Size[k] = 0 /\ Block(b, k) \cap Taken = {}
    BY DEF Places
  <2>2. k \in 0 .. sz /\ b \in Nat /\ Units \subseteq Nat /\ Levels = 0 .. level - 1
    BY <2>1, LevelsOfArena
  <2>3. Around(b, k) = b
    BY <2>1, <2>2, Aligned
  <2>4. ASSUME NEW u \in Units, Around(u, k) = b, NEW j \in Levels, HeldBy(held, u, j)
        PROVE  FALSE
    <3> DEFINE c == Around(u, j)
    <3>1. u \in Block(b, k)
      BY <2>2, <2>3, <2>4, UnitsOfBlock
    <3>2. c \in DOMAIN held /\ held[c] = j
      BY <2>4 DEF HeldBy
    <3>3. u \in Block(c, held[c])
      BY <1>5, <2>4, <3>2, Owned
    <3>4. u \in Taken
      BY <3>2, <3>3 DEF Taken
    <3> QED
      BY <2>1, <3>1, <3>4
  <2>5. PICK i \in k .. level - 1 : Around(b, i) \in FreeSets[i]
    BY <1>5, <2>1, <2>3, <2>4, FullyFree
  <2>6. i \in Levels
    BY <2>2
  <2>7. buddy[i] # <<>>
    BY <2>5, <2>6, FreeFacts
  <2> QED
    BY <1>1, <2>5, <2>7 DEF Stocked
<1>7. FailsOnlyWhenFull'
  <2>1. Places(k)' = Places(k)
    BY <1>1 DEF Places, Taken, Block
  <2> QED
    BY <1>1, <1>6, <2>1 DEF FailsOnlyWhenFull, Places, Taken, Block
<1> QED
  BY <1>1, <1>2, <1>4, <1>7

\* A block that is returned is merged with what is free around it.
LEMMA FreeStep ==
  ASSUME TypeOK, Tidy, NEW a \in DOMAIN held, FreeBlock(a)
  PROVE  TypeOK' /\ Tidy' /\ FailsOnlyWhenFull' /\ GiveBack(a)
<1> DEFINE k == held[a]
           m == MergeTo(a, k, tails')
<1>1. SizeAt(a) = k
  BY SizeFound
<1>2. /\ held' = Returned(held, a) /\ tails' = Unflagged(a, k)
      /\ buddy' = MergedLists(a, k, tails') /\ failed' = NoLevel
  BY <1>1 DEF FreeBlock, Returned
<1>3. Tiling(FreeSets, held) /\ Merged(FreeSets)
  BY DEF Tidy
<1>4. /\ m \in k .. level - 1
      /\ tails' = Tails(held) \ {a + Size[held[a]] - 1}
      /\ Block(Around(a, m), m) \cap tails' = {}
      /\ m < level - 1 => Block(Around(a, m + 1), m + 1) \cap tails' # {}
  BY <1>2, MergeReaches
<1>5. k \in Levels /\ Around(a, k) = a
  BY <1>3 DEF Tiling
<1> HIDE DEF m
<1>6. /\ a \in Units /\ a \notin FreeSets[k] /\ Around(a, m) \notin FreeSets[m]
      /\ Tiling(MergeSets(FreeSets, a, k, m), held')
      /\ Merged(MergeSets(FreeSets, a, k, m))
      /\ Tails(held') = tails'
  BY <1>2, <1>3, <1>4, MergeTiling
<1>7. /\ buddy' \in [Levels -> Seq(Units)]
      /\ \A j \in Levels : Distinct(buddy'[j])
      /\ [j \in Levels |-> Offsets(buddy'[j])] = MergeSets(FreeSets, a, k, m)
  <2> DEFINE bits == tails'
  <2>1. /\ buddy' = MergedLists(a, k, bits) /\ m = MergeTo(a, k, bits)
        /\ m \in k .. level - 1
    BY <1>2, <1>4 DEF m
  <2> HIDE DEF bits, k
  <2>2. /\ MergedLists(a, k, bits) \in [Levels -> Seq(Units)]
        /\ \A j \in Levels : Distinct(MergedLists(a, k, bits)[j])
        /\ [j \in Levels |-> Offsets(MergedLists(a, k, bits)[j])]
             = MergeSets(FreeSets, a, k, m)
    BY <1>5, <1>6, <2>1, MergeReturns
  <2> QED
    BY <2>1, <2>2
<1>8. FreeSets' = MergeSets(FreeSets, a, k, m)
  BY <1>7 DEF FreeSets
<1>9. TypeOK'
  <2>1. tails' \subseteq Units
    BY <1>2 DEF Unflagged, TypeOK
  <2>2. DOMAIN held' \subseteq Units /\ held' \in [DOMAIN held' -> Levels]
    BY <1>6 DEF Tiling
  <2> QED
    BY <1>2, <1>7, <2>1, <2>2 DEF TypeOK
<1>10. Tidy'
  BY <1>6, <1>7, <1>8 DEF Tidy
<1>11. GiveBack(a)
  BY <1>2 DEF GiveBack, Returned
<1> QED
  BY <1>2, <1>9, <1>10, <1>11 DEF FailsOnlyWhenFull, NoLevel

\* Every step keeps the invariant and is a step of the arena, or stutters there.
LEMMA StepTidy == Inv /\ [Next]_vars => Inv' /\ [ArenaNext]_held
<1> SUFFICES ASSUME Inv, [Next]_vars
             PROVE  Inv' /\ [ArenaNext]_held
  OBVIOUS
<1>1. TypeOK /\ Tidy /\ FailsOnlyWhenFull
  BY DEF Inv
<1>2. ASSUME NEW k \in Levels, Alloc(k)
      PROVE  Inv' /\ [ArenaNext]_held
  BY <1>1, <1>2, AllocStep DEF Inv, ArenaNext
<1>3. ASSUME NEW k \in Levels, AllocFails(k)
      PROVE  Inv' /\ [ArenaNext]_held
  BY <1>1, <1>3, AllocFailsStep DEF Inv
<1>4. ASSUME NEW a \in DOMAIN held, FreeBlock(a)
      PROVE  Inv' /\ [ArenaNext]_held
  <2>1. a \in Units
    BY <1>1 DEF TypeOK
  <2> QED
    BY <1>1, <1>4, <2>1, FreeStep DEF Inv, ArenaNext
<1>5. CASE UNCHANGED vars
  <2>1. UNCHANGED <<held, buddy, tails, failed>>
    BY <1>5 DEF vars
  <2>2. FreeSets' = FreeSets
    BY <2>1 DEF FreeSets
  <2>3. TypeOK' /\ Tidy'
    BY <1>1, <2>1, <2>2 DEF TypeOK, Tidy
  <2>4. FailsOnlyWhenFull'
    BY <1>1, <2>1 DEF FailsOnlyWhenFull, Places, Taken, Block
  <2> QED
    BY <2>1, <2>3, <2>4 DEF Inv
<1> QED
  BY <1>2, <1>3, <1>4, <1>5 DEF Next


LEMMA Invariance == Spec => []Inv
<1>1. Inv /\ [Next]_vars => Inv'
  BY StepTidy
<1> QED
  BY <1>1, StartTidy, PTL DEF Spec

-----------------------------------------------------------------------------
\* The theorems.

\* A list without repetition has as many members as places.
LEMMA Counted ==
  ASSUME NEW l \in Seq(Units), Distinct(l)
  PROVE  Cardinality(Offsets(l)) = Len(l)
<1> DEFINE n == Len(l)
<1>1. n \in Nat /\ l \in [1 .. n -> Offsets(l)] /\ DOMAIN l = 1 .. n
  <2>1. n \in Nat /\ DOMAIN l = 1 .. n
    OBVIOUS
  <2>2. l = [i \in 1 .. n |-> l[i]] /\ \A i \in 1 .. n : l[i] \in Offsets(l)
    BY <2>1 DEF Offsets
  <2> QED
    BY <2>1, <2>2
<1>2. l \in Bijection(1 .. n, Offsets(l))
  <2>1. \A i, j \in 1 .. n : l[i] = l[j] => i = j
    BY <1>1 DEF Distinct
  <2>2. \A x \in Offsets(l) : \E i \in 1 .. n : l[i] = x
    BY <1>1 DEF Offsets
  <2> HIDE DEF n
  <2> QED
    BY <1>1, <2>1, <2>2 DEF Bijection, Injection, Surjection, IsInjective
<1>3. ExistsBijection(1 .. n, Offsets(l))
  BY <1>2 DEF ExistsBijection
<1> QED
  BY <1>1, <1>3, FS_CountingElements

\* What the lists and the bitmap of the allocator hold is well formed.
THEOREM TypeCorrect == Spec => []TypeOK
<1>1. Inv => TypeOK
  BY DEF Inv
<1> QED
  BY <1>1, Invariance, PTL

\* The bitmap tells the size of every block that a caller holds, so that
\* buddy_free2 returns what buddy_alloc2 handed out.
THEOREM SizesCorrect == Spec => []SizeIsKnown
<1>1. Inv => SizeIsKnown
  BY SizeFound DEF Inv, SizeIsKnown
<1> QED
  BY <1>1, Invariance, PTL

\* A request fails only when no aligned block of its size is left.
THEOREM FailsCorrect == Spec => []FailsOnlyWhenFull
<1>1. Inv => FailsOnlyWhenFull
  BY DEF Inv
<1> QED
  BY <1>1, Invariance, PTL

\* Two free halves of a block are always merged.
THEOREM MergesCorrect == Spec => []NoFreePair
<1>1. ASSUME Inv, NEW k \in Levels \ {level - 1}, NEW a \in Free(k)
      PROVE  IF a % Size[k + 1] = 0 THEN a + Size[k] \notin Free(k)
                                    ELSE a - Size[k] \notin Free(k)
  <2>1. Tiling(FreeSets, held) /\ Merged(FreeSets) /\ TypeOK
    BY <1>1 DEF Inv, Tidy
  <2>2. FreeSets[k] = Free(k)
    BY <2>1, FreeFacts
  <2>3. a \in Units /\ Around(a, k) = a
    BY <2>1, <2>2 DEF Tiling
  <2>4. /\ k \in 0 .. sz /\ k # sz /\ k + 1 \in 0 .. sz /\ Units \subseteq Nat
        /\ k + 1 \in k + 1 .. sz /\ a \in Nat
    BY <2>3, LevelsOfArena
  <2>5. CASE a % Size[k + 1] = 0
    <3>1. Around(a, k + 1) = a
      BY <2>4, <2>5, Aligned
    <3> QED
      BY <2>1, <2>2, <2>5, <3>1 DEF Merged
  <2>6. CASE a % Size[k + 1] # 0
    <3> DEFINE p == Around(a, k + 1)
    <3>1. p \in Nat /\ Around(p, k + 1) = p /\ p # a
      BY <2>4, <2>6, AroundUnit, AroundAround
    <3> HIDE DEF p
    <3>2. a = p + Size[k]
      <4>1. Around(a, k) \in {p, p + Size[k]}
        BY <2>4, <3>1, Halves DEF p
      <4> QED
        BY <2>3, <3>1, <4>1
    <3>3. Size[k] \in Nat
      BY <2>4, SizeType
    <3>4. p \notin Free(k)
      BY <2>1, <2>2, <3>1, <3>2 DEF Merged
    <3>5. a - Size[k] = p
      BY <3>1, <3>2, <3>3
    <3> QED
      BY <2>6, <3>4, <3>5
  <2> QED
    BY <2>5, <2>6
<1>2. Inv => NoFreePair
  BY <1>1 DEF NoFreePair
<1> QED
  BY <1>2, Invariance, PTL

\* The free lists and the blocks that callers hold cover every unit exactly once:
\* no split or merge loses a unit, hands it out twice or frees it twice.
THEOREM PartitionCorrect == Spec => []Partition
<1>1. ASSUME Inv, NEW k \in Levels
      PROVE  Len(buddy[k]) = Cardinality(Free(k))
  <2>1. TypeOK /\ Distinct(buddy[k])
    BY <1>1 DEF Inv, Tidy
  <2>2. buddy[k] \in Seq(Units) /\ Free(k) = Offsets(buddy[k])
    BY <2>1, FreeFacts
  <2> QED
    BY <2>1, <2>2, Counted
<1>2. ASSUME Inv, NEW u \in Units
      PROVE  Cardinality({b \in FreeBlocks : u \in Block(b[1], b[2])})
               + Cardinality({a \in DOMAIN held : u \in Block(a, held[a])}) = 1
  <2> DEFINE FB == {b \in FreeBlocks : u \in Block(b[1], b[2])}
             HB == {a \in DOMAIN held : u \in Block(a, held[a])}
  <2>1. TypeOK /\ Tiling(FreeSets, held)
    BY <1>2 DEF Inv, Tidy
  <2>2. PICK k \in Levels :
          /\ FreeIn(FreeSets, u, k) \/ HeldBy(held, u, k)
          /\ \A j \in Levels :
               FreeIn(FreeSets, u, j) \/ HeldBy(held, u, j) => j = k
    BY <2>1 DEF Tiling
  <2> DEFINE c == Around(u, k)
  <2>3. ASSUME NEW b \in FB
        PROVE  FreeIn(FreeSets, u, k) /\ b = <<c, k>>
    <3>1. /\ b \in Units \X Levels /\ b[1] \in Free(b[2]) /\ u \in Block(b[1], b[2])
          /\ b = <<b[1], b[2]>> /\ b[2] \in Levels
      BY DEF FreeBlocks
    <3>2. b[1] \in FreeSets[b[2]]
      BY <2>1, <3>1, FreeFacts
    <3>3. FreeIn(FreeSets, u, b[2]) /\ Around(u, b[2]) = b[1]
      BY <2>1, <3>1, <3>2, Owned
    <3>4. b[2] = k
      BY <2>2, <3>1, <3>3
    <3> QED
      BY <3>1, <3>3, <3>4
  <2>4. ASSUME NEW a \in HB
        PROVE  HeldBy(held, u, k) /\ a = c
    <3>1. held[a] \in Levels /\ u \in Block(a, held[a]) /\ a \in DOMAIN held
      BY <2>1 DEF TypeOK
    <3>2. HeldBy(held, u, held[a]) /\ Around(u, held[a]) = a
      BY <2>1, <3>1, Owned
    <3>3. held[a] = k
      BY <2>2, <3>1, <3>2
    <3> QED
      BY <3>2, <3>3
  <2>5. CASE FreeIn(FreeSets, u, k)
    <3>1. c \in FreeSets[k] /\ c \in Units
      BY <2>1, <2>5 DEF FreeIn, Tiling
    <3>2. u \in Block(c, k) /\ c \in Free(k)
      BY <2>1, <3>1, Owned, FreeFacts
    <3>3. <<c, k>> \in FB
      BY <3>1, <3>2 DEF FreeBlocks
    <3>4. FB = {<<c, k>>}
      BY <2>3, <3>3
    <3>5. HB = {}
      BY <2>1, <2>4, <2>5, OneOwner
    <3>6. Cardinality(FB) = 1 /\ Cardinality(HB) = 0
      <4> HIDE DEF FB, HB
      <4> QED
        BY <3>4, <3>5, FS_Singleton, FS_EmptySet
    <3> QED
      BY <3>6
  <2>6. CASE HeldBy(held, u, k)
    <3>1. c \in DOMAIN held /\ held[c] = k
      BY <2>6 DEF HeldBy
    <3>2. u \in Block(c, held[c])
      BY <2>1, <3>1, Owned
    <3>3. HB = {c}
      BY <2>4, <3>1, <3>2
    <3>4. FB = {}
      BY <2>1, <2>3, <2>6, OneOwner
    <3>5. Cardinality(FB) = 0 /\ Cardinality(HB) = 1
      <4> HIDE DEF FB, HB
      <4> QED
        BY <3>3, <3>4, FS_Singleton, FS_EmptySet
    <3> QED
      BY <3>5
  <2> QED
    BY <2>2, <2>5, <2>6
<1>3. Inv => Partition
  BY <1>1, <1>2 DEF Partition
<1> QED
  BY <1>3, Invariance, PTL

\* The allocator does what the arena promises: what it hands out is a place where
\* a block of that size fits, and it takes back what was handed out.
THEOREM Refinement == Spec => ImplementsArena
<1>1. Init => ArenaInit
  BY DEF Init
<1>2. Inv /\ [Next]_vars => [ArenaNext]_held
  BY StepTidy
<1> QED
  BY <1>1, <1>2, Invariance, PTL DEF Spec, ImplementsArena, ArenaSpec
=============================================================================
