--------------------------- MODULE NaturalLemmas ----------------------------
(***************************************************************************)
(* Induction in the form the provers can use, about sets and functions     *)
(* instead of operators: the least number principle, and the existence of  *)
(* functions defined by recursion on an interval.                          *)
(***************************************************************************)
EXTENDS Integers, WellFoundedInduction, TLAPS

\* A set of naturals that is not empty has a least member.
LEMMA LeastNatural ==
  ASSUME NEW T, T \subseteq Nat, T # {}
  PROVE  \E x \in T : \A y \in T : x <= y
<1> DEFINE R == OpToRel(<, Nat)
<1>1. IsWellFoundedOn(R, Nat)
  BY NatLessThanWellFounded
<1>2. R = {ss \in Nat \X Nat : ss[1] < ss[2]}
  BY Zenon DEF OpToRel
<1>3. \A x, y \in Nat : x < y => <<x, y>> \in R
  BY <1>2
<1> HIDE DEF R
<1>4. PICK x \in T : \A y \in T : ~ (<<y, x>> \in R)
  BY <1>1, WFMin
<1>5. ASSUME NEW y \in T
      PROVE  x <= y
  <2>1. x \in Nat /\ y \in Nat
    OBVIOUS
  <2>2. ~ (<<y, x>> \in R)
    BY <1>4
  <2>3. ~ (y < x)
    BY <1>3, <2>1, <2>2
  <2> QED
    BY <2>1, <2>3
<1> QED
  BY <1>5

\* The function f is defined by recursion on 0 .. k, from z, by g.
Solves(f, k, z, g) ==
  \A n \in 0 .. k : f[n] = IF n = 0 THEN z ELSE g[<<f[n - 1], n>>]

\* A recursion on 0 .. N that stays in R has a solution.
LEMMA IntervalRecursion ==
  ASSUME NEW R, NEW N \in Nat, NEW z \in R, NEW g \in [R \X (1 .. N) -> R]
  PROVE  \E f \in [0 .. N -> R] : Solves(f, N, z, g)
<1> DEFINE Fails == {k \in 0 .. N : ~ \E f \in [0 .. k -> R] : Solves(f, k, z, g)}
<1>1. 0 \notin Fails
  <2>1. [n \in 0 .. 0 |-> z] \in [0 .. 0 -> R]
    OBVIOUS
  <2>2. Solves([n \in 0 .. 0 |-> z], 0, z, g)
    BY DEF Solves
  <2> QED
    BY <2>1, <2>2
<1>2. ASSUME NEW k \in 0 .. N, k + 1 \in 0 .. N, k \notin Fails
      PROVE  k + 1 \notin Fails
  <2>1. PICK f \in [0 .. k -> R] : Solves(f, k, z, g)
    BY <1>2
  <2> DEFINE h == [n \in 0 .. k + 1 |->
                     IF n = k + 1 THEN g[<<f[k], k + 1>>] ELSE f[n]]
  <2>2. f[k] \in R /\ g[<<f[k], k + 1>>] \in R
    BY <1>2
  <2>3. h \in [0 .. k + 1 -> R]
    BY <2>2
  <2>4. Solves(h, k + 1, z, g)
    <3> SUFFICES ASSUME NEW n \in 0 .. k + 1
                 PROVE  h[n] = IF n = 0 THEN z ELSE g[<<h[n - 1], n>>]
      BY DEF Solves
    <3>1. n # 0 => n - 1 \in 0 .. k + 1 /\ n - 1 # k + 1 /\ h[n - 1] = f[n - 1]
      OBVIOUS
    <3>2. CASE n = k + 1
      <4>1. n # 0 /\ n - 1 = k /\ h[n] = g[<<f[k], k + 1>>]
        BY <3>2
      <4> QED
        BY <3>1, <3>2, <4>1
    <3>3. CASE n # k + 1
      <4>1. n \in 0 .. k /\ h[n] = f[n]
        BY <3>3
      <4>2. f[n] = IF n = 0 THEN z ELSE g[<<f[n - 1], n>>]
        BY <2>1, <4>1 DEF Solves
      <4> QED
        BY <3>1, <4>1, <4>2
    <3> QED
      BY <3>2, <3>3
  <2> HIDE DEF h
  <2> QED
    BY <2>3, <2>4
<1>3. Fails = {}
  <2> SUFFICES ASSUME Fails # {} PROVE FALSE
    OBVIOUS
  <2>1. PICK k \in Fails : \A l \in Fails : k <= l
    <3>1. Fails \subseteq Nat
      OBVIOUS
    <3> HIDE DEF Fails
    <3> QED
      BY <3>1, LeastNatural
  <2>2. k \in 0 .. N /\ k # 0
    BY <1>1
  <2> HIDE DEF Fails
  <2>3. k - 1 \notin Fails /\ k - 1 \in 0 .. N
    BY <2>1, <2>2
  <2>4. k - 1 + 1 \notin Fails
    BY <1>2, <2>2, <2>3
  <2> QED
    BY <2>2, <2>4
<1>4. N \notin Fails
  <2> HIDE DEF Fails
  <2> QED
    BY <1>3
<1> QED
  BY <1>4

\* Whatever solves such a recursion stays in R.
LEMMA IntervalInduction ==
  ASSUME NEW R, NEW N \in Nat, NEW f, f[0] \in R,
         \A n \in 1 .. N : f[n - 1] \in R => f[n] \in R
  PROVE  f[N] \in R
<1> DEFINE Fails == {k \in 0 .. N : f[k] \notin R}
<1>1. Fails \subseteq Nat
  OBVIOUS
<1> SUFFICES ASSUME Fails # {} PROVE FALSE
  OBVIOUS
<1>2. PICK k \in Fails : \A l \in Fails : k <= l
  <2> HIDE DEF Fails
  <2> QED
    BY <1>1, LeastNatural
<1>3. k \in 1 .. N /\ f[k] \notin R
  OBVIOUS
<1>4. k - 1 \notin Fails /\ k - 1 \in 0 .. N
  BY <1>2, <1>3
<1> QED
  BY <1>3, <1>4
=============================================================================
