---------------------------- MODULE PrefixLemmas ----------------------------
(***************************************************************************)
(* Facts about masks and prefixes for every address width.                 *)
(***************************************************************************)
EXTENDS Prefix, NaturalLemmas

\* Masking twice keeps the shorter network part.
LEMMA MaskOfMask ==
  ASSUME NEW a \in Addr, NEW m \in 0 .. Width, NEW n \in 0 .. m
  PROVE  Mask(Mask(a, m), n) = Mask(a, n)
BY WidthAssumption DEF Mask, Addr

\* A masked address is an address.
LEMMA MaskType ==
  ASSUME NEW a \in Addr, NEW m \in 0 .. Width
  PROVE  Mask(a, m) \in Addr
BY WidthAssumption DEF Mask, Addr

\* What starts an address is a prefix.
LEMMA PrefixOfType ==
  ASSUME NEW a \in Addr, NEW m \in 0 .. Width
  PROVE  PrefixOf(a, m) \in Prefix
<1>1. m \in 0 .. m
  BY WidthAssumption
<1> QED
  BY <1>1, MaskOfMask, MaskType DEF PrefixOf, Prefix

\* The members of Prefix, for steps that need no more than their types.
LEMMA PrefixType ==
  ASSUME NEW p \in Prefix
  PROVE  p.net \in Addr /\ p.plen \in 0 .. Width /\ Mask(p.net, p.plen) = p.net
         /\ p = [net |-> p.net, plen |-> p.plen]
BY DEF Prefix

\* A set of prefixes that is not empty has one of the greatest length.
LEMMA LongestExists ==
  ASSUME NEW S, S \subseteq Prefix, S # {}
  PROVE  \E p \in S : \A q \in S : q.plen <= p.plen
<1> DEFINE T == {Width - p.plen : p \in S}
<1>1. \A p \in S : p.plen \in 0 .. Width
  BY PrefixType
<1>2. T \subseteq Nat /\ T # {}
  BY <1>1, WidthAssumption
<1> HIDE DEF T
<1>3. PICK t \in T : \A u \in T : t <= u
  BY <1>2, LeastNatural
<1> USE DEF T
<1>4. PICK p \in S : t = Width - p.plen
  BY <1>3
<1>5. ASSUME NEW q \in S
      PROVE  q.plen <= p.plen
  <2>1. Width - q.plen \in T
    OBVIOUS
  <2>2. t <= Width - q.plen
    BY <1>3, <2>1
  <2>3. p.plen \in 0 .. Width /\ q.plen \in 0 .. Width
    BY <1>1
  <2> QED
    BY <1>4, <2>2, <2>3, WidthAssumption
<1> QED
  BY <1>5

\* An address has one longest prefix at most.
LEMMA OneLongest ==
  ASSUME NEW P \in SUBSET Prefix, NEW a \in Addr, NEW p \in Longest(P, a),
         NEW q \in P, Covers(q, a), q.plen >= p.plen
  PROVE  q = p
<1>1. p \in P /\ Covers(p, a) /\ q.plen <= p.plen
  BY DEF Longest
<1>2. /\ p.plen \in 0 .. Width /\ q.plen \in 0 .. Width
      /\ p = [net |-> p.net, plen |-> p.plen]
      /\ q = [net |-> q.net, plen |-> q.plen]
  BY <1>1, PrefixType
<1>3. q.plen = p.plen
  BY <1>1, <1>2, WidthAssumption
<1> QED
  BY <1>1, <1>2, <1>3 DEF Covers
=============================================================================
