------------------------------ MODULE Poptrie6 ------------------------------
(***************************************************************************)
(* poptrie6.c: the trie for the addresses of IPv6.  It is poptrie.c once   *)
(* more, word for word, with 128 bits for 32.  What that changes is how an *)
(* index is cut out of an address, in INDEX, and how the walk over the     *)
(* direct pointing table names its right halves, in _update_dp2.  The      *)
(* functions that lead to one of the two are translated again here; those  *)
(* that do not are the definitions of Poptrie.                             *)
(***************************************************************************)
EXTENDS Poptrie

CONSTANT IntBits        \* bits of the int that is shifted: 32

ASSUME IntAssumption ==
  /\ IntBits \in 1 .. Width
  /\ Width % IntBits = 0
  /\ S <= IntBits

(***************************************************************************)
(* What depends on the width of an address.                                *)
(***************************************************************************)
\* The bits that the shift by a negative count brings down: the first of the
\* address, at the end of the slot.
Wrapped(addr, s) ==
  [k \in 1 .. K |-> IF k <= Width - s THEN 0 ELSE addr[k - (Width - s)]]

\* Mutant: a block that ends with the address is taken for one that ends beyond.
INDEX6_AtEnd(addr, s) == IF s + K < Width THEN INDEX(addr, s) ELSE Wrapped(addr, s)

\* INDEX: beyond the end of the address the count of the shift is negative,
\* and the shift takes it modulo Width.
INDEX6(addr, s) == IF s + K <= Width THEN INDEX(addr, s) ELSE Wrapped(addr, s)

\* prefix |= 1 << (Width - depth - 1): the 1 is an int, which is shifted modulo
\* its own width, and extended by its sign.  Bit Width is the lowest.
Turn6 ==
  [depth \in 0 .. Width - 1 |->
     LET n == (Width - depth - 1) % IntBits
     IN  {k \in 1 .. Width : k = Width - n \/ (n = IntBits - 1 /\ k < Width - n)}]

(***************************************************************************)
(* The update.  An index is cut out where the address has the bits, so that *)
(* only the walk over the table differs.                                   *)
(***************************************************************************)
Init6 == TrieInit

\* _update_inode
Inode6(r, m, x) == Inode(r, m, x)

\* _update_part
Link6(m, b, x) == Link(m, b, x)

\* _descend_and_update
Deep6(r, m, p, faults) ==
  LET x == Descended_To(m, p)
  IN  Outcome(IF x.plen = S THEN EntryBlock(r, m, x, x) ELSE Link6(m, Inode6(r, m, x), x),
              faults)

\* _update_dp2, which goes by the radix tree but writes where the address says.
Direct6(r, m, p, addr, faults) == Direct(r, m, p, addr, Turn6, faults)

\* _update_subtree
Subtree6(r, m, p, addr, faults) ==
  IF p.plen < S THEN Direct6(r, m, p, addr, faults) ELSE Deep6(r, m, p, faults)

\* The cleaning, _update_clean_root and below, is that of Poptrie.
Install6(m, o, p, marks) == Install(m, o, p, marks)

UpdateTrie6(p, marks) ==
  \E addr \in Given(p), faults \in Failing, r \in {Tree(marks)}, m \in {Trie} :
    \E o \in {Subtree6(r, m, p, addr, faults)} : Install6(m, o, p, r.marked)

(***************************************************************************)
(* The operations.                                                         *)
(***************************************************************************)
TrieAdd6(p, h) ==
  /\ RouteAdd(p, h)
  /\ IF p \in valid THEN KeepTrie ELSE UpdateTrie6(p, AddMarks(p))

TrieUpdate6(p, h) ==
  /\ RouteUpdate(p, h)
  /\ IF p \notin valid THEN UpdateTrie6(p, AddMarks(p))
     ELSE IF route[p] = Slot(h) THEN KeepTrie
     ELSE UpdateTrie6(p, HopMarks(p))

TrieChange6(p, h) ==
  /\ RouteChange(p, h)
  /\ IF p \notin valid \/ route[p] = Slot(h) THEN KeepTrie
     ELSE UpdateTrie6(p, HopMarks(p))

TrieDel6(p) == RouteDel(p) /\ UpdateTrie6(p, HopMarks(p))

Next6 ==
  \E p \in Routes :
    \/ \E h \in NextHop :
         \/ "add" \in Operations /\ TrieAdd6(p, h)
         \/ "update" \in Operations /\ TrieUpdate6(p, h)
         \/ "change" \in Operations /\ TrieChange6(p, h)
         \/ /\ Faults # {{}} /\ Inserting(h) # {}
            /\ \E k \in 0 .. p.plen : OutOfMemory(p, h, k)
            /\ KeepTrie
    \/ "del" \in Operations /\ TrieDel6(p)

Spec6 == Init6 /\ [][Next6]_allVars

(***************************************************************************)
(* The lookups.                                                            *)
(***************************************************************************)
\* The last block of the walk, where the slot that is looked at has no child.
LastBlock6(m, addr) ==
  CHOOSE y \in {PrefixOf(addr, l) : l \in S .. Width} :
    m.pos[y] # NULL /\ INDEX6(addr, y.plen) \notin NodeAt(m, y).vector

poptrie6_lookup(addr) ==
  LET e == dir[PrefixOf(addr, S)]
      y == LastBlock6(Trie, addr)
  IN  IF e.kind = "leaf" THEN e.hop ELSE Leaf(Trie, NodeAt(Trie, y), INDEX6(addr, y.plen))

poptrie6_rib_lookup(addr) == rib_lookup(addr)

(***************************************************************************)
(* Properties.                                                             *)
(***************************************************************************)
\* poptrie6_lookup answers what the radix tree does, while no allocation fails.
\* Three kinds of routes are excepted, for which it does not: a route shorter
\* than the index that has longer ones to its right within the index (Turn6);
\* one that ends in a block reaching beyond the address (INDEX6); and, once a
\* shorter one is changed or deleted, one that ends a single bit into a block.
TrieFollowsRib6 ==
  ~ lost => \A a \in Addr : poptrie6_lookup(a) = poptrie6_rib_lookup(a)
=============================================================================
