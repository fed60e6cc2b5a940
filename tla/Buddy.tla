------------------------------- MODULE Buddy --------------------------------
(***************************************************************************)
(* buddy.c: the allocator of the poptrie's node and leaf arrays.  It hands *)
(* out offsets; the only thing it stores in a block is the link of its     *)
(* free list, so that a list is a sequence here.  The bitmap has one bit   *)
(* per unit, set for the last unit of every block that is allocated: the   *)
(* size of a block is found from it when the block is freed.               *)
(***************************************************************************)
EXTENDS Arena, FiniteSets, SequencesExt

ASSUME BuddyAssumption ==
  /\ sz \in Nat /\ level \in Nat \ {0}
  /\ level <= sz        \* the callers pass the same number for both

VARIABLES
  buddy,        \* level -> its list of free blocks
  tails,        \* the bits set in the bitmap
  failed        \* the level of the last request, if it failed; else NoLevel

NoLevel == level

vars == <<held, buddy, tails, failed>>

Free(k) == {buddy[k][i] : i \in DOMAIN buddy[k]}

TypeOK ==
  /\ DOMAIN held \subseteq Units /\ held \in [DOMAIN held -> Levels]
  /\ buddy \in [Levels -> Seq(Units)]
  /\ tails \subseteq Units
  /\ failed \in Levels \cup {NoLevel}

\* Mutant: one turn of the loop too many.
TopBlocks_OneMore ==
  [i \in 1 .. Size[sz - level + 1] + 1 |-> (i - 1) * Size[level - 1]]

\* buddy_init: all blocks of the highest level, in the order of their offsets.
TopBlocks == [i \in 1 .. Size[sz - level + 1] |-> (i - 1) * Size[level - 1]]

Init ==
  /\ ArenaInit
  /\ buddy = [k \in Levels |-> IF k = level - 1 THEN TopBlocks ELSE <<>>]
  /\ tails = {}
  /\ failed = NoLevel

\* Mutant: only the next level is asked.
Stocked_Next(k) == {j \in {k, k + 1} \cap Levels : buddy[j] # <<>>}

\* The level _split_buddy climbs to: the first one with a free block.
Stocked(k) == {j \in k .. level - 1 : buddy[j] # <<>>}
SplitFrom(k) == CHOOSE j \in Stocked(k) : \A i \in Stocked(k) : j <= i

\* Mutant: the half that is handed out stays in its list.
SplitLists_Kept(k) ==
  LET m == SplitFrom(k)
      a == Head(buddy[m])
  IN  [j \in Levels |->
         IF j = m THEN Tail(buddy[j])
         ELSE IF j = k THEN <<a, a + Size[j]>>
         ELSE IF j \in k .. m - 1 THEN <<a + Size[j]>> ELSE buddy[j]]

\* The lists after the first block of level m has been split down to level k and
\* its first part removed: one half is left at each level in between.
SplitLists(k) ==
  LET m == SplitFrom(k)
      a == Head(buddy[m])
  IN  [j \in Levels |->
         IF j = m THEN Tail(buddy[j])
         ELSE IF j \in k .. m - 1 THEN <<a + Size[j]>> ELSE buddy[j]]

\* Mutant: the bit behind the block is set.
Flagged_Behind(a, k) == tails \cup {a + Size[k]}

Flagged(a, k) == tails \cup {a + Size[k] - 1}

\* buddy_alloc2 succeeds.
Alloc(k) ==
  /\ Stocked(k) # {}
  /\ LET a == Head(buddy[SplitFrom(k)])
     IN  /\ held' = [b \in DOMAIN held \cup {a} |-> IF b = a THEN k ELSE held[b]]
         /\ tails' = Flagged(a, k)
  /\ buddy' = SplitLists(k)
  /\ failed' = NoLevel

\* buddy_alloc2 fails: _split_buddy reaches the highest level in vain.
AllocFails(k) ==
  /\ Stocked(k) = {}
  /\ failed' = k
  /\ UNCHANGED <<held, buddy, tails>>

\* buddy_free2 finds the size of the block at a: the least level for which the
\* last unit of the block has its bit set.
SizeAt(a) ==
  LET hits == {k \in Levels : a + Size[k] - 1 \in tails}
  IN  CHOOSE k \in hits : \A j \in hits : k <= j

\* It puts a block into a list before the first one with a greater offset.
Insert(list, a) ==
  LET n == Cardinality({i \in DOMAIN list :
             \A j \in 1 .. i : list[j] <= a})
  IN  InsertAt(list, n + 1, a)

\* The aligned block of level j around a, and the levels up to which the block
\* at a, of level k, is merged: as long as no bit is set in it (_merge).
Around(a, j) == (a \div Size[j]) * Size[j]
Merges(a, k, bits) ==
  {j \in k .. level - 1 : Block(Around(a, j), j) \cap bits = {}}

\* Mutant: the highest level is never reached.
MergeTo_Short(a, k, bits) ==
  CHOOSE j \in {i \in Merges(a, k, bits) : i < level - 1 \/ i = k} :
    \A i \in Merges(a, k, bits) : i < level - 1 => i <= j

MergeTo(a, k, bits) ==
  CHOOSE j \in Merges(a, k, bits) : \A i \in Merges(a, k, bits) : i <= j

\* The loop of _merge over a list, which takes out the blocks in gone.
Without(list, gone) ==
  LET kept[i \in 0 .. Len(list)] ==
        IF i = 0 THEN <<>>
        ELSE IF list[i] \in gone THEN kept[i - 1]
        ELSE Append(kept[i - 1], list[i])
  IN  kept[Len(list)]

\* Mutant: the loop of _merge takes out one half only.
MergedLists_OneHalf(a, k, bits) ==
  LET m == MergeTo(a, k, bits)
  IN  [j \in Levels |->
         IF j \in k .. m - 1
         THEN Without(buddy[j], {Around(a, j + 1)})
         ELSE IF j # m THEN buddy[j]
         ELSE IF m = k THEN Insert(buddy[k], a)
         ELSE <<Around(a, m)>> \o buddy[m]]

\* The lists after the block at a, of level k, was returned and merged: at each
\* level below the last both halves are gone, and the whole comes first there.
MergedLists(a, k, bits) ==
  LET m == MergeTo(a, k, bits)
      halves(j) == {Around(a, j + 1), Around(a, j + 1) + Size[j]}
  IN  [j \in Levels |->
         IF j \in k .. m - 1
         THEN Without(buddy[j], halves(j))
         ELSE IF j # m THEN buddy[j]
         ELSE IF m = k THEN Insert(buddy[k], a)
         ELSE <<Around(a, m)>> \o buddy[m]]

Unflagged(a, k) == tails \ {a + Size[k] - 1}

\* buddy_free2, for a block that buddy_alloc2 returned.
FreeBlock(a) ==
  /\ a \in DOMAIN held
  /\ held' = [b \in DOMAIN held \ {a} |-> held[b]]
  /\ LET k == SizeAt(a)
     IN  /\ tails' = Unflagged(a, k)
         /\ buddy' = MergedLists(a, k, tails')
  /\ failed' = NoLevel

Next ==
  \/ \E k \in Levels : Alloc(k) \/ AllocFails(k)
  \/ \E a \in DOMAIN held : FreeBlock(a)

Spec == Init /\ [][Next]_vars

(***************************************************************************)
(* Properties.                                                             *)
(***************************************************************************)
FreeBlocks == {b \in Units \X Levels : b[1] \in Free(b[2])}

\* The free lists and the blocks that callers hold cover every unit of the arena
\* exactly once, after any sequence of splits and merges: no unit is lost, and
\* none is both free and held or free twice.
Partition ==
  /\ \A k \in Levels : Len(buddy[k]) = Cardinality(Free(k))
  /\ \A u \in Units :
       Cardinality({b \in FreeBlocks : u \in Block(b[1], b[2])})
         + Cardinality({a \in DOMAIN held : u \in Block(a, held[a])}) = 1

\* The bitmap tells the size every block was allocated with.
SizeIsKnown == \A a \in DOMAIN held : SizeAt(a) = held[a]

\* Two free halves of a block are always merged (_merge goes on upwards).
NoFreePair ==
  \A k \in Levels \ {level - 1} : \A a \in Free(k) :
    IF a % Size[k + 1] = 0 THEN a + Size[k] \notin Free(k) ELSE a - Size[k] \notin Free(k)

\* A request fails only when no aligned block of its size is left.
FailsOnlyWhenFull == failed # NoLevel => Places(failed) = {}

\* The allocator does what the arena promises.
ImplementsArena == ArenaSpec
=============================================================================
