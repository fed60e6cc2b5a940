------------------------------- MODULE Arena --------------------------------
(***************************************************************************)
(* What a buddy allocator promises its callers: blocks of 2^k units, for a *)
(* level k, at offsets that are multiples of 2^k, no two of which overlap; *)
(* a request fails only when no such block is left.                        *)
(***************************************************************************)
EXTENDS Naturals

CONSTANTS
  sz,           \* the arena has 2^sz units
  level         \* blocks have 1, 2, 4, ..., 2^(level - 1) units

\* The units in a block of level k, 2^k.
Size[k \in 0 .. sz] == IF k = 0 THEN 1 ELSE 2 * Size[k - 1]

Units == 0 .. Size[sz] - 1
Levels == 0 .. level - 1

Block(a, k) == a .. a + Size[k] - 1

VARIABLE held           \* offset -> level, for the blocks that callers hold

Taken == UNION {Block(a, held[a]) : a \in DOMAIN held}

\* The offsets where a block of level k can still be placed.
Places(k) ==
  {a \in Units : a % Size[k] = 0 /\ Block(a, k) \cap Taken = {}}

ArenaInit == held = [a \in {} |-> 0]

Obtain(k) ==
  \E a \in Places(k) :
    held' = [b \in DOMAIN held \cup {a} |-> IF b = a THEN k ELSE held[b]]

GiveBack(a) ==
  /\ a \in DOMAIN held
  /\ held' = [b \in DOMAIN held \ {a} |-> held[b]]

ArenaNext == (\E k \in Levels : Obtain(k)) \/ (\E a \in Units : GiveBack(a))

ArenaSpec == ArenaInit /\ [][ArenaNext]_held
=============================================================================
