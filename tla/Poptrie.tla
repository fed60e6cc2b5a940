------------------------------- MODULE Poptrie ------------------------------
(***************************************************************************)
(* The multibit trie of poptrie.c, which answers poptrie_lookup, and the   *)
(* incremental update that follows every change of the radix tree.         *)
(*                                                                         *)
(* The first S bits of an address index the direct pointing table: an      *)
(* entry is a next hop, or an array of one node.  A node stands for K more *)
(* bits: the slots in its vector lead to one child each, side by side in   *)
(* the array base1; the others to next hops in the array base0, where      *)
(* neighbours that are equal share an entry, marked in leafvec.            *)
(*                                                                         *)
(* The arrays come from two buddy allocators.  The update builds new ones  *)
(* beside the old, links them in with one store, and then compares old     *)
(* with new to find what to give back.                                     *)
(*                                                                         *)
(* An entry of the table, or a node, is named by the prefix it stands for, *)
(* its block; an array by its kind, the block it was made for and a        *)
(* number.  As in Radix, what a recursive function of the code does is     *)
(* said by conditions on the blocks between its start and those reached.   *)
(***************************************************************************)
EXTENDS Radix, FiniteSets

CONSTANTS
  S,            \* bits of the direct pointing table: 18
  K,            \* bits of a node: 6
  Operations,   \* the operations the callers use
  HostBits,     \* whether they pass prefixes with bits beyond the length
  Faults        \* sets of pairs of a kind and a block: arrays that are refused

Array == {"root", "nodes", "leaves"} \X Prefix \X Nat

\* What is written past the end of the next hop table is not modelled: callers that
\* change or update routes use fewer pointers than it has entries.
ASSUME FibAssumption ==
  Operations \cap {"update", "change"} # {} =>
    IsFiniteSet(NextHop) /\ Cardinality(NextHop) < FibSize

ASSUME PoptrieAssumption ==
  /\ S \in 1 .. Width
  /\ K \in Nat \ {0}
  /\ Operations \subseteq {"add", "update", "change", "del"}
  /\ HostBits \in BOOLEAN
  /\ {} \in Faults
  /\ NULL \notin Array
  /\ NULL \notin Array \X Nat

VARIABLES
  mark,         \* the radix nodes marked for the update
  dir,          \* direct pointing table: index -> leaf or root
  cnodes,       \* allocated arrays of nodes: name -> sequence of nodes
  cleaves,      \* allocated arrays of leaves: name -> sequence of next hop indices
  leaked,       \* arrays allocated that nothing has ever led to: kind and block
  lost,         \* an allocation has failed
  misfreed      \* an array was given back that was not allocated

trie == <<dir, cnodes, cleaves, leaked, lost, misfreed>>
allVars == <<vars, mark, trie>>

\* An entry of the table, and the block of a node, is the prefix that leads to it;
\* a slot is its string of bits.
Index == {PrefixOf(a, S) : a \in Addr}
Blocks == {PrefixOf(a, l) : a \in Addr, l \in S .. Width}
Slots == {[k \in 1 .. K |-> IF k \in ones THEN 1 ELSE 0] : ones \in SUBSET (1 .. K)}

LeafEntry(h) == [kind |-> "leaf", hop |-> h]
RootEntry(a) == [kind |-> "root", base |-> a]

TrieInit ==
  /\ Init
  /\ mark = {}
  /\ dir = [j \in Index |-> LeafEntry(0)]
  /\ cnodes = [a \in {} |-> <<>>]
  /\ cleaves = [a \in {} |-> <<>>]
  /\ leaked = {}
  /\ lost = FALSE
  /\ misfreed = FALSE

(***************************************************************************)
(* Blocks and slots.                                                       *)
(***************************************************************************)
\* INDEX: K bits of an address from bit s on; beyond its end they are 0.
INDEX(addr, s) == [k \in 1 .. K |-> IF s + k <= Width THEN addr[s + k] ELSE 0]

\* The prefix l bits below x on the way to its slot i.
Under(x, i, l) ==
  [net |-> [k \in 1 .. Width |->
              IF x.plen < k /\ k <= x.plen + l THEN i[k - x.plen] ELSE x.net[k]],
   plen |-> x.plen + l]

\* The blocks one node above y, and below it at slot i.
Over(y) == PrefixOf(y.net, y.plen - K)
Kid(y, i) == Under(y, i, K)

\* Block y is x or some nodes below it, and the blocks one comes through.
Below(x, y) == Above(x, y) /\ \E l \in 0 .. Width : y.plen = x.plen + l * K
Way(x, y) == {z \in Path(y) : Below(x, z)}

\* The order of slots and of indices: the most significant bit comes first.
Before(i, j) ==
  \E k \in DOMAIN i : /\ i[k] = 0 /\ j[k] = 1
                      /\ \A l \in 1 .. k - 1 : i[l] = j[l]

\* The longest of some prefixes.
Deepest(ps) == CHOOSE p \in ps : \A q \in ps : q.plen <= p.plen

(***************************************************************************)
(* The radix tree as the update sees it: a record r of its nodes, the next *)
(* hop nh each of them stands for, and the marks.                          *)
(***************************************************************************)
Children(r, x) == {y \in r.nodes : y.plen = x.plen + 1 /\ Above(x, y)}

\* Mutant: the walk below x is given up.
Corner_Top(r, x, i) == x

\* _parse_triangle: the last node there is on the way from x to slot i.
Corner(r, x, i) ==
  Under(x, i, CHOOSE l \in 0 .. K : /\ Under(x, i, l) \in r.nodes
                                    /\ \A k \in l + 1 .. K : Under(x, i, k) \notin r.nodes)

\* The tree goes on below slot i.
GoesOn(r, x, i) == Kid(x, i) \in r.nodes /\ Children(r, Kid(x, i)) # {}

(***************************************************************************)
(* The arrays: a record m of the table dir and the heaps nodes and leaves. *)
(***************************************************************************)
\* POPCNT_LS
Rank(v, i) == Cardinality({j \in v : j = i \/ Before(j, i)})

Node(v, lv, b0, b1) == [vector |-> v, leafvec |-> lv, base0 |-> b0, base1 |-> b1]

\* What a position stands for when there is no node: no slots and no arrays.
NoNode == Node({}, {}, NULL, NULL)

At(m, pos) == IF pos = NULL THEN NoNode ELSE m.nodes[pos[1]][pos[2]]

\* The position of the child at slot i, and the next hop there.
Child(n, i) == IF i \in n.vector THEN <<n.base1, Rank(n.vector, i)>> ELSE NULL
Leaf(m, n, i) == m.leaves[n.base0][Rank(n.leafvec, i)]

\* The node a table entry leads to.
Entry(m, j) == IF m.dir[j].kind = "root" THEN <<m.dir[j].base, 1>> ELSE NULL

\* The position of the node of each block, by the walk from the entry down.
Walked(m) ==
  LET pos[y \in Blocks] ==
        IF y.plen = S THEN Entry(m, y)
        ELSE IF y.plen < S + K THEN NULL
        ELSE Child(At(m, pos[Over(y)]), INDEX(y.net, y.plen - K))
  IN  [y \in Blocks |-> pos[y]]

Heap(d, ns, ls) ==
  LET m == [dir |-> d, nodes |-> ns, leaves |-> ls]
  IN  [dir |-> d, nodes |-> ns, leaves |-> ls, pos |-> Walked(m)]

NodeAt(m, y) == At(m, m.pos[y])

\* Mutant: a slot is compared with the first one.
Changes_First(f) ==
  {i \in DOMAIN f : ~ \E j \in DOMAIN f :
                        /\ Before(j, i) /\ f[j] = f[i]
                        /\ ~ \E k \in DOMAIN f : Before(k, j)}

\* Leaf compression: f gives the next hops of the slots that have no child; the
\* slots are marked that differ from the one before.
Changes(f) ==
  {i \in DOMAIN f : ~ \E j \in DOMAIN f :
                        /\ Before(j, i) /\ f[j] = f[i]
                        /\ ~ \E k \in DOMAIN f : Before(j, k) /\ Before(k, i)}

InOrder(f, v) ==
  [k \in 1 .. Cardinality(v) |-> f[CHOOSE i \in v : Rank(v, i) = k]]

Uniform(f) == \A i, j \in DOMAIN f : f[i] = f[j]

\* buddy_alloc2: a name for a new array.
Fresh(heap, kind, y) ==
  <<kind, y, CHOOSE n \in 0 .. Cardinality(DOMAIN heap) : <<kind, y, n>> \notin DOMAIN heap>>

(***************************************************************************)
(* What an update makes: for some blocks the slots of a new array of       *)
(* children, vec, for some the next hops of a new array of leaves, hops;   *)
(* the entries that become a next hop, leaf, and those that get a new root *)
(* array; the blocks whose node is overwritten where it is, stored; and    *)
(* the blocks whose leaves were made and, being one, given back, spent.    *)
(***************************************************************************)
NoChange ==
  [vec |-> [y \in {} |-> {}], hops |-> [y \in {} |-> <<>>], leaf |-> [e \in {} |-> 0],
   roots |-> {}, stored |-> {}, spent |-> {}]

\* A function with one more value.
With(f, y, v) == [z \in DOMAIN f \cup {y} |-> IF z = y THEN v ELSE f[z]]

\* Functions of different arguments, as one.
Together(fs) ==
  [y \in UNION {DOMAIN f : f \in fs} |-> (CHOOSE f \in fs : y \in DOMAIN f)[y]]

\* An empty array is not allocated.
NewKids(m, b, y) == IF b.vec[y] = {} THEN NULL ELSE Fresh(m.nodes, "nodes", y)
NewLeaves(m, b, y) ==
  IF DOMAIN b.hops[y] = {} THEN NULL ELSE Fresh(m.leaves, "leaves", y)

\* The node of a block after the update.
Made(m, b, y) ==
  LET o == NodeAt(m, y)
      kids == y \in DOMAIN b.vec
      leaves == y \in DOMAIN b.hops
  IN  IF kids \/ leaves
      THEN Node(IF kids THEN b.vec[y] ELSE o.vector,
                IF leaves THEN Changes(b.hops[y]) ELSE o.leafvec,
                IF leaves THEN NewLeaves(m, b, y) ELSE o.base0,
                IF kids THEN NewKids(m, b, y) ELSE o.base1)
      ELSE o

\* The arrays the update asks for, and whether one of them is refused.
Asked(b) ==
  {<<"nodes", y>> : y \in {z \in DOMAIN b.vec : b.vec[z] # {}}}
  \cup {<<"leaves", y>> : y \in b.spent \cup {z \in DOMAIN b.hops : DOMAIN b.hops[z] # {}}}
  \cup {<<"root", e>> : e \in b.roots}

Fails(b, faults) == Asked(b) \cap faults # {}

\* The arrays it keeps.
Taken(b) == Asked(b) \ {<<"leaves", y>> : y \in b.spent}

\* The new arrays are filled, and linked in.
Linked(m, b) ==
  LET kids == {NewKids(m, b, y) : y \in DOMAIN b.vec} \ {NULL}
      roots == {Fresh(m.nodes, "root", e) : e \in b.roots}
      leaves == {NewLeaves(m, b, y) : y \in DOMAIN b.hops} \ {NULL}
      stored(a, k) == {y \in b.stored : m.pos[y] = <<a, k>>}
      old(a) == [k \in DOMAIN m.nodes[a] |->
                   IF stored(a, k) = {} THEN m.nodes[a][k]
                   ELSE Made(m, b, CHOOSE y \in stored(a, k) : TRUE)]
      new(y) == InOrder([i \in b.vec[y] |-> Made(m, b, Kid(y, i))], b.vec[y])
  IN  Heap([e \in Index |->
                  IF e \in DOMAIN b.leaf THEN LeafEntry(b.leaf[e])
                  ELSE IF e \in b.roots THEN RootEntry(Fresh(m.nodes, "root", e))
                  ELSE m.dir[e]],
       [a \in DOMAIN m.nodes \cup kids \cup roots |->
                    IF a \in DOMAIN m.nodes THEN old(a)
                    ELSE IF a \in roots THEN <<Made(m, b, a[2])>> ELSE new(a[2])],
       [a \in DOMAIN m.leaves \cup leaves |->
                     IF a \in DOMAIN m.leaves THEN m.leaves[a]
                     ELSE InOrder(b.hops[a[2]], Changes(b.hops[a[2]]))])

(***************************************************************************)
(* Cleaning: the arrays m has, and n, which was made of it, does not lead  *)
(* to any more.  They are listed first, and given back together.           *)
(***************************************************************************)
\* Mutant: an array of leaves is forgotten when the node is replaced.
Replaced_NodesOnly(new, old) == {old.base1} \ {NULL, new.base1}

\* Mutant: the arrays are given back although the new node uses them too.
Replaced_Shared(new, old) == {old.base1, old.base0} \ {NULL}

\* The arrays of the old node itself.
Replaced(new, old) == ({old.base1} \ {NULL, new.base1}) \cup ({old.base0} \ {NULL, new.base0})

\* The blocks that _update_clean_inode comes to from block x, where it compares
\* the old node with the new: it stops where both are the same one.
Cleaned(m, n, x) ==
  {y \in Blocks : /\ m.pos[y] # NULL /\ Below(x, y)
                  /\ \A z \in Way(x, y) \ {x} : n.pos[z] # m.pos[z]}

\* Mutant: what became another root is not cleaned, only what became a leaf.
Unlinked_Leaves(m, b) == {e \in DOMAIN b.leaf : m.dir[e].kind = "root"}

\* Mutant: a root is given back although the update has left it as it was.
Unlinked_Any(m, b) == {e \in Index : m.dir[e].kind = "root"}

\* The entries that were roots, and are others now.
Unlinked(m, b) == {e \in DOMAIN b.leaf \cup b.roots : m.dir[e].kind = "root"}

\* What is given back, for the route p: the blocks, and an array of each.
Garbage(m, n, b, p) ==
  LET entries == {e \in Unlinked(m, b) : Above(p, e) \/ Above(e, p)}
      at(x) == UNION {{y} \X Replaced(NodeAt(n, y), NodeAt(m, y)) : y \in Cleaned(m, n, x)}
  IN  {<<e, m.dir[e].base>> : e \in entries} \cup UNION {at(x) : x \in entries \cup b.stored}

\* buddy_free2 for each of them.
Freed(n, garbage) ==
  LET arrays == {g[2] : g \in garbage}
  IN  [n EXCEPT !.nodes = [a \in DOMAIN @ \ arrays |-> @[a]],
                !.leaves = [a \in DOMAIN @ \ arrays |-> @[a]]]

\* It is wrong for an array that is not allocated, or was given back already.
Misfrees(n, garbage) ==
  \E g \in garbage : \/ g[2] \notin DOMAIN n.nodes \cup DOMAIN n.leaves
                     \/ \E f \in garbage : f # g /\ f[2] = g[2]

(***************************************************************************)
(* Building the node for block x, and those below it.                      *)
(***************************************************************************)
\* A slot is built anew when the tree goes on below it, and there was no node
\* or the change has left a mark; otherwise the old one is taken.
Rebuilt(r, m, y, i) ==
  /\ GoesOn(r, y, i)
  /\ m.pos[y] = NULL \/ Children(r, Kid(y, i)) \cap r.marked # {}

\* The blocks that the recursion comes to.
Reached(r, m, x) ==
  {y \in r.nodes : /\ Below(x, y)
                   /\ \A z \in Way(x, y) \ {y} : Rebuilt(r, m, z, INDEX(y.net, z.plen))}

\* The recursion ends in some slots q, of a block q[1]: at a child that is taken
\* from the old node, or at a next hop.
IsKept(r, m, q) == GoesOn(r, q[1], q[2]) /\ q[2] \in NodeAt(m, q[1]).vector
HopAt(r, m, q) ==
  IF GoesOn(r, q[1], q[2]) THEN Leaf(m, NodeAt(m, q[1]), q[2])
  ELSE r.nh[Corner(r, q[1], q[2])]

\* Of the slots where it ends, those at or below q.
From(ends, q) ==
  {e \in ends : e = q \/ (q \notin ends /\ Above(Kid(q[1], q[2]), e[1]))}

\* The slots qs are all the same next hop: a single leaf, which the slot above
\* them takes over.
Alike(r, m, qs) ==
  LET h == HopAt(r, m, CHOOSE q \in qs : TRUE)
  IN  /\ \A q \in qs : ~ IsKept(r, m, q)
      /\ \A q \in qs : HopAt(r, m, q) = h

\* The nodes for the blocks ys, the first of them x: some slots have children, and
\* the next hop of another is that where the recursion ends below it.
Nodes(r, m, x, ys, ends, children) ==
  LET kids(y) == {i \in Slots : <<y, i>> \in children}
      hops(y) == [i \in Slots \ kids(y) |->
                    HopAt(r, m, CHOOSE q \in From(ends, <<y, i>>) : TRUE)]
      made == {y \in ys : y # x => INDEX(y.net, y.plen - K) \in kids(Over(y))}
  IN  [NoChange EXCEPT !.vec = [y \in made |-> kids(y)],
                       !.hops = [y \in made |-> hops(y)],
                       !.spent = ys \ made]

\* _update_inode
Inode(r, m, x) ==
  LET slots == {<<y, i>> : y \in Reached(r, m, x), i \in Slots}
      ends == {q \in slots : ~ Rebuilt(r, m, q[1], q[2])}
  IN  Nodes(r, m, x, Reached(r, m, x), ends,
            {q \in slots : ~ Alike(r, m, From(ends, q))})

\* The node is a single leaf.
Single(b, x) == b.vec[x] = {} /\ Uniform(b.hops[x])
HopOf(b, x) == b.hops[x][[k \in 1 .. K |-> 0]]

(***************************************************************************)
(* Linking in: _update_part.                                               *)
(***************************************************************************)
\* Nothing is left of a single leaf but its next hop.
OnlyHop(b, x) == [NoChange EXCEPT !.spent = b.spent \cup {x}]

\* The tree below z, as if it were below e.
Moved(r, z, e) ==
  LET onto(y, x) == [net |-> [k \in 1 .. Width |-> IF k <= S THEN x.net[k] ELSE y.net[k]],
                     plen |-> y.plen]
      below == {y \in r.nodes : Above(z, y)}
  IN  [nodes |-> {onto(y, e) : y \in below},
       nh |-> [x \in {onto(y, e) : y \in below} |-> r.nh[onto(x, z)]],
       marked |-> {onto(y, e) : y \in below \cap r.marked}]

\* The entry e gets the block that was built for it, or its next hop.
LinkEntry(b, e) ==
  IF Single(b, e) THEN [OnlyHop(b, e) EXCEPT !.leaf = With(@, e, HopOf(b, e))]
  ELSE [b EXCEPT !.roots = {e}]

\* The block of index z, for the entry e: the two are the same.
EntryBlock(r, m, z, e) == LinkEntry(Inode(IF z = e THEN r ELSE Moved(r, z, e), m, e), e)

\* The node of block y gets another array of children, as it has one already.
Store(m, b, y) ==
  [b EXCEPT !.vec = With(@, y, NodeAt(m, y).vector), !.stored = {y}]

\* The node of block y is put in the slot of its parent.
Put(m, b, y) == IF y.plen = S THEN [b EXCEPT !.roots = {y}] ELSE Store(m, b, Over(y))

\* The next hops of the slots of y outside v; slot i, if there, leads to h.
Hops(m, y, v, i, h) ==
  [s \in Slots \ v |-> IF s = i THEN h ELSE Leaf(m, NodeAt(m, y), s)]

\* The block x that was built gets its slot in the parent, which had a leaf there.
Widened(m, b, x) ==
  LET y == Over(x)
      i == INDEX(x.net, y.plen)
      v == NodeAt(m, y).vector \cup {i}
  IN  Put(m, [b EXCEPT !.vec = With(@, y, v), !.hops = With(@, y, Hops(m, y, v, i, 0))], y)

\* The block x is a single next hop h, and so is the slot of its parent, and
\* perhaps the parent, unless that is the root.
Compressed(m, b, x, h) ==
  LET without(y) == NodeAt(m, y).vector \ {INDEX(x.net, y.plen)}
      hops(y) == Hops(m, y, without(y), INDEX(x.net, y.plen), h)
      y == Deepest({z \in Path(x) \cap Blocks :
                      /\ z # x /\ m.pos[z] # NULL
                      /\ z.plen = S \/ without(z) # {} \/ ~ Uniform(hops(z))})
      leaves == [OnlyHop(b, x) EXCEPT !.hops = With(@, y, hops(y))]
  IN  IF INDEX(x.net, y.plen) \in NodeAt(m, y).vector
      THEN Put(m, [leaves EXCEPT !.vec = With(@, y, without(y))], y)
      ELSE IF Changes(hops(y)) = NodeAt(m, y).leafvec THEN OnlyHop(b, x)
      ELSE Put(m, leaves, y)

\* The block x below the table's is linked in.
Link(m, b, x) ==
  IF Single(b, x) THEN Compressed(m, b, x, HopOf(b, x))
  ELSE IF m.pos[x] = NULL THEN Widened(m, b, x)
  ELSE Store(m, b, Over(x))

(***************************************************************************)
(* The update for the route p, which is given with the address addr.  Its  *)
(* outcome is a change, the arrays that were made for nothing, whether it  *)
(* is reported as failed, and whether memory was short.                    *)
(***************************************************************************)
\* _descend_and_update: from the entry towards p, as far as there are nodes.
Descended_To(m, p) ==
  Deepest({x \in Path(p) :
             \/ x.plen = S
             \/ S + K <= x.plen /\ x.plen < p.plen /\ m.pos[Over(x)] # NULL})

\* A change is made as a whole, or not at all.
Outcome(b, faults) ==
  LET fails == Fails(b, faults)
  IN  [change |-> IF fails THEN NoChange ELSE b, dropped |-> {},
       failed |-> fails, short |-> fails]

Deep(r, m, p, faults) ==
  LET x == Descended_To(m, p)
  IN  Outcome(IF x.plen = S THEN EntryBlock(r, m, x, x) ELSE Link(m, Inode(r, m, x), x),
              faults)

\* What _update_dp2 does to the address when it turns right at depth l.
Turn == [l \in 0 .. Width - 1 |-> {l + 1}]

\* The entry it writes for the index z, the nodes towards which end at depth l: a
\* half without a node starts where the address says.
Written(turn, p, addr, z, l) ==
  LET right == UNION {turn[d] : d \in {c \in p.plen .. l - 1 : z.net[c + 1] = 1}}
  IN  PrefixOf([k \in 1 .. Width |->
                  IF k <= l THEN (IF k \in right THEN 1 ELSE addr[k]) ELSE z.net[k]], S)

\* The writes that are tried, one for an index in their order: of those to one entry
\* the last stays, and nobody looks at the roots the others had put there; only the
\* failure of the last is reported.
Writes(tried, faults) ==
  LET fails(t) == Fails(t.change, faults)
      last(t, ts) == \A u \in ts : u.index = t.index \/ Before(u.index.net, t.index.net)
      stays == {t \in tried : /\ ~ fails(t)
                              /\ last(t, {u \in tried : ~ fails(u) /\ u.entry = t.entry})}
  IN  [change |-> [NoChange EXCEPT !.vec = Together({t.change.vec : t \in stays}),
                                   !.hops = Together({t.change.hops : t \in stays}),
                                   !.leaf = Together({t.change.leaf : t \in stays}),
                                   !.roots = UNION {t.change.roots : t \in stays}],
       dropped |-> UNION {Taken(t.change) : t \in {u \in tried \ stays : ~ fails(u)}},
       failed |-> \E t \in tried : fails(t) /\ last(t, tried),
       short |-> \E t \in tried : fails(t)]

\* _update_dp2 for a short prefix: every index below it is given the next hop of
\* the last node there is, or its block.
Direct(r, m, p, addr, turn, faults) ==
  LET node(z) == Deepest(Path(z) \cap r.nodes)
      entry(z) == Written(turn, p, addr, z, node(z).plen)
      change(z) == IF node(z).plen = S THEN EntryBlock(r, m, z, entry(z))
                   ELSE [NoChange EXCEPT !.leaf = With(@, entry(z), r.nh[node(z)])]
  IN  Writes({[index |-> z, entry |-> entry(z), change |-> change(z)] :
                z \in {x \in Index : Above(p, x)}},
             faults)

\* _update_subtree
Subtree(r, m, p, addr, turn, faults) ==
  IF p.plen < S THEN Direct(r, m, p, addr, turn, faults) ELSE Deep(r, m, p, faults)

(***************************************************************************)
(* The marks.                                                              *)
(***************************************************************************)
\* Mutant: the new route is marked, and not the nodes below it.
AddMarks_Here(p) == mark \cup {p}

\* _route_add_propagate marks every node it comes to, the last ones included.
AddMarks(p) ==
  mark \cup {x \in nodes' :
               /\ Above(p, x)
               /\ x # p => Propagated(p, PrefixOf(x.net, x.plen - 1))}

\* _route_change_propagate and _route_del_propagate mark the nodes whose cache
\* is p, and hand the marks they find to the nodes above.
HopMarks(p) ==
  mark \cup {x \in nodes : /\ Above(p, x)
                           /\ \E y \in nodes : Above(x, y) /\ (ext[y] = p \/ y \in mark)}

\* _clear_mark from p does not go below a node without a mark.
Cleared(marks, p) ==
  {x \in marks : \E y \in nodes' : Above(p, y) /\ Above(y, x) /\ y \notin marks}
  \cup {x \in marks : ~ Above(p, x)}

(***************************************************************************)
(* The operations.                                                         *)
(***************************************************************************)
\* The addresses a caller passes for a prefix.
Given(p) == IF HostBits THEN {a \in Addr : Covers(p, a)} ELSE {p.net}

\* The radix tree after the step, and the arrays.
Tree(marks) == [nodes |-> nodes', nh |-> [x \in nodes' |-> EXT_NH(x)'], marked |-> marks]
Trie == Heap(dir, cnodes, cleaves)

\* Bound: one update at most runs out of memory.
Failing == IF lost THEN {{}} ELSE Faults

\* The outcome o is linked in, what it replaces given back, and the marks below p
\* are cleared if the update got to it.  What a failed update has allocated is
\* not kept here: nothing leads to it, and the heaps have no limit.
Install(m, o, p, marks) ==
  \E n \in {Linked(m, o.change)} :
    \E garbage \in {Garbage(m, n, o.change, p)} :
      /\ dir' = n.dir
      /\ cnodes' = Freed(n, garbage).nodes
      /\ cleaves' = Freed(n, garbage).leaves
      /\ leaked' = leaked \cup o.dropped
      /\ misfreed' = (misfreed \/ Misfrees(n, garbage))
      /\ lost' = (lost \/ o.short)
      /\ mark' = IF o.failed THEN marks ELSE Cleared(marks, p)

\* The update of the trie after a change of route p.
UpdateTrie(turn, p, marks) ==
  \E addr \in Given(p), faults \in Failing, r \in {Tree(marks)}, m \in {Trie} :
    \E o \in {Subtree(r, m, p, addr, turn, faults)} : Install(m, o, p, r.marked)

KeepTrie == UNCHANGED <<mark, trie>>

TrieAdd(p, h) ==
  /\ RouteAdd(p, h)
  /\ IF p \in valid THEN KeepTrie ELSE UpdateTrie(Turn, p, AddMarks(p))

TrieUpdate(p, h) ==
  /\ RouteUpdate(p, h)
  /\ IF p \notin valid THEN UpdateTrie(Turn, p, AddMarks(p))
     ELSE IF route[p] = Slot(h) THEN KeepTrie
     ELSE UpdateTrie(Turn, p, HopMarks(p))

TrieChange(p, h) ==
  /\ RouteChange(p, h)
  /\ IF p \notin valid \/ route[p] = Slot(h) THEN KeepTrie
     ELSE UpdateTrie(Turn, p, HopMarks(p))

TrieDel(p) == RouteDel(p) /\ UpdateTrie(Turn, p, HopMarks(p))

\* The operations that make nodes: _route_add is not called for a full table.
Inserting(h) == {o \in Operations : o = "update" \/ (o = "add" /\ HasRoom(h))}

TrieNext ==
  \E p \in Routes :
    \/ \E h \in NextHop :
         \/ "add" \in Operations /\ TrieAdd(p, h)
         \/ "update" \in Operations /\ TrieUpdate(p, h)
         \/ "change" \in Operations /\ TrieChange(p, h)
         \/ /\ Faults # {{}} /\ Inserting(h) # {}
            /\ \E k \in 0 .. p.plen : OutOfMemory(p, h, k)
            /\ KeepTrie
    \/ "del" \in Operations /\ TrieDel(p)

TrieSpec == TrieInit /\ [][TrieNext]_allVars

(***************************************************************************)
(* poptrie_lookup                                                          *)
(***************************************************************************)
\* The last block the walk comes to, where the slot of the address has no child.
LastBlock(m, addr) ==
  CHOOSE y \in {PrefixOf(addr, l) : l \in S .. Width} :
    m.pos[y] # NULL /\ INDEX(addr, y.plen) \notin NodeAt(m, y).vector

Lookup(m, addr) ==
  LET e == m.dir[PrefixOf(addr, S)]
      y == LastBlock(m, addr)
  IN  IF e.kind = "leaf" THEN e.hop ELSE Leaf(m, NodeAt(m, y), INDEX(addr, y.plen))

poptrie_lookup(addr) == Lookup(Trie, addr)

(***************************************************************************)
(* Properties.                                                             *)
(***************************************************************************)
\* The table entries and the nodes that lead to an array.
NodeHolders(a) ==
  {<<"entry", j>> : j \in {e \in Index : dir[e] = RootEntry(a)}}
  \cup {<<"node", y>> : y \in {z \in Blocks : NodeAt(Trie, z).base1 = a}}
LeafHolders(a) == {y \in Blocks : NodeAt(Trie, y).base0 = a}

Hop == 0 .. Len(fib)

TrieTypeOK ==
  /\ mark \subseteq nodes
  /\ DOMAIN dir = Index
  /\ \A j \in Index :
       \/ dir[j].kind = "leaf" /\ dir[j].hop \in Hop
       \/ dir[j].kind = "root" /\ dir[j].base \in DOMAIN cnodes
  /\ \A a \in DOMAIN cleaves : \A k \in DOMAIN cleaves[a] : cleaves[a][k] \in Hop
  /\ leaked \subseteq {"root", "nodes", "leaves"} \X Blocks
  /\ lost \in BOOLEAN
  /\ misfreed \in BOOLEAN

\* No reference dangles, no array is shared or given back twice, and every array
\* has an entry for each bit that is counted to find one, also after updates that
\* ran out of memory.
TrieIntact ==
  /\ ~ misfreed
  /\ \A j \in Index :
       dir[j].kind = "root" =>
         dir[j].base \in DOMAIN cnodes /\ DOMAIN cnodes[dir[j].base] = 1 .. 1
  /\ \A y \in Blocks :
       Trie.pos[y] # NULL =>
         LET n == NodeAt(Trie, y)
             leaves == Slots \ n.vector
         IN  /\ n.leafvec \subseteq leaves
             /\ IF n.vector = {} THEN n.base1 = NULL
                ELSE /\ n.base1 \in DOMAIN cnodes
                     /\ DOMAIN cnodes[n.base1] = 1 .. Cardinality(n.vector)
             /\ IF leaves = {} THEN n.base0 = NULL
                ELSE /\ \A i \in leaves : \E j \in n.leafvec : j = i \/ Before(j, i)
                     /\ n.base0 \in DOMAIN cleaves
                     /\ DOMAIN cleaves[n.base0] = 1 .. Cardinality(n.leafvec)
  /\ \A a \in DOMAIN cnodes : Cardinality(NodeHolders(a)) <= 1
  /\ \A a \in DOMAIN cleaves : Cardinality(LeafHolders(a)) <= 1

\* While no allocation fails, every array that is allocated is in use: cleaning
\* gives back all that was replaced, and no entry was written twice in an update.
NoArrayForgotten ==
  ~ lost => /\ leaked = {}
            /\ \A a \in DOMAIN cnodes : NodeHolders(a) # {}
            /\ \A a \in DOMAIN cleaves : LeafHolders(a) # {}

\* poptrie_lookup answers what the radix tree does, while no allocation fails.
TrieFollowsRib == ~ lost => \A a \in Addr : poptrie_lookup(a) = rib_lookup(a)

\* An operation leaves the answer for an address as it was, or makes it the one
\* the radix tree gives, whichever of its allocations fail.
AnswersOldOrNew ==
  [][\A a \in Addr :
       \/ poptrie_lookup(a)' = poptrie_lookup(a)
       \/ poptrie_lookup(a)' = rib_lookup(a)']_trie

\* The step leaves every route there is as it was; it may add one.
RoutesStand == \A q \in valid : q \in valid' /\ route'[q] = route[q]

\* A new route never brings the trie out of step with the radix tree, whatever
\* changes and deletions went before: only these leave a stale next hop behind.
NewRoutesFollowed ==
  [][TrieFollowsRib /\ RoutesStand => TrieFollowsRib']_allVars
=============================================================================
