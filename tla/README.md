# A verification project for cybersec

cybersec is a small network stack for a security course: a user-space program
that plays one host, with interfaces made of UNIX datagram sockets, a learning
Ethernet bridge, ARP, IPv4 forwarding and a command that sends a TCP SYN. Its
routing table is the poptrie library, vendored into the source and part of the
program's own logic here: a radix tree, a multibit trie and a buddy allocator.

This directory models it in TLA+, checks the models with TLC, and proves the
theorems that matter most with TLAPS.

## 1. The system

| Part | Code | State | Operations | Talks to |
|---|---|---|---|---|
| console and event loop | `main.c` | – | one event at a time: a datagram, or a command (`create`, `tcp`, `fwdctl`, `route`, `show`, `exit`) | everything |
| interfaces | `my_ifnet.c` | list `ifs`, `numif`, socket files, the kernel's queues | `add_if` (with the connected route), `find_if`, `dev_input` | IPv4 (`route_add`), Ethernet (`ether_input`) |
| Ethernet and bridge | `ether.c`, `flags.c` | `mactable[256]`, `bridge_flags` | `ether_input`, `bridge_input`, `ether_output` | IPv4, ARP |
| ARP | `arp.c` | `arptable[256]`, list `sbuf` | `arp_input` (request, reply), `arp_req`, `find_mac`, `add2sendbuf` | Ethernet |
| IPv4 | `ip.c` | list `fib`, the poptrie | `ipv4_input`, `ipv4_forward`, `ipv4_output`, `route_add`, `route_lookup` | ARP, Ethernet, TCP/UDP |
| TCP, UDP | `tcp.c`, `udp.c` | – | `tcp_output` builds a SYN; input only prints | IPv4 |
| poptrie, route database | `poptrie.c` | radix tree, next hop table | add, change, update, delete, `poptrie_rib_lookup` | trie |
| poptrie, multibit trie | `poptrie.c` | nodes, leaves, direct pointing table | `_update_subtree` and below, `poptrie_lookup` | buddy |
| buddy allocator | `buddy.c` | free lists, bitmap | `buddy_alloc2`, `buddy_free2` | – |
| poptrie for IPv6 | `poptrie6.c` | as `poptrie.c` | the same for 128-bit addresses; nobody calls it | buddy |
| IPv6 | `ipv6.c` | – | an empty handler | – |

The host is a single thread: a handler runs to its end before the next event is
looked at, so that one event is one atomic step. What is hard is therefore not
locking but *history*: tables with one entry per hash value that any frame
overwrites, packets that wait in a global buffer while the tables change under
them, an interface chosen when a packet is queued and another one used when it
leaves, results that are ignored, a cache in every node of a tree that a change
far above it must keep right, and an allocator that reconstructs from one
bitmap what it does not store. Between hosts there is concurrency after all:
they are started in any order, a socket file may lead nowhere yet or to a process
that has ended, the kernel refuses datagrams it has no room for, and nothing that
is lost is ever sent again. `PROJECT.json` lists these hazards line by line.

What makes each part correct:

* *bridge*: what is learnt is what was last heard; broadcast is always flooded;
  a frame is never duplicated on a port;
* *ARP*: the table answers with the latest claim; a packet waits only for an
  address that was asked for; a reply leaves nothing behind that it could send;
* *IPv4*: no packet is lost or duplicated between routing and sending; the TTL
  never runs out on the way; the lookup is the longest match over the routes
  that were accepted;
* *network*: no packet is doubled, none circles for ever, an ARP table never
  names a MAC address its owner did not have, and once all is set up and settled
  the next SYN arrives;
* *radix tree*: every cache is the nearest route above it, both lookups agree
  with longest match, next hops are not mixed up when they share a slot;
* *multibit trie*: `poptrie_lookup` answers like the radix tree; every array of
  nodes or leaves is used once or free, whatever was shared between an old and a
  new node; a failed update makes up no answers;
* *buddy*: the blocks partition the arena, sizes are recovered, halves are
  always merged, and a request fails only when nothing fits.

## 2. The modules

| Module | Models | Needs |
|---|---|---|
| `Prefix` | addresses as bit strings, masks, prefixes, longest match | – |
| `Ifnet` | the interfaces | `Prefix` |
| `Ether` | frames, the bridge and its table, the flags | `Ifnet` |
| `Arp` | the ARP table, the send buffer and its walk | `Ether` |
| `Ip` | the routing table as ip.c sees it, the IPv4 paths | `Arp` |
| `Stack` | the host: one action per event | `Ip` |
| `StackHistory` | `Stack` with history variables, and its properties | `Stack` |
| `MCStack` | instances for TLC | `StackHistory` |
| `Network` | three hosts, each a `Stack`, the socket files, the sockets, the scripts of the users and the event loops | `Stack` (three instances) |
| `NetworkHistory` | `Network` with history variables, its fairness and its properties | `Network` |
| `MCNetwork` | networks for TLC | `NetworkHistory` |
| `RouteTable` | abstract: what a routing table promises | `Prefix` |
| `Radix` | the radix tree and the next hop table of `poptrie.c` | `Prefix`, `RouteTable` |
| `Poptrie` | the multibit trie of `poptrie.c` and its update | `Radix` |
| `MCPoptrie` | instances for TLC | `Poptrie` |
| `Poptrie6` | `poptrie6.c`: what 128 bits change in it | `Poptrie` |
| `MCPoptrie6` | instances for TLC | `Poptrie6` |
| `Arena` | abstract: what an allocator of aligned blocks promises | – |
| `Buddy` | `buddy.c` | `Arena` |
| `NaturalLemmas`, `PrefixLemmas` | lemmas: least number, recursion on an interval; masks and the longest match | `Prefix` |
| `StackProofs` (with the history), `NetworkProofs`, `RadixProofs`, `BuddyProofs`, `PoptrieProofs` (the trie's arrays), `AnswerProofs` (what it answers, and `Poptrie6`) | the theorems | the module they are about |

How state and actions correspond to the code:

* **Addresses** are strings of `Width` bits, 32 in the program and 3 in the
  models; masking and matching are the bitwise operations of the code.
  `MACHASH` and `IPHASH`, XORs of bytes, are arbitrary functions into `Slots`
  for the proofs and functions with chosen collisions for TLC. The broadcast
  address and 00-00-00-00-00-00 share their hash, as in the code.
* **Interfaces** are a sequence in the order of their creation; a pointer to a
  `struct my_ifnet` is a position in it. The C list is read from its head, which
  is the end of the sequence (see `flood`). The MAC addresses `add_if` draws
  from `rand` are not checked for being different, and nothing in the model
  makes them different either.
* **The bridge** writes `mactable[hash]` whole; `find_interface` compares the
  address stored and returns the interface stored, NULL for a zeroed slot.
* **ARP.** `arptable` is modelled with its zeroed slots, which answer for 0.0.0.0.
  `sbuf` is a sequence, newest first. An entry holds the next hop, the source MAC
  written when it was routed and the packet; the destination MAC is filled in
  when it leaves. `WalkList` is the loop of `arp_reply_input`, entry by entry.
* **IPv4.** `ipv4_input`, `ipv4_forward` and `ipv4_output` are functions from a
  packet to what the path leaves behind: an entry for `sbuf`, frames, a packet
  for the transport layer. The TTL is decremented modulo 256. The poptrie appears
  in `Ip` through its contract (`rib`, `route_lookup`), together with the two
  reasons it refuses a route for, which `route_add` ignores.
* **Stack.** `Recv*` is the arrival of a frame with everything `ether_input`
  does: bridging, then the upper layer. The five actions split the frames by
  what handles them; together they handle every frame. `Create`, `Tcp`,
  `Fwdctl` and `RouteAdd` are the commands. `sent` and `delivered` hold what the
  last event did; `rx` is that event.
* **Network.** A host's variables are those of `Stack`, in three copies, with one
  `sent`, `delivered` and `rx` for the event at hand, whichever host it is at.
  `Receive(h, ifp)` is a turn of the event loop of main.c that calls `dev_input`:
  the first datagram is taken from the socket and handled to its end, and what
  `Stack` puts into `sent` goes through `sendto`, frame by frame, in order.
  `file` is what a path names (`bind` after `unlink` in `add_if`), `out` the path an
  interface sends to; `sendto` fails where the path leads to no socket, or the
  receive buffer (`space` datagrams) is full, and the frame is lost, as the code
  only prints an error. `Type*` are the commands, in the order of a script per
  host, at any pace. `tcp` and `route` name an interface, which `find_if` looks up;
  where there is none, the command only prints an error (`TypeRefused`). `TypeExit` is `exit` and a new start: `Stack!Restart`, the
  sockets closed with what they had queued.
* **Radix.** A node is named by the prefix its path spells. What a recursive
  descent passes on is `Nearest`, what its propagation reaches is `Propagated`;
  both are conditions on the nodes in between, so that one operation of the
  library is one action. Nothing is ever freed by a deletion: the node of the
  route is kept on purpose, and each of its ancestors has at least one child.
  `OutOfMemory` is a descent whose `malloc` fails, at any depth. The mark bits
  only tell the trie what to rebuild and are in `Poptrie`. Only
  `poptrie_route_add` looks whether the next hop table has room (`HasRoom`);
  `RouteChange` and `RouteUpdate` append to it regardless, as the code does.
* **Poptrie.** Each action is one of `Radix` together with the update of the trie
  that ends the same call. The widths are constants: `S` bits for the direct
  pointing table (18), `K` per node (6). An entry of the table is named by the
  prefix it stands for (`Index`), and so is the block of addresses of a node
  (`Blocks`); a slot is a string of `K` bits. A node is a record of two sets of slots
  and the names of two arrays; bit counts are cardinalities (`Rank`). `Heap` adds to
  the three tables the position at which each block's node is found, by the walk
  from the entry down.
  - As in `Radix`, what a recursive function of the C code does is said by conditions
    on the blocks between its start and those it comes to. `Reached` are the blocks
    for which `_update_inode` builds, `ends` the slots in which its recursion stops,
    and `Alike` says where what came back is a single leaf, so that the slot above
    takes it over. `Descended_To` is `_descend_and_update`; `Link` is `_update_part`,
    with the loops that go up from a block as `Compressed` (nothing but one next
    hop is left, perhaps of its parents too), `Widened` (a leaf of the parent becomes
    a child) and `Store`; `Direct` and `Written` are `_update_dp2`, which walks over
    the table, and `EntryBlock` is `_update_part` for the root of an entry.
  - All of these only say what is to be made: a record of slots, next hops and
    entries (`NoChange`). `Asked` are the arrays it needs, `Fails` whether one of them is
    refused (`Faults`: sets of a kind of array and a block), and `Linked` fills the new
    arrays and stores the references. Of a run over the table the entries are
    written one by one, and those that fail are left out (`Writes`). Where two
    indices write one entry, the later write stays; the arrays of the earlier one
    were allocated, and nothing ever leads to them. `leaked` records them.
  - Cleaning compares the trie before with the one after: `Unlinked` are the entries
    of which the root is given back, `Cleaned` the blocks `_update_clean_inode`
    comes to, `Replaced` the arrays of one of them. They are listed and then given
    back, since freeing leaves the contents in place until the next allocation.
    `misfreed` records an array that is given back twice, or was not allocated.
  - Arrays have names, not offsets: what the buddy allocator guarantees is taken
    from `Arena`, and running out of room is a fault. What a failed update has
    allocated before it failed is not kept: nothing leads to it, and the heaps
    have no limit here. Nor is what is written past the end of the next hop table:
    `FibAssumption` has callers of change and update use fewer pointers than it has
    entries. Branches of the code that no call from `_update_subtree`
    reaches (a stack entry without a node, a missing child on the way to an existing
    route, updates of the live table from `_update_dp2` above its index) are not
    modelled.
* **Poptrie6.** `poptrie6.c` is `poptrie.c` word for word (a `diff` shows it) but
  for the types, `INDEX` and one line of `_update_dp2`. `INDEX6` shifts by a negative
  count where a block reaches beyond the address, which the build takes modulo
  128; `Turn6` shifts an `int`, `IntBits` wide (32). Both are undefined in C and
  are modelled as gcc compiles them, at -O0 and -O2. The functions on the way to
  either are translated again (`Direct6`, `Deep6`, `Subtree6`, the operations, the
  lookup); `Inode6`, `Link6` and `Install6` say that the others are those of `Poptrie`.
* **Buddy.** The free lists live in the blocks they link; they are sequences here.
  The recursions of `_split_buddy` and `_merge` are written by their results:
  the level they climb to, and the lists at each level on the way; `Without` takes
  a block out of a list. `Size` is `1 << k`, a recursive function that doubles, as
  the prover knows nothing of powers. `held` is what the callers hold, `failed` the
  last request when it failed.

Abstracted or left out: the contents of packets beyond addresses, TTL and
protocol; checksums; the tha field of ARP packets; the formats that make
`arp_input` return early (operation "other"); parsing and printing. In `Stack`, one
host by itself, whatever is sent leaves; in `Network` sockets fail. `show`, and
arguments that cannot be read, change nothing and are not actions.

## 3. What TLC checks

| Run | Instance | Shows |
|---|---|---|
| `stack_bridge` | 3 ports, stations `m1`, `m2` in one slot, sources that include broadcast, destinations that include an interface and 00-..-00; with the router off and on: packets and ARP in broadcast and unicast frames, one packet waiting | `LearnedPortIsLatest`, `BroadcastFloods`, `SwitchedOrFlooded`, `PacketsConserved` |
| `stack_router` | 2 interfaces, a route behind a gateway that overlaps a connected one, duplicates that are refused, 4 next hop slots; 2 packets waiting, replies and requests of two stations, colliding ARP slots, TTL 1 and 2, SYNs | `EntryIsLatestClaim`, `WaitingWasAsked`, `ReplyDrainsBuffer`, `ResolvedWaitsAfterRequestOnly`, `TtlNeverExhausted`, `PacketsConserved`, `LookupFollowsOldest`, types |
| `network` | 3 hosts: a router between two hosts (with room for 6 datagrams; and with room for 1, a SYN being typed before there is an interface), packets both ways, a router that restarts with new addresses, a bridge, a bridge that routes too, a ring of three routers | `NoPacketTwice`, `TtlBoundsHops`, `EntriesAreTrue`, types; under fairness `PromisedArrive`, `FallsSilent` |
| `poptrie_add` | 4-bit addresses, S = 1, K = 2, so that the last node passes the end of the address; five nested and branching routes, additions only, 3 next hops for 2 entries of the next hop table | `TableFits`, `TrieFollowsRib`, `TrieIntact`, `NoArrayForgotten`, types |
| `poptrie_changes` | 3-bit addresses, S = K = 1: three nested routes, 2 next hops; update, change, delete in any order; radix nodes that cannot be allocated, and one update that is refused one of the arrays on the way of the longest route | `ExtIsNearestRoute`, `LookupsAgree`, `RouteGetsItsHop`, `ImplementsRouteTable`, `TrieIntact`, `NoArrayForgotten`, `AnswersOldOrNew`, `NewRoutesFollowed` |
| `poptrie6` | 6-bit addresses, S = K = 2: a route shorter than the index, one as long, one two nodes below; all four operations, failing radix nodes, one update that is refused one of the two arrays of the longest route | `TrieFollowsRib6`, `TrieIntact`, `NoArrayForgotten` |
| `buddy` | 8 units, blocks of 1, 2 and 4 | `Partition`, `SizeIsKnown`, `NoFreePair`, `FailsOnlyWhenFull`, `ImplementsArena` |

Two runs show where a comment or the text disagrees with the code; each checks
the statement and finds the counterexample:

* `stack_wrong_port` (`LeavesOnRoutedInterface`): ip.c:192 – the routing table
  decides the interface. A packet that waited leaves where the reply came in.
* `network_stuck` (`ResolvedIsSent`): tcpip.tex:766 – a packet is sent once its
  address is resolved. Two hosts on either side of a router send to one another;
  one's request is lost, as the other's socket was not there yet; later the
  other's own request resolves the address, and sends nothing. The
  packet waits for ever. What does hold is `ResolvedWaitsAfterRequestOnly`, for one
  host, and `PromisedArrive`: the next packet for that address takes it along.

Three more disagreements have no run of their own:

* main.c:166, ip.c:121 – the route was added. The poptrie may have refused it:
  `LookupFollowsOldest` says what the lookup does.
* arp.c:38 – NULL when not found. The zeroed table answers for 0.0.0.0, which
  `EntryIsLatestClaim` leaves out.
* ip.c:197 – packets for this host are recognised. Only the address of the routed
  interface is compared: of two interfaces on one network, the packets for the
  second one's address are put on the wire.

Three runs find a bug in the library; all were confirmed by running the C code at
its own widths:

* `poptrie_stale` (`TrieFollowsRib`): poptrie.c:273 "Change a route", poptrie.c:340
  "Lookup a route by the specified address". With 10.0.0.0/8 and 10.0.0.0/25 in
  the table, a change (or deletion) of the /8 does not reach 10.0.0.128: the
  radix node of the /24 has one child, the /25's, which is not marked as its own
  route did not change, and `_update_inode` copies the old half beside it. The
  program itself only adds routes, where this cannot happen (`poptrie_add`):
  `_route_add_propagate` marks the nodes at which it stops too.
* `poptrie_host_bits` (`TrieFollowsRib`): poptrie.c:262 "Insert the prefix to the
  radix tree, then incrementally update the poptrie data structure". A prefix
  shorter than 18 bits with host bits goes to the wrong entries of the direct
  pointing table, as `_update_dp2` never clears a bit of the prefix. The `route`
  command passes what was typed. `Stack` takes prefixes without host bits, so
  that its lookup, the longest match, is what the trie then gives.
* `poptrie6_short` (`TrieFollowsRib6`): poptrie6.c:275 and 353, the same comments.
  `prefix |= 1 << (128 - depth - 1)` shifts a 32-bit 1, so that the right half below
  a route shorter than 18 bits is looked for, and written, elsewhere. Adding ::/0
  to 2000::/3 sends 1000::1 where the /3 goes.

Two more have no run of their own. Where host bits (or the shift in poptrie6.c) take
two indices of an update to one entry of the table, each builds a root with its
arrays there, or writes a next hop; the first is overwritten before anything
leads to it, and the comparison of `dir` with `altdir` that cleans up
(poptrie.c:856) does not see it. With 0.64.0.0/24 present, each update of 128.0.0.0/0
loses a root and its leaves, in the C code too; on the instance of
`poptrie_host_bits`, `NoArrayForgotten` fails after two additions.

The other: `INDEX` of poptrie6.c, in the block of the bits from 126 on, takes
the first four bits of the address for an index of six: every address gets what
is right for the one of the four beside it that ends in 00, and 2001::1/128 is never
found. With `Width` and `IntBits` 7 and one route of that length, `TrieFollowsRib6` fails after one
addition.

The other `poptrie` runs cover what remains true in spite of these: with changes
and deletions `TrieFollowsRib` fails, but the arrays stay exact, a wrong answer
is always the previous one, and a new route never adds one (`NewRoutesFollowed`). `poptrie6` also shows how far the bug of `poptrie_stale`
goes: with all operations the trie does follow as long as no route ends a single
bit into a block (`TrieFollows`, in section 4, proves it).

**Bounds.** `MaxIf`, `MaxBuf` and `MaxFib` are guards that keep TLC's state space
finite and bound nothing in the program; `FibSize` is the program's 4096, small
enough in `stack_router` and `poptrie_add` that the table fills up. Three ports are
needed to tell flooding from switching; two stations in one slot for eviction; two waiting packets for
one that is drained and one that is not; a request and a reply of two stations
for the order in which an entry is learnt and replaced. Three bits of address
give a chain of routes with a route above, between and below any other. Eight
units in three levels have two blocks of the highest level, and merges over
two levels; sixteen units pass 400,000 states and show nothing new. The trie
needs a route above, at and below the end of the direct index, three levels of
nodes for an array that two versions of a node share, and a block of which a
route fills one half; `S` and `K` of 1 have them all, and `K` of 2 adds vectors of more
than two slots and a last block longer than the address. The arrays that are
refused (`OneRefused`) are one of each kind, on both levels below the index: a
change is made as a whole or not at all, so that of two arrays that are refused to
one update the first decides. One update at most runs out of memory (`Failing`). The next hops are symmetric: only equality of next hops matters to the
code. In `poptrie6`, the block that ends with the address is the boundary of
`INDEX6`; in `poptrie6_short`, `Width` is a multiple of `IntBits` and `S` is not above it,
as 128, 32 and 18 are.

In `network` the scripts bound what is typed: one to three SYNs per sender, so that
one can be lost to a socket that is not there, one wait behind it and one arrive
after all has settled. Three hosts are the least with something between two
others, and the least ring in which a packet does not come back the way it went.
`space` is 1 in one network, where requests and packets crowd one another out, and
elsewhere large enough that what is lost is lost to missing sockets only; `MaxBuf`
and `MaxFib` are above what the scripts can reach. `carried` stops one above its
limit.

**Deadlock** is checked in every run but the two of `Network`: the environment can
always send a frame, and the user can always type a command. A network whose
scripts have been typed and whose sockets are empty stops, and should:
`FallsSilent` says that it does.

**Fairness and liveness.** `Stack` and the libraries state no fairness: one host
handles what comes, and nothing in it happens by itself (there are no timers and
no retries). `Network` states weak fairness for each socket and each script.
For sockets, the event loop justifies it (main.c): every descriptor is registered
with kqueue level-triggered (`EV_ADD` and no more), `kevent` is called again after
each event, and a descriptor that is ready stays on the queue and is handed out in
its turn; a handler never waits for anything, since `sendto` on a datagram socket
is refused rather than blocked when the other side is full. For scripts it is an
assumption about the users: what has been begun is typed to its end. Nothing is
assumed of delivery: a frame that is sent is queued or lost at once.

`PromisedArrive` is the strongest promise found that these allow. A SYN is sure to
arrive when it is typed last, after all sockets are empty and no ARP table is
stale, with room in the sockets; what was lost earlier is lost. It relies on
the request being sent again for each packet, although none is repeated for its
own sake, and on the walk over `sbuf` sending all that waits.

## 4. What is proved

All theorems are about the specifications above, for all values of the
constants that satisfy the named assumptions (any address width, any number of
interfaces, any hash function, any set of frames; the bounds included).

* `StackProofs`, `TypeCorrect`: `Spec => []TypeOK`. The work is in the walk over the
  send buffer: `WalkFacts` says of the recursive function `WalkList` what it
  keeps and sends, from `IntervalRecursion` and `IntervalInduction`, which
  replace the library's induction theorems by statements about sets.
  Then the invariants that relate the tables to the history:
  - `LearnedPort`: `LearnedPortIsLatest` is not inductive by itself. `Stations`
    adds that a slot holds an address that hashes to it and not broadcast;
    without it, learning one station could be about another one's slot.
  - `Broadcast`, `Switched`: from `Stations` and `OwnOK` (the interfaces are those of
    `Cards`, and what waits carries the MAC address of one). The first says that
    a lookup of broadcast finds nothing, so that `flood` is what happens; the
    second is an action property, in which the frames the host sends for itself
    must be told from those it bridges.
  - `LatestClaim`: likewise for the ARP table.
  - `Asked`, `Drained`, `StaleWait`: their conjunction `BufferOK` is inductive with
    the types. `BufferStep` sums up what any event does to the buffer (a packet
    joins it, a reply walks it, nothing), `NoReply` that other events are no
    replies, so that each case is checked once and not per action.
  - `Conserved`: an action property about the number of times a packet occurs in
    a sequence. `Count` and its lemmas turn sequences into cardinalities,
    `WalkCounts` follows the recursive walk with them: what it has kept and sent
    of a packet is what it has looked at.
  - `OldestRoute`: `LookupFollowsOldest` is about the list `fib` and the poptrie's
    `rib`, which `route_add` writes one after the other, ignoring a refusal.
    `RouteOK` is the relation between them that each call keeps; `OneLongest`
    that no two prefixes of one length match one address.
  - `TimeToLive`: inductive over `sbuf` and `sent` with the interfaces' MAC
    addresses among those of `Cards`. It uses `HistoryAssumption`: no station
    sends frames with the MAC address of one of the host's interfaces. The
    assumption is what tells a frame the host routed from one it bridged.
* `NetworkProofs`: three hosts, for scripts of any length, any room in the sockets,
  any order of events and any number of restarts. A theorem about `Stack` is not
  one about its instances: `At(h)` is host `h`, `H1`, `H2` and `H3` are shown to be its
  three cases, and each handler is looked at once, for any `h`.
  - `TypeCorrect`, `EntriesTrue`: `NetInv` says that every host is in order
    (`HostOK`), and so are the sockets and files (`MediumOK`), for the MAC addresses
    the owners of each address have had. `EntriesAreTrue` is not inductive: an
    entry is only as good as the ARP packet it came from, and that one was
    queued, flooded by a bridge, or left in a socket while its sender restarted.
    `Truthful` says it of all frames, wherever they are; the history of owners
    only grows (`OwnersGrow`), so that a restart makes no old frame a lie.
  - `PacketsOnce`, `HopsBounded`: one argument, twice. Give each packet a weight and
    add up what is in all sockets and send buffers (`Burden`): a step costs no more
    than was paid, and only typing a SYN pays (`Pays`, `NetStep`). With weight 1 for
    a packet, and one for its arrival, a packet is in one place at most
    (`OnceInv`); with its TTL for weight, and one for a frame that carries it, no
    packet is carried more than 31 times (`HopsInv`). `Weighing` is what the
    argument needs to know of the weights.
  - Their hypotheses are about bridges, and needed. With three ports, `flood`
    puts a frame on two: `TwoPorts` excludes that, at all times, for `PacketsOnce`.
    Two-port bridges in a ring carry a frame round for ever: `Unbridged` excludes
    bridges for `HopsBounded`. The networks of the run have bridges where neither
    property fails, which the theorem on hops does not cover.
* `RadixProofs`: `IInv`, the types with `ExtIsNearestRoute`, is inductive
  (`Invariance`): for an insertion the new route is the nearest one exactly where
  the propagation goes (`InsertKeeps`), for a deletion the route above takes its
  place (`DeleteKeeps`), and new nodes start with what the descent passes on
  (`NearestIsCache`). From it, with `PathsClosed`, `LookupsCorrect`; from the
  types, `HopsCorrect` and `Refinement`: each operation adds, changes or deletes
  the one route it was asked for in `RouteTable`, or is a stutter. None of it
  depends on the size of the next hop table.
* `BuddyProofs`, for an arena of any size and any number of levels. None of the four
  invariants is inductive. `Inv` is the types, `Tidy` and `FailsOnlyWhenFull`, where
  `Tidy` says that no list has an offset twice, that every unit lies in exactly
  one free or held block (`Tiling`), that no two halves are free (`Merged`), and that
  the bitmap marks the last unit of each held block (`Tails`).
  - The split and the merge are shown to keep `Tiling` on the sets of free offsets
    (`SplitSets`, `MergeSets`), for whatever level they climb to; the arithmetic of
    blocks inside blocks comes before.
  - `SizesCorrect`: the bitmap has no mark inside a held block, as the marks are the
    last units of blocks and blocks are disjoint.
  - `FailsCorrect` needs `Merged`: an aligned block all of whose units are free is
    free as a whole or inside a larger one (`FullyFree`); otherwise the smallest
    free block inside it and the other half of its parent would both be free.
  - `MergesCorrect`, `PartitionCorrect`; `Refinement`: each operation is one of `Arena`.

* `PoptrieProofs`: the arrays of the trie, for addresses, an index and nodes of any
  width, any set of routes and any set of arrays that are refused, whatever bits
  the callers pass beyond a prefix. `TrieTypesCorrect` and `TrieStaysIntact` follow
  from one inductive invariant (`TrieInvariance`), and `TrieForgetsNothing`
  (in `AnswerProofs`) from it and from what is written to the table.
  - None of these is inductive: whether an update gives back the right arrays
    depends on which arrays the old trie used, and where. `HeapOK` says that each
    array is named after the block it was made for, that the node of that block
    holds it, and that it has the length its bits say; the entries likewise. It is
    kept together with `IInv` and `PathsClosed` of `Radix`, from which the update reads.
    It is about the arrays the table has led to; those in `leaked` never were among them.
  - The proof has two halves that meet in `GoodChange`, a condition on the record of
    what is to be made: every block that is made anew is a root of an entry or a
    child of another one, a node that is kept exists, every slot has a next hop or a
    child. One half shows that whatever satisfies it may be linked in and cleaned
    up (`ChangeKeeps`): a new array is not in use (names are fresh), the walk after
    the change leads to the new nodes and otherwise to the old ones, and what
    cleaning lists is exactly what the new trie does not lead to (`FreedWalk`).
    The other shows that each way an update is built satisfies it: `_update_inode`
    (`InodePart`), the loops of `_update_part` (`LinkGood`, `CompressedGood`), and a
    run over the table, whose writes are good by themselves and to different entries
    (`UnionGood`). Host bits make such a run write to other entries, with what was
    built from another index (`MovedRib`), but to none outside the route
    (`WrittenUnder`). All this is stated for any turn of the walk over the table that
    sets no bit before those it has gone down (`TurnsAhead`, `NextBy`), so that it
    covers the turns of `poptrie6.c`.
  - `TableNeverOverrun` is `TableFits`: a pointer that is in the next hop table is not
    appended again, so that the table has no more entries than there are pointers
    (`GrowFits`), and an addition stops at the last one. The first is what keeps
    changes and updates within it, under `FibAssumption`; the second needs no assumption.
  - The lemmas at its head are what the C code relies on where it counts bits: ranks
    number the slots of a vector without gaps (`RankSpec`), and with leaf compression
    the leaf that is counted to is the one that was stored (`LeafCompression`).
* `AnswerProofs`: what the trie answers. `TrieAnswers` is `AnswersOldOrNew` for callers that
  pass prefixes without bits beyond their length, from the same invariant.
  - `HeapOK` makes the blocks on the way of an address a chain, so that the walk of
    `poptrie_lookup` ends in one slot (`EndExists`, `OneEnd`, `LookupIs`). After a change
    that slot was made anew, and the answer is what the change says of the address
    (`Told`), or it is the one in which the walk ended before (`ChangedAnswer`).
  - What `_update_inode` says of an address is the next hop of the last radix node on
    its way, or, where the recursion passes over a node without a mark, the old
    answer (`InodeTold`). Linking in adds nothing else (`LinkTold`), which is not
    obvious where a parent becomes a single next hop: an address beside the block
    that was built had that next hop before (`NarrowedHop`).
  - A run over the table writes to each index its own entry (`WrittenIs`). This is
    where the hypothesis is needed: with host bits the theorem is false.
  - For the same reason no entry is written twice (`WrittenOnce`), and nothing is
    leaked: `TrieForgetsNothing`, under the same hypothesis, without which
    it is false.
  - The last radix node has the next hop of the longest match, by the caches of
    `Radix` (`LatestIs`).

  The other half is that the new answer is taken wherever it should be. Without host
  bits and while no allocation fails,
  - `TrieTakesNewRoutes` is `NewRoutesFollowed`: an operation that leaves the routes there
    are as they were keeps `TrieFollowsRib`. By induction the trie always follows the
    radix tree where routes are only added, as in this program (`AdditionsFollowed`);
  - `TrieFollows`: so it does under all four operations, if no route ends a single bit
    into a node that is not the first of its entry (`NoneJustInside`). With 18 and 6
    bits these are the lengths 25 and 31, and `poptrie_stale` has a /25.
  - The argument: where an address is under the route of the operation and its slot
    was not made anew, the update came by and left it (`UpdateTaken`): it passed over a
    node without a mark on the way (`Skipped`), or the block had one next hop as a whole
    and still has (`AlikeBelow`), which is then the right one. With enough
    marks (`Enough`) nothing is passed over (`NotSkipped`): an addition marks all nodes
    its propagation comes to, those it stops at included, a change or deletion those
    of which the cache is the route. A shorter route is hidden from the test of the
    marks only by a longer one on the node's only child, which is what `NoneJustInside` excludes (`HopEnough`).
    An address under another route keeps its answer (`LongestAfter`).

  And `poptrie6.c`:
  - `TurnAhead6`: the shift is taken modulo 32, and the index has 18 bits, so that a turn
    sets a bit after those the walk has gone down (at the root, where there are none,
    the sign bit with all before it). The walk stays below the route. `Trie6Invariance`
    and `Trie6StaysIntact` follow for all routes: the wrong entries of `poptrie6_short` are
    linked in whole, and what the table led to is cleaned up; the arrays of an entry
    that is written twice are leaked.
  - `Trie6IsTrie`: if no route shorter than the index has longer ones to its right within
    it (`NoneToTheRight`), every behaviour of `Spec6` is one of `TrieSpec`, as no turn
    comes to be taken (`NoTurns`). `Trie6ForgetsNothing` follows, under that condition
    and without host bits.
  - `Trie6Follows` is `TrieFollowsRib6` with exactly the exceptions its comment names:
    `NoneToTheRight`, `NoneJustInside` (unless routes are only added), and `NoneBeyond`, no
    route in a block that reaches beyond the address (none longer than 126). A block has a
    node only where the radix tree goes on below it (`NewBlocks`), so that no node reaches
    beyond it either (`Inside`), and `INDEX6` is `INDEX`. The routes of `poptrie6` satisfy
    all three.

Only model-checked:

* liveness, `PromisedArrive` and `FallsSilent`: the prover does no liveness under
  fairness and no ENABLED;
* what the hypotheses exclude: `NoArrayForgotten` and `TrieFollowsRib` with host bits, or with changes and
  deletions beside a route that ends a single bit into a node, and `TrieFollowsRib6`
  without its three conditions, are false, as `poptrie_host_bits`, `poptrie_stale`,
  `poptrie6_short` and the two bugs without a run in section 3 show;
* `NoPacketTwice` with bridges of three ports and `TtlBoundsHops` with bridges: what
  keeps packets few there is how the hosts are wired, and with other wires they
  fail.

## 5. Plan

1. The models: `Stack` and its parts, `Network`, `Radix`, `Poptrie`, `Poptrie6`, `Buddy`: done.
2. Proofs for `Stack`, `Network`, `Radix`, `Buddy`, `Poptrie` and `Poptrie6`: done,
   liveness apart.
3. Next: `TtlBoundsHops` with bridges that form no ring.
4. `Cksum`: the Internet checksum against its definition.

## 6. Not modelled

How standard input is split between the event loop's `read` and the commands'
`scanf` (main.c): the outcome depends on the buffering of the C library, and each
command is one event with its arguments here. Memory past the end of an array:
that changes and updates with as many next hops as entries get there is said by
hazard and assumption, and no caller of them exists. Printing, the empty IPv6 handler,
the course text and the lab's machine set-up.
