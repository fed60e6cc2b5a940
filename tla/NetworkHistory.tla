--------------------------- MODULE NetworkHistory ---------------------------
(***************************************************************************)
(* The network with history variables, its fairness, and its properties.   *)
(***************************************************************************)
EXTENDS Network, FiniteSetsExt

VARIABLES
  typed,        \* SYNs typed so far
  arrived,      \* packets passed to a transport layer so far
  carried,      \* IPv4 frames passed to sendto so far, counted up to one too many
  owned,        \* address -> the MAC addresses of its interfaces so far
  talkers,      \* hosts at which a SYN was typed
  due           \* how many packets will have arrived in the end, at least

hvars == <<typed, arrived, carried, owned, talkers, due>>
allVars == <<vars, hvars>>

Addr == H1!Addr
INADDR_ANY == H1!INADDR_ANY

HInit ==
  /\ Init
  /\ typed = 0 /\ arrived = 0 /\ carried = 0 /\ due = 0
  /\ owned = [a \in Addr |-> {}]
  /\ talkers = {}

\* f[1] + ... + f[n]
Sum(f, n) ==
  LET upto[k \in 0 .. n] == IF k = 0 THEN 0 ELSE upto[k - 1] + f[k]
  IN  upto[n]

\* The IPv4 frames in a sequence of frames.
Packets(q) == Sum([k \in DOMAIN q |-> IF q[k].type = "IP" THEN 1 ELSE 0], Len(q))

\* Packets in the sockets, and packets in the send buffers.
OnWire ==
  Sum([h \in Hosts |->
         Sum([i \in DOMAIN sock[h] |-> Packets(sock[h][i])], Len(sock[h]))], 3)
Waiting == Len(sbuf[1]) + Len(sbuf[2]) + Len(sbuf[3])

Quiet == \A h \in Hosts : \A i \in DOMAIN sock[h] : sock[h][i] = <<>>

\* The interfaces that are there now: the host, and the interface's record.
Live == UNION {{<<h, ifs[h][i]>> : i \in DOMAIN ifs[h]} : h \in Hosts}

\* No table names a MAC address that the owner of the address no longer has.
Fresh ==
  \A h \in Hosts, x \in Live :
    LET e == arptable[h][IPHASH[x[2].addr]]
    IN  e.ip_addr = x[2].addr => e.macaddr = x[2].mac

\* Nothing is on its way, nothing is stale, and there is nothing left to type but
\* the command c of host h.
Settled(h) ==
  /\ Quiet /\ Fresh
  /\ \A g \in Hosts : Len(script[g]) = IF g = h THEN 1 ELSE 0

\* The sockets have room for every packet and as many requests at once.
Ample == space >= 2 * typed'

\* The SYN that is typed now is the last command, after everything has settled,
\* and some interface has its destination: it arrives, and if all packets come
\* from this host, those that still wait arrive with it.
Promised(h) ==
  IF Ample /\ Settled(h) /\ \E x \in Live : x[2].addr = Head(script[h]).dst
  THEN arrived + 1 + (IF talkers \subseteq {h} THEN Waiting ELSE 0)
  ELSE due

HNext ==
  /\ Next
  /\ arrived' = arrived + Len(delivered')
  /\ \/ /\ rx'.kind = "tcp"
        /\ typed' = typed + 1
        /\ \E h \in Hosts : /\ script'[h] # script[h]
                            /\ talkers' = talkers \cup {h}
                            /\ due' = Promised(h)
     \/ rx'.kind # "tcp" /\ UNCHANGED <<typed, talkers, due>>
  /\ carried' = Min({31 * typed' + 1,
                     carried + Packets([i \in DOMAIN sent' |-> sent'[i].eh])})
  /\ owned' = [a \in Addr |-> owned[a] \cup {x[2].mac : x \in {y \in Live' : y[2].addr = a}}]

HSpec == HInit /\ [][HNext]_allVars
FairSpec == HSpec /\ Fairness

(***************************************************************************)
(* Properties.                                                             *)
(***************************************************************************)
TypeOK ==
  /\ H1!TypeOK /\ H2!TypeOK /\ H3!TypeOK
  /\ \A p \in Path : file[p] # Nobody => file[p][2] \in DOMAIN sock[file[p][1]]
  /\ \A h \in Hosts :
       /\ Len(sock[h]) = Len(ifs[h]) /\ out[h] \in Seq(Path) /\ Len(out[h]) = Len(ifs[h])
       /\ \A i \in DOMAIN sock[h] :
            sock[h][i] \in Seq(H1!Frame) /\ Len(sock[h][i]) <= space

\* Over any number of hosts, a packet is in one place at most: what has arrived,
\* is on a socket or waits for an address was typed (forwarding, queueing and the
\* walk over sbuf make no second copy, and a bridge floods none that another one
\* also delivers).
NoPacketTwice == arrived + OnWire + Waiting <= typed

\* The TTL that ipv4_output sets, tested on input and decremented on output,
\* bounds the way of a packet: 31 links, in a loop of routers too.
TtlBoundsHops == carried <= 31 * typed

\* What an ARP table says of an address is the MAC address of an interface that
\* has it or had it: requests and replies name their sender across bridges.
EntriesAreTrue ==
  \A h \in Hosts, a \in Addr \ {INADDR_ANY} :
    arptable[h][IPHASH[a]].ip_addr = a => arptable[h][IPHASH[a]].macaddr \in owned[a]

\* A SYN typed after everything was set up and settled arrives, although frames
\* of earlier ones were lost to sockets that were not there, requests are never
\* repeated and a router may have restarted; and the packets that a lost request
\* or reply has left waiting arrive with it.
PromisedArrive == (arrived < due) ~> (arrived >= due)

\* Whatever is typed, the network falls silent: no packet circles for ever.
FallsSilent == <>[]Quiet

(***************************************************************************)
(* What the course text says, and the code does not do.                    *)
(***************************************************************************)
\* A packet waits for a next hop that the ARP table of its host knows.
Resolved(h) ==
  \E i \in DOMAIN sbuf[h] :
    arptable[h][IPHASH[sbuf[h][i].nextip]].ip_addr = sbuf[h][i].nextip

\* A packet that was put aside is sent once its address is resolved.
ResolvedIsSent == \A h \in Hosts : Resolved(h) ~> ~ Resolved(h)
=============================================================================
