------------------------------- MODULE Network ------------------------------
(***************************************************************************)
(* Hosts, each a process that runs Stack, joined by UNIX datagram sockets  *)
(* (my_ifnet.c, ether_output, and the event loop of main.c).               *)
(*                                                                         *)
(* An interface has a socket bound to the file "in" and sends to whatever  *)
(* socket the file "out" names at that moment: none, when the neighbour has *)
(* not created its interface yet, or has exited.  The user of each host    *)
(* types the commands of a script, at any pace; the kernel queues as many  *)
(* datagrams for a socket as it has space for and refuses the rest.        *)
(***************************************************************************)
EXTENDS Naturals, Sequences

CONSTANTS
  Width, Mac, MaxIf, BROADCAST, ZeroMac, Slots, MACHASH, IPHASH, FibSize,
  MaxBuf, MaxFib,       \* as in Stack
  Path,                 \* the names of socket files
  Scenarios             \* what the users type at each host, and how many
                        \* datagrams a socket has room for

Hosts == 1 .. 3
Nobody == <<>>

VARIABLES
  ifs1, flags1, mactable1, arptable1, sbuf1, rib1, fib_n1, fib1,
  ifs2, flags2, mactable2, arptable2, sbuf2, rib2, fib_n2, fib2,
  ifs3, flags3, mactable3, arptable3, sbuf3, rib3, fib_n3, fib3,
  sent, delivered, rx,  \* of the last event, whichever host it was at
  script,               \* host -> the commands still to be typed
  space,                \* datagrams a socket's receive buffer has room for
  file,                 \* path -> the socket bound to it, or Nobody
  out,                  \* host -> the path each of its interfaces sends to
  sock                  \* host -> the datagrams waiting at each interface

host1 == <<ifs1, flags1, mactable1, arptable1, sbuf1, rib1, fib_n1, fib1>>
host2 == <<ifs2, flags2, mactable2, arptable2, sbuf2, rib2, fib_n2, fib2>>
host3 == <<ifs3, flags3, mactable3, arptable3, sbuf3, rib3, fib_n3, fib3>>
medium == <<file, out, sock>>
vars == <<host1, host2, host3, sent, delivered, rx, script, space, medium>>

None == {}      \* Stack's own environment is not used here

H1 == INSTANCE Stack WITH
  ifs <- ifs1, bridge_flags <- flags1, mactable <- mactable1,
  arptable <- arptable1, sbuf <- sbuf1, rib <- rib1, fib_n <- fib_n1, fib <- fib1,
  Cards <- None, Arrivals <- None, RouteCmds <- None, TcpDsts <- None, Answers <- None
H2 == INSTANCE Stack WITH
  ifs <- ifs2, bridge_flags <- flags2, mactable <- mactable2,
  arptable <- arptable2, sbuf <- sbuf2, rib <- rib2, fib_n <- fib_n2, fib <- fib2,
  Cards <- None, Arrivals <- None, RouteCmds <- None, TcpDsts <- None, Answers <- None
H3 == INSTANCE Stack WITH
  ifs <- ifs3, bridge_flags <- flags3, mactable <- mactable3,
  arptable <- arptable3, sbuf <- sbuf3, rib <- rib3, fib_n <- fib_n3, fib <- fib3,
  Cards <- None, Arrivals <- None, RouteCmds <- None, TcpDsts <- None, Answers <- None

\* The commands of a script, with what is typed for each.
Command ==
       [cmd : {"create"}, card : {c \in H1!Card : c.mac \notin {BROADCAST, ZeroMac}},
        in : Path, out : Path]
  \cup [cmd : {"tcp"}, ifp : Nat, dst : H1!Addr]
  \cup [cmd : {"route"}, ifp : Nat, dst : H1!Prefix, next : H1!Addr]
  \cup [cmd : {"fwdctl"}, flags : [l2 : BOOLEAN, l3 : BOOLEAN]]
  \cup [cmd : {"exit"}]

\* What Stack assumes, and what may be typed.
ASSUME NetworkAssumption ==
  /\ Width \in Nat \ {0} /\ FibSize \in Nat \ {0}
  /\ MaxIf \in Nat /\ MaxBuf \in Nat /\ MaxFib \in Nat
  /\ BROADCAST \in Mac /\ ZeroMac \in Mac \ {BROADCAST}
  /\ MACHASH \in [Mac -> Slots] /\ MACHASH[BROADCAST] = MACHASH[ZeroMac]
  /\ IPHASH \in [H1!Addr -> Slots]
  /\ Scenarios \subseteq [script : [Hosts -> Seq(Command)], space : Nat]

\* The tables of the hosts, side by side.
ifs == <<ifs1, ifs2, ifs3>>
arptable == <<arptable1, arptable2, arptable3>>
sbuf == <<sbuf1, sbuf2, sbuf3>>

Init ==
  /\ H1!Init /\ H2!Init /\ H3!Init
  /\ \E s \in Scenarios : script = s.script /\ space = s.space
  /\ file = [p \in Path |-> Nobody]
  /\ out = [h \in Hosts |-> <<>>]
  /\ sock = [h \in Hosts |-> <<>>]

(***************************************************************************)
(* The sockets.                                                            *)
(***************************************************************************)
\* Mutant: a datagram finds room in a full buffer.
sendto_NoLimit(h, queues, tx) ==
  LET to == file'[out'[h][tx.ifp]]
  IN  IF to = Nobody THEN queues ELSE [queues EXCEPT ![to[1]][to[2]] = Append(@, tx.eh)]

\* sendto by host h: the datagram joins the queue of the socket that the file
\* names; without a socket, or without room, it fails and the frame is lost.
sendto(h, queues, tx) ==
  LET to == file'[out'[h][tx.ifp]]
  IN  IF to = Nobody \/ Len(queues[to[1]][to[2]]) >= space THEN queues
      ELSE [queues EXCEPT ![to[1]][to[2]] = Append(@, tx.eh)]

\* The frames of the event, in the order they were sent in.
SendAll(h, queues) ==
  LET after[n \in 0 .. Len(sent')] ==
        IF n = 0 THEN queues ELSE sendto(h, after[n - 1], sent'[n])
  IN  sock' = after[Len(sent')]

\* add_if: the file is unlinked and bound anew, whoever had it before.
bind(h, c) ==
  /\ file' = [file EXCEPT ![c.in] = <<h, Len(sock[h]) + 1>>]
  /\ out' = [out EXCEPT ![h] = Append(@, c.out)]
  /\ SendAll(h, [sock EXCEPT ![h] = Append(@, <<>>)])

\* The process ends: its sockets are closed, what they had queued is gone, and
\* the files lead nowhere.
close(h) ==
  /\ file' = [p \in Path |-> IF file[p] # Nobody /\ file[p][1] = h THEN Nobody ELSE file[p]]
  /\ out' = [out EXCEPT ![h] = <<>>]
  /\ sock' = [sock EXCEPT ![h] = <<>>]

(***************************************************************************)
(* The event loop.                                                         *)
(***************************************************************************)
\* dev_input: one datagram is received and handled to the end.
Receive(h, ifp) ==
  /\ ifp <= Len(sock[h]) /\ sock[h][ifp] # <<>>
  /\ LET eh == Head(sock[h][ifp])
     IN  \/ h = 1 /\ H1!Recv(ifp, eh) /\ UNCHANGED <<host2, host3>>
         \/ h = 2 /\ H2!Recv(ifp, eh) /\ UNCHANGED <<host1, host3>>
         \/ h = 3 /\ H3!Recv(ifp, eh) /\ UNCHANGED <<host1, host2>>
  /\ UNCHANGED <<script, file, out>>
  /\ SendAll(h, [sock EXCEPT ![h][ifp] = Tail(@)])

\* The next line of the script of host h is a command of this kind.
Typed(h, kind) ==
  /\ script[h] # <<>> /\ Head(script[h]).cmd = kind
  /\ script' = [script EXCEPT ![h] = Tail(@)]

TypeCreate(h) ==
  /\ Typed(h, "create")
  /\ LET c == Head(script[h])
     IN  /\ \/ h = 1 /\ H1!Create(c.card) /\ UNCHANGED <<host2, host3>>
            \/ h = 2 /\ H2!Create(c.card) /\ UNCHANGED <<host1, host3>>
            \/ h = 3 /\ H3!Create(c.card) /\ UNCHANGED <<host1, host2>>
         /\ bind(h, c)

\* find_if: the command names an interface that exists.
find_if(h, c) == c.ifp \in DOMAIN ifs[h]

TypeTcp(h) ==
  /\ Typed(h, "tcp") /\ find_if(h, Head(script[h]))
  /\ LET c == Head(script[h])
     IN  \/ h = 1 /\ H1!Tcp(c.ifp, c.dst) /\ UNCHANGED <<host2, host3>>
         \/ h = 2 /\ H2!Tcp(c.ifp, c.dst) /\ UNCHANGED <<host1, host3>>
         \/ h = 3 /\ H3!Tcp(c.ifp, c.dst) /\ UNCHANGED <<host1, host2>>
  /\ UNCHANGED <<file, out>>
  /\ SendAll(h, sock)

TypeFwdctl(h) ==
  /\ Typed(h, "fwdctl")
  /\ LET c == Head(script[h])
     IN  \/ h = 1 /\ H1!Fwdctl(c.flags) /\ UNCHANGED <<host2, host3>>
         \/ h = 2 /\ H2!Fwdctl(c.flags) /\ UNCHANGED <<host1, host3>>
         \/ h = 3 /\ H3!Fwdctl(c.flags) /\ UNCHANGED <<host1, host2>>
  /\ UNCHANGED medium

TypeRoute(h) ==
  /\ Typed(h, "route") /\ find_if(h, Head(script[h]))
  /\ LET c == Head(script[h])
     IN  \/ h = 1 /\ H1!RouteAdd(c.ifp, c) /\ UNCHANGED <<host2, host3>>
         \/ h = 2 /\ H2!RouteAdd(c.ifp, c) /\ UNCHANGED <<host1, host3>>
         \/ h = 3 /\ H3!RouteAdd(c.ifp, c) /\ UNCHANGED <<host1, host2>>
  /\ UNCHANGED medium

\* tcp or route with an interface that does not exist: the command returns.
TypeRefused(h) ==
  /\ Typed(h, "tcp") \/ Typed(h, "route")
  /\ ~ find_if(h, Head(script[h]))
  /\ sent' = <<>> /\ delivered' = <<>> /\ rx' = [kind |-> "command"]
  /\ UNCHANGED <<host1, host2, host3, medium>>

\* exit, and the program started again: nothing but the files is left.
TypeExit(h) ==
  /\ Typed(h, "exit")
  /\ \/ h = 1 /\ H1!Restart /\ UNCHANGED <<host2, host3>>
     \/ h = 2 /\ H2!Restart /\ UNCHANGED <<host1, host3>>
     \/ h = 3 /\ H3!Restart /\ UNCHANGED <<host1, host2>>
  /\ close(h)

Type(h) ==
  \/ TypeCreate(h) \/ TypeTcp(h) \/ TypeFwdctl(h) \/ TypeRoute(h)
  \/ TypeRefused(h) \/ TypeExit(h)

Next ==
  /\ \E h \in Hosts : Type(h) \/ \E ifp \in 1 .. MaxIf : Receive(h, ifp)
  /\ UNCHANGED space

\* kqueue hands out the descriptors that are ready in turn, and the users go on
\* typing: no socket with a datagram, and no script, is passed over for ever.
Fairness ==
  \A h \in Hosts :
    /\ WF_vars(Type(h) /\ UNCHANGED space)
    /\ \A ifp \in 1 .. MaxIf : WF_vars(Receive(h, ifp) /\ UNCHANGED space)

Spec == Init /\ [][Next]_vars
=============================================================================
