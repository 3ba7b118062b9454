------------------------------- MODULE Tour -------------------------------
(***************************************************************************)
(* The tour application of Assignment 4 (Code/tour.c) on top of the ARP    *)
(* processes of module ARP: one process per node, which walks a source     *)
(* route, asks ARP for the address of the node before it, 'pings' that     *)
(* node once a second, and leaves after the multicast that ends the tour.  *)
(*                                                                         *)
(* A process is in select() (pc "loop") or, in the middle of the handler   *)
(* for a source-route packet, before the connect() of areq() ("call") or   *)
(* in its read() ("areq").  SIGALRM may arrive in each.  Where it arrives  *)
(* in between and this makes a difference, there is an action for it.      *)
(***************************************************************************)
EXTENDS ARP

CONSTANT
  Route     \* source_route: the source node and the nodes named by its user

ASSUME RouteAssumption ==
  /\ Route \in Seq(Node)
  /\ Len(Route) > 1
  /\ \A k \in 1 .. Len(Route) - 1 : Route[k] # Route[k + 1]

VARIABLES
  tour,     \* [node]: the process's globals, pc, and whether an alarm is set
  rt,       \* [node]: source-route packets received and not yet read
  group     \* [node]: whether a multicast datagram that matters is unread

tourvars == <<tour, rt, group>>
tvars == <<arpvars, tourvars>>

Source == Route[1]

OnRoute == {Route[k] : k \in DOMAIN Route}

Alive(n) == tour[n].pc \in {"start", "loop", "call", "areq"}

----------------------------------------------------------------------------
(* Packets (external: raw and UDP sockets) *)

\* A packet for the node at a position of the route.
SendOn(queues, n, offset) ==
  LET m == Route[offset]
  IN  IF Alive(m)
      THEN [queues EXCEPT ![m] = Append(@, [offset |-> offset, src |-> n])]
      ELSE queues

\* A datagram to the group reaches every process that joined it, the sender too.
\* What it says is only printed, and after the first one nothing else is done.
Multicast(unread) ==
  [m \in Node |-> unread[m] \/ (Alive(m) /\ tour[m].visited /\ ~tour[m].option)]

----------------------------------------------------------------------------
(* sig_alrm() *)

\* Only whether ping_cnt[0] equals 5 matters: 6 stands for all later values.
Counted(c) == IF c < 6 THEN c + 1 ELSE c

Ping(t) == [t EXCEPT !.ping_cnt = Counted(@), !.alarm = TRUE]

\* Mutant of Announces: any node announces the end.
AnnouncesAnywhere(t) == ~t.option /\ t.ping_cnt = 5

Announces(t) == ~t.option /\ t.ping_cnt = 5 /\ t.last_node

\* A process that has ended; of its state only what it did to others remains.
Gone(t, how) ==
  [t EXCEPT !.pc = how, !.alarm = FALSE, !.last_node = FALSE, !.ping_cnt = 0,
            !.ping_addr = <<>>]

\* The process after sig_alrm(): gone, done with pinging, or pinging on.
AfterAlarm(t) ==
  IF t.option THEN Gone(t, "done")
  ELSE IF Announces(t) THEN t
  ELSE Ping(t)

Announced(t) == IF Announces(t) THEN Multicast(group) ELSE group

\* The process of n ends and with it its end of all connections to ARP.
Exit(n) == HangUp(n, DOMAIN conn[n])

sig_alrm(n, t) ==
  /\ tour' = [tour EXCEPT ![n] = AfterAlarm(t)]
  /\ group' = Announced(t)
  /\ IF AfterAlarm(t).pc = "done" THEN Exit(n) ELSE UNCHANGED arpvars

Fails(n, t) ==
  /\ tour' = [tour EXCEPT ![n] = Gone(t, "failed")]
  /\ Exit(n)

----------------------------------------------------------------------------
(* The process *)

\* Mutant of Start: the source is the first node to visit.
StartAtSource(n) ==
  /\ tour[n].pc = "start"
  /\ tour' = [tour EXCEPT ![n].visited = TRUE, ![n].pc = "loop"]
  /\ rt' = SendOn(rt, n, 1)
  /\ UNCHANGED <<group, arpvars>>

\* The source node joins the group and sends the first packet.
Start(n) ==
  /\ tour[n].pc = "start"
  /\ tour' = [tour EXCEPT ![n].visited = TRUE, ![n].pc = "loop"]
  /\ rt' = SendOn(rt, n, 2)
  /\ UNCHANGED <<group, arpvars>>

PacketArrived(n) == tour[n].pc = "loop" /\ rt[n] # <<>>

\* Mutant of Forwarded: the packet goes to where it came from in the list.
ForwardedSame(n) ==
  LET p == Head(rt[n])
      rest == [rt EXCEPT ![n] = Tail(@)]
  IN  IF p.offset = Len(Route) THEN rest ELSE SendOn(rest, n, p.offset)

\* The packet goes to the next node, unless this is the last one.
Forwarded(n) ==
  LET p == Head(rt[n])
      rest == [rt EXCEPT ![n] = Tail(@)]
  IN  IF p.offset = Len(Route) THEN rest ELSE SendOn(rest, n, p.offset + 1)

\* The first visit joins the group.
Visited(n) ==
  LET p == Head(rt[n])
  IN  [tour[n] EXCEPT !.visited = TRUE, !.src = p.src,
                      !.last_node = @ \/ p.offset = Len(Route)]

\* The handler up to the call of areq().
RoutePacket(n) ==
  /\ PacketArrived(n)
  /\ tour' = [tour EXCEPT ![n] = [Visited(n) EXCEPT !.pc = "call"]]
  /\ rt' = Forwarded(n)
  /\ UNCHANGED <<group, arpvars>>

\* Mutant of CallAreq: the result of connect() is not checked.
CallAreqUnchecked(n) ==
  /\ tour[n].pc = "call"
  /\ tour' = [tour EXCEPT ![n].pc = "areq"]
  /\ conn' = [conn EXCEPT ![n] = Append(@, NewConn(tour[n].src))]
  /\ UNCHANGED <<rt, group, cache, eth0, arp>>

\* areq() up to its read().
CallAreq(n) ==
  /\ tour[n].pc = "call"
  /\ tour' = [tour EXCEPT ![n].pc = "areq"]
  /\ Connect(n, tour[n].src)
  /\ UNCHANGED <<rt, group>>

\* connect() fails because ARP has ended.
AreqRefused(n) ==
  /\ tour[n].pc = "call"
  /\ ~ArpUp(n)
  /\ Fails(n, tour[n])
  /\ UNCHANGED <<rt, group>>

Asked(n) == conn[n][Len(conn[n])]

\* areq() returns, also at end of file.
Returned(n) == tour[n].pc = "areq" /\ Asked(n).state = "closed"

AlreadyPinged(t) == \E k \in DOMAIN t.ping_addr : t.ping_addr[k] = t.src

WithPing(t) == [t EXCEPT !.pc = "loop", !.ping_addr = Append(@, t.src)]

\* The node before is pinged, unless it is already; the first ping calls
\* sig_alrm() directly.
AreqReturns(n) ==
  /\ Returned(n)
  /\ IF AlreadyPinged(tour[n])
     THEN tour' = [tour EXCEPT ![n].pc = "loop"] /\ UNCHANGED <<group, arpvars>>
     ELSE sig_alrm(n, WithPing(tour[n]))
  /\ UNCHANGED rt

\* The alarm goes off in that call: after its tests, so that the ping is counted
\* twice, or when it has been counted.
FirstPingInterrupted(n) ==
  LET t == WithPing(tour[n])
  IN  /\ Returned(n)
      /\ ~AlreadyPinged(tour[n])
      /\ t.alarm /\ ~t.option /\ ~Announces(t)
      /\ \/ tour' = [tour EXCEPT ![n] = Ping(Ping(t))] /\ UNCHANGED group
         \/ /\ Announces(Ping(t))
            /\ tour' = [tour EXCEPT ![n] = Ping(t)]
            /\ group' = Announced(Ping(t))
      /\ UNCHANGED <<rt, arpvars>>

\* read() fails because ARP ended before it accepted the connection.
AreqReset(n) ==
  /\ tour[n].pc = "areq"
  /\ Asked(n).state = "reset"
  /\ Fails(n, tour[n])
  /\ UNCHANGED <<rt, group>>

\* The alarm goes off and the process continues where it was.
Alarm(n) ==
  /\ Alive(n)
  /\ tour[n].alarm
  /\ sig_alrm(n, [tour[n] EXCEPT !.alarm = FALSE])
  /\ UNCHANGED rt

\* The alarm goes off in the read() of areq(), which fails: the process exits
\* after sig_alrm() has returned.
AreqInterrupted(n) ==
  /\ tour[n].pc = "areq"
  /\ tour[n].alarm
  /\ ~tour[n].option
  /\ Asked(n).state \in {"queued", "open"}
  /\ group' = Announced(tour[n])
  /\ Fails(n, tour[n])
  /\ UNCHANGED rt

FirstMessage(n) == tour[n].pc = "loop" /\ group[n] /\ ~tour[n].option

\* Mutant of GroupMessage: no alarm is set.
GroupMessageNoAlarm(n) ==
  /\ FirstMessage(n)
  /\ group' = [Multicast(group) EXCEPT ![n] = FALSE]
  /\ tour' = [tour EXCEPT ![n].option = TRUE]
  /\ UNCHANGED <<rt, arpvars>>

\* The first message of any kind ends the pinging; the process identifies itself
\* and sets the alarm that ends it.
GroupMessage(n) ==
  /\ FirstMessage(n)
  /\ group' = [Multicast(group) EXCEPT ![n] = FALSE]
  /\ tour' = [tour EXCEPT ![n].option = TRUE, ![n].alarm = TRUE]
  /\ UNCHANGED <<rt, arpvars>>

\* The alarm goes off when option is set and nothing sent: the process exits.
GroupMessageCut(n) ==
  /\ FirstMessage(n)
  /\ tour[n].alarm
  /\ group' = [group EXCEPT ![n] = FALSE]
  /\ tour' = [tour EXCEPT ![n] = AfterAlarm([@ EXCEPT !.option = TRUE])]
  /\ Exit(n)
  /\ UNCHANGED rt

----------------------------------------------------------------------------
(* What surrounds the processes (external) *)

LosePacket(n) ==
  /\ Lossy
  /\ Alive(n)
  /\ \/ rt[n] # <<>> /\ rt' = [rt EXCEPT ![n] = Tail(@)] /\ UNCHANGED group
     \/ group[n] /\ group' = [group EXCEPT ![n] = FALSE] /\ UNCHANGED rt
  /\ UNCHANGED <<tour, arpvars>>

QuitTour(n) == n \in Quits /\ Alive(n) /\ Fails(n, tour[n]) /\ UNCHANGED <<rt, group>>

----------------------------------------------------------------------------

TourInit ==
  /\ ArpInit
  /\ tour = [n \in Node |->
               [visited |-> FALSE, option |-> FALSE, last_node |-> FALSE,
                ping_addr |-> <<>>, ping_cnt |-> 0, alarm |-> FALSE, src |-> n,
                pc |-> IF n = Source THEN "start" ELSE "loop"]]
  /\ rt = [n \in Node |-> <<>>]
  /\ group = [n \in Node |-> FALSE]

Areq(n) ==
  \/ CallAreq(n) \/ AreqRefused(n)
  \/ AreqReturns(n) \/ FirstPingInterrupted(n) \/ AreqReset(n) \/ AreqInterrupted(n)

TourNext ==
  \E n \in Node :
    \/ (ArpStep(n) \/ LoseArpFrame(n) \/ QuitArp(n)) /\ UNCHANGED tourvars
    \/ Start(n) \/ RoutePacket(n) \/ Areq(n)
    \/ Alarm(n) \/ GroupMessage(n) \/ GroupMessageCut(n)
    \/ LosePacket(n) \/ QuitTour(n)

TourSpec == TourInit /\ [][TourNext]_tvars

\* Both processes serve every ready descriptor between two calls of select(),
\* and a timer that is set expires.  Nobody has to start a tour.
Fairness ==
  \A n \in Node :
    /\ WF_tvars(ArpStep(n) /\ UNCHANGED tourvars)
    /\ WF_tvars(RoutePacket(n))
    /\ WF_tvars(CallAreq(n) \/ AreqRefused(n))
    /\ WF_tvars(AreqReturns(n) \/ AreqReset(n))
    /\ WF_tvars(Alarm(n))
    /\ WF_tvars(GroupMessage(n))

FairTourSpec == TourSpec /\ Fairness

----------------------------------------------------------------------------
(* Properties *)

\* The variables of the application have their types.
TourTypeOK ==
  /\ tour \in [Node -> [visited : BOOLEAN, option : BOOLEAN, last_node : BOOLEAN,
                        ping_addr : Seq(Node), ping_cnt : 0 .. 6, alarm : BOOLEAN,
                        src : Node,
                        pc : {"start", "loop", "call", "areq", "done", "failed"}]]
  /\ rt \in [Node -> Seq([offset : 2 .. Len(Route), src : Node])]
  /\ group \in [Node -> BOOLEAN]

\* Pinging stops, and group members identify themselves, only when every node
\* on the route has been visited: sig_alrm() decides it from two counters and a
\* flag of one node.
EndsAfterAllVisited ==
  (\E n \in Node : tour[n].option \/ group[n]) =>
    \A m \in OnRoute : tour[m].visited

\* A packet is where the route says, comes from the node before, and all of the
\* nodes before have joined the group.
PacketOnRoute ==
  \A n \in Node : \A j \in DOMAIN rt[n] :
    LET p == rt[n][j]
    IN  /\ Route[p.offset] = n
        /\ Route[p.offset - 1] = p.src
        /\ \A k \in 1 .. p.offset - 1 : tour[Route[k]].visited

\* Once a tour is started every process on the route leaves in the way the
\* program provides for.
TourEnds == tour[Source].visited ~> \A n \in OnRoute : tour[n].pc = "done"

\* No ARP process ends.
ArpStaysUp == \A n \in Node : ArpUp(n)

\* The ARP processes, asked by this application, behave as module ARP says.
ARPSpec == ArpSpec
=============================================================================
