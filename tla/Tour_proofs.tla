---------------------------- MODULE Tour_proofs ----------------------------
(***************************************************************************)
(* The end of a tour comes after every visit, for every route; and the     *)
(* tour application uses the ARP processes as module ARP allows, so that   *)
(* what is proved there holds during every tour.  As each tour process     *)
(* asks for one address at a time, replies find the one who asked and      *)
(* answers are right.  If no node is visited twice, no ARP process ends.   *)
(***************************************************************************)
EXTENDS Tour, ARP_proofs

----------------------------------------------------------------------------
(* The end of the tour *)

Process ==
  [visited : BOOLEAN, option : BOOLEAN, last_node : BOOLEAN,
   ping_addr : Seq(Node), ping_cnt : 0 .. 6, alarm : BOOLEAN,
   src : Node, pc : {"start", "loop", "call", "areq", "done", "failed"}]

RoutePackets == [Node -> Seq([offset : 2 .. Len(Route), src : Node])]

Messages == [Node -> BOOLEAN]

\* Whether packet p belongs at node m, if the nodes in V have been visited.
BelongsAt(V, m, p) ==
  /\ Route[p.offset] = m
  /\ Route[p.offset - 1] = p.src
  /\ \A k \in 1 .. p.offset - 1 : Route[k] \in V

InPlace(V, queues) ==
  \A m \in Node : \A j \in DOMAIN queues[m] : BelongsAt(V, m, queues[m][j])

VisitedNodes == {m \in Node : tour[m].visited}

AllVisited == OnRoute \subseteq VisitedNodes

\* Nothing of the end of the tour is to be seen.
Quiet ==
  \A n \in Node : ~tour[n].option /\ ~tour[n].last_node /\ ~group[n]

\* The inductive invariant: last_node too is set only when all are visited.
EndInv ==
  /\ tour \in [Node -> Process]
  /\ rt \in RoutePackets
  /\ group \in Messages
  /\ \A n \in Node : tour[n].pc = "start" => n = Source
  /\ InPlace(VisitedNodes, rt)
  /\ AllVisited \/ Quiet

LEMMA RouteFacts ==
  /\ Len(Route) \in Nat /\ Len(Route) > 1
  /\ \A k \in 1 .. Len(Route) : Route[k] \in Node
  /\ OnRoute \subseteq Node
BY RouteAssumption DEF OnRoute

LEMMA EndInvMeans ==
  EndInv => TourTypeOK /\ PacketOnRoute /\ EndsAfterAllVisited
<1>. SUFFICES ASSUME EndInv  PROVE TourTypeOK /\ PacketOnRoute /\ EndsAfterAllVisited
  OBVIOUS
<1>1. TourTypeOK
  BY DEF EndInv, TourTypeOK, Process, RoutePackets, Messages
<1>2. PacketOnRoute
  <2>. SUFFICES ASSUME NEW n \in Node, NEW j \in DOMAIN rt[n]
                PROVE  /\ Route[rt[n][j].offset] = n
                       /\ Route[rt[n][j].offset - 1] = rt[n][j].src
                       /\ \A k \in 1 .. rt[n][j].offset - 1 : tour[Route[k]].visited
    BY DEF PacketOnRoute
  <2>. QED  BY DEF EndInv, InPlace, BelongsAt, VisitedNodes
<1>3. EndsAfterAllVisited
  BY DEF EndInv, Quiet, AllVisited, VisitedNodes, EndsAfterAllVisited
<1>. QED  BY <1>1, <1>2, <1>3

----------------------------------------------------------------------------
(* Queues of packets *)

LEMMA InPlaceGrows ==
  ASSUME NEW V, NEW W, V \subseteq W, NEW queues, InPlace(V, queues)
  PROVE  InPlace(W, queues)
BY DEF InPlace, BelongsAt

LEMMA InPlaceTail ==
  ASSUME NEW V, NEW queues \in RoutePackets, InPlace(V, queues), NEW n \in Node,
         queues[n] # <<>>
  PROVE  /\ [queues EXCEPT ![n] = Tail(@)] \in RoutePackets
         /\ InPlace(V, [queues EXCEPT ![n] = Tail(@)])
         /\ Head(queues[n]) \in [offset : 2 .. Len(Route), src : Node]
         /\ BelongsAt(V, n, Head(queues[n]))
<1>. DEFINE P == [offset : 2 .. Len(Route), src : Node]
            q == [queues EXCEPT ![n] = Tail(@)]
<1>1. queues[n] \in Seq(P)
  BY DEF RoutePackets
<1>. HIDE DEF P
<1>2. /\ Head(queues[n]) = queues[n][1] /\ 1 \in DOMAIN queues[n]
      /\ Head(queues[n]) \in P /\ Tail(queues[n]) \in Seq(P)
      /\ \A j \in DOMAIN Tail(queues[n]) :
           j + 1 \in DOMAIN queues[n] /\ Tail(queues[n])[j] = queues[n][j + 1]
  BY <1>1
<1>3. q \in RoutePackets
  BY <1>2 DEF RoutePackets, P
<1>4. ASSUME NEW m \in Node, NEW j \in DOMAIN q[m]  PROVE BelongsAt(V, m, q[m][j])
  <2>1. CASE m = n
    <3>1. q[m] = Tail(queues[n])
      BY <2>1 DEF RoutePackets
    <3>2. j + 1 \in DOMAIN queues[n] /\ q[m][j] = queues[n][j + 1]
      BY <1>2, <3>1
    <3>. HIDE DEF q
    <3>. QED  BY <2>1, <3>2 DEF InPlace
  <2>2. CASE m # n
    BY <2>2 DEF InPlace, RoutePackets
  <2>. QED  BY <2>1, <2>2
<1>. QED  BY <1>2, <1>3, <1>4 DEF InPlace, P

LEMMA InPlaceSend ==
  ASSUME NEW V, NEW queues \in RoutePackets, InPlace(V, queues), NEW n \in Node,
         NEW k \in 2 .. Len(Route), Route[k - 1] = n,
         \A j \in 1 .. k - 1 : Route[j] \in V
  PROVE  SendOn(queues, n, k) \in RoutePackets /\ InPlace(V, SendOn(queues, n, k))
<1>. DEFINE P == [offset : 2 .. Len(Route), src : Node]
            m == Route[k]
            p == [offset |-> k, src |-> n]
            q == [queues EXCEPT ![m] = Append(@, p)]
<1>1. m \in Node
  BY RouteFacts
<1>2. p \in P /\ p.offset = k /\ p.src = n
  OBVIOUS
<1>3. queues[m] \in Seq(P)
  BY <1>1 DEF RoutePackets
<1>4. BelongsAt(V, m, p)
  BY <1>2 DEF BelongsAt
<1>5. SendOn(queues, n, k) = q \/ SendOn(queues, n, k) = queues
  BY DEF SendOn
<1>. HIDE DEF P, p, m
<1>6. /\ Append(queues[m], p) \in Seq(P)
      /\ \A j \in DOMAIN Append(queues[m], p) :
           \/ j \in DOMAIN queues[m] /\ Append(queues[m], p)[j] = queues[m][j]
           \/ Append(queues[m], p)[j] = p
  BY <1>2, <1>3
<1>7. q \in RoutePackets
  BY <1>1, <1>6 DEF RoutePackets, P
<1>8. ASSUME NEW x \in Node, NEW j \in DOMAIN q[x]  PROVE BelongsAt(V, x, q[x][j])
  <2>1. CASE x = m
    <3>1. q[x] = Append(queues[m], p)
      BY <1>1, <2>1 DEF RoutePackets
    <3>2. (j \in DOMAIN queues[m] /\ q[x][j] = queues[m][j]) \/ q[x][j] = p
      BY <1>6, <3>1
    <3>. HIDE DEF q
    <3>. QED  BY <1>1, <1>4, <2>1, <3>2 DEF InPlace
  <2>2. CASE x # m
    BY <2>2 DEF InPlace, RoutePackets
  <2>. QED  BY <2>1, <2>2
<1>9. InPlace(V, q)
  BY <1>8 DEF InPlace
<1>. QED  BY <1>5, <1>7, <1>9

----------------------------------------------------------------------------
(* Steps of a process *)

\* A step that changes the globals of n to t, and of the end of the tour lets
\* nothing be seen while nothing was.
LEMMA ProcessStep ==
  ASSUME EndInv, NEW n \in Node, NEW t \in Process,
         tour' = [tour EXCEPT ![n] = t],
         tour[n].visited => t.visited,
         t.pc = "start" => tour[n].pc = "start",
         rt' \in RoutePackets, InPlace(VisitedNodes', rt'),
         group' \in Messages,
         Quiet => AllVisited' \/ (~t.option /\ ~t.last_node /\ group' = group)
  PROVE  EndInv'
<1>1. /\ tour' \in [Node -> Process]
      /\ \A m \in Node : tour'[m] = IF m = n THEN t ELSE tour[m]
  BY DEF EndInv
<1>2. VisitedNodes \subseteq VisitedNodes'
  BY <1>1 DEF VisitedNodes
<1>3. \A m \in Node : tour'[m].pc = "start" => m = Source
  BY <1>1 DEF EndInv
<1>4. AllVisited => AllVisited'
  BY <1>2 DEF AllVisited, OnRoute
<1>5. Quiet => AllVisited' \/ Quiet'
  BY <1>1 DEF Quiet
<1>. QED  BY <1>1, <1>3, <1>4, <1>5 DEF EndInv

\* The same for a step that leaves the packets alone.
LEMMA LocalStep ==
  ASSUME EndInv, NEW n \in Node, NEW t \in Process,
         tour' = [tour EXCEPT ![n] = t],
         tour[n].visited => t.visited,
         t.pc = "start" => tour[n].pc = "start",
         UNCHANGED rt, group' \in Messages,
         Quiet => ~t.option /\ ~t.last_node /\ group' = group
  PROVE  EndInv'
<1>1. VisitedNodes \subseteq VisitedNodes'
  BY DEF VisitedNodes, EndInv
<1>2. InPlace(VisitedNodes', rt') /\ rt' \in RoutePackets
  BY <1>1, InPlaceGrows DEF EndInv
<1>. QED  BY <1>2, ProcessStep

LEMMA MulticastType ==
  ASSUME NEW unread \in Messages
  PROVE  Multicast(unread) \in Messages
BY DEF Multicast, Messages

LEMMA PingType ==
  ASSUME NEW t \in Process
  PROVE  /\ Ping(t) \in Process
         /\ Ping(t).visited = t.visited
         /\ Ping(t).option = t.option
         /\ Ping(t).last_node = t.last_node
         /\ Ping(t).pc = t.pc
<1>1. Counted(t.ping_cnt) \in 0 .. 6
  BY DEF Counted, Process
<1>. QED  BY <1>1 DEF Ping, Process

LEMMA GoneType ==
  ASSUME NEW t \in Process, NEW how \in {"done", "failed"}
  PROVE  /\ Gone(t, how) \in Process
         /\ Gone(t, how).visited = t.visited
         /\ Gone(t, how).option = t.option
         /\ ~Gone(t, how).last_node
         /\ Gone(t, how).pc = how
<1>1. <<>> \in Seq(Node) /\ 0 \in 0 .. 6
  OBVIOUS
<1>2. Gone(t, how) \in Process
  BY <1>1 DEF Gone, Process
<1>3. /\ Gone(t, how).visited = t.visited
      /\ Gone(t, how).option = t.option
      /\ Gone(t, how).last_node = FALSE
      /\ Gone(t, how).pc = how
  BY DEF Gone, Process
<1>. QED  BY <1>2, <1>3

LEMMA AfterAlarmType ==
  ASSUME NEW t \in Process
  PROVE  /\ AfterAlarm(t) \in Process
         /\ AfterAlarm(t).visited = t.visited
         /\ AfterAlarm(t).option = t.option
         /\ AfterAlarm(t).last_node => t.last_node
         /\ AfterAlarm(t).pc \in {t.pc, "done"}
<1>2. CASE t.option
  BY <1>2, GoneType DEF AfterAlarm
<1>3. CASE ~t.option
  BY <1>3, PingType DEF AfterAlarm
<1>. QED  BY <1>2, <1>3

LEMMA AnnouncedType ==
  ASSUME group \in Messages, NEW t
  PROVE  Announced(t) \in Messages /\ (~t.last_node => Announced(t) = group)
BY MulticastType DEF Announced, Announces

LEMMA AlarmKeeps ==
  ASSUME EndInv, NEW n \in Node, NEW t \in Process, sig_alrm(n, t), UNCHANGED rt,
         t.visited = tour[n].visited, t.option = tour[n].option,
         t.last_node = tour[n].last_node, t.pc # "start" \/ tour[n].pc = "start"
  PROVE  EndInv'
<1>. DEFINE u == AfterAlarm(t)
<1>1. /\ u \in Process /\ u.visited = t.visited /\ u.option = t.option
      /\ u.last_node => t.last_node
      /\ u.pc \in {t.pc, "done"}
  BY AfterAlarmType
<1>2. group' \in Messages /\ (~t.last_node => group' = group)
  BY AnnouncedType DEF sig_alrm, EndInv
<1>3. tour' = [tour EXCEPT ![n] = u]
  BY DEF sig_alrm
<1>. HIDE DEF u
<1>. QED  BY <1>1, <1>2, <1>3, LocalStep DEF Quiet

LEMMA FailKeeps ==
  ASSUME EndInv, NEW n \in Node, Fails(n, tour[n]), UNCHANGED rt,
         group' = group \/ group' = Announced(tour[n])
  PROVE  EndInv'
<1>. DEFINE u == Gone(tour[n], "failed")
<1>1. tour[n] \in Process
  BY DEF EndInv
<1>2. /\ u \in Process /\ u.visited = tour[n].visited /\ u.option = tour[n].option
      /\ ~u.last_node /\ u.pc = "failed"
  BY <1>1, GoneType
<1>3. group' \in Messages /\ (~tour[n].last_node => group' = group)
  BY AnnouncedType DEF EndInv
<1>4. tour' = [tour EXCEPT ![n] = u]
  BY DEF Fails
<1>. HIDE DEF u
<1>. QED  BY <1>2, <1>3, <1>4, LocalStep DEF Quiet

LEMMA StartKeeps ==
  ASSUME EndInv, NEW n \in Node, Start(n)
  PROVE  EndInv'
<1>. DEFINE t == [tour[n] EXCEPT !.visited = TRUE, !.pc = "loop"]
<1>1. tour[n] \in Process /\ n = Route[1]
  BY DEF EndInv, Start, Source
<1>2. /\ t \in Process /\ t.visited = TRUE /\ t.pc = "loop"
      /\ t.option = tour[n].option /\ t.last_node = tour[n].last_node
  BY <1>1 DEF Process
<1>3. tour' = [tour EXCEPT ![n] = t] /\ rt' = SendOn(rt, n, 2) /\ group' = group
  BY DEF Start, EndInv
<1>. HIDE DEF t
<1>4. VisitedNodes \subseteq VisitedNodes' /\ n \in VisitedNodes'
  BY <1>2, <1>3 DEF VisitedNodes, EndInv
<1>5. 2 \in 2 .. Len(Route) /\ Route[2 - 1] = n /\ \A j \in 1 .. 2 - 1 : Route[j] \in VisitedNodes'
  BY <1>1, <1>4, RouteFacts
<1>6. rt \in RoutePackets /\ InPlace(VisitedNodes', rt)
  BY <1>4, InPlaceGrows DEF EndInv
<1>7. rt' \in RoutePackets /\ InPlace(VisitedNodes', rt')
  BY <1>3, <1>5, <1>6, InPlaceSend
<1>8. group' \in Messages
  BY <1>3 DEF EndInv
<1>. QED  BY <1>2, <1>3, <1>7, <1>8, ProcessStep DEF Quiet

\* The handler of a packet, whether or not the process survives areq().
LEMMA PacketKeeps ==
  ASSUME EndInv, NEW n \in Node, PacketArrived(n), NEW t \in Process,
         tour' = [tour EXCEPT ![n] = t],
         t.visited, t.option = tour[n].option, t.pc # "start",
         t.last_node => tour[n].last_node \/ Head(rt[n]).offset = Len(Route),
         rt' = Forwarded(n), UNCHANGED group
  PROVE  EndInv'
<1>. DEFINE p == Head(rt[n])
            rest == [rt EXCEPT ![n] = Tail(@)]
            V == VisitedNodes'
<1>1. VisitedNodes \subseteq V /\ n \in V
  BY DEF VisitedNodes, EndInv
<1>. HIDE DEF V
<1>2. rt \in RoutePackets /\ InPlace(V, rt) /\ rt[n] # <<>>
  BY <1>1, InPlaceGrows DEF EndInv, PacketArrived
<1>3. /\ rest \in RoutePackets /\ InPlace(V, rest)
      /\ p \in [offset : 2 .. Len(Route), src : Node] /\ BelongsAt(V, n, p)
  BY <1>2, InPlaceTail
<1>4. rt' = IF p.offset = Len(Route) THEN rest ELSE SendOn(rest, n, p.offset + 1)
  BY DEF Forwarded
<1>. HIDE DEF p, rest
<1>5. /\ p.offset \in 2 .. Len(Route) /\ Route[p.offset] = n
      /\ \A k \in 1 .. p.offset : Route[k] \in V
  <2>1. p.offset \in 2 .. Len(Route) /\ Route[p.offset] = n
    BY <1>3 DEF BelongsAt
  <2>2. \A k \in 1 .. p.offset : k = p.offset \/ k \in 1 .. p.offset - 1
    BY <2>1, RouteFacts
  <2>. QED  BY <1>1, <1>3, <2>1, <2>2 DEF BelongsAt
<1>6. group' \in Messages
  BY DEF EndInv
<1>7. CASE p.offset = Len(Route)
  <2>1. OnRoute \subseteq V
    BY <1>5, <1>7, RouteAssumption DEF OnRoute
  <2>2. AllVisited'
    BY <2>1 DEF AllVisited, OnRoute, V
  <2>. QED  BY <1>3, <1>4, <1>6, <1>7, <2>2, ProcessStep DEF V
<1>8. CASE p.offset # Len(Route)
  <2>1. /\ p.offset + 1 \in 2 .. Len(Route) /\ Route[(p.offset + 1) - 1] = n
        /\ \A k \in 1 .. (p.offset + 1) - 1 : Route[k] \in V
    BY <1>5, <1>8, RouteFacts
  <2>2. rt' \in RoutePackets /\ InPlace(V, rt')
    BY <1>3, <1>4, <1>8, <2>1, InPlaceSend
  <2>3. Quiet => ~t.option /\ ~t.last_node
    BY <1>8 DEF Quiet, p
  <2>. QED  BY <1>6, <2>2, <2>3, ProcessStep DEF V
<1>. QED  BY <1>7, <1>8

LEMMA VisitedType ==
  ASSUME EndInv, NEW n \in Node, PacketArrived(n)
  PROVE  /\ Visited(n) \in Process
         /\ Visited(n).visited = TRUE /\ Visited(n).option = tour[n].option
         /\ Visited(n).last_node => tour[n].last_node \/ Head(rt[n]).offset = Len(Route)
<1>1. tour[n] \in Process
  BY DEF EndInv
<1>2. Head(rt[n]).src \in Node
  BY InPlaceTail DEF EndInv, PacketArrived
<1>3. (tour[n].last_node \/ Head(rt[n]).offset = Len(Route)) \in BOOLEAN
  OBVIOUS
<1>. QED  BY <1>1, <1>2, <1>3 DEF Visited, Process

LEMMA RoutePacketKeeps ==
  ASSUME EndInv, NEW n \in Node, RoutePacket(n)
  PROVE  EndInv'
<1>. DEFINE t == [Visited(n) EXCEPT !.pc = "call"]
<1>1. PacketArrived(n) /\ tour' = [tour EXCEPT ![n] = t] /\ rt' = Forwarded(n) /\ UNCHANGED group
  BY DEF RoutePacket
<1>2. /\ t \in Process /\ t.visited = TRUE /\ t.option = tour[n].option /\ t.pc = "call"
      /\ t.last_node = Visited(n).last_node
  BY <1>1, VisitedType DEF Process
<1>. HIDE DEF t
<1>. QED  BY <1>1, <1>2, VisitedType, PacketKeeps

LEMMA CallAreqKeeps ==
  ASSUME EndInv, NEW n \in Node, CallAreq(n)
  PROVE  EndInv'
<1>. DEFINE t == [tour[n] EXCEPT !.pc = "areq"]
<1>1. /\ tour[n] \in Process /\ group \in Messages
      /\ tour' = [tour EXCEPT ![n] = t] /\ UNCHANGED <<rt, group>>
  BY DEF CallAreq, EndInv
<1>2. /\ t \in Process /\ t.visited = tour[n].visited /\ t.option = tour[n].option
      /\ t.last_node = tour[n].last_node /\ t.pc = "areq"
  BY <1>1 DEF Process
<1>. HIDE DEF t
<1>. QED  BY <1>1, <1>2, LocalStep DEF Quiet

LEMMA WithPingType ==
  ASSUME NEW t \in Process
  PROVE  /\ WithPing(t) \in Process
         /\ WithPing(t).visited = t.visited
         /\ WithPing(t).option = t.option
         /\ WithPing(t).last_node = t.last_node
         /\ WithPing(t).pc = "loop"
<1>1. Append(t.ping_addr, t.src) \in Seq(Node)
  BY DEF Process
<1>. QED  BY <1>1 DEF WithPing, Process

LEMMA AreqReturnsKeeps ==
  ASSUME EndInv, NEW n \in Node, AreqReturns(n)
  PROVE  EndInv'
<1>. DEFINE back == [tour[n] EXCEPT !.pc = "loop"]
<1>1. tour[n] \in Process /\ group \in Messages /\ UNCHANGED rt
  BY DEF EndInv, AreqReturns
<1>2. /\ back \in Process /\ back.visited = tour[n].visited /\ back.option = tour[n].option
      /\ back.last_node = tour[n].last_node /\ back.pc = "loop"
  BY <1>1 DEF Process
<1>3. \/ tour' = [tour EXCEPT ![n] = back] /\ group' = group
      \/ sig_alrm(n, WithPing(tour[n]))
  BY DEF AreqReturns, EndInv
<1>. HIDE DEF back
<1>4. CASE tour' = [tour EXCEPT ![n] = back] /\ group' = group
  BY <1>1, <1>2, <1>4, LocalStep DEF Quiet
<1>5. CASE sig_alrm(n, WithPing(tour[n]))
  BY <1>1, <1>5, WithPingType, AlarmKeeps
<1>. QED  BY <1>3, <1>4, <1>5

LEMMA FirstPingKeeps ==
  ASSUME EndInv, NEW n \in Node, FirstPingInterrupted(n)
  PROVE  EndInv'
<1>. DEFINE t == WithPing(tour[n])
<1>1. tour[n] \in Process /\ group \in Messages /\ UNCHANGED rt
  BY DEF EndInv, FirstPingInterrupted
<1>2. /\ t \in Process /\ t.visited = tour[n].visited /\ t.option = tour[n].option
      /\ t.last_node = tour[n].last_node /\ t.pc = "loop"
  BY <1>1, WithPingType
<1>3. \/ tour' = [tour EXCEPT ![n] = Ping(Ping(t))] /\ group' = group
      \/ tour' = [tour EXCEPT ![n] = Ping(t)] /\ group' = Announced(Ping(t))
  BY DEF FirstPingInterrupted
<1>. HIDE DEF t
<1>4. /\ Ping(t) \in Process /\ Ping(t).visited = tour[n].visited
      /\ Ping(t).option = tour[n].option /\ Ping(t).last_node = tour[n].last_node
      /\ Ping(t).pc = "loop"
  BY <1>2, PingType
<1>5. CASE tour' = [tour EXCEPT ![n] = Ping(Ping(t))] /\ group' = group
  BY <1>1, <1>4, <1>5, PingType, LocalStep DEF Quiet
<1>6. CASE tour' = [tour EXCEPT ![n] = Ping(t)] /\ group' = Announced(Ping(t))
  BY <1>1, <1>4, <1>6, AnnouncedType, LocalStep DEF Quiet
<1>. QED  BY <1>3, <1>5, <1>6

LEMMA AlarmActionKeeps ==
  ASSUME EndInv, NEW n \in Node, Alarm(n)
  PROVE  EndInv'
<1>. DEFINE t == [tour[n] EXCEPT !.alarm = FALSE]
<1>1. tour[n] \in Process /\ sig_alrm(n, t) /\ UNCHANGED rt
  BY DEF EndInv, Alarm
<1>2. /\ t \in Process /\ t.visited = tour[n].visited /\ t.option = tour[n].option
      /\ t.last_node = tour[n].last_node /\ t.pc = tour[n].pc
  BY <1>1 DEF Process
<1>. HIDE DEF t
<1>. QED  BY <1>1, <1>2, AlarmKeeps

LEMMA GroupMessageKeeps ==
  ASSUME EndInv, NEW n \in Node, GroupMessage(n)
  PROVE  EndInv'
<1>. DEFINE t == [tour[n] EXCEPT !.option = TRUE, !.alarm = TRUE]
<1>1. tour[n] \in Process /\ group \in Messages /\ UNCHANGED rt /\ ~Quiet
  BY DEF EndInv, GroupMessage, FirstMessage, Quiet
<1>2. t \in Process /\ t.visited = tour[n].visited /\ t.pc = tour[n].pc
  BY <1>1 DEF Process
<1>3. group' \in Messages
  BY <1>1, MulticastType DEF GroupMessage, Messages
<1>4. tour' = [tour EXCEPT ![n] = t]
  BY DEF GroupMessage, EndInv
<1>. HIDE DEF t
<1>. QED  BY <1>1, <1>2, <1>3, <1>4, LocalStep

LEMMA GroupMessageCutKeeps ==
  ASSUME EndInv, NEW n \in Node, GroupMessageCut(n)
  PROVE  EndInv'
<1>. DEFINE t == [tour[n] EXCEPT !.option = TRUE]
<1>1. tour[n] \in Process /\ group \in Messages /\ UNCHANGED rt /\ ~Quiet
  BY DEF EndInv, GroupMessageCut, FirstMessage, Quiet
<1>2. t \in Process /\ t.visited = tour[n].visited /\ t.pc = tour[n].pc
  BY <1>1 DEF Process
<1>3. group' \in Messages
  BY <1>1 DEF GroupMessageCut, Messages
<1>4. tour' = [tour EXCEPT ![n] = AfterAlarm(t)]
  BY DEF GroupMessageCut, EndInv
<1>. HIDE DEF t
<1>. QED  BY <1>1, <1>2, <1>3, <1>4, AfterAlarmType, LocalStep

LEMMA LosePacketKeeps ==
  ASSUME EndInv, NEW n \in Node, LosePacket(n)
  PROVE  EndInv'
<1>1. tour' = tour /\ VisitedNodes' = VisitedNodes /\ (AllVisited => AllVisited')
  BY DEF LosePacket, VisitedNodes, AllVisited, OnRoute
<1>2. rt' \in RoutePackets /\ InPlace(VisitedNodes, rt')
  <2>1. rt \in RoutePackets /\ InPlace(VisitedNodes, rt)
    BY DEF EndInv
  <2>2. rt' = rt \/ (rt[n] # <<>> /\ rt' = [rt EXCEPT ![n] = Tail(@)])
    BY DEF LosePacket
  <2>. QED  BY <2>1, <2>2, InPlaceTail
<1>3. group' \in Messages
  BY DEF LosePacket, EndInv, Messages
<1>4. Quiet => group' = group
  BY DEF Quiet, LosePacket
<1>5. Quiet => Quiet'
  BY <1>1, <1>4 DEF Quiet
<1>. QED  BY <1>1, <1>2, <1>3, <1>5 DEF EndInv

LEMMA EndInit == TourInit => EndInv
<1>. SUFFICES ASSUME TourInit  PROVE EndInv
  OBVIOUS
<1>1. <<>> \in Seq(Node) /\ 0 \in 0 .. 6
  OBVIOUS
<1>2. tour \in [Node -> Process]
  BY <1>1 DEF TourInit, Process
<1>3. rt \in RoutePackets /\ group \in Messages /\ InPlace(VisitedNodes, rt)
  BY DEF TourInit, RoutePackets, Messages, InPlace
<1>4. Quiet /\ \A n \in Node : tour[n].pc = "start" => n = Source
  BY DEF TourInit, Quiet
<1>. QED  BY <1>2, <1>3, <1>4 DEF EndInv

LEMMA EndStep == EndInv /\ [TourNext]_tvars => EndInv'
<1>. SUFFICES ASSUME EndInv, [TourNext]_tvars  PROVE EndInv'
  OBVIOUS
<1>1. ASSUME UNCHANGED tourvars  PROVE EndInv'
  BY <1>1 DEF tourvars, EndInv, VisitedNodes, AllVisited, OnRoute, Quiet
<1>2. ASSUME NEW n \in Node, Start(n) \/ RoutePacket(n) \/ CallAreq(n)
      PROVE  EndInv'
  BY <1>2, StartKeeps, RoutePacketKeeps, CallAreqKeeps
<1>3. ASSUME NEW n \in Node, AreqRefused(n) \/ AreqReset(n) \/ AreqInterrupted(n) \/ QuitTour(n)
      PROVE  EndInv'
  BY <1>3, FailKeeps DEF AreqRefused, AreqReset, AreqInterrupted, QuitTour
<1>4. ASSUME NEW n \in Node, AreqReturns(n) \/ FirstPingInterrupted(n) \/ Alarm(n)
      PROVE  EndInv'
  BY <1>4, AreqReturnsKeeps, FirstPingKeeps, AlarmActionKeeps
<1>5. ASSUME NEW n \in Node, GroupMessage(n) \/ GroupMessageCut(n) \/ LosePacket(n)
      PROVE  EndInv'
  BY <1>5, GroupMessageKeeps, GroupMessageCutKeeps, LosePacketKeeps
<1>. QED  BY <1>1, <1>2, <1>3, <1>4, <1>5 DEF TourNext, Areq, tvars

\* Theorem: pinging stops and members identify themselves only after the packet
\* has visited every node of the route, whatever is lost and whoever fails.
THEOREM EndComesLast == TourSpec => []EndsAfterAllVisited
BY EndInit, EndStep, EndInvMeans, PTL DEF TourSpec

\* Theorem: every packet is where the route says, from the node before.
THEOREM PacketsFollowRoute == TourSpec => []PacketOnRoute
BY EndInit, EndStep, EndInvMeans, PTL DEF TourSpec

\* Theorem: the globals of the processes, the packets and the messages keep
\* their types.
THEOREM TourTypeCorrect == TourSpec => []TourTypeOK
BY EndInit, EndStep, EndInvMeans, PTL DEF TourSpec

----------------------------------------------------------------------------
(* The use of ARP *)

LEMMA ExitStep ==
  ASSUME NEW n \in Node, Exit(n)
  PROVE  ArpNext
BY DEF Exit, ArpNext

LEMMA AlarmStep ==
  ASSUME NEW n \in Node, NEW t, sig_alrm(n, t)
  PROVE  ArpNext \/ UNCHANGED arpvars
BY ExitStep DEF sig_alrm

\* Every step of a tour is a step of the ARP processes and of local processes
\* that connect and hang up, or none of theirs.
LEMMA TourStepIsArpStep ==
  ASSUME EndInv, [TourNext]_tvars
  PROVE  [ArpNext]_arpvars
<1>1. ASSUME NEW n \in Node, ArpStep(n) \/ LoseArpFrame(n) \/ QuitArp(n)
      PROVE  ArpNext
  BY <1>1 DEF ArpNext
<1>2. ASSUME NEW n \in Node, Start(n) \/ RoutePacket(n) \/ GroupMessage(n) \/ LosePacket(n) \/ FirstPingInterrupted(n)
      PROVE  UNCHANGED arpvars
  BY <1>2 DEF Start, RoutePacket, GroupMessage, LosePacket, FirstPingInterrupted
<1>3. ASSUME NEW n \in Node, CallAreq(n)  PROVE ArpNext
  <2>1. tour[n].src \in Node
    BY DEF EndInv, Process
  <2>. QED  BY <1>3, <2>1 DEF CallAreq, ArpNext
<1>4. ASSUME NEW n \in Node,
             AreqRefused(n) \/ AreqReset(n) \/ AreqInterrupted(n) \/ GroupMessageCut(n) \/ QuitTour(n)
      PROVE  ArpNext
  BY <1>4, ExitStep DEF AreqRefused, AreqReset, AreqInterrupted, GroupMessageCut, QuitTour, Fails
<1>5. ASSUME NEW n \in Node, AreqReturns(n) \/ Alarm(n)
      PROVE  ArpNext \/ UNCHANGED arpvars
  BY <1>5, AlarmStep DEF AreqReturns, Alarm
<1>. QED  BY <1>1, <1>2, <1>3, <1>4, <1>5 DEF TourNext, Areq, tvars

\* Theorem: a tour implements module ARP, whose local processes may connect and
\* hang up at any time: areq() and the exits of tour.c are uses it allows for.
THEOREM TourImplementsARP == TourSpec => ARPSpec
<1>1. TourInit => ArpInit
  BY DEF TourInit
<1>2. EndInv /\ [TourNext]_tvars => [ArpNext]_arpvars
  BY TourStepIsArpStep
<1>. QED  BY <1>1, <1>2, EndInit, EndStep, PTL DEF TourSpec, ARPSpec, ArpSpec

\* Theorem: during every tour the caches hold the right addresses.
THEOREM CachesCorrectInTour == TourSpec => []CacheCorrect
BY TourImplementsARP, CachesAreCorrect, PTL DEF ARPSpec

----------------------------------------------------------------------------
(* Askers and replies *)

\* Whether a frame in m's queue will come to n as a reply, or is one that has: a
\* request of n for m, or a reply in n's own queue.
Concerns(n, m, f) ==
  \/ f.op = 1 /\ f.dst = m /\ f.from = n
  \/ f.op = 2 /\ m = n

\* n's ARP process has asked for d, for the last process that connected to it.
Expects(n, d) ==
  /\ Len(conn[n]) > 0
  /\ Asked(n).state = "open" /\ Asked(n).ip = d /\ Asked(n).fd = cache[n][d].sockfd

NoneFor(q, n) ==
  \A m \in Node : \A j \in 1 .. Len(q[m]) : ~Concerns(n, m, q[m][j])

\* Every frame for n is expected, and there is one at most.
Waits(q, n) ==
  /\ \A m \in Node : \A j \in 1 .. Len(q[m]) :
       Concerns(n, m, q[m][j]) => Expects(n, q[m][j].dst)
  /\ \A m1, m2 \in Node : \A j1 \in 1 .. Len(q[m1]), j2 \in 1 .. Len(q[m2]) :
       Concerns(n, m1, q[m1][j1]) /\ Concerns(n, m2, q[m2][j2]) => m1 = m2 /\ j1 = j2

\* Where a process may have left unfinished what it last asked for.
Away == {"areq", "done", "failed"}

\* Only the last connection is not finished, and only while its process is in areq()
\* or has ended; answers are right.
ConnOK(n) ==
  \A k \in 1 .. Len(conn[n]) :
    /\ conn[n][k].mac \in {NoMac, conn[n][k].ip}
    /\ conn[n][k].state \in {"queued", "open"} =>
         k = Len(conn[n]) /\ tour[n].pc \in Away

AskAt(n) ==
  /\ ConnOK(n)
  /\ IF ArpUp(n) THEN Waits(eth0, n) ELSE eth0[n] = <<>>

AskInv == \A n \in Node : AskAt(n)

\* Every frame of r that concerns n was in q, at most one place further back.
Fewer(q, r, n) ==
  \E s \in [Node -> {0, 1}] : \A m \in Node : \A j \in 1 .. Len(r[m]) :
    Concerns(n, m, r[m][j]) =>
      j + s[m] \in 1 .. Len(q[m]) /\ q[m][j + s[m]] = r[m][j]

LEMMA FewerWaits ==
  ASSUME NEW n \in Node, Waits(eth0, n), Fewer(eth0, eth0', n),
         \A d : Expects(n, d) => Expects(n, d)', eth0' \in Queues
  PROVE  Waits(eth0, n)'
<1>1. PICK s \in [Node -> {0, 1}] : \A m \in Node : \A j \in 1 .. Len(eth0'[m]) :
        Concerns(n, m, eth0'[m][j]) =>
          j + s[m] \in 1 .. Len(eth0[m]) /\ eth0[m][j + s[m]] = eth0'[m][j]
  BY DEF Fewer
<1>2. ASSUME NEW m \in Node, NEW j \in 1 .. Len(eth0'[m]), Concerns(n, m, eth0'[m][j])
      PROVE  Expects(n, eth0[m][j].dst)'
  <2>1. PICK d : d = eth0[m][j + s[m]].dst
    OBVIOUS
  <2>2. Expects(n, d)' /\ d = eth0'[m][j].dst
    BY <1>1, <1>2, <2>1 DEF Waits
  <2>. QED  BY ONLY <2>2 DEF Expects, Asked
<1>3. ASSUME NEW m1 \in Node, NEW m2 \in Node,
             NEW j1 \in 1 .. Len(eth0'[m1]), NEW j2 \in 1 .. Len(eth0'[m2]),
             Concerns(n, m1, eth0'[m1][j1]), Concerns(n, m2, eth0'[m2][j2])
      PROVE  m1 = m2 /\ j1 = j2
  <2>1. /\ j1 + s[m1] \in 1 .. Len(eth0[m1]) /\ Concerns(n, m1, eth0[m1][j1 + s[m1]])
        /\ j2 + s[m2] \in 1 .. Len(eth0[m2]) /\ Concerns(n, m2, eth0[m2][j2 + s[m2]])
    BY <1>1, <1>3
  <2>2. m1 = m2 /\ j1 + s[m1] = j2 + s[m2]
    BY <2>1 DEF Waits
  <2>3. s[m1] \in Int /\ j1 \in Int /\ j2 \in Int
    BY <1>1, <1>3 DEF Queues
  <2>. QED  BY <2>2, <2>3
<1>. QED  BY <1>2, <1>3 DEF Waits, Concerns

\* One frame for n, which is expected.
LEMMA SingleWaits ==
  ASSUME NEW n \in Node, NEW p, NEW i,
         \A m \in Node : \A j \in 1 .. Len(eth0'[m]) :
           Concerns(n, m, eth0'[m][j]) =>
             m = p /\ j = i /\ Expects(n, eth0[m][j].dst)'
  PROVE  Waits(eth0, n)'
BY DEF Waits, Concerns

LEMMA NoneWaits ==
  ASSUME NEW n \in Node, NoneFor(eth0', n)
  PROVE  Waits(eth0, n)'
BY DEF Waits, NoneFor, Concerns

LEMMA NoneFewer ==
  ASSUME NEW n \in Node, NEW q, NEW r, NoneFor(q, n), Fewer(q, r, n)
  PROVE  NoneFor(r, n)
BY DEF NoneFor, Fewer

LEMMA SameFewer ==
  ASSUME NEW n \in Node, NEW q \in Queues
  PROVE  Fewer(q, q, n)
<1>. DEFINE s == [m \in Node |-> 0]
<1>1. s \in [Node -> {0, 1}] /\ \A m \in Node : s[m] = 0
  OBVIOUS
<1>. HIDE DEF s
<1>2. \A m \in Node : \A j \in 1 .. Len(q[m]) : j + s[m] = j
  BY <1>1 DEF Queues
<1>. QED  BY <1>1, <1>2 DEF Fewer

LEMMA TakeFewer ==
  ASSUME eth0 \in Queues, NEW n \in Node, NEW a \in Node, eth0[a] # <<>>
  PROVE  Fewer(eth0, TakeFrame(a), n)
<1>. DEFINE s == [m \in Node |-> IF m = a THEN 1 ELSE 0]
<1>1. s \in [Node -> {0, 1}] /\ \A m \in Node : s[m] = IF m = a THEN 1 ELSE 0
  OBVIOUS
<1>. HIDE DEF s
<1>2. \A m \in Node : TakeFrame(a)[m] = IF m = a THEN Tail(eth0[a]) ELSE eth0[m]
  BY DEF TakeFrame, Queues
<1>3. \A m \in Node : eth0[m] \in Seq(CorrectFrame)
  BY DEF Queues
<1>4. ASSUME NEW m \in Node, NEW j \in 1 .. Len(TakeFrame(a)[m])
      PROVE  j + s[m] \in 1 .. Len(eth0[m]) /\ eth0[m][j + s[m]] = TakeFrame(a)[m][j]
  <2>1. CASE m = a
    <3>1. eth0[a] \in Seq(CorrectFrame) /\ s[m] = 1 /\ TakeFrame(a)[m] = Tail(eth0[a])
      BY <1>1, <1>2, <1>3, <2>1
    <3>2. j \in 1 .. Len(Tail(eth0[a]))
      BY ONLY <3>1, j \in 1 .. Len(TakeFrame(a)[m])
    <3>3. j + 1 \in 1 .. Len(eth0[a]) /\ eth0[a][j + 1] = Tail(eth0[a])[j]
      BY <3>1, <3>2
    <3>. QED  BY <2>1, <3>1, <3>3
  <2>2. CASE m # a
    BY <1>1, <1>2, <1>3, <2>2
  <2>. QED  BY <2>1, <2>2
<1>. QED  BY <1>1, <1>4 DEF Fewer

\* The frame that n waits for is read: there is no other.
LEMMA TakeLast ==
  ASSUME eth0 \in Queues, NEW n \in Node, NEW a \in Node, eth0[a] # <<>>,
         Waits(eth0, n), Concerns(n, a, Head(eth0[a]))
  PROVE  NoneFor(TakeFrame(a), n)
<1>2. \A m \in Node : TakeFrame(a)[m] = IF m = a THEN Tail(eth0[a]) ELSE eth0[m]
  BY DEF TakeFrame, Queues
<1>3. \A m \in Node : eth0[m] \in Seq(CorrectFrame)
  BY DEF Queues
<1>4. 1 \in 1 .. Len(eth0[a]) /\ Concerns(n, a, eth0[a][1])
  BY <1>3
<1>5. ASSUME NEW m \in Node, NEW j \in 1 .. Len(TakeFrame(a)[m]),
             Concerns(n, m, TakeFrame(a)[m][j])
      PROVE  FALSE
  <2>1. CASE m = a
    <3>1. eth0[a] \in Seq(CorrectFrame) /\ TakeFrame(a)[m] = Tail(eth0[a])
      BY <1>2, <1>3, <2>1
    <3>2. j \in 1 .. Len(Tail(eth0[a]))
      BY ONLY <3>1, j \in 1 .. Len(TakeFrame(a)[m])
    <3>3. j + 1 \in 1 .. Len(eth0[a]) /\ eth0[a][j + 1] = Tail(eth0[a])[j] /\ j + 1 # 1
      BY <3>1, <3>2
    <3>4. Concerns(n, a, eth0[a][j + 1])
      BY <1>5, <2>1, <3>1, <3>3
    <3>. QED  BY <1>4, <3>3, <3>4 DEF Waits
  <2>2. CASE m # a
    <3>1. j \in 1 .. Len(eth0[m]) /\ Concerns(n, m, eth0[m][j])
      BY <1>2, <1>5, <2>2
    <3>. QED  BY <1>4, <2>2, <3>1 DEF Waits
  <2>. QED  BY <2>1, <2>2
<1>. QED  BY <1>5 DEF NoneFor

LEMMA UnicastAdds ==
  ASSUME NEW r \in Queues, NEW p \in Node, NEW f \in CorrectFrame,
         NEW m \in Node, NEW j \in 1 .. Len(Unicast(r, p, f)[m])
  PROVE  \/ j \in 1 .. Len(r[m]) /\ Unicast(r, p, f)[m][j] = r[m][j]
         \/ m = p /\ j = Len(r[p]) + 1 /\ Unicast(r, p, f)[m][j] = f
<1>1. CASE ArpUp(p) /\ m = p
  <2>1. r[p] \in Seq(CorrectFrame) /\ Unicast(r, p, f)[m] = Append(r[p], f)
    BY <1>1 DEF Unicast, Queues
  <2>2. j \in 1 .. Len(Append(r[p], f))
    BY ONLY <2>1, j \in 1 .. Len(Unicast(r, p, f)[m])
  <2>3. \/ j \in 1 .. Len(r[p]) /\ Append(r[p], f)[j] = r[p][j]
        \/ j = Len(r[p]) + 1 /\ Append(r[p], f)[j] = f
    BY <2>1, <2>2
  <2>. QED  BY <1>1, <2>1, <2>3
<1>2. CASE ~(ArpUp(p) /\ m = p)
  BY <1>2 DEF Unicast, Queues
<1>. QED  BY <1>1, <1>2

LEMMA UnicastFewer ==
  ASSUME NEW n \in Node, NEW q \in Queues, NEW r \in Queues, Fewer(q, r, n),
         NEW p \in Node, NEW f \in CorrectFrame, ~Concerns(n, p, f)
  PROVE  Fewer(q, Unicast(r, p, f), n)
BY UnicastAdds DEF Fewer

LEMMA BroadcastAdds ==
  ASSUME eth0 \in Queues, NEW a \in Node, NEW f \in CorrectFrame,
         NEW m \in Node, NEW j \in 1 .. Len(Broadcast(a, f)[m])
  PROVE  \/ j \in 1 .. Len(eth0[m]) /\ Broadcast(a, f)[m][j] = eth0[m][j]
         \/ j = Len(eth0[m]) + 1 /\ Broadcast(a, f)[m][j] = f
<1>1. CASE m # a /\ ArpUp(m)
  <2>1. eth0[m] \in Seq(CorrectFrame) /\ Broadcast(a, f)[m] = Append(eth0[m], f)
    BY <1>1 DEF Broadcast, Queues
  <2>2. j \in 1 .. Len(Append(eth0[m], f))
    BY ONLY <2>1, j \in 1 .. Len(Broadcast(a, f)[m])
  <2>3. \/ j \in 1 .. Len(eth0[m]) /\ Append(eth0[m], f)[j] = eth0[m][j]
        \/ j = Len(eth0[m]) + 1 /\ Append(eth0[m], f)[j] = f
    BY <2>1, <2>2
  <2>. QED  BY <2>1, <2>3
<1>2. CASE ~(m # a /\ ArpUp(m))
  BY <1>2 DEF Broadcast, Queues
<1>. QED  BY <1>1, <1>2

LEMMA BroadcastFewer ==
  ASSUME NEW n \in Node, eth0 \in Queues, NEW a \in Node, NEW f \in CorrectFrame,
         \A m \in Node : ~Concerns(n, m, f)
  PROVE  Fewer(eth0, Broadcast(a, f), n)
<1>1. PICK s \in [Node -> {0, 1}] : \A m \in Node : s[m] = 0
  <2>. DEFINE s == [m \in Node |-> 0]
  <2>1. s \in [Node -> {0, 1}] /\ \A m \in Node : s[m] = 0
    OBVIOUS
  <2>. HIDE DEF s
  <2>. QED  BY <2>1
<1>2. ASSUME NEW m \in Node, NEW j \in 1 .. Len(Broadcast(a, f)[m]),
             Concerns(n, m, Broadcast(a, f)[m][j])
      PROVE  j + s[m] \in 1 .. Len(eth0[m]) /\ eth0[m][j + s[m]] = Broadcast(a, f)[m][j]
  <2>1. j \in 1 .. Len(eth0[m]) /\ Broadcast(a, f)[m][j] = eth0[m][j]
    BY <1>2, BroadcastAdds
  <2>2. j + s[m] = j
    BY <1>1, <2>1 DEF Queues
  <2>. QED  BY <2>1, <2>2
<1>. QED  BY <1>1, <1>2 DEF Fewer

\* A step of another node.
LEMMA Elsewhere ==
  ASSUME NEW n \in Node, AskAt(n), eth0' \in Queues, Fewer(eth0, eth0', n),
         eth0[n] = <<>> /\ ~ArpUp(n) => eth0'[n] = <<>>,
         arp'[n] = arp[n], conn'[n] = conn[n], cache'[n] = cache[n],
         tour'[n] = tour[n]
  PROVE  AskAt(n)'
<1>1. ConnOK(n)' /\ \A d : Expects(n, d) => Expects(n, d)'
  BY DEF AskAt, ConnOK, Expects, Asked
<1>2. CASE ArpUp(n)
  BY <1>1, <1>2, FewerWaits DEF AskAt, ArpUp
<1>3. CASE ~ArpUp(n)
  BY <1>1, <1>3 DEF AskAt, ArpUp
<1>. QED  BY <1>2, <1>3

\* A frame in the queue of a process that has ended, or is not waiting.
LEMMA NoneExpected ==
  ASSUME NEW n \in Node, Waits(eth0, n), Len(conn[n]) = 0 \/ Asked(n).state # "open"
  PROVE  NoneFor(eth0, n)
BY DEF Waits, NoneFor, Expects

LEMMA TakeAsk ==
  ASSUME AskInv, CacheInv, CacheInv', NEW a \in Node, eth0[a] # <<>>, eth0' = TakeFrame(a),
         UNCHANGED <<cache, conn, arp, tour>>
  PROVE  AskInv'
<1>. SUFFICES ASSUME NEW n \in Node  PROVE AskAt(n)'
  BY DEF AskInv
<1>1. Fewer(eth0, eth0', n) /\ eth0' \in Queues
  BY TakeFewer DEF CacheInv
<1>2. eth0[n] = <<>> => eth0'[n] = <<>>
  BY DEF TakeFrame, CacheInv, Queues
<1>. QED  BY <1>1, <1>2, Elsewhere DEF AskInv

LEMMA RequestForUsAsk ==
  ASSUME AskInv, CacheInv, CacheInv', NEW a \in Node, RequestForUs(a), UNCHANGED tour
  PROVE  AskInv'
<1>1. PICK f : f = Head(eth0[a])
  OBVIOUS
<1>2. PICK g : g = ArpReply(a, f)
  OBVIOUS
<1>3. PICK r : r = TakeFrame(a)
  OBVIOUS
<1>4. /\ eth0 \in Queues /\ eth0[a] # <<>> /\ f \in CorrectFrame /\ r \in Queues
      /\ f.op = 1 /\ f.dst = a /\ f.from \in Node
  BY <1>1, <1>3, TakeType DEF RequestForUs, FrameArrived, CacheInv, CorrectFrame, ArpFrame
<1>5. g \in CorrectFrame /\ g.op = 2 /\ g.dst = f.dst
  BY <1>2, <1>4 DEF ArpReply, CorrectFrame, ArpFrame
<1>6. PICK p \in Node : p = f.from
  BY <1>4
<1>7. eth0' = Unicast(r, p, g) /\ UNCHANGED <<cache, conn, arp, tour>>
  BY <1>1, <1>2, <1>3, <1>6 DEF RequestForUs
<1>8. Concerns(p, a, f)
  BY <1>4, <1>6 DEF Concerns
<1>9. eth0' \in Queues
  BY DEF CacheInv
<1>10. ASSUME NEW n \in Node  PROVE Fewer(eth0, r, n)
  BY <1>3, <1>4, TakeFewer
<1>11. ASSUME NEW n \in Node, n # p  PROVE AskAt(n)'
  <2>1. ~Concerns(n, p, g)
    BY <1>5, <1>11 DEF Concerns
  <2>2. Fewer(eth0, eth0', n)
    BY <1>4, <1>5, <1>7, <1>10, <2>1, UnicastFewer
  <2>3. eth0[n] = <<>> => eth0'[n] = <<>>
    BY <1>3, <1>4, <1>7, <1>11 DEF Unicast, TakeFrame, Queues
  <2>. QED  BY <1>7, <1>9, <2>2, <2>3, Elsewhere DEF AskInv
<1>12. AskAt(p)'
  <2>1. AskAt(p) /\ ConnOK(p)' /\ arp'[p] = arp[p]
    BY <1>7 DEF AskInv, AskAt, ConnOK
  <2>2. CASE ArpUp(p)
    <3>1. Waits(eth0, p)
      BY <2>1, <2>2 DEF AskAt
    <3>2. NoneFor(r, p)
      BY <1>1, <1>3, <1>4, <1>8, <3>1, TakeLast
    <3>3. Expects(p, f.dst)
      <4>1. 1 \in 1 .. Len(eth0[a]) /\ eth0[a][1] = f
        BY <1>1, <1>4 DEF Queues
      <4>. QED  BY <1>8, <3>1, <4>1 DEF Waits
    <3>4. ASSUME NEW m \in Node, NEW j \in 1 .. Len(eth0'[m]), Concerns(p, m, eth0'[m][j])
          PROVE  m = p /\ j = Len(r[p]) + 1 /\ Expects(p, eth0[m][j].dst)'
      <4>1. \/ j \in 1 .. Len(r[m]) /\ eth0'[m][j] = r[m][j]
            \/ m = p /\ j = Len(r[p]) + 1 /\ eth0'[m][j] = g
        BY <1>4, <1>5, <1>7, UnicastAdds
      <4>2. m = p /\ j = Len(r[p]) + 1 /\ eth0'[m][j] = g
        BY <3>2, <3>4, <4>1 DEF NoneFor
      <4>. QED  BY <1>5, <1>7, <3>3, <4>2 DEF Expects, Asked
    <3>5. Waits(eth0, p)'
      <4>1. PICK i : i = Len(r[p]) + 1
        OBVIOUS
      <4>2. \A m \in Node : \A j \in 1 .. Len(eth0'[m]) :
              Concerns(p, m, eth0'[m][j]) =>
                m = p /\ j = i /\ Expects(p, eth0[m][j].dst)'
        BY <3>4, <4>1
      <4>. QED  BY ONLY <4>2, p \in Node, SingleWaits
    <3>. QED  BY <2>1, <2>2, <3>5 DEF AskAt, ArpUp
  <2>3. CASE ~ArpUp(p)
    <3>1. eth0[p] = <<>>
      BY <2>1, <2>3 DEF AskAt
    <3>2. eth0'[p] = <<>>
      BY <1>3, <1>4, <1>7, <2>3, <3>1 DEF Unicast, TakeFrame, Queues
    <3>. QED  BY <2>1, <2>3, <3>2 DEF AskAt, ArpUp
  <2>. QED  BY <2>2, <2>3
<1>. QED  BY <1>11, <1>12 DEF AskInv

LEMMA EndedAsk ==
  ASSUME AskInv, CacheInv, CacheInv', NEW a \in Node, Ended(a),
         \A n \in Node : n # a => cache'[n] = cache[n], UNCHANGED tour
  PROVE  AskInv'
<1>1. /\ \A n \in Node : n # a =>
           arp'[n] = arp[n] /\ conn'[n] = conn[n] /\ eth0'[n] = eth0[n]
      /\ arp'[a] = "ended" /\ eth0'[a] = <<>>
      /\ conn'[a] = [k \in DOMAIN conn[a] |-> Closed(conn[a][k])]
  BY DEF Ended, CacheInv, Queues, ConnInv
<1>2. ASSUME NEW n \in Node, n # a  PROVE AskAt(n)'
  <2>1. PICK s \in [Node -> {0, 1}] : \A m \in Node : s[m] = 0
    <3>. DEFINE s == [m \in Node |-> 0]
    <3>1. s \in [Node -> {0, 1}] /\ \A m \in Node : s[m] = 0
      OBVIOUS
    <3>. HIDE DEF s
    <3>. QED  BY <3>1
  <2>2. ASSUME NEW m \in Node, NEW j \in 1 .. Len(eth0'[m])
        PROVE  j + s[m] \in 1 .. Len(eth0[m]) /\ eth0[m][j + s[m]] = eth0'[m][j]
    <3>1. m # a
      BY <1>1
    <3>2. eth0'[m] = eth0[m] /\ Len(eth0[m]) \in Nat
      BY <1>1, <3>1 DEF CacheInv, Queues
    <3>3. j + s[m] = j
      BY <2>1, <3>2
    <3>. QED  BY <3>2, <3>3
  <2>3. Fewer(eth0, eth0', n)
    BY <2>2 DEF Fewer
  <2>. QED  BY <1>1, <1>2, <2>3, Elsewhere DEF AskInv, CacheInv
<1>3. ConnOK(a)'
  <2>1. conn[a] \in Seq(Connection)
    BY DEF CacheInv, ConnInv
  <2>2. DOMAIN conn[a] = 1 .. Len(conn[a]) /\ Len(conn[a]) \in Nat
    BY <2>1
  <2>3. conn'[a] \in Seq(Connection)
    BY DEF CacheInv, ConnInv
  <2>4. Len(conn'[a]) = Len(conn[a])
    BY <1>1, <2>2, <2>3
  <2>5. ASSUME NEW k \in 1 .. Len(conn[a])
        PROVE  /\ conn'[a][k].state \in {"closed", "reset"}
               /\ conn'[a][k].mac \in {NoMac, conn'[a][k].ip}
    <3>1. conn[a][k] \in Connection /\ conn[a][k].mac \in {NoMac, conn[a][k].ip}
      BY <2>1 DEF AskInv, AskAt, ConnOK
    <3>2. conn'[a][k] = Closed(conn[a][k])
      BY <1>1, <2>2
    <3>3. /\ Closed(conn[a][k]).state \in {"closed", "reset"}
          /\ Closed(conn[a][k]).mac = conn[a][k].mac
          /\ Closed(conn[a][k]).ip = conn[a][k].ip
      BY <3>1 DEF Closed, Connection
    <3>. QED  BY <3>1, <3>2, <3>3
  <2>. QED  BY <2>4, <2>5 DEF ConnOK
<1>4. AskAt(a)'
  BY <1>1, <1>3 DEF AskAt, ArpUp
<1>. QED  BY <1>2, <1>4 DEF AskInv

\* The last connection is answered, and nothing more is expected.
LEMMA WriteAsk ==
  ASSUME AskInv, CacheInv, CacheInv', NEW a \in Node, NEW k \in 1 .. Len(conn[a]),
         NEW mac, mac \in {NoMac, conn[a][k].ip}, NEW q, NoneFor(q, a),
         WriteAndClose(a, k, mac, q),
         \A n \in Node : n # a => Fewer(eth0, q, n) /\ q[n] = eth0[n] /\ cache'[n] = cache[n],
         ArpUp(a), UNCHANGED tour, k = Len(conn[a])
  PROVE  AskInv'
<1>1. CASE conn[a][k].peer
  <2>1. /\ eth0' = q /\ UNCHANGED arp
        /\ conn' = [conn EXCEPT ![a][k].mac = mac, ![a][k].state = "closed"]
    BY <1>1 DEF WriteAndClose
  <2>2. conn[a] \in Seq(Connection) /\ conn[a][k] \in Connection
    BY DEF CacheInv, ConnInv
  <2>3. PICK c : c = [conn[a][k] EXCEPT !.mac = mac, !.state = "closed"]
    OBVIOUS
  <2>4. c.mac = mac /\ c.state = "closed" /\ c.ip = conn[a][k].ip
    BY <2>2, <2>3 DEF Connection
  <2>5. conn' = [conn EXCEPT ![a] = [conn[a] EXCEPT ![k] = c]]
    <3>1. conn \in [Node -> Seq(Connection)]
      BY DEF CacheInv, ConnInv
    <3>2. conn' = [conn EXCEPT ![a][k].mac = mac, ![a][k].state = "closed"]
      BY <2>1
    <3>. QED  BY ONLY <2>2, <2>3, <3>1, <3>2, a \in Node, k \in 1 .. Len(conn[a])
  <2>6. ASSUME NEW n \in Node, n # a  PROVE AskAt(n)'
    <3>1. /\ arp'[n] = arp[n] /\ conn'[n] = conn[n] /\ tour'[n] = tour[n]
          /\ eth0'[n] = eth0[n] /\ eth0' \in Queues
      BY <2>1, <2>5, <2>6 DEF CacheInv, ConnInv
    <3>. QED  BY <2>1, <2>6, <3>1, Elsewhere DEF AskInv
  <2>7. conn'[a] = [conn[a] EXCEPT ![k] = c]
    BY <2>5 DEF CacheInv, ConnInv
  <2>8. /\ Len(conn'[a]) = Len(conn[a])
        /\ \A i \in 1 .. Len(conn[a]) : conn'[a][i] = IF i = k THEN c ELSE conn[a][i]
    BY <2>2, <2>7
  <2>9. ConnOK(a)'
    <3>1. ConnOK(a)
      BY DEF AskInv, AskAt
    <3>. QED  BY <2>4, <2>8, <3>1 DEF ConnOK
  <2>10. Waits(eth0, a)'
    BY <2>1, NoneWaits
  <2>11. AskAt(a)'
    BY <2>1, <2>9, <2>10 DEF AskAt, ArpUp
  <2>. QED  BY <2>6, <2>11 DEF AskInv
<1>2. CASE ~conn[a][k].peer
  BY <1>2, EndedAsk DEF WriteAndClose
<1>. QED  BY <1>1, <1>2

\* A connection that is not finished is the last one.
LEMMA LastAsked ==
  ASSUME AskInv, NEW a \in Node, NEW k \in 1 .. Len(conn[a]),
         conn[a][k].state \in {"queued", "open"}
  PROVE  k = Len(conn[a])
BY DEF AskInv, AskAt, ConnOK

LEMMA ReplyArrivesAsk ==
  ASSUME AskInv, CacheInv, CacheInv', NEW a \in Node, ReplyArrives(a), UNCHANGED tour
  PROVE  AskInv'
<1>1. PICK f : f = Head(eth0[a])
  OBVIOUS
<1>2. PICK H : H = Holders(a, cache[a][f.dst].sockfd)
  OBVIOUS
<1>3. PICK q : q = TakeFrame(a)
  OBVIOUS
<1>4. /\ eth0 \in Queues /\ eth0[a] # <<>> /\ f \in CorrectFrame /\ f.op = 2
      /\ ArpUp(a) /\ f.mac = f.dst
  BY <1>1, TakeType DEF ReplyArrives, FrameArrived, CacheInv, CorrectFrame
<1>5. cache' = [cache EXCEPT ![a][f.dst].mac = f.mac]
  BY <1>1 DEF ReplyArrives
<1>6. \A n \in Node : n # a => cache'[n] = cache[n]
  BY <1>5 DEF CacheInv, EntriesInv
<1>7. Waits(eth0, a) /\ Concerns(a, a, f)
  BY <1>4 DEF AskInv, AskAt, Concerns
<1>8. Expects(a, f.dst)
  <2>1. 1 \in 1 .. Len(eth0[a]) /\ eth0[a][1] = f
    BY <1>1, <1>4 DEF Queues
  <2>. QED  BY <1>7, <2>1 DEF Waits
<1>9. H = {Len(conn[a])} /\ Len(conn[a]) \in 1 .. Len(conn[a])
  <2>1. Len(conn[a]) \in Nat /\ Len(conn[a]) > 0
    BY <1>8 DEF Expects, CacheInv, ConnInv
  <2>2. Len(conn[a]) \in H
    BY <1>2, <1>8, <2>1 DEF Expects, Asked, Holders
  <2>3. \A x \in H : x = Len(conn[a])
    BY <1>2, LastAsked DEF Holders
  <2>. QED  BY <2>1, <2>2, <2>3
<1>10. PICK k : k = Len(conn[a])
  OBVIOUS
<1>11. (CHOOSE x \in H : TRUE) = k /\ H # {}
  BY <1>9, <1>10
<1>12. WriteAndClose(a, k, f.mac, q)
  BY <1>1, <1>2, <1>3, <1>11 DEF ReplyArrives
<1>13. f.mac \in {NoMac, conn[a][k].ip}
  BY <1>4, <1>8, <1>10 DEF Expects, Asked
<1>14. NoneFor(q, a)
  BY <1>1, <1>3, <1>4, <1>7, TakeLast
<1>15. \A n \in Node : n # a => Fewer(eth0, q, n) /\ q[n] = eth0[n]
  BY <1>3, <1>4, TakeFewer DEF TakeFrame, Queues
<1>. QED  BY <1>4, <1>6, <1>9, <1>10, <1>12, <1>13, <1>14, <1>15, WriteAsk

LEMMA AnswerFromCacheAsk ==
  ASSUME AskInv, CacheInv, CacheInv', NEW a \in Node, AnswerFromCache(a), UNCHANGED tour
  PROVE  AskInv'
<1>1. PICK k : k = Oldest(a)
  OBVIOUS
<1>2. k \in 1 .. Len(conn[a]) /\ conn[a][k].state = "queued" /\ ArpUp(a)
  BY <1>1, OldestQueued DEF AnswerFromCache, RequestArrived, CacheInv
<1>3. k = Len(conn[a])
  BY <1>2, LastAsked
<1>4. PICK mac : mac = cache[a][conn[a][k].ip].mac
  OBVIOUS
<1>5. WriteAndClose(a, k, mac, eth0) /\ UNCHANGED cache
  BY <1>1, <1>4 DEF AnswerFromCache
<1>6. mac \in {NoMac, conn[a][k].ip}
  <2>1. conn[a][k].ip \in Node
    <3>1. conn[a][k] \in Connection
      BY <1>2 DEF CacheInv, ConnInv
    <3>. QED  BY <3>1 DEF Connection
  <2>. QED  BY <1>4, <2>1 DEF CacheInv, EntriesInv, CacheCorrect
<1>7. NoneFor(eth0, a)
  <2>1. Waits(eth0, a)
    BY <1>2 DEF AskInv, AskAt
  <2>. QED  BY <1>2, <1>3, <2>1, NoneExpected DEF Asked
<1>8. \A n \in Node : Fewer(eth0, eth0, n)
  BY SameFewer DEF CacheInv
<1>. QED  BY <1>2, <1>3, <1>5, <1>6, <1>7, <1>8, WriteAsk

LEMMA AskNetworkAsk ==
  ASSUME AskInv, CacheInv, CacheInv', NEW a \in Node, AskNetwork(a), UNCHANGED tour
  PROVE  AskInv'
<1>1. PICK k : k = Oldest(a)
  OBVIOUS
<1>2. k \in 1 .. Len(conn[a]) /\ conn[a][k].state = "queued" /\ ArpUp(a)
  BY <1>1, OldestQueued DEF AskNetwork, RequestArrived, CacheInv
<1>3. k = Len(conn[a])
  BY <1>2, LastAsked
<1>4. PICK fd : fd = FreeFd(a)
  OBVIOUS
<1>5. conn[a] \in Seq(Connection) /\ conn[a][k] \in Connection
  BY <1>2 DEF CacheInv, ConnInv
<1>6. PICK ip \in Node : ip = conn[a][k].ip
  BY <1>5 DEF Connection
<1>7. PICK f : f = ArpRequest(a, ip)
  OBVIOUS
<1>8. f \in CorrectFrame /\ f.op = 1 /\ f.from = a /\ f.dst = ip
  BY <1>7 DEF ArpRequest, CorrectFrame, ArpFrame
<1>9. /\ conn' = [conn EXCEPT ![a][k].state = "open", ![a][k].fd = fd]
      /\ cache' = [cache EXCEPT ![a][ip].sockfd = fd]
      /\ eth0' = Broadcast(a, f) /\ UNCHANGED <<arp, tour>>
  BY <1>1, <1>4, <1>6, <1>7 DEF AskNetwork
<1>10. PICK c : c = [conn[a][k] EXCEPT !.state = "open", !.fd = fd]
  OBVIOUS
<1>11. c.state = "open" /\ c.fd = fd /\ c.ip = ip /\ c.mac = conn[a][k].mac
  BY <1>5, <1>6, <1>10 DEF Connection
<1>12. conn' = [conn EXCEPT ![a] = [conn[a] EXCEPT ![k] = c]]
  <2>1. conn \in [Node -> Seq(Connection)]
    BY DEF CacheInv, ConnInv
  <2>2. conn' = [conn EXCEPT ![a][k].state = "open", ![a][k].fd = fd]
    BY <1>9
  <2>. QED  BY ONLY <1>2, <1>5, <1>10, <2>1, <2>2, a \in Node DEF Connection
<1>13. /\ \A n \in Node : n # a => conn'[n] = conn[n] /\ cache'[n] = cache[n]
       /\ conn'[a] = [conn[a] EXCEPT ![k] = c] /\ cache'[a][ip].sockfd = fd
  <2>1. conn \in [Node -> Seq(Connection)] /\ cache \in [Node -> [Node -> Entry]]
    BY DEF CacheInv, ConnInv, EntriesInv, Entry
  <2>2. cache[a][ip] \in Entry /\ cache' = [cache EXCEPT ![a][ip].sockfd = fd]
    BY <1>9, <2>1
  <2>3. cache'[a][ip].sockfd = fd
    BY ONLY <2>1, <2>2, a \in Node, ip \in Node DEF Entry
  <2>4. \A n \in Node : n # a => cache'[n] = cache[n]
    BY ONLY <2>1, <2>2
  <2>. QED  BY ONLY <1>12, <2>1, <2>3, <2>4, a \in Node
<1>14. /\ Len(conn'[a]) = Len(conn[a])
       /\ \A i \in 1 .. Len(conn[a]) : conn'[a][i] = IF i = k THEN c ELSE conn[a][i]
  BY <1>5, <1>13
<1>15. ASSUME NEW n \in Node, n # a  PROVE AskAt(n)'
  <2>1. \A m \in Node : ~Concerns(n, m, f)
    BY <1>8, <1>15 DEF Concerns
  <2>2. Fewer(eth0, eth0', n)
    BY <1>8, <1>9, <2>1, BroadcastFewer DEF CacheInv
  <2>3. eth0[n] = <<>> /\ ~ArpUp(n) => eth0'[n] = <<>>
    BY <1>9 DEF Broadcast
  <2>. QED  BY <1>9, <1>13, <1>15, <2>2, <2>3, Elsewhere DEF AskInv, CacheInv
<1>16. ConnOK(a)'
  <2>1. ConnOK(a)
    BY DEF AskInv, AskAt
  <2>2. tour'[a].pc = tour[a].pc /\ tour[a].pc \in Away
    BY <1>2, <1>9, <2>1 DEF ConnOK
  <2>3. c.mac \in {NoMac, c.ip}
    BY <1>2, <1>6, <1>11, <2>1 DEF ConnOK
  <2>. QED  BY <1>3, <1>14, <2>1, <2>2, <2>3 DEF ConnOK
<1>17. NoneFor(eth0, a)
  <2>1. Waits(eth0, a)
    BY <1>2 DEF AskInv, AskAt
  <2>. QED  BY <1>2, <1>3, <2>1, NoneExpected DEF Asked
<1>18. Expects(a, ip)'
  BY <1>2, <1>3, <1>11, <1>13, <1>14 DEF Expects, Asked
<1>19. PICK i : i = Len(eth0[ip]) + 1
  OBVIOUS
<1>20. ASSUME NEW m \in Node, NEW j \in 1 .. Len(eth0'[m]), Concerns(a, m, eth0'[m][j])
       PROVE  m = ip /\ j = i /\ Expects(a, eth0[m][j].dst)'
  <2>1. \/ j \in 1 .. Len(eth0[m]) /\ eth0'[m][j] = eth0[m][j]
        \/ j = Len(eth0[m]) + 1 /\ eth0'[m][j] = f
    BY <1>8, <1>9, BroadcastAdds DEF CacheInv
  <2>2. j = Len(eth0[m]) + 1 /\ eth0'[m][j] = f
    BY <1>17, <1>20, <2>1 DEF NoneFor
  <2>3. m = ip
    BY <1>8, <1>20, <2>2 DEF Concerns
  <2>4. eth0'[m][j].dst = ip
    BY <1>8, <2>2
  <2>5. Expects(a, eth0[m][j].dst)'
    BY ONLY <1>18, <2>4 DEF Expects, Asked
  <2>. QED  BY <1>19, <2>2, <2>3, <2>5
<1>21. Waits(eth0, a)'
  <2>1. \A m \in Node : \A j \in 1 .. Len(eth0'[m]) :
          Concerns(a, m, eth0'[m][j]) =>
            m = ip /\ j = i /\ Expects(a, eth0[m][j].dst)'
    BY <1>20
  <2>. QED  BY ONLY <2>1, a \in Node, SingleWaits
<1>22. AskAt(a)'
  BY <1>2, <1>9, <1>16, <1>21 DEF AskAt, ArpUp
<1>. QED  BY <1>15, <1>22 DEF AskInv

LEMMA CallAreqAsk ==
  ASSUME AskInv, CacheInv, CacheInv', EndInv, NEW a \in Node, CallAreq(a)
  PROVE  AskInv'
<1>1. PICK c : c = NewConn(tour[a].src)
  OBVIOUS
<1>2. c.state = "queued" /\ c.mac = NoMac
  BY <1>1 DEF NewConn
<1>3. /\ conn' = [conn EXCEPT ![a] = Append(@, c)] /\ UNCHANGED <<cache, eth0, arp>>
      /\ ArpUp(a) /\ tour[a].pc = "call"
  BY <1>1 DEF CallAreq, Connect
<1>4. /\ \A n \in Node : n # a => tour'[n] = tour[n]
      /\ tour'[a].pc = "areq"
  BY DEF CallAreq, EndInv, Process
<1>5. conn[a] \in Seq(Connection) /\ conn'[a] = Append(conn[a], c)
  BY <1>3 DEF CacheInv, ConnInv
<1>6. /\ Len(conn[a]) \in Nat /\ Len(conn'[a]) = Len(conn[a]) + 1
      /\ conn'[a][Len(conn[a]) + 1] = c
      /\ \A k \in 1 .. Len(conn[a]) : conn'[a][k] = conn[a][k]
  BY <1>5
<1>7. ASSUME NEW n \in Node, n # a  PROVE AskAt(n)'
  <2>1. conn'[n] = conn[n]
    BY <1>3, <1>7 DEF CacheInv, ConnInv
  <2>2. Fewer(eth0, eth0', n)
    BY <1>3, SameFewer DEF CacheInv
  <2>. QED  BY <1>3, <1>4, <1>7, <2>1, <2>2, Elsewhere DEF AskInv, CacheInv
<1>8. ConnOK(a) /\ Waits(eth0, a)
  BY <1>3 DEF AskInv, AskAt
<1>9. \A k \in 1 .. Len(conn[a]) : conn[a][k].state \notin {"queued", "open"}
  BY <1>3, <1>8 DEF ConnOK, Away
<1>10. ConnOK(a)'
  <2>1. ASSUME NEW k \in 1 .. Len(conn'[a])
        PROVE  /\ conn'[a][k].mac \in {NoMac, conn'[a][k].ip}
               /\ conn'[a][k].state \in {"queued", "open"} => k = Len(conn'[a])
    <3>1. CASE k = Len(conn[a]) + 1
      BY <1>2, <1>6, <3>1
    <3>2. CASE k # Len(conn[a]) + 1
      <4>1. k \in 1 .. Len(conn[a])
        BY <1>6, <3>2
      <4>. QED  BY <1>6, <1>8, <1>9, <4>1 DEF ConnOK
    <3>. QED  BY <3>1, <3>2
  <2>. QED  BY <1>4, <2>1 DEF ConnOK, Away
<1>11. NoneFor(eth0, a)
  <2>1. Len(conn[a]) = 0 \/ Asked(a).state # "open"
    BY <1>6, <1>9 DEF Asked
  <2>. QED  BY <1>8, <2>1, NoneExpected
<1>12. Waits(eth0, a)'
  <2>1. NoneFor(eth0', a)
    BY <1>3, <1>11
  <2>. QED  BY <2>1, NoneWaits
<1>13. AskAt(a)'
  BY <1>3, <1>10, <1>12 DEF AskAt, ArpUp
<1>. QED  BY <1>7, <1>13 DEF AskInv

\* The process of a ends.
LEMMA ExitAsk ==
  ASSUME AskInv, CacheInv, CacheInv', NEW a \in Node, Exit(a),
         \A n \in Node : n # a => tour'[n] = tour[n], tour'[a].pc \in Away
  PROVE  AskInv'
<1>1. /\ conn' = [conn EXCEPT ![a] = [k \in DOMAIN conn[a] |-> Abandoned(conn[a][k])]]
      /\ UNCHANGED <<cache, eth0, arp>>
  <2>1. [k \in DOMAIN conn[a] |->
           IF k \in DOMAIN conn[a] THEN Abandoned(conn[a][k]) ELSE conn[a][k]]
        = [k \in DOMAIN conn[a] |-> Abandoned(conn[a][k])]
    OBVIOUS
  <2>. QED  BY <2>1 DEF Exit, HangUp
<1>2. conn[a] \in Seq(Connection) /\ conn'[a] \in Seq(Connection)
  BY DEF CacheInv, ConnInv
<1>3. conn'[a] = [k \in DOMAIN conn[a] |-> Abandoned(conn[a][k])]
  BY <1>1 DEF CacheInv, ConnInv
<1>4. DOMAIN conn[a] = 1 .. Len(conn[a]) /\ Len(conn[a]) \in Nat
  BY <1>2
<1>5. Len(conn'[a]) = Len(conn[a])
  BY <1>2, <1>3, <1>4
<1>6. ASSUME NEW k \in 1 .. Len(conn[a])
      PROVE  /\ conn'[a][k].state = conn[a][k].state /\ conn'[a][k].fd = conn[a][k].fd
             /\ conn'[a][k].ip = conn[a][k].ip /\ conn'[a][k].mac = conn[a][k].mac
  <2>1. conn[a][k] \in Connection /\ conn'[a][k] = Abandoned(conn[a][k])
    BY <1>2, <1>3, <1>4
  <2>. QED  BY <2>1 DEF Abandoned, Connection
<1>7. \A n \in Node : Fewer(eth0, eth0', n) /\ eth0' \in Queues
  BY <1>1, SameFewer DEF CacheInv
<1>8. ASSUME NEW n \in Node, n # a  PROVE AskAt(n)'
  <2>1. conn'[n] = conn[n]
    BY <1>1, <1>8 DEF CacheInv, ConnInv
  <2>. QED  BY <1>1, <1>7, <1>8, <2>1, Elsewhere DEF AskInv
<1>9. AskAt(a) /\ ConnOK(a)'
  BY <1>5, <1>6 DEF AskInv, AskAt, ConnOK, Away
<1>10. \A d : Expects(a, d) => Expects(a, d)'
  BY <1>1, <1>4, <1>5, <1>6 DEF Expects, Asked
<1>11. Waits(eth0, a) => Waits(eth0, a)'
  BY <1>7, <1>10, FewerWaits
<1>12. AskAt(a)'
  BY <1>1, <1>9, <1>11 DEF AskAt, ArpUp
<1>. QED  BY <1>8, <1>12 DEF AskInv

\* The process of a goes on, after what it asked for is finished if it did.
LEMMA GoesOnAsk ==
  ASSUME AskInv, CacheInv, CacheInv', NEW a \in Node, UNCHANGED arpvars,
         \A n \in Node : n # a => tour'[n] = tour[n],
         \/ tour[a].pc \in Away => tour'[a].pc \in Away
         \/ Asked(a).state \notin {"queued", "open"}
  PROVE  AskInv'
<1>1. UNCHANGED <<cache, eth0, conn, arp>>
  BY DEF arpvars
<1>2. \A n \in Node : Fewer(eth0, eth0', n) /\ eth0' \in Queues
  BY <1>1, SameFewer DEF CacheInv
<1>3. ASSUME NEW n \in Node, n # a  PROVE AskAt(n)'
  BY <1>1, <1>2, <1>3, Elsewhere DEF AskInv
<1>4. AskAt(a)
  BY DEF AskInv
<1>5. ConnOK(a)'
  BY <1>1, <1>4 DEF AskAt, ConnOK, Asked, Away
<1>6. \A d : Expects(a, d) => Expects(a, d)'
  BY <1>1 DEF Expects, Asked
<1>7. Waits(eth0, a) => Waits(eth0, a)'
  BY <1>2, <1>6, FewerWaits
<1>8. AskAt(a)'
  BY <1>1, <1>4, <1>5, <1>7 DEF AskAt, ArpUp
<1>. QED  BY <1>3, <1>8 DEF AskInv

LEMMA AlarmAsk ==
  ASSUME AskInv, CacheInv, CacheInv', EndInv, NEW a \in Node, NEW t \in Process,
         sig_alrm(a, t),
         t.pc = tour[a].pc \/ Asked(a).state \notin {"queued", "open"}
  PROVE  AskInv'
<1>1. PICK u : u = AfterAlarm(t)
  OBVIOUS
<1>2. u.pc \in {t.pc, "done"} /\ u \in Process
  BY <1>1, AfterAlarmType
<1>3. tour' = [tour EXCEPT ![a] = u]
  BY <1>1 DEF sig_alrm
<1>4. tour'[a] = u /\ \A n \in Node : n # a => tour'[n] = tour[n]
  BY <1>3 DEF EndInv
<1>5. CASE u.pc = "done"
  BY <1>1, <1>4, <1>5, ExitAsk DEF sig_alrm, Away
<1>6. CASE u.pc # "done"
  <2>1. UNCHANGED arpvars
    BY <1>1, <1>6 DEF sig_alrm
  <2>. QED  BY <1>2, <1>4, <1>6, <2>1, GoesOnAsk
<1>. QED  BY <1>5, <1>6

LEMMA FailsAsk ==
  ASSUME AskInv, CacheInv, CacheInv', EndInv, NEW a \in Node, Fails(a, tour[a])
  PROVE  AskInv'
<1>1. PICK u : u = Gone(tour[a], "failed")
  OBVIOUS
<1>2. u.pc = "failed"
  BY <1>1, GoneType DEF EndInv
<1>3. tour'[a] = u /\ \A n \in Node : n # a => tour'[n] = tour[n]
  BY <1>1 DEF Fails, EndInv
<1>. QED  BY <1>2, <1>3, ExitAsk DEF Fails, Away

LEMMA GoesOnSteps ==
  ASSUME AskInv, CacheInv, CacheInv', EndInv, NEW a \in Node,
         Start(a) \/ RoutePacket(a) \/ FirstPingInterrupted(a) \/ GroupMessage(a)
  PROVE  AskInv'
<1>1. /\ tour \in [Node -> Process] /\ UNCHANGED arpvars
      /\ \A n \in Node : n # a => tour'[n] = tour[n]
  BY DEF EndInv, Start, RoutePacket, FirstPingInterrupted, GroupMessage
<1>2. CASE Start(a) \/ RoutePacket(a) \/ GroupMessage(a)
  <2>1. tour[a].pc \notin Away
    BY <1>2 DEF Start, RoutePacket, PacketArrived, GroupMessage, FirstMessage, Away
  <2>. QED  BY <1>1, <2>1, GoesOnAsk
<1>3. CASE FirstPingInterrupted(a)
  <2>1. Asked(a).state \notin {"queued", "open"}
    BY <1>3 DEF FirstPingInterrupted, Returned
  <2>. QED  BY <1>1, <2>1, GoesOnAsk
<1>. QED  BY <1>2, <1>3

LEMMA GroupMessageCutAsk ==
  ASSUME AskInv, CacheInv, CacheInv', EndInv, NEW a \in Node, GroupMessageCut(a)
  PROVE  AskInv'
<1>1. PICK t : t = [tour[a] EXCEPT !.option = TRUE]
  OBVIOUS
<1>2. t.option = TRUE /\ t \in Process
  <2>1. tour[a] \in Process
    BY DEF EndInv
  <2>. QED  BY <1>1, <2>1 DEF Process
<1>3. AfterAlarm(t).pc = "done"
  BY <1>2, GoneType DEF AfterAlarm
<1>4. tour' = [tour EXCEPT ![a] = AfterAlarm(t)]
  BY <1>1 DEF GroupMessageCut, EndInv
<1>5. tour'[a].pc \in Away /\ \A n \in Node : n # a => tour'[n] = tour[n]
  BY <1>3, <1>4 DEF EndInv, Away
<1>. QED  BY <1>5, ExitAsk DEF GroupMessageCut

LEMMA AreqReturnsAsk ==
  ASSUME AskInv, CacheInv, CacheInv', EndInv, NEW a \in Node, AreqReturns(a)
  PROVE  AskInv'
<1>1. Asked(a).state \notin {"queued", "open"}
  BY DEF AreqReturns, Returned
<1>2. CASE AlreadyPinged(tour[a])
  <2>1. UNCHANGED arpvars /\ \A n \in Node : n # a => tour'[n] = tour[n]
    BY <1>2 DEF AreqReturns, EndInv
  <2>. QED  BY <1>1, <2>1, GoesOnAsk
<1>3. CASE ~AlreadyPinged(tour[a])
  <2>1. sig_alrm(a, WithPing(tour[a]))
    BY <1>3 DEF AreqReturns
  <2>2. WithPing(tour[a]) \in Process
    BY WithPingType DEF EndInv
  <2>. QED  BY <1>1, <2>1, <2>2, AlarmAsk
<1>. QED  BY <1>2, <1>3

LEMMA AlarmActionAsk ==
  ASSUME AskInv, CacheInv, CacheInv', EndInv, NEW a \in Node, Alarm(a)
  PROVE  AskInv'
<1>1. PICK t : t = [tour[a] EXCEPT !.alarm = FALSE]
  OBVIOUS
<1>2. t \in Process /\ t.pc = tour[a].pc
  <2>1. tour[a] \in Process
    BY DEF EndInv
  <2>. QED  BY <1>1, <2>1 DEF Process
<1>3. sig_alrm(a, t)
  BY <1>1 DEF Alarm
<1>. QED  BY <1>2, <1>3, AlarmAsk

----------------------------------------------------------------------------
(* The invariant of a tour *)

TourInv == EndInv /\ CacheInv /\ AskInv

LEMMA AskInit == TourInit => AskInv
<1>. SUFFICES ASSUME TourInit, NEW n \in Node  PROVE AskAt(n)
  BY DEF AskInv
<1>1. /\ conn[n] = <<>> /\ Len(conn[n]) = 0
      /\ \A m \in Node : Len(eth0[m]) = 0
  BY DEF TourInit, ArpInit
<1>2. ConnOK(n)
  BY <1>1 DEF ConnOK
<1>3. Waits(eth0, n) /\ ArpUp(n)
  BY <1>1 DEF Waits, TourInit, ArpInit, ArpUp
<1>. QED  BY <1>2, <1>3 DEF AskAt

LEMMA AskStep ==
  ASSUME TourInv, CacheInv', [TourNext]_tvars
  PROVE  AskInv'
<1>. USE DEF TourInv
<1>1. ASSUME NEW a \in Node, RequestForOther(a) \/ LoseArpFrame(a), UNCHANGED tourvars
      PROVE  AskInv'
  <2>1. /\ eth0[a] # <<>> /\ eth0' = TakeFrame(a)
        /\ UNCHANGED <<cache, conn, arp, tour>>
    BY <1>1 DEF RequestForOther, LoseArpFrame, FrameArrived, tourvars
  <2>. QED  BY <2>1, TakeAsk
<1>2. ASSUME NEW a \in Node, QuitArp(a), UNCHANGED tourvars
      PROVE  AskInv'
  BY <1>2, EndedAsk DEF QuitArp, tourvars
<1>3. ASSUME NEW a \in Node, UNCHANGED tourvars,
             RequestForUs(a) \/ ReplyArrives(a) \/ AnswerFromCache(a) \/ AskNetwork(a)
      PROVE  AskInv'
  BY <1>3, RequestForUsAsk, ReplyArrivesAsk, AnswerFromCacheAsk, AskNetworkAsk DEF tourvars
<1>4. ASSUME NEW a \in Node,
             AreqRefused(a) \/ AreqReset(a) \/ AreqInterrupted(a) \/ QuitTour(a)
      PROVE  AskInv'
  BY <1>4, FailsAsk DEF AreqRefused, AreqReset, AreqInterrupted, QuitTour
<1>5. ASSUME NEW a \in Node,
             Start(a) \/ RoutePacket(a) \/ FirstPingInterrupted(a) \/ GroupMessage(a)
      PROVE  AskInv'
  BY <1>5, GoesOnSteps
<1>6. ASSUME NEW a \in Node,
             CallAreq(a) \/ AreqReturns(a) \/ Alarm(a) \/ GroupMessageCut(a)
      PROVE  AskInv'
  BY <1>6, CallAreqAsk, AreqReturnsAsk, AlarmActionAsk, GroupMessageCutAsk
<1>7. ASSUME NEW a \in Node, LosePacket(a)  PROVE AskInv'
  BY <1>7, GoesOnAsk DEF LosePacket
<1>8. CASE UNCHANGED tvars
  BY <1>8 DEF tvars, arpvars, tourvars, AskInv, AskAt, ConnOK, Waits, Expects, Asked, ArpUp
<1>. QED  BY <1>1, <1>2, <1>3, <1>4, <1>5, <1>6, <1>7, <1>8 DEF TourNext, Areq, ArpStep

LEMMA TourInvariant == TourSpec => []TourInv
<1>1. TourInit => TourInv
  BY EndInit, CacheInit, AskInit DEF TourInit, TourInv
<1>2. TourInv /\ [TourNext]_tvars => TourInv'
  BY EndStep, TourStepIsArpStep, CacheStep, AskStep DEF TourInv
<1>. QED  BY <1>1, <1>2, PTL DEF TourSpec

\* Theorem: areq() never returns a wrong address in a tour: what an ARP process
\* writes to a connection is the address of the node that was asked for.
THEOREM AnswersAreCorrect == TourSpec => []AnswersCorrect
<1>1. TourInv => AnswersCorrect
  <2>. SUFFICES ASSUME TourInv, NEW n \in Node, NEW k \in DOMAIN conn[n]
                PROVE  conn[n][k].mac \in {NoMac, conn[n][k].ip}
    BY DEF AnswersCorrect
  <2>1. k \in 1 .. Len(conn[n])
    BY DEF TourInv, CacheInv, ConnInv
  <2>. QED  BY <2>1 DEF TourInv, AskInv, AskAt, ConnOK
<1>. QED  BY <1>1, TourInvariant, PTL

\* Theorem: in a tour a reply that arrives finds the connection that asked for it
\* behind the descriptor in the cache, although descriptors are used again:
\* a process asks for one address at a time, and frames are not duplicated.
THEOREM RepliesFindAskers == TourSpec => []ReplyFindsAsker
<1>1. TourInv => ReplyFindsAsker
  <2>. SUFFICES ASSUME TourInv, NEW n \in Node, NEW j \in DOMAIN eth0[n],
                       eth0[n][j].op = 2
                PROVE  \E k \in Holders(n, cache[n][eth0[n][j].dst].sockfd) :
                         conn[n][k].ip = eth0[n][j].dst
    BY DEF ReplyFindsAsker
  <2>1. j \in 1 .. Len(eth0[n]) /\ eth0[n] # <<>>
    BY DEF TourInv, CacheInv, Queues
  <2>2. Waits(eth0, n)
    BY <2>1 DEF TourInv, AskInv, AskAt
  <2>3. Expects(n, eth0[n][j].dst)
    BY <2>1, <2>2 DEF Waits, Concerns
  <2>4. Len(conn[n]) \in 1 .. Len(conn[n])
    BY <2>3 DEF Expects, TourInv, CacheInv, ConnInv
  <2>. QED  BY <2>3, <2>4 DEF Expects, Asked, Holders
<1>. QED  BY <1>1, TourInvariant, PTL

----------------------------------------------------------------------------
(* ARP outlives the tour *)

\* No node is visited twice; the source, which is not visited at first, may be
\* visited once.
VisitsOnce == \A j, k \in 2 .. Len(Route) : Route[j] = Route[k] => j = k

Empty(q) == \A m \in Node : Len(q[m]) = 0

OnePacket(q) ==
  \A m1, m2 \in Node : \A j1 \in 1 .. Len(q[m1]), j2 \in 1 .. Len(q[m2]) :
    m1 = m2 /\ j1 = j2

\* The route leads from a packet in q to n.
Ahead(q, n) ==
  \E m \in Node : \E j \in 1 .. Len(q[m]) : \E k \in q[m][j].offset .. Len(Route) :
    Route[k] = n

\* No visit has left n with a timer running or a call of areq() to finish.
Fresh(n) == ~tour[n].alarm /\ tour[n].pc \notin {"call", "areq"}

\* There is one packet at most; as long as there is one the end of the tour is
\* not to be seen, and the nodes it has still to visit are as they were at first.
TokenInv ==
  /\ OnePacket(rt)
  /\ Empty(rt) \/ Quiet
  /\ \A n \in Node : Ahead(rt, n) => Fresh(n)
  /\ tour[Source].pc = "start" => Empty(rt) /\ Quiet /\ \A n \in Node : Fresh(n)

\* Nobody has left a connection that ARP has still to write to, and nobody in
\* areq() has a timer running that would make him.
UpAt(n) ==
  /\ ArpUp(n)
  /\ \A k \in 1 .. Len(conn[n]) :
       /\ conn[n][k].state # "reset"
       /\ conn[n][k].state \in {"queued", "open"} => conn[n][k].peer
  /\ tour[n].pc \in {"call", "areq"} => ~tour[n].alarm
  /\ tour[n].pc = "areq" => Len(conn[n]) > 0

UpInv == \A n \in Node : UpAt(n)

\* A step of n's process that leaves the packets alone.
LEMMA TokenLocal ==
  ASSUME TokenInv, EndInv, NEW n \in Node, NEW t \in Process,
         tour' = [tour EXCEPT ![n] = t], UNCHANGED rt,
         Fresh(n) => ~t.alarm /\ t.pc \notin {"call", "areq"},
         t.pc = "start" => tour[n].pc = "start",
         Quiet => ~t.option /\ ~t.last_node /\ group' = group
  PROVE  TokenInv'
<1>1. \A m \in Node : tour'[m] = IF m = n THEN t ELSE tour[m]
  BY DEF EndInv
<1>2. Quiet => Quiet'
  BY <1>1 DEF Quiet
<1>3. \A m \in Node : Fresh(m) => Fresh(m)'
  BY <1>1 DEF Fresh
<1>4. (OnePacket(rt) => OnePacket(rt)') /\ (Empty(rt) => Empty(rt)')
  BY DEF OnePacket, Empty
<1>5. \A m \in Node : Ahead(rt, m)' => Ahead(rt, m)
  BY DEF Ahead
<1>6. Source \in Node
  BY RouteFacts DEF Source
<1>7. tour'[Source].pc = "start" => tour[Source].pc = "start"
  BY <1>1, <1>6
<1>8. Source' = Source
  BY DEF Source
<1>. QED  BY <1>2, <1>3, <1>4, <1>5, <1>7, <1>8 DEF TokenInv

LEMMA TakeOnly ==
  ASSUME rt \in RoutePackets, OnePacket(rt), NEW n \in Node, rt[n] # <<>>
  PROVE  Empty([rt EXCEPT ![n] = Tail(@)])
<1>1. PICK P : P = [offset : 2 .. Len(Route), src : Node]
  OBVIOUS
<1>2. \A m \in Node : rt[m] \in Seq(P)
  BY <1>1 DEF RoutePackets
<1>3. rt[n] \in Seq(P) /\ Len(rt[n]) \in Nat /\ Len(rt[n]) > 0
  BY <1>2
<1>4. \A m \in Node : m # n => Len(rt[m]) = 0
  <2>. SUFFICES ASSUME NEW m \in Node, m # n, Len(rt[m]) # 0  PROVE FALSE
    OBVIOUS
  <2>1. 1 \in 1 .. Len(rt[m])
    BY <1>2
  <2>2. 1 \in 1 .. Len(rt[n])
    BY <1>3
  <2>. QED  BY <2>1, <2>2 DEF OnePacket
<1>5. ~(Len(rt[n]) > 1)
  <2>. SUFFICES ASSUME Len(rt[n]) > 1  PROVE FALSE
    OBVIOUS
  <2>1. 1 \in 1 .. Len(rt[n]) /\ 2 \in 1 .. Len(rt[n])
    BY <1>3
  <2>. QED  BY <2>1 DEF OnePacket
<1>6. Len(rt[n]) = 1
  <2>1. PICK l : l = Len(rt[n])
    OBVIOUS
  <2>2. l \in Nat /\ l > 0 /\ ~(l > 1)
    BY <1>3, <1>5, <2>1
  <2>3. l = 1
    BY ONLY <2>2
  <2>. QED  BY <2>1, <2>3
<1>7. Len(Tail(rt[n])) = 0
  BY <1>3, <1>6
<1>. QED  BY <1>4, <1>7 DEF Empty, RoutePackets

LEMMA SendOnly ==
  ASSUME NEW q \in RoutePackets, Empty(q), NEW n \in Node, NEW k \in 2 .. Len(Route)
  PROVE  /\ OnePacket(SendOn(q, n, k))
         /\ \A x \in Node : Ahead(SendOn(q, n, k), x) =>
              \E i \in k .. Len(Route) : Route[i] = x
<1>1. PICK P : P = [offset : 2 .. Len(Route), src : Node]
  OBVIOUS
<1>2. PICK d \in Node : d = Route[k]
  BY RouteFacts
<1>3. PICK p : p = [offset |-> k, src |-> n]
  OBVIOUS
<1>4. p \in P /\ p.offset = k
  BY <1>1, <1>3
<1>5. SendOn(q, n, k) = q \/ SendOn(q, n, k) = [q EXCEPT ![d] = Append(@, p)]
  BY <1>2, <1>3 DEF SendOn
<1>6. q[d] \in Seq(P) /\ Len(q[d]) = 0
  BY <1>1 DEF RoutePackets, Empty
<1>7. Len(Append(q[d], p)) = 1 /\ Append(q[d], p)[1] = p
  BY <1>4, <1>6
<1>8. CASE SendOn(q, n, k) = q
  BY <1>8 DEF Empty, OnePacket, Ahead
<1>9. CASE SendOn(q, n, k) = [q EXCEPT ![d] = Append(@, p)]
  <2>1. PICK r : r = SendOn(q, n, k)
    OBVIOUS
  <2>2. r[d] = Append(q[d], p) /\ \A m \in Node : m # d => r[m] = q[m]
    BY <1>9, <2>1 DEF RoutePackets
  <2>3. ASSUME NEW m \in Node, NEW j \in 1 .. Len(r[m])
        PROVE  m = d /\ j = 1 /\ r[m][j] = p
    <3>1. m = d
      BY <2>2 DEF Empty
    <3>2. Len(r[m]) = 1 /\ r[m][1] = p
      BY <1>7, <2>2, <3>1
    <3>. QED  BY <3>1, <3>2
  <2>4. OnePacket(r)
    BY <2>3 DEF OnePacket
  <2>5. ASSUME NEW x \in Node, Ahead(r, x)
        PROVE  \E i \in k .. Len(Route) : Route[i] = x
    BY <1>4, <2>3, <2>5 DEF Ahead
  <2>. QED  BY <2>1, <2>4, <2>5
<1>. QED  BY <1>5, <1>8, <1>9

LEMMA StartToken ==
  ASSUME TokenInv, EndInv, NEW n \in Node, Start(n)
  PROVE  TokenInv'
<1>1. /\ tour[n] \in Process /\ n = Source /\ rt \in RoutePackets
      /\ tour[n].pc = "start"
  BY DEF EndInv, Start
<1>2. Empty(rt) /\ Quiet /\ \A m \in Node : Fresh(m)
  BY <1>1 DEF TokenInv
<1>3. PICK t : t = [tour[n] EXCEPT !.visited = TRUE, !.pc = "loop"]
  OBVIOUS
<1>4. /\ t.pc = "loop" /\ t.alarm = tour[n].alarm
      /\ t.option = tour[n].option /\ t.last_node = tour[n].last_node
  BY <1>1, <1>3 DEF Process
<1>5. tour' = [tour EXCEPT ![n] = t] /\ rt' = SendOn(rt, n, 2) /\ group' = group
  BY <1>3 DEF Start, EndInv
<1>6. \A m \in Node : tour'[m] = IF m = n THEN t ELSE tour[m]
  BY <1>5 DEF EndInv
<1>7. Quiet' /\ \A m \in Node : Fresh(m)'
  BY <1>2, <1>4, <1>5, <1>6 DEF Quiet, Fresh
<1>8. tour'[Source].pc # "start" /\ Source' = Source
  BY <1>1, <1>4, <1>6 DEF Source
<1>9. 2 \in 2 .. Len(Route)
  BY RouteFacts
<1>10. OnePacket(rt')
  BY <1>1, <1>2, <1>5, <1>9, SendOnly
<1>11. OnePacket(rt)'
  BY <1>10 DEF OnePacket
<1>. QED  BY <1>7, <1>8, <1>11 DEF TokenInv

LEMMA RoutePacketToken ==
  ASSUME VisitsOnce, TokenInv, EndInv, NEW n \in Node, RoutePacket(n)
  PROVE  TokenInv'
<1>1. PacketArrived(n) /\ rt[n] # <<>> /\ rt \in RoutePackets /\ group' = group
  BY DEF RoutePacket, PacketArrived, EndInv
<1>2. PICK p : p = Head(rt[n])
  OBVIOUS
<1>3. PICK rest : rest = [rt EXCEPT ![n] = Tail(@)]
  OBVIOUS
<1>4. /\ rest \in RoutePackets /\ p \in [offset : 2 .. Len(Route), src : Node]
      /\ BelongsAt(VisitedNodes, n, p)
  BY <1>1, <1>2, <1>3, InPlaceTail DEF EndInv
<1>5. Empty(rest)
  BY <1>1, <1>3, TakeOnly DEF TokenInv
<1>6. p.offset \in 2 .. Len(Route) /\ Route[p.offset] = n
  BY <1>4 DEF BelongsAt
<1>7. rt' = IF p.offset = Len(Route) THEN rest ELSE SendOn(rest, n, p.offset + 1)
  BY <1>2, <1>3 DEF RoutePacket, Forwarded
<1>8. PICK t : t = [Visited(n) EXCEPT !.pc = "call"]
  OBVIOUS
<1>9. /\ t.pc = "call" /\ t.option = tour[n].option
      /\ t.last_node => tour[n].last_node \/ p.offset = Len(Route)
  BY <1>1, <1>2, <1>8, VisitedType DEF Process
<1>10. \A m \in Node : tour'[m] = IF m = n THEN t ELSE tour[m]
  BY <1>8 DEF RoutePacket, EndInv
<1>11. ~Empty(rt) /\ Quiet
  <2>1. 1 \in 1 .. Len(rt[n])
    BY <1>1 DEF RoutePackets
  <2>2. Len(rt[n]) # 0
    BY <2>1
  <2>. QED  BY <2>2 DEF Empty, TokenInv
<1>12. tour'[Source].pc # "start" /\ Source' = Source
  <2>1. Source \in Node
    BY RouteFacts DEF Source
  <2>2. tour[Source].pc # "start"
    BY <1>11 DEF TokenInv
  <2>. QED  BY <1>9, <1>10, <2>1, <2>2 DEF Source
<1>13. CASE p.offset = Len(Route)
  <2>1. rt' = rest
    BY <1>7, <1>13
  <2>2. Empty(rt)' /\ OnePacket(rt)' /\ \A x \in Node : ~Ahead(rt, x)'
    BY <1>5, <2>1 DEF Empty, OnePacket, Ahead
  <2>. QED  BY <1>12, <2>2 DEF TokenInv
<1>14. CASE p.offset # Len(Route)
  <2>1. PICK k : k = p.offset + 1
    OBVIOUS
  <2>2. k \in 2 .. Len(Route) /\ p.offset \in Nat /\ Len(Route) \in Nat
    BY <1>6, <1>14, <2>1, RouteFacts
  <2>3. rt' = SendOn(rest, n, k)
    BY <1>7, <1>14, <2>1
  <2>4. OnePacket(rt')
    BY <1>4, <1>5, <2>2, <2>3, SendOnly
  <2>5. Quiet'
    BY <1>1, <1>9, <1>10, <1>11, <1>14 DEF Quiet
  <2>6. ASSUME NEW x \in Node, Ahead(rt', x)  PROVE Fresh(x)'
    <3>1. PICK i \in k .. Len(Route) : Route[i] = x
      BY <1>4, <1>5, <2>2, <2>3, <2>6, SendOnly
    <3>2. i \in p.offset .. Len(Route) /\ i \in 2 .. Len(Route) /\ i # p.offset
      BY <1>6, <2>1, <2>2, <3>1
    <3>3. x # n
      BY <1>6, <3>1, <3>2 DEF VisitsOnce
    <3>4. 1 \in 1 .. Len(rt[n]) /\ rt[n][1] = p
      BY <1>1, <1>2 DEF RoutePackets
    <3>5. Ahead(rt, x)
      BY <3>1, <3>2, <3>4 DEF Ahead
    <3>6. Fresh(x)
      BY <3>5 DEF TokenInv
    <3>. QED  BY <1>10, <3>3, <3>6 DEF Fresh
  <2>7. OnePacket(rt)'
    BY <2>4 DEF OnePacket
  <2>8. \A x \in Node : Ahead(rt, x)' => Fresh(x)'
    <3>1. \A x \in Node : Ahead(rt, x)' => Ahead(rt', x)
      BY DEF Ahead
    <3>. QED  BY <2>6, <3>1
  <2>. QED  BY <1>12, <2>5, <2>7, <2>8 DEF TokenInv
<1>. QED  BY <1>13, <1>14

LEMMA CallAreqToken ==
  ASSUME TokenInv, EndInv, NEW n \in Node, CallAreq(n)
  PROVE  TokenInv'
<1>1. PICK t : t = [tour[n] EXCEPT !.pc = "areq"]
  OBVIOUS
<1>2. /\ tour[n] \in Process /\ tour[n].pc = "call"
      /\ tour' = [tour EXCEPT ![n] = t] /\ UNCHANGED <<rt, group>>
  BY <1>1 DEF CallAreq, EndInv
<1>3. /\ t \in Process /\ t.option = tour[n].option
      /\ t.last_node = tour[n].last_node /\ t.pc = "areq"
  BY <1>1, <1>2 DEF Process
<1>. QED  BY <1>2, <1>3, TokenLocal DEF Quiet, Fresh

\* sig_alrm() strikes, or is called by, a process that is not as it was at first.
LEMMA AlarmToken ==
  ASSUME TokenInv, EndInv, NEW n \in Node, NEW t \in Process, sig_alrm(n, t), UNCHANGED rt,
         t.option = tour[n].option, t.last_node = tour[n].last_node,
         t.pc # "start" \/ tour[n].pc = "start", ~Fresh(n)
  PROVE  TokenInv'
<1>1. PICK u : u = AfterAlarm(t)
  OBVIOUS
<1>2. /\ u \in Process /\ u.option = t.option
      /\ u.last_node => t.last_node
      /\ u.pc \in {t.pc, "done"}
  BY <1>1, AfterAlarmType
<1>3. ~t.last_node => group' = group
  BY AnnouncedType DEF sig_alrm, EndInv
<1>4. tour' = [tour EXCEPT ![n] = u]
  BY <1>1 DEF sig_alrm
<1>. QED  BY <1>2, <1>3, <1>4, TokenLocal DEF Quiet

LEMMA AreqReturnsToken ==
  ASSUME TokenInv, EndInv, NEW n \in Node, AreqReturns(n)
  PROVE  TokenInv'
<1>1. PICK t : t = [tour[n] EXCEPT !.pc = "loop"]
  OBVIOUS
<1>2. tour[n] \in Process /\ UNCHANGED rt /\ tour[n].pc = "areq"
  BY DEF EndInv, AreqReturns, Returned
<1>3. /\ t \in Process /\ t.option = tour[n].option
      /\ t.last_node = tour[n].last_node /\ t.pc = "loop"
  BY <1>1, <1>2 DEF Process
<1>4. ~Fresh(n)
  BY <1>2 DEF Fresh
<1>5. \/ tour' = [tour EXCEPT ![n] = t] /\ group' = group
      \/ sig_alrm(n, WithPing(tour[n]))
  BY <1>1 DEF AreqReturns, EndInv
<1>6. CASE tour' = [tour EXCEPT ![n] = t] /\ group' = group
  BY <1>2, <1>3, <1>4, <1>6, TokenLocal DEF Quiet
<1>7. CASE sig_alrm(n, WithPing(tour[n]))
  BY <1>2, <1>4, <1>7, WithPingType, AlarmToken
<1>. QED  BY <1>5, <1>6, <1>7

LEMMA AlarmActionToken ==
  ASSUME TokenInv, EndInv, NEW n \in Node, Alarm(n)
  PROVE  TokenInv'
<1>1. PICK t : t = [tour[n] EXCEPT !.alarm = FALSE]
  OBVIOUS
<1>2. tour[n] \in Process /\ sig_alrm(n, t) /\ UNCHANGED rt /\ ~Fresh(n)
  BY <1>1 DEF EndInv, Alarm, Fresh
<1>3. /\ t \in Process /\ t.option = tour[n].option
      /\ t.last_node = tour[n].last_node /\ t.pc = tour[n].pc
  BY <1>1, <1>2 DEF Process
<1>. QED  BY <1>2, <1>3, AlarmToken

LEMMA GroupMessageToken ==
  ASSUME TokenInv, EndInv, NEW n \in Node, GroupMessage(n) \/ GroupMessageCut(n)
  PROVE  TokenInv'
<1>1. PICK t : t = [tour[n] EXCEPT !.option = TRUE, !.alarm = TRUE]
  OBVIOUS
<1>2. PICK u : u = [tour[n] EXCEPT !.option = TRUE]
  OBVIOUS
<1>3. /\ tour[n] \in Process /\ UNCHANGED rt /\ ~Quiet /\ tour[n].pc = "loop"
      /\ Empty(rt) /\ tour[Source].pc # "start"
  BY DEF EndInv, GroupMessage, GroupMessageCut, FirstMessage, Quiet, TokenInv
<1>4. t.pc = "loop" /\ u.pc = "loop" /\ u \in Process
  BY <1>1, <1>2, <1>3 DEF Process
<1>5. tour' = [tour EXCEPT ![n] = t] \/ tour' = [tour EXCEPT ![n] = AfterAlarm(u)]
  BY <1>1, <1>2 DEF GroupMessage, GroupMessageCut, EndInv
<1>6. tour'[n].pc # "start" /\ \A m \in Node : m # n => tour'[m] = tour[m]
  BY <1>4, <1>5, AfterAlarmType DEF EndInv
<1>7. tour'[Source].pc # "start" /\ Source \in Node /\ Source' = Source
  BY <1>3, <1>6, RouteFacts DEF Source
<1>8. OnePacket(rt)' /\ Empty(rt)' /\ \A x \in Node : ~Ahead(rt, x)'
  BY <1>3 DEF Empty, OnePacket, Ahead
<1>. QED  BY <1>7, <1>8 DEF TokenInv

LEMMA LosePacketToken ==
  ASSUME TokenInv, EndInv, NEW n \in Node, LosePacket(n)
  PROVE  TokenInv'
<1>1. /\ tour' = tour /\ rt \in RoutePackets /\ Source' = Source
      /\ (Quiet => Quiet') /\ (\A m \in Node : Fresh(m) => Fresh(m)')
  BY DEF LosePacket, EndInv, Source, Quiet, Fresh
<1>2. CASE rt' = rt
  <2>1. (OnePacket(rt) => OnePacket(rt)') /\ (Empty(rt) => Empty(rt)')
    BY <1>2 DEF OnePacket, Empty
  <2>2. \A m \in Node : Ahead(rt, m)' => Ahead(rt, m)
    BY <1>2 DEF Ahead
  <2>. QED  BY <1>1, <2>1, <2>2 DEF TokenInv
<1>3. CASE rt[n] # <<>> /\ rt' = [rt EXCEPT ![n] = Tail(@)]
  <2>1. Empty(rt')
    BY <1>1, <1>3, TakeOnly DEF TokenInv
  <2>2. OnePacket(rt)' /\ Empty(rt)' /\ \A x \in Node : ~Ahead(rt, x)'
    BY <2>1 DEF Empty, OnePacket, Ahead
  <2>. QED  BY <1>1, <2>2 DEF TokenInv
<1>. QED  BY <1>2, <1>3 DEF LosePacket

\* What cannot happen as long as ARP runs and nobody is interrupted in areq().
LEMMA NoFailure ==
  ASSUME UpInv, EndInv, CacheInv, Quits = {}, NEW n \in Node
  PROVE  /\ ~QuitArp(n) /\ ~QuitTour(n)
         /\ ~AreqRefused(n) /\ ~AreqReset(n) /\ ~AreqInterrupted(n)
         /\ ~FirstPingInterrupted(n)
<1>1. UpAt(n) /\ tour[n] \in Process
  BY DEF UpInv, EndInv
<1>2. ~AreqReset(n)
  <2>. SUFFICES ASSUME AreqReset(n)  PROVE FALSE
    OBVIOUS
  <2>1. tour[n].pc = "areq" /\ Asked(n).state = "reset"
    BY DEF AreqReset
  <2>2. Len(conn[n]) \in 1 .. Len(conn[n])
    BY <1>1, <2>1 DEF UpAt, CacheInv, ConnInv
  <2>. QED  BY <1>1, <2>1, <2>2 DEF UpAt, Asked
<1>3. ~FirstPingInterrupted(n)
  <2>. SUFFICES ASSUME FirstPingInterrupted(n)  PROVE FALSE
    OBVIOUS
  <2>1. tour[n].pc = "areq" /\ WithPing(tour[n]).alarm
    BY DEF FirstPingInterrupted, Returned
  <2>2. WithPing(tour[n]).alarm = tour[n].alarm
    BY <1>1 DEF WithPing, Process
  <2>. QED  BY <1>1, <2>1, <2>2 DEF UpAt
<1>4. ~QuitArp(n) /\ ~QuitTour(n)
  BY DEF QuitArp, QuitTour
<1>5. ~AreqRefused(n) /\ ~AreqInterrupted(n)
  BY <1>1 DEF UpAt, AreqRefused, AreqInterrupted
<1>. QED  BY <1>2, <1>3, <1>4, <1>5

LEMMA TokenStep ==
  ASSUME VisitsOnce, Quits = {}, TokenInv, UpInv, EndInv, CacheInv, [TourNext]_tvars
  PROVE  TokenInv'
<1>1. ASSUME UNCHANGED tourvars  PROVE TokenInv'
  BY <1>1 DEF tourvars, TokenInv, OnePacket, Empty, Quiet, Ahead, Fresh, Source
<1>2. ASSUME NEW n \in Node, Start(n) \/ RoutePacket(n) \/ CallAreq(n)
      PROVE  TokenInv'
  BY <1>2, StartToken, RoutePacketToken, CallAreqToken
<1>3. ASSUME NEW n \in Node, AreqReturns(n) \/ Alarm(n)  PROVE TokenInv'
  BY <1>3, AreqReturnsToken, AlarmActionToken
<1>4. ASSUME NEW n \in Node, GroupMessage(n) \/ GroupMessageCut(n) \/ LosePacket(n)
      PROVE  TokenInv'
  BY <1>4, GroupMessageToken, LosePacketToken
<1>. QED  BY <1>1, <1>2, <1>3, <1>4, NoFailure DEF TourNext, Areq, tvars

\* A step of ARP that leaves the connections alone.
LEMMA UpSame ==
  ASSUME UpInv, UNCHANGED <<conn, arp, tour>>
  PROVE  UpInv'
BY DEF UpInv, UpAt, ArpUp

\* A step of ARP that changes connection k of n.
LEMMA UpConn ==
  ASSUME UpInv, CacheInv, NEW n \in Node, NEW k \in 1 .. Len(conn[n]), NEW c,
         conn' = [conn EXCEPT ![n] = [conn[n] EXCEPT ![k] = c]], UNCHANGED <<arp, tour>>,
         c.state # "reset", c.state = "closed" \/ c.peer
  PROVE  UpInv'
<1>1. conn \in [Node -> Seq(Connection)] /\ conn[n] \in Seq(Connection)
  BY DEF CacheInv, ConnInv
<1>2. conn'[n] = [conn[n] EXCEPT ![k] = c] /\ \A m \in Node : m # n => conn'[m] = conn[m]
  BY ONLY <1>1, conn' = [conn EXCEPT ![n] = [conn[n] EXCEPT ![k] = c]], n \in Node
<1>3. /\ Len(conn'[n]) = Len(conn[n])
      /\ \A i \in 1 .. Len(conn[n]) : conn'[n][i] = IF i = k THEN c ELSE conn[n][i]
  BY <1>1, <1>2
<1>4. UpAt(n)'
  BY <1>3 DEF UpInv, UpAt, ArpUp
<1>5. ASSUME NEW m \in Node, m # n  PROVE UpAt(m)'
  BY <1>2, <1>5 DEF UpInv, UpAt, ArpUp
<1>. QED  BY <1>4, <1>5 DEF UpInv

LEMMA WriteUp ==
  ASSUME UpInv, CacheInv, NEW n \in Node, NEW k \in 1 .. Len(conn[n]), NEW mac, NEW q,
         conn[n][k].state \in {"queued", "open"},
         WriteAndClose(n, k, mac, q), UNCHANGED tour
  PROVE  UpInv'
<1>1. conn[n][k].peer
  BY DEF UpInv, UpAt
<1>2. /\ UNCHANGED arp
      /\ conn' = [conn EXCEPT ![n][k].mac = mac, ![n][k].state = "closed"]
  BY <1>1 DEF WriteAndClose
<1>3. conn \in [Node -> Seq(Connection)] /\ conn[n] \in Seq(Connection) /\ conn[n][k] \in Connection
  BY DEF CacheInv, ConnInv
<1>4. PICK c : c = [conn[n][k] EXCEPT !.mac = mac, !.state = "closed"]
  OBVIOUS
<1>5. c.state = "closed"
  BY <1>3, <1>4 DEF Connection
<1>6. conn' = [conn EXCEPT ![n] = [conn[n] EXCEPT ![k] = c]]
  BY ONLY <1>2, <1>3, <1>4, n \in Node, k \in 1 .. Len(conn[n])
<1>. QED  BY <1>2, <1>5, <1>6, UpConn

LEMMA ReplyArrivesUp ==
  ASSUME UpInv, AskInv, CacheInv, NEW n \in Node, ReplyArrives(n), UNCHANGED tour
  PROVE  UpInv'
<1>1. PICK f : f = Head(eth0[n])
  OBVIOUS
<1>2. PICK H : H = Holders(n, cache[n][f.dst].sockfd)
  OBVIOUS
<1>3. /\ eth0 \in Queues /\ eth0[n] # <<>> /\ f.op = 2 /\ ArpUp(n)
  BY <1>1 DEF ReplyArrives, FrameArrived, CacheInv
<1>4. 1 \in 1 .. Len(eth0[n]) /\ eth0[n][1] = f
  BY <1>1, <1>3 DEF Queues
<1>5. Expects(n, f.dst)
  BY <1>3, <1>4 DEF AskInv, AskAt, Concerns, Waits
<1>6. Len(conn[n]) \in H
  BY <1>2, <1>5 DEF Expects, Asked, Holders, CacheInv, ConnInv
<1>7. PICK k : k = (CHOOSE x \in H : TRUE)
  OBVIOUS
<1>8. k \in 1 .. Len(conn[n]) /\ conn[n][k].state = "open"
  <2>1. k \in H
    BY <1>6, <1>7
  <2>. QED  BY <1>2, <2>1 DEF Holders
<1>9. WriteAndClose(n, k, f.mac, TakeFrame(n))
  BY <1>1, <1>2, <1>6, <1>7 DEF ReplyArrives
<1>. QED  BY <1>8, <1>9, WriteUp

LEMMA AnswerFromCacheUp ==
  ASSUME UpInv, CacheInv, NEW n \in Node, AnswerFromCache(n), UNCHANGED tour
  PROVE  UpInv'
<1>1. PICK k : k = Oldest(n)
  OBVIOUS
<1>2. k \in 1 .. Len(conn[n]) /\ conn[n][k].state = "queued"
  BY <1>1, OldestQueued DEF AnswerFromCache, RequestArrived, CacheInv
<1>3. WriteAndClose(n, k, cache[n][conn[n][k].ip].mac, eth0)
  BY <1>1 DEF AnswerFromCache
<1>. QED  BY <1>2, <1>3, WriteUp

LEMMA AskNetworkUp ==
  ASSUME UpInv, CacheInv, NEW n \in Node, AskNetwork(n), UNCHANGED tour
  PROVE  UpInv'
<1>1. PICK k : k = Oldest(n)
  OBVIOUS
<1>2. k \in 1 .. Len(conn[n]) /\ conn[n][k].state = "queued"
  BY <1>1, OldestQueued DEF AskNetwork, RequestArrived, CacheInv
<1>3. PICK fd : fd = FreeFd(n)
  OBVIOUS
<1>4. UNCHANGED arp /\ conn' = [conn EXCEPT ![n][k].state = "open", ![n][k].fd = fd]
  BY <1>1, <1>3 DEF AskNetwork
<1>5. conn \in [Node -> Seq(Connection)] /\ conn[n] \in Seq(Connection) /\ conn[n][k] \in Connection
  BY <1>2 DEF CacheInv, ConnInv
<1>6. PICK c : c = [conn[n][k] EXCEPT !.state = "open", !.fd = fd]
  OBVIOUS
<1>7. c.state = "open" /\ c.peer = conn[n][k].peer
  BY <1>5, <1>6 DEF Connection
<1>8. conn[n][k].peer
  BY <1>2 DEF UpInv, UpAt
<1>9. conn' = [conn EXCEPT ![n] = [conn[n] EXCEPT ![k] = c]]
  BY ONLY <1>2, <1>4, <1>5, <1>6, n \in Node
<1>. QED  BY <1>2, <1>4, <1>7, <1>8, <1>9, UpConn

\* A step of n's process that leaves the connections alone.
LEMMA GoesOnUp ==
  ASSUME UpInv, NEW n \in Node, UNCHANGED <<conn, arp>>,
         \A m \in Node : m # n => tour'[m] = tour[m],
         tour'[n].pc \in {"call", "areq"} => ~tour'[n].alarm,
         tour'[n].pc = "areq" => tour[n].pc = "areq"
  PROVE  UpInv'
BY DEF UpInv, UpAt, ArpUp

\* A process exits only when it waits for no answer.
LEMMA ExitUp ==
  ASSUME UpInv, CacheInv, CacheInv', NEW n \in Node, Exit(n),
         \A m \in Node : m # n => tour'[m] = tour[m], tour'[n].pc \in {"done", "failed"},
         \A k \in 1 .. Len(conn[n]) : conn[n][k].state \notin {"queued", "open"}
  PROVE  UpInv'
<1>1. /\ conn' = [conn EXCEPT ![n] = [k \in DOMAIN conn[n] |-> Abandoned(conn[n][k])]]
      /\ UNCHANGED <<cache, eth0, arp>>
  <2>1. [k \in DOMAIN conn[n] |->
           IF k \in DOMAIN conn[n] THEN Abandoned(conn[n][k]) ELSE conn[n][k]]
        = [k \in DOMAIN conn[n] |-> Abandoned(conn[n][k])]
    OBVIOUS
  <2>. QED  BY <2>1 DEF Exit, HangUp
<1>2. conn[n] \in Seq(Connection) /\ conn'[n] \in Seq(Connection)
  BY DEF CacheInv, ConnInv
<1>3. /\ conn'[n] = [k \in DOMAIN conn[n] |-> Abandoned(conn[n][k])]
      /\ \A m \in Node : m # n => conn'[m] = conn[m]
  BY <1>1 DEF CacheInv, ConnInv
<1>4. DOMAIN conn[n] = 1 .. Len(conn[n]) /\ Len(conn[n]) \in Nat
  BY <1>2
<1>5. Len(conn'[n]) = Len(conn[n])
  BY <1>2, <1>3, <1>4
<1>6. ASSUME NEW k \in 1 .. Len(conn[n])
      PROVE  conn'[n][k].state = conn[n][k].state
  <2>1. conn[n][k] \in Connection /\ conn'[n][k] = Abandoned(conn[n][k])
    BY <1>2, <1>3, <1>4
  <2>. QED  BY <2>1 DEF Abandoned, Connection
<1>7. UpAt(n)'
  BY <1>1, <1>5, <1>6 DEF UpInv, UpAt, ArpUp
<1>8. ASSUME NEW m \in Node, m # n  PROVE UpAt(m)'
  BY <1>1, <1>3, <1>8 DEF UpInv, UpAt, ArpUp
<1>. QED  BY <1>7, <1>8 DEF UpInv

\* Nothing is unfinished outside of areq(), nor when areq() returns.
LEMMA NothingOpen ==
  ASSUME AskInv, CacheInv, NEW n \in Node,
         tour[n].pc \notin Away \/ Asked(n).state \notin {"queued", "open"}
  PROVE  \A k \in 1 .. Len(conn[n]) : conn[n][k].state \notin {"queued", "open"}
BY DEF AskInv, AskAt, ConnOK, Asked

LEMMA AlarmUp ==
  ASSUME UpInv, AskInv, CacheInv, CacheInv', EndInv, NEW n \in Node, NEW t \in Process,
         sig_alrm(n, t), t.pc \notin {"call", "areq"},
         tour[n].pc \notin Away \/ Asked(n).state \notin {"queued", "open"}
  PROVE  UpInv'
<1>1. PICK u : u = AfterAlarm(t)
  OBVIOUS
<1>2. u.pc \in {t.pc, "done"} /\ u \in Process
  BY <1>1, AfterAlarmType
<1>3. tour' = [tour EXCEPT ![n] = u]
  BY <1>1 DEF sig_alrm
<1>4. tour'[n] = u /\ \A m \in Node : m # n => tour'[m] = tour[m]
  BY <1>3 DEF EndInv
<1>5. CASE u.pc = "done"
  <2>1. Exit(n)
    BY <1>1, <1>5 DEF sig_alrm
  <2>. QED  BY <1>4, <1>5, <2>1, NothingOpen, ExitUp
<1>6. CASE u.pc # "done"
  <2>1. UNCHANGED <<conn, arp>>
    BY <1>1, <1>6 DEF sig_alrm, arpvars
  <2>. QED  BY <1>2, <1>4, <1>6, <2>1, GoesOnUp
<1>. QED  BY <1>5, <1>6

LEMMA AreqReturnsUp ==
  ASSUME UpInv, AskInv, CacheInv, CacheInv', EndInv, NEW n \in Node, AreqReturns(n)
  PROVE  UpInv'
<1>1. Asked(n).state \notin {"queued", "open"} /\ tour[n] \in Process
  BY DEF AreqReturns, Returned, EndInv
<1>2. CASE AlreadyPinged(tour[n])
  <2>1. tour'[n].pc = "loop" /\ \A m \in Node : m # n => tour'[m] = tour[m]
    BY <1>1, <1>2 DEF AreqReturns, EndInv, Process
  <2>2. UNCHANGED <<conn, arp>>
    BY <1>2 DEF AreqReturns, arpvars
  <2>. QED  BY <2>1, <2>2, GoesOnUp
<1>3. CASE ~AlreadyPinged(tour[n])
  <2>1. sig_alrm(n, WithPing(tour[n]))
    BY <1>3 DEF AreqReturns
  <2>2. WithPing(tour[n]) \in Process /\ WithPing(tour[n]).pc = "loop"
    BY <1>1, WithPingType
  <2>. QED  BY <1>1, <2>1, <2>2, AlarmUp
<1>. QED  BY <1>2, <1>3

LEMMA AlarmActionUp ==
  ASSUME UpInv, AskInv, CacheInv, CacheInv', EndInv, NEW n \in Node, Alarm(n)
  PROVE  UpInv'
<1>1. PICK t : t = [tour[n] EXCEPT !.alarm = FALSE]
  OBVIOUS
<1>2. tour[n] \in Process /\ sig_alrm(n, t) /\ tour[n].alarm /\ Alive(n)
  BY <1>1 DEF EndInv, Alarm
<1>3. t \in Process /\ t.pc = tour[n].pc
  BY <1>1, <1>2 DEF Process
<1>4. tour[n].pc \notin {"call", "areq"}
  BY <1>2 DEF UpInv, UpAt
<1>5. tour[n].pc \notin Away
  BY <1>2, <1>4 DEF Alive, Away
<1>. QED  BY <1>2, <1>3, <1>4, <1>5, AlarmUp

LEMMA GroupMessageUp ==
  ASSUME UpInv, AskInv, CacheInv, CacheInv', EndInv, NEW n \in Node,
         GroupMessage(n) \/ GroupMessageCut(n)
  PROVE  UpInv'
<1>1. tour[n] \in Process /\ tour[n].pc = "loop"
  BY DEF EndInv, GroupMessage, GroupMessageCut, FirstMessage
<1>2. CASE GroupMessage(n)
  <2>1. tour'[n].pc = "loop" /\ \A m \in Node : m # n => tour'[m] = tour[m]
    <3>1. PICK t : t = [tour[n] EXCEPT !.option = TRUE, !.alarm = TRUE]
      OBVIOUS
    <3>2. t.pc = "loop"
      BY <1>1, <3>1 DEF Process
    <3>3. tour' = [tour EXCEPT ![n] = t]
      BY <1>2, <3>1 DEF GroupMessage, EndInv
    <3>. QED  BY <3>2, <3>3 DEF EndInv
  <2>2. UNCHANGED <<conn, arp>>
    BY <1>2 DEF GroupMessage, arpvars
  <2>. QED  BY <2>1, <2>2, GoesOnUp
<1>3. CASE GroupMessageCut(n)
  <2>1. PICK t : t = [tour[n] EXCEPT !.option = TRUE]
    OBVIOUS
  <2>2. t.option = TRUE /\ t \in Process
    BY <1>1, <2>1 DEF Process
  <2>3. AfterAlarm(t).pc = "done"
    BY <2>2, GoneType DEF AfterAlarm
  <2>4. tour' = [tour EXCEPT ![n] = AfterAlarm(t)]
    BY <1>3, <2>1 DEF GroupMessageCut, EndInv
  <2>5. tour'[n].pc = "done" /\ \A m \in Node : m # n => tour'[m] = tour[m]
    BY <2>3, <2>4 DEF EndInv
  <2>6. tour[n].pc \notin Away
    BY <1>1 DEF Away
  <2>. QED  BY <1>3, <2>5, <2>6, NothingOpen, ExitUp DEF GroupMessageCut
<1>. QED  BY <1>2, <1>3

LEMMA StartUp ==
  ASSUME UpInv, EndInv, NEW n \in Node, Start(n)
  PROVE  UpInv'
<1>1. PICK t : t = [tour[n] EXCEPT !.visited = TRUE, !.pc = "loop"]
  OBVIOUS
<1>2. tour[n] \in Process /\ tour' = [tour EXCEPT ![n] = t] /\ UNCHANGED <<conn, arp>>
  BY <1>1 DEF Start, EndInv, arpvars
<1>3. t.pc = "loop"
  BY <1>1, <1>2 DEF Process
<1>4. tour'[n] = t /\ \A m \in Node : m # n => tour'[m] = tour[m]
  BY <1>2 DEF EndInv
<1>. QED  BY <1>2, <1>3, <1>4, GoesOnUp

\* The packet finds a process without a timer.
LEMMA RoutePacketUp ==
  ASSUME UpInv, TokenInv, EndInv, NEW n \in Node, RoutePacket(n)
  PROVE  UpInv'
<1>1. /\ PacketArrived(n) /\ rt[n] # <<>> /\ rt \in RoutePackets
      /\ tour[n] \in Process /\ UNCHANGED <<conn, arp>>
  BY DEF RoutePacket, PacketArrived, EndInv, arpvars
<1>2. PICK p : p = Head(rt[n])
  OBVIOUS
<1>3. p.offset \in 2 .. Len(Route) /\ Route[p.offset] = n
  <2>1. /\ p \in [offset : 2 .. Len(Route), src : Node]
        /\ BelongsAt(VisitedNodes, n, p)
    BY <1>1, <1>2, InPlaceTail DEF EndInv
  <2>. QED  BY <2>1 DEF BelongsAt
<1>4. 1 \in 1 .. Len(rt[n]) /\ rt[n][1] = p
  BY <1>1, <1>2 DEF RoutePackets
<1>5. p.offset \in p.offset .. Len(Route)
  BY <1>3, RouteFacts
<1>6. Fresh(n)
  BY <1>3, <1>4, <1>5 DEF TokenInv, Ahead
<1>7. PICK t : t = [Visited(n) EXCEPT !.pc = "call"]
  OBVIOUS
<1>8. t.pc = "call" /\ t.alarm = Visited(n).alarm
  BY <1>1, <1>7, VisitedType DEF Process
<1>9. Visited(n).alarm = tour[n].alarm
  BY <1>1 DEF Visited, Process
<1>10. tour'[n] = t /\ \A m \in Node : m # n => tour'[m] = tour[m]
  BY <1>7 DEF RoutePacket, EndInv
<1>. QED  BY <1>1, <1>6, <1>8, <1>9, <1>10, GoesOnUp DEF Fresh

LEMMA CallAreqUp ==
  ASSUME UpInv, CacheInv, EndInv, NEW n \in Node, CallAreq(n)
  PROVE  UpInv'
<1>1. PICK c : c = NewConn(tour[n].src)
  OBVIOUS
<1>2. c.state = "queued" /\ c.peer
  BY <1>1 DEF NewConn
<1>3. PICK t : t = [tour[n] EXCEPT !.pc = "areq"]
  OBVIOUS
<1>4. /\ conn' = [conn EXCEPT ![n] = Append(@, c)] /\ UNCHANGED arp
      /\ tour[n] \in Process /\ tour[n].pc = "call" /\ tour' = [tour EXCEPT ![n] = t]
  BY <1>1, <1>3 DEF CallAreq, Connect, EndInv
<1>5. t.pc = "areq" /\ t.alarm = tour[n].alarm
  BY <1>3, <1>4 DEF Process
<1>6. /\ conn[n] \in Seq(Connection) /\ conn'[n] = Append(conn[n], c)
      /\ \A m \in Node : m # n => conn'[m] = conn[m]
  BY <1>4 DEF CacheInv, ConnInv
<1>7. tour'[n] = t /\ \A m \in Node : m # n => tour'[m] = tour[m]
  BY <1>4 DEF EndInv
<1>8. /\ Len(conn[n]) \in Nat /\ Len(conn'[n]) = Len(conn[n]) + 1
      /\ \A k \in 1 .. Len(conn'[n]) :
           \/ k \in 1 .. Len(conn[n]) /\ conn'[n][k] = conn[n][k]
           \/ conn'[n][k] = c
  BY <1>6
<1>9. UpAt(n)
  BY DEF UpInv
<1>10. UpAt(n)'
  BY <1>2, <1>4, <1>5, <1>7, <1>8, <1>9 DEF UpAt, ArpUp
<1>11. ASSUME NEW m \in Node, m # n  PROVE UpAt(m)'
  BY <1>4, <1>6, <1>7, <1>11 DEF UpInv, UpAt, ArpUp
<1>. QED  BY <1>10, <1>11 DEF UpInv

LEMMA UpStep ==
  ASSUME Quits = {}, TokenInv, UpInv, TourInv, CacheInv', [TourNext]_tvars
  PROVE  UpInv'
<1>. USE DEF TourInv
<1>1. ASSUME NEW n \in Node, UNCHANGED tourvars,
             RequestForUs(n) \/ RequestForOther(n) \/ LoseArpFrame(n)
      PROVE  UpInv'
  BY <1>1, UpSame DEF RequestForUs, RequestForOther, LoseArpFrame, tourvars
<1>2. ASSUME NEW n \in Node, UNCHANGED tourvars,
             ReplyArrives(n) \/ AnswerFromCache(n) \/ AskNetwork(n)
      PROVE  UpInv'
  BY <1>2, ReplyArrivesUp, AnswerFromCacheUp, AskNetworkUp DEF tourvars
<1>3. ASSUME NEW n \in Node, Start(n) \/ RoutePacket(n) \/ CallAreq(n) \/ AreqReturns(n)
      PROVE  UpInv'
  BY <1>3, StartUp, RoutePacketUp, CallAreqUp, AreqReturnsUp
<1>4. ASSUME NEW n \in Node, Alarm(n) \/ GroupMessage(n) \/ GroupMessageCut(n)
      PROVE  UpInv'
  BY <1>4, AlarmActionUp, GroupMessageUp
<1>5. ASSUME NEW n \in Node, LosePacket(n)  PROVE UpInv'
  BY <1>5, UpSame DEF LosePacket, arpvars
<1>6. CASE UNCHANGED tvars
  BY <1>6, UpSame DEF tvars, arpvars, tourvars
<1>. QED
  BY <1>1, <1>2, <1>3, <1>4, <1>5, <1>6, NoFailure DEF TourNext, Areq, ArpStep

LEMMA TokenInit == TourInit => TokenInv /\ UpInv
<1>. SUFFICES ASSUME TourInit  PROVE TokenInv /\ UpInv
  OBVIOUS
<1>1. /\ \A m \in Node : rt[m] = <<>> /\ Len(rt[m]) = 0 /\ ~group[m]
      /\ \A m \in Node : conn[m] = <<>> /\ Len(conn[m]) = 0 /\ arp[m] = "up"
  BY DEF TourInit, ArpInit
<1>2. \A m \in Node : /\ tour[m].option = FALSE /\ tour[m].last_node = FALSE
                      /\ tour[m].alarm = FALSE /\ tour[m].pc \in {"start", "loop"}
  BY DEF TourInit
<1>3. Empty(rt) /\ OnePacket(rt) /\ \A n \in Node : ~Ahead(rt, n)
  BY <1>1 DEF Empty, OnePacket, Ahead
<1>4. Quiet /\ \A n \in Node : Fresh(n)
  BY <1>1, <1>2 DEF Quiet, Fresh
<1>5. UpInv
  BY <1>1, <1>2 DEF UpInv, UpAt, ArpUp
<1>. QED  BY <1>3, <1>4, <1>5 DEF TokenInv

\* Theorem: on a route that visits no node twice no ARP process ends, whatever
\* frames and packets are lost: a packet finds a process without a timer, so
\* that no alarm strikes in areq(), and a process that exits waits for no answer
\* that ARP would still write.
THEOREM ArpOutlivesTour ==
  ASSUME VisitsOnce, Quits = {}
  PROVE  TourSpec => []ArpStaysUp
<1>1. TourInit => TokenInv /\ UpInv
  BY TokenInit
<1>2. TourInv /\ TourInv' /\ TokenInv /\ UpInv /\ [TourNext]_tvars => TokenInv' /\ UpInv'
  BY TokenStep, UpStep DEF TourInv
<1>3. UpInv => ArpStaysUp
  BY DEF UpInv, UpAt, ArpStaysUp
<1>. QED  BY <1>1, <1>2, <1>3, TourInvariant, PTL DEF TourSpec
=============================================================================
