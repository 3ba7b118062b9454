------------------------- MODULE TimeService_proofs -------------------------
(***************************************************************************)
(* The time clients and servers on top of the daemons: they use ODR as     *)
(* module ODR allows, so that what is proved there holds here, and, when   *)
(* users name nodes that run a server, a daemon without a server of its    *)
(* own ends only after an application of its node has ended.  In a plain   *)
(* network without losses servers have routes and no daemon ends.          *)
(***************************************************************************)
EXTENDS TimeService, ODRRoutes_proofs, FiniteSetTheorems

\* Applications that are bound were started.
BoundOK == bound \subseteq Running

TimeTypes == TypeOK /\ AppTypeOK /\ BoundOK

\* The names of what is bound, and the messages the programs send.
LEMMA ProgramTypes ==
  /\ Clients \subseteq Running
  /\ \A a \in Running : a[1] \in Node /\ a[2] \in Path /\ a = <<a[1], a[2]>>
  /\ \A a \in Clients : a[2] \in Client
  /\ ServerPort \in Ports
  BY RunningAssumption DEF Clients, Path, Ports

\* A request is a datagram that module ODR expects from a client.
LEMMA RequestType ==
  ASSUME NEW c \in Client, NEW d \in Node, NEW flag \in Flags
  PROVE  Request(c, d, flag) \in LocalMsg /\ Request(c, d, flag).path = c
  BY DEF Request, LocalMsg

\* A reply is one that module ODR expects from a server.
LEMMA ReplyType ==
  ASSUME NEW s, s.src \in Node, s.port \in Ports
  PROVE  Reply(s) \in LocalMsg /\ Reply(s).path = Server
  BY DEF Reply, LocalMsg

\* A client's step is one of the applications of module ODR, and keeps the types.
LEMMA ClientTypeStep ==
  ASSUME TimeTypes, NEW a \in Clients, ClientStep(a)
  PROVE  Applications /\ AppTypeOK' /\ BoundOK'
<1> DEFINE Place == [pc : {"prompt", "wait", "done"}, dst : Node,
                     asked : 0 .. MaxAsk, tries : 0 .. MaxRetry]
<1>1. a \in Running /\ a[1] \in Node /\ a[2] \in Client /\ a[2] \in Path
  BY ProgramTypes
<1>2. client \in [Clients -> Place] /\ client[a] \in Place
  BY DEF TimeTypes, AppTypeOK
<1>3. MaxAsk \in Nat /\ MaxRetry \in Nat /\ 0 \in Flags /\ (MaxRetry > 0 => 1 \in Flags)
  BY UserAssumption, RetryAssumption
<1>4. UNCHANGED server
  BY DEF ClientStep, Ask, TimeOut, TakeAnswer, ClientFails
<1>5. CASE \E d \in Targets : Ask(a, d)
  <2>1. PICK d \in Targets : Ask(a, d)
    BY <1>5
  <2>2. d \in Node
    BY UserAssumption
  <2>3. Request(a[2], d, 0) \in LocalMsg
    BY <1>1, <1>3, <2>2, RequestType
  <2>4. Applications /\ UNCHANGED bound
    BY <1>1, <2>1, <2>3 DEF Ask, Applications, AppSends
  <2> DEFINE x == [pc |-> "wait", dst |-> d, asked |-> client[a].asked + 1, tries |-> 0]
  <2>5. x \in Place
    BY <1>2, <1>3, <2>1, <2>2 DEF Ask
  <2>6. client' = [client EXCEPT ![a] = x]
    BY <2>1 DEF Ask
  <2> HIDE DEF x, Place
  <2>7. client' \in [Clients -> Place]
    BY <1>2, <2>5, <2>6
  <2> QED
    BY <1>4, <2>4, <2>7 DEF TimeTypes, AppTypeOK, BoundOK, Place
<1>6. CASE TimeOut(a)
  <2>1. client[a].dst \in Node /\ 1 \in Flags
    BY <1>2, <1>3, <1>6 DEF TimeOut
  <2>2. Request(a[2], client[a].dst, 1) \in LocalMsg
    BY <1>1, <2>1, RequestType
  <2>3. Applications /\ UNCHANGED bound
    BY <1>1, <1>6, <2>2 DEF TimeOut, Applications, AppSends
  <2> DEFINE x == [client[a] EXCEPT !.tries = @ + 1]
  <2>4. x \in Place
    <3>1. PICK t : t = client[a].tries + 1
      OBVIOUS
    <3>2. client[a].tries \in 0 .. MaxRetry /\ client[a].tries < MaxRetry
      BY <1>2, <1>6 DEF TimeOut
    <3>3. t \in 0 .. MaxRetry
      BY ONLY <1>3, <3>1, <3>2
    <3>4. x = [client[a] EXCEPT !.tries = t]
      BY <3>1
    <3> QED
      BY ONLY <1>2, <3>3, <3>4
  <2>5. client' = [client EXCEPT ![a] = x]
    BY <1>2, <1>6 DEF TimeOut
  <2> HIDE DEF x, Place
  <2>6. client' \in [Clients -> Place]
    BY <1>2, <2>4, <2>5
  <2> QED
    BY <1>4, <2>3, <2>6 DEF TimeTypes, AppTypeOK, BoundOK, Place
<1>7. ASSUME NEW pc \in {"prompt", "done"}, client' = [client EXCEPT ![a].pc = pc]
      PROVE  AppTypeOK'
  <2> DEFINE x == [client[a] EXCEPT !.pc = pc]
  <2>1. x \in Place
    BY <1>2
  <2>2. client' = [client EXCEPT ![a] = x]
    BY <1>2, <1>7
  <2> HIDE DEF x, Place
  <2>3. client' \in [Clients -> Place]
    BY <1>2, <2>1, <2>2
  <2> QED
    BY <1>4, <2>3 DEF TimeTypes, AppTypeOK, Place
<1>8. CASE TakeAnswer(a)
  BY <1>1, <1>7, <1>8 DEF TakeAnswer, Applications, AppReceives, TimeTypes, BoundOK
<1>9. CASE ClientFails(a)
  BY <1>1, <1>7, <1>9 DEF ClientFails, Applications, AppExits, TimeTypes, BoundOK
<1> QED
  BY <1>5, <1>6, <1>8, <1>9 DEF ClientStep

\* So is a server's.
LEMMA ServerTypeStep ==
  ASSUME TimeTypes, NEW n \in Node, ServerStep(n)
  PROVE  Applications /\ AppTypeOK' /\ BoundOK'
<1> DEFINE Place == [pc : {"recv", "send", "done"}, src : Node, port : Ports]
<1>1. server \in [Node -> Place] /\ server[n] \in Place
  BY DEF TimeTypes, AppTypeOK
<1>2. UNCHANGED client /\ Server \in Path
  BY DEF ServerStep, ServerReceives, ServerSends, ServerFails, Path
<1>3. ASSUME NEW pc \in {"recv", "done"}, server' = [server EXCEPT ![n].pc = pc]
      PROVE  AppTypeOK'
  <2> DEFINE x == [server[n] EXCEPT !.pc = pc]
  <2>1. x \in Place
    BY <1>1
  <2>2. server' = [server EXCEPT ![n] = x]
    BY <1>1, <1>3
  <2> HIDE DEF x, Place
  <2>3. server' \in [Node -> Place]
    BY <1>1, <2>1, <2>2
  <2> QED
    BY <1>2, <2>3 DEF TimeTypes, AppTypeOK, Place
<1>4. CASE ServerReceives(n)
  <2> DEFINE m == Head(appq[n][Server])
             x == [pc |-> "send", src |-> m.src, port |-> m.port]
  <2>1. m \in [msg : {"HI", "TIME"}, src : Node, port : Ports]
    <3> DEFINE D == [msg : {"HI", "TIME"}, src : Node, port : Ports]
    <3>1. appq \in [Node -> [Path -> Seq(D)]]
      BY DEF TimeTypes, TypeOK
    <3> HIDE DEF D
    <3>2. appq[n][Server] \in Seq(D) /\ appq[n][Server] # <<>>
      BY <1>2, <1>4, <3>1 DEF ServerReceives, AppReceives
    <3>3. Head(appq[n][Server]) \in D
      BY <3>2
    <3> QED
      BY <3>3 DEF D
  <2>2. x \in Place
    BY <2>1
  <2>3. server' = [server EXCEPT ![n] = x]
    BY <1>4 DEF ServerReceives
  <2>4. Applications /\ UNCHANGED bound
    BY <1>2, <1>4 DEF ServerReceives, Applications, AppReceives
  <2> HIDE DEF x, Place
  <2>5. server' \in [Node -> Place]
    BY <1>1, <2>2, <2>3
  <2> QED
    BY <1>2, <2>4, <2>5 DEF TimeTypes, AppTypeOK, BoundOK, Place
<1>5. CASE ServerSends(n)
  <2>1. Reply(server[n]) \in LocalMsg
    BY <1>1, ReplyType
  <2>2. Applications /\ UNCHANGED bound
    BY <1>5, <2>1 DEF ServerSends, Applications, AppSends
  <2> QED
    BY <1>3, <1>5, <2>2 DEF ServerSends, TimeTypes, BoundOK
<1>6. CASE ServerFails(n)
  BY <1>2, <1>3, <1>6 DEF ServerFails, Applications, AppExits, TimeTypes, BoundOK
<1> QED
  BY <1>4, <1>5, <1>6 DEF ServerStep

\* And the end of an application.
LEMMA QuitTypeStep ==
  ASSUME TimeTypes, NEW a \in Running, Quit(a)
  PROVE  Applications /\ AppTypeOK' /\ BoundOK'
<1>1. a[1] \in Node /\ a[2] \in Path
  BY ProgramTypes
<1>2. Applications /\ BoundOK'
  BY <1>1 DEF Quit, Applications, AppExits, TimeTypes, BoundOK
<1>3. CASE a \in Clients
  <2> DEFINE Place == [pc : {"prompt", "wait", "done"}, dst : Node,
                       asked : 0 .. MaxAsk, tries : 0 .. MaxRetry]
             x == [client[a] EXCEPT !.pc = "done"]
  <2>1. client \in [Clients -> Place] /\ server' = server
    BY <1>3 DEF Quit, TimeTypes, AppTypeOK
  <2>2. x \in Place /\ client' = [client EXCEPT ![a] = x]
    BY <1>3, <2>1 DEF Quit
  <2> HIDE DEF x, Place
  <2>3. client' \in [Clients -> Place]
    BY <2>1, <2>2
  <2> QED
    BY <1>2, <2>1, <2>3 DEF TimeTypes, AppTypeOK, Place
<1>4. CASE a \notin Clients
  <2> DEFINE Place == [pc : {"recv", "send", "done"}, src : Node, port : Ports]
             x == [server[a[1]] EXCEPT !.pc = "done"]
  <2>1. server \in [Node -> Place] /\ client' = client
    BY <1>4 DEF Quit, TimeTypes, AppTypeOK
  <2>2. x \in Place /\ server' = [server EXCEPT ![a[1]] = x]
    BY <1>1, <1>4, <2>1 DEF Quit
  <2> HIDE DEF x, Place
  <2>3. server' \in [Node -> Place]
    BY <2>1, <2>2
  <2> QED
    BY <1>2, <2>1, <2>3 DEF TimeTypes, AppTypeOK, Place
<1> QED
  BY <1>2, <1>3, <1>4

\* Every step of the programs and their daemons is a step of module ODR, and
\* keeps the types.
LEMMA TimeTypeStep ==
  TimeTypes /\ [TimeNext]_allvars => TimeTypes' /\ [Next]_vars
<1> SUFFICES ASSUME TimeTypes, [TimeNext]_allvars
             PROVE  AppTypeOK' /\ BoundOK' /\ [Next]_vars
  BY TypeStep DEF TimeTypes
<1>1. CASE Daemons /\ UNCHANGED appvars
  <2>1. UNCHANGED bound
    BY <1>1 DEF Daemons, HandleLocal, ServerReply, ClientPayload, ClientDiscovery,
         ClientOverflow, HandleFrame, HandleRREQ, RREQAtDestination, RREQAtKnowingNode,
         RREQAtOtherNode, RREPAtSource, RelayRREP, PayloadAtDestination, RelayPayload
  <2> QED
    BY <1>1, <2>1 DEF Next, appvars, TimeTypes, AppTypeOK, BoundOK
<1>2. CASE (\E i \in Attach : LoseFrame(i)) /\ UNCHANGED appvars
  BY <1>2 DEF Next, LoseFrame, appvars, TimeTypes, AppTypeOK, BoundOK
<1>3. CASE UNCHANGED allvars
  BY <1>3 DEF allvars, vars, appvars, TimeTypes, AppTypeOK, BoundOK
<1> QED
  BY <1>1, <1>2, <1>3, ClientTypeStep, ServerTypeStep, QuitTypeStep DEF TimeNext, Next

\* The types hold at the start.
LEMMA TimeTypeInit == TimeInit => TimeTypes
<1> SUFFICES ASSUME TimeInit PROVE AppTypeOK /\ BoundOK
  BY TypeInit DEF TimeInit, TimeTypes
<1>1. BoundOK
  BY DEF TimeInit, Init, BoundOK
<1>2. AppTypeOK
  BY ProgramTypes, UserAssumption DEF TimeInit, AppInit, AppTypeOK
<1> QED
  BY <1>1, <1>2

LEMMA TimeTypesHold == TimeSpec => []TimeTypes
  BY TimeTypeInit, TimeTypeStep, PTL DEF TimeSpec

----------------------------------------------------------------------------
(* Whom the daemons deliver to *)

\* The users name nodes that run a server.
ServersRun == \A d \in Targets : <<d, Server>> \in Running

HasServer(d) == <<d, Server>> \in Running

\* The daemon of d finds an application of its node for what arrives with the
\* number port, converted: the server, or the client of an entry, or whoever used
\* it last (la is localaddr).
Reach(la, d, port) == IF port = ServerPort THEN HasServer(d) ELSE la[d] # NoPath

\* What is in flight can be delivered, and so can the answer to it.
Promise(la, f) ==
  /\ f.type = "RREQ" => HasServer(f.dst) /\ Reach(la, f.src, f.port)
  /\ f.type = "RREP" => HasServer(f.src) /\ Reach(la, f.dst, ntohl(f.port))
  /\ f.type = "DATA" => Reach(la, f.dst, ntohl(f.dport)) /\ Reach(la, f.src, f.sport)

PromisesOK(la, q) == \A j \in Attach : \A f \in InFlight(q, j) : Promise(la, f)

\* What an application has not read can be answered.
InboxOK(la) ==
  \A n \in Node, p \in Path : \A k \in 1 .. Len(appq[n][p]) :
    Reach(la, appq[n][p][k].src, appq[n][p][k].port)

ServersOK(la) ==
  \A n \in Node : server[n].pc = "send" => Reach(la, server[n].src, server[n].port)

\* What node n sends out can be delivered, and comes from one of its programs.
LocalOK(la, n, m) ==
  /\ <<n, m.path>> \in Running
  /\ IF m.path = Server THEN Reach(la, m.dst, m.port) ELSE HasServer(m.dst)

OutboxOK(la) ==
  \A n \in Node : \A k \in 1 .. Len(odrq[n]) : LocalOK(la, n, odrq[n][k])

\* The daemon's last peer and the clients it has entered are programs of its node.
PeersOK ==
  /\ \A n \in Node : localaddr[n] # NoPath => <<n, localaddr[n]>> \in Running
  /\ \A n \in Node : \A k \in 1 .. Len(port_table[n]) : <<n, port_table[n][k]>> \in Running

ReachInv ==
  /\ PromisesOK(localaddr, net) /\ InboxOK(localaddr) /\ ServersOK(localaddr)
  /\ OutboxOK(localaddr) /\ PeersOK

\* A client waits for a node that runs a server.
AskedOK == \A a \in Clients : client[a].pc = "wait" => HasServer(client[a].dst)

ContainInv == TimeTypes /\ RouteInv /\ AskedOK /\ ReachInv /\ Contained

\* How a step may change the last peers.
Grows(la, new) == \A d \in Node : la[d] # NoPath => new[d] # NoPath

\* A number that is converted twice is what it was, and a client's port is never
\* taken for the server's.
LEMMA PortFacts ==
  /\ \A p \in Ports : ntohl(htonl(p)) = p
  /\ \A p \in ClientPorts : htonl(p) # ServerPort /\ p # ServerPort
  /\ ServerPort \in Ports /\ htonl(ServerPort) \in Ports
  BY PortAssumption DEF Ports, ClientPorts, ServerPort, htonl, ntohl

\* Who can be reached can still be reached.
LEMMA ReachKept ==
  ASSUME NEW la, NEW new, Grows(la, new), NEW d \in Node, NEW p, Reach(la, d, p)
  PROVE  Reach(new, d, p)
  BY DEF Grows, Reach

LEMMA PromiseKept ==
  ASSUME NEW la, NEW new, Grows(la, new), NEW f \in Frame, Promise(la, f)
  PROVE  Promise(new, f)
<1>1. f.src \in Node /\ f.dst \in Node
  BY FrameCases
<1> QED
  BY <1>1, ReachKept DEF Promise

\* The promises after a node has sent the frames in E.
LEMMA PromisesSent ==
  ASSUME NEW la, NEW new, Grows(la, new), NEW q \in [Attach -> Seq(Frame)],
         PromisesOK(la, q), NEW n, NEW E,
         \A e \in E : e.frame \in Frame /\ Promise(new, e.frame)
  PROVE  PromisesOK(new, Emit(q, n, E))
<1> SUFFICES ASSUME NEW j \in Attach, NEW f \in InFlight(Emit(q, n, E), j)
             PROVE  Promise(new, f)
  BY DEF PromisesOK
<1>1. CASE f \in InFlight(q, j)
  BY <1>1, FlightType, PromiseKept DEF PromisesOK
<1>2. CASE \E e \in E : Hears(j, n, e) /\ f = e.frame
  BY <1>2
<1> QED
  BY <1>1, <1>2, EmitFlight

LEMMA PromisesKept ==
  ASSUME NEW la, NEW new, Grows(la, new), NEW q \in [Attach -> Seq(Frame)], PromisesOK(la, q)
  PROVE  PromisesOK(new, q)
  BY FlightType, PromiseKept DEF PromisesOK

\* The promises after a node has sent f along a route.
LEMMA SendPromises ==
  ASSUME NEW la, NEW new, Grows(la, new), NEW q \in [Attach -> Seq(Frame)],
         PromisesOK(la, q), NEW n \in Node, NEW e,
         Known(e) => <<n, e.if>> \in Attach /\ e.mac \in Attach, NEW f,
         \A from, to \in Attach :
           LET g == [f EXCEPT !.from = from, !.to = to] IN g \in Frame /\ Promise(new, g),
         SendAlong(n, e, f, q)
  PROVE  PromisesOK(new, net')
<1>1. CASE Known(e)
  <2> DEFINE a == Along(n, e, f)
  <2>1. a.frame = [f EXCEPT !.from = <<n, e.if>>, !.to = e.mac]
    BY DEF Along
  <2>2. a.frame \in Frame /\ Promise(new, a.frame)
    BY <1>1, <2>1
  <2>3. net' = Emit(q, n, {a})
    BY <1>1 DEF SendAlong
  <2> HIDE DEF a
  <2>4. \A x \in {a} : x.frame \in Frame /\ Promise(new, x.frame)
    BY <2>2
  <2> QED
    BY <2>3, <2>4, PromisesSent
<1>2. CASE ~Known(e)
  BY <1>2, PromisesKept DEF SendAlong
<1> QED
  BY <1>1, <1>2

\* What a step keeps of the datagrams and the servers that it leaves alone.
LEMMA InboxKept ==
  ASSUME TimeTypes, Grows(localaddr, localaddr'), UNCHANGED appq, InboxOK(localaddr)
  PROVE  InboxOK(localaddr)'
<1> SUFFICES ASSUME NEW n \in Node, NEW p \in Path, NEW k \in 1 .. Len(appq[n][p])
             PROVE  Reach(localaddr', appq[n][p][k].src, appq[n][p][k].port)
  BY DEF InboxOK
<1>1. appq[n][p] \in Seq(DataMsg)
  BY DEF TimeTypes, TypeOK, DataMsg
<1>2. appq[n][p][k] \in DataMsg
  BY <1>1
<1>3. appq[n][p][k].src \in Node
  BY <1>2 DEF DataMsg
<1>4. Reach(localaddr, appq[n][p][k].src, appq[n][p][k].port)
  BY DEF InboxOK
<1> QED
  BY <1>3, <1>4, ReachKept

LEMMA ServersKept ==
  ASSUME TimeTypes, Grows(localaddr, localaddr'), UNCHANGED server, ServersOK(localaddr)
  PROVE  ServersOK(localaddr)'
<1> SUFFICES ASSUME NEW n \in Node, server[n].pc = "send"
             PROVE  Reach(localaddr', server[n].src, server[n].port)
  BY DEF ServersOK
<1>1. server[n].src \in Node
  BY DEF TimeTypes, AppTypeOK
<1>2. Reach(localaddr, server[n].src, server[n].port)
  BY DEF ServersOK
<1> QED
  BY <1>1, <1>2, ReachKept

LEMMA LocalKept ==
  ASSUME NEW la, NEW new, Grows(la, new), NEW n \in Node, NEW m \in LocalMsg, LocalOK(la, n, m)
  PROVE  LocalOK(new, n, m)
<1>1. m.dst \in Node
  BY LocalMsgType
<1> QED
  BY <1>1, ReachKept DEF LocalOK

LEMMA OutboxKept ==
  ASSUME TimeTypes, Grows(localaddr, localaddr'), OutboxOK(localaddr),
         \/ UNCHANGED odrq
         \/ \E n \in Node : odrq[n] # <<>> /\ odrq' = [odrq EXCEPT ![n] = Tail(@)]
         \/ \E n \in Node, m \in LocalMsg :
              LocalOK(localaddr, n, m) /\ odrq' = [odrq EXCEPT ![n] = Append(@, m)]
  PROVE  OutboxOK(localaddr)'
<1>1. odrq \in [Node -> Seq(LocalMsg)]
  BY DEF TimeTypes, TypeOK
<1>2. ASSUME NEW a \in Node, NEW k \in 1 .. Len(odrq[a])
      PROVE  LocalOK(localaddr', a, odrq[a][k])
  <2>1. odrq[a] \in Seq(LocalMsg)
    BY <1>1
  <2>2. odrq[a][k] \in LocalMsg
    BY <2>1
  <2>3. LocalOK(localaddr, a, odrq[a][k])
    BY DEF OutboxOK
  <2> QED
    BY <2>2, <2>3, LocalKept
<1>3. CASE UNCHANGED odrq
  BY <1>2, <1>3 DEF OutboxOK
<1>4. ASSUME NEW n \in Node, odrq[n] # <<>>, odrq' = [odrq EXCEPT ![n] = Tail(@)]
      PROVE  OutboxOK(localaddr)'
  <2> SUFFICES ASSUME NEW a \in Node, NEW k \in 1 .. Len(odrq'[a])
               PROVE  LocalOK(localaddr', a, odrq'[a][k])
    BY DEF OutboxOK
  <2>1. CASE a = n
    <3>1. odrq[n] \in Seq(LocalMsg) /\ odrq'[a] = Tail(odrq[n])
      BY <1>1, <1>4, <2>1
    <3>2. k \in 1 .. Len(Tail(odrq[n])) /\ odrq[n] # <<>>
      BY ONLY <1>4, <3>1, k \in 1 .. Len(odrq'[a])
    <3>3. k + 1 \in 1 .. Len(odrq[n]) /\ Tail(odrq[n])[k] = odrq[n][k + 1]
      BY <3>1, <3>2
    <3> QED
      BY <1>2, <2>1, <3>1, <3>3
  <2>2. CASE a # n
    <3>1. odrq'[a] = odrq[a]
      BY <1>1, <1>4, <2>2
    <3> QED
      BY <1>2, <3>1
  <2> QED
    BY <2>1, <2>2
<1>5. ASSUME NEW n \in Node, NEW m \in LocalMsg, LocalOK(localaddr, n, m),
             odrq' = [odrq EXCEPT ![n] = Append(@, m)]
      PROVE  OutboxOK(localaddr)'
  <2> SUFFICES ASSUME NEW a \in Node, NEW k \in 1 .. Len(odrq'[a])
               PROVE  LocalOK(localaddr', a, odrq'[a][k])
    BY DEF OutboxOK
  <2>1. LocalOK(localaddr', n, m)
    BY <1>5, LocalKept
  <2>2. CASE a = n
    <3>1. odrq[n] \in Seq(LocalMsg) /\ odrq'[a] = Append(odrq[n], m)
      BY <1>1, <1>5, <2>2
    <3>2. CASE k = Len(odrq[n]) + 1
      <4>1. odrq'[a][k] = m
        BY <3>1, <3>2
      <4> QED
        BY <2>1, <2>2, <4>1
    <3>3. CASE k # Len(odrq[n]) + 1
      <4>1. k \in 1 .. Len(odrq[n]) /\ odrq'[a][k] = odrq[n][k]
        BY <3>1, <3>3
      <4> QED
        BY <1>2, <2>2, <4>1
    <3> QED
      BY <3>2, <3>3
  <2>3. CASE a # n
    <3>1. odrq'[a] = odrq[a]
      BY <1>1, <1>5, <2>3
    <3> QED
      BY <1>2, <3>1
  <2> QED
    BY <2>2, <2>3
<1> QED
  BY <1>3, <1>4, <1>5

\* What a step has to show besides the types and the routes.
ContainStep == ReachInv' /\ Contained'

\* The program that a port designates, when it designates one, was started there.
LEMMA AddresseeRuns ==
  ASSUME TypeOK, ReachInv, NEW n \in Node, NEW port \in Ports, Reach(localaddr, n, ntohl(port))
  PROVE  Addressee(n, port) \in Path /\ <<n, Addressee(n, port)>> \in Running
<1> DEFINE path == Addressee(n, port)
<1>1. CASE ntohl(port) = ServerPort
  BY <1>1 DEF Addressee, Reach, HasServer, Path
<1>2. ASSUME ntohl(port) # ServerPort,
             NEW k \in 1 .. Len(port_table[n]), ntohl(port) = 5999 + k
      PROVE  path \in Path /\ <<n, path>> \in Running
  <2>1. port_table[n] \in Seq(Client)
    BY DEF TypeOK
  <2>2. ntohl(port) - 5999 = k
    BY <1>2, <2>1
  <2>3. path = port_table[n][k]
    BY <1>2, <2>2 DEF Addressee
  <2>4. <<n, port_table[n][k]>> \in Running
    BY DEF ReachInv, PeersOK
  <2>5. port_table[n][k] \in Client
    BY <2>1
  <2> QED
    BY <2>3, <2>4, <2>5 DEF Path
<1>3. CASE /\ ntohl(port) # ServerPort
           /\ ~\E k \in 1 .. Len(port_table[n]) : ntohl(port) = 5999 + k
  <2>1. path = localaddr[n] /\ localaddr[n] # NoPath
    BY <1>3 DEF Addressee, Reach
  <2>2. localaddr[n] \in Path \cup {NoPath} /\ <<n, localaddr[n]>> \in Running
    BY <2>1 DEF TypeOK, ReachInv, PeersOK
  <2> QED
    BY <2>1, <2>2
<1> QED
  BY <1>1, <1>2, <1>3

\* A daemon that delivers what can be delivered finds a program of its node, and
\* ends only if that one has ended.
LEMMA DeliverReach ==
  ASSUME ContainInv, NEW n \in Node, NEW port \in Ports, Reach(localaddr, n, ntohl(port)),
         NEW data \in DataMsg, Reach(localaddr, data.src, data.port),
         Deliver(n, Addressee(n, port), data), UNCHANGED <<bound, odrq, port_table, server>>
  PROVE  /\ Grows(localaddr, localaddr')
         /\ InboxOK(localaddr)' /\ ServersOK(localaddr)' /\ OutboxOK(localaddr)' /\ PeersOK'
         /\ Contained'
<1> DEFINE path == Addressee(n, port)
<1>1. TimeTypes /\ TypeOK /\ ReachInv
  BY DEF ContainInv, TimeTypes
<1>2. path \in Path /\ <<n, path>> \in Running
  BY <1>1, AddresseeRuns
<1>3. Deliver(n, path, data) /\ path # NoPath
  BY <1>2, PathAssumption DEF Path
<1> HIDE DEF path
<1>4. localaddr \in [Node -> Path \cup {NoPath}] /\ localaddr' = [localaddr EXCEPT ![n] = path]
  BY <1>1, <1>3 DEF TypeOK, Deliver
<1>5. Grows(localaddr, localaddr')
  BY <1>3, <1>4 DEF Grows
<1>6. ServersOK(localaddr)' /\ OutboxOK(localaddr)'
  BY <1>1, <1>5, ServersKept, OutboxKept DEF ReachInv
<1>7. PeersOK'
  BY <1>1, <1>2, <1>4 DEF ReachInv, PeersOK
<1>8. CASE <<n, path>> \in bound
  <2>1. appq' = [appq EXCEPT ![n][path] = Append(@, data)] /\ UNCHANGED status
    BY <1>3, <1>8 DEF Deliver
  <2>2. appq \in [Node -> [Path -> Seq(DataMsg)]]
    BY <1>1 DEF TypeOK, DataMsg
  <2>3. ASSUME NEW a \in Node, NEW p \in Path, NEW k \in 1 .. Len(appq[a][p])
        PROVE  Reach(localaddr', appq[a][p][k].src, appq[a][p][k].port)
    <3>1. appq[a][p] \in Seq(DataMsg)
      BY <2>2
    <3>2. appq[a][p][k] \in DataMsg
      BY <3>1
    <3>3. appq[a][p][k].src \in Node
      BY <3>2 DEF DataMsg
    <3>4. Reach(localaddr, appq[a][p][k].src, appq[a][p][k].port)
      BY <1>1 DEF ReachInv, InboxOK
    <3> QED
      BY <1>5, <3>3, <3>4, ReachKept
  <2>4. data.src \in Node
    BY DEF DataMsg
  <2>5. Reach(localaddr', data.src, data.port)
    BY <1>5, <2>4, ReachKept
  <2>6. InboxOK(localaddr)'
    <3> SUFFICES ASSUME NEW a \in Node, NEW p \in Path, NEW k \in 1 .. Len(appq'[a][p])
                 PROVE  Reach(localaddr', appq'[a][p][k].src, appq'[a][p][k].port)
      BY DEF InboxOK
    <3>1. CASE a = n /\ p = path
      <4>1. appq'[a][p] = Append(appq[a][p], data) /\ appq[a][p] \in Seq(DataMsg)
        BY <2>1, <2>2, <3>1
      <4>2. CASE k = Len(appq[a][p]) + 1
        <5>1. appq'[a][p][k] = data
          BY <4>1, <4>2
        <5> QED
          BY <2>5, <5>1
      <4>3. CASE k # Len(appq[a][p]) + 1
        <5>1. k \in 1 .. Len(appq[a][p]) /\ appq'[a][p][k] = appq[a][p][k]
          BY <4>1, <4>3
        <5> QED
          BY <2>3, <5>1
      <4> QED
        BY <4>2, <4>3
    <3>2. CASE ~(a = n /\ p = path)
      <4>1. appq'[a][p] = appq[a][p]
        BY <2>1, <2>2, <3>2
      <4> QED
        BY <2>3, <4>1
    <3> QED
      BY <3>1, <3>2
  <2>7. Contained'
    BY <2>1 DEF ContainInv, Contained
  <2> QED
    BY <1>5, <1>6, <1>7, <2>6, <2>7
<1>9. CASE <<n, path>> \notin bound
  <2>1. status' = [status EXCEPT ![n] = "exited"] /\ UNCHANGED appq
    BY <1>3, <1>9 DEF Deliver
  <2>2. InboxOK(localaddr)'
    BY <1>1, <1>5, <2>1, InboxKept DEF ReachInv
  <2>3. status \in [Node -> {"up", "exited", "corrupt"}]
    BY <1>1 DEF TypeOK
  <2>4. <<n, Server>> \notin Running => path \in Client /\ <<n, path>> \in Running \ bound
    BY <1>2, <1>9 DEF Path
  <2>5. Contained'
    BY <2>1, <2>3, <2>4 DEF ContainInv, Contained
  <2> QED
    BY <1>5, <1>6, <1>7, <2>2, <2>5
<1> QED
  BY <1>8, <1>9

\* A daemon that sends along a route it has does not end.
LEMMA SendContained ==
  ASSUME ContainInv, NEW n \in Node, NEW e, NEW f, NEW q, SendAlong(n, e, f, q), UNCHANGED bound,
         Known(e) \/ <<n, Server>> \in Running
  PROVE  Contained'
<1>1. status \in [Node -> {"up", "exited", "corrupt"}]
  BY DEF ContainInv, TimeTypes, TypeOK
<1> QED
  BY <1>1 DEF SendAlong, ContainInv, Contained

\* A daemon handles a local datagram.
LEMMA LocalContainStep ==
  ASSUME ContainInv, NEW n \in Node, HandleLocal(n), UNCHANGED appvars
  PROVE  ContainStep
<1> DEFINE m == Head(odrq[n])
           table == WithClient(n, m.path)
           r == routing_table[n][m.dst]
<1>1. TimeTypes /\ TypeOK /\ ReachInv
  BY DEF ContainInv, TimeTypes
<1>2. HasLocal(n) /\ TakeLocal(n) /\ UNCHANGED <<bound, appq, server>>
  BY DEF HandleLocal, ServerReply, ClientPayload, ClientDiscovery, ClientOverflow, appvars
<1>3. m \in LocalMsg /\ odrq[n] \in Seq(LocalMsg) /\ odrq[n] # <<>>
  BY <1>1, <1>2, TakeLocalType DEF HasLocal, TypeOK
<1>4. LocalOK(localaddr, n, m)
  <2>1. 1 \in 1 .. Len(odrq[n]) /\ m = odrq[n][1]
    BY <1>3
  <2> QED
    BY <1>1, <2>1 DEF ReachInv, OutboxOK
<1>5. /\ m.path \in Path /\ m.dst \in Node /\ m.port \in Ports /\ m.msg \in {"HI", "TIME"}
      /\ m.path # Server => m.path \in Client
      /\ m.path # NoPath /\ <<n, m.path>> \in Running
  BY <1>3, <1>4, LocalMsgType, PathAssumption DEF LocalOK, Path
<1>6. localaddr \in [Node -> Path \cup {NoPath}] /\ localaddr' = [localaddr EXCEPT ![n] = m.path]
      /\ odrq' = [odrq EXCEPT ![n] = Tail(@)]
  BY <1>1, <1>2 DEF TypeOK, TakeLocal
<1> HIDE DEF m, table
<1>7. Grows(localaddr, localaddr') /\ localaddr'[n] # NoPath
  BY <1>5, <1>6 DEF Grows
<1>8. InboxOK(localaddr)' /\ ServersOK(localaddr)' /\ OutboxOK(localaddr)'
  BY <1>1, <1>2, <1>3, <1>6, <1>7, InboxKept, ServersKept, OutboxKept DEF ReachInv
<1>9. net \in [Attach -> Seq(Frame)] /\ PromisesOK(localaddr, net)
      /\ r \in Entry /\ (Known(r) => <<n, r.if>> \in Attach /\ r.mac \in Attach)
  BY <1>1, <1>5 DEF TypeOK, ReachInv
<1>10. ASSUME UNCHANGED port_table PROVE PeersOK'
  BY <1>1, <1>5, <1>6, <1>10 DEF ReachInv, PeersOK
<1>11. ASSUME m.path # Server, port_table' = [port_table EXCEPT ![n] = table] PROVE PeersOK'
  <2>1. port_table \in [Node -> Seq(Client)] /\ m.path \in Client /\ Len(port_table[n]) \in Nat
    BY <1>1, <1>5, <1>11 DEF TypeOK
  <2>2. table = port_table[n] \/ table = Append(port_table[n], m.path)
    BY DEF table, WithClient
  <2>3. ASSUME NEW a \in Node, NEW k \in 1 .. Len(port_table'[a])
        PROVE  <<a, port_table'[a][k]>> \in Running
    <3>1. CASE a = n /\ table = Append(port_table[n], m.path)
      <4>1. port_table'[a] = Append(port_table[n], m.path) /\ port_table[n] \in Seq(Client)
        BY <1>11, <2>1, <3>1
      <4>2. CASE k = Len(port_table[n]) + 1
        <5>1. port_table'[a][k] = m.path
          BY <2>1, <4>1, <4>2
        <5> QED
          BY <1>5, <3>1, <5>1
      <4>3. CASE k # Len(port_table[n]) + 1
        <5>1. k \in 1 .. Len(port_table[n]) /\ port_table'[a][k] = port_table[n][k]
          BY <2>1, <4>1, <4>3
        <5> QED
          BY <1>1, <3>1, <5>1 DEF ReachInv, PeersOK
      <4> QED
        BY <4>2, <4>3
    <3>2. CASE a # n \/ table = port_table[n]
      <4>1. port_table'[a] = port_table[a]
        BY <1>11, <2>1, <3>2
      <4> QED
        BY <1>1, <4>1 DEF ReachInv, PeersOK
    <3> QED
      BY <2>2, <3>1, <3>2
  <2>4. ASSUME NEW a \in Node, localaddr'[a] # NoPath PROVE <<a, localaddr'[a]>> \in Running
    BY <1>1, <1>5, <1>6, <2>4 DEF ReachInv, PeersOK
  <2> QED
    BY <2>3, <2>4 DEF PeersOK
<1>12. ASSUME NEW sport \in Ports, NEW dport \in Ports,
              Reach(localaddr', m.dst, ntohl(dport)), Reach(localaddr', n, sport),
              SendAlong(n, r, Payload(n, m.dst, sport, dport, m.msg), net)
       PROVE  PromisesOK(localaddr', net')
  <2> DEFINE f == Payload(n, m.dst, sport, dport, m.msg)
  <2>1. ASSUME NEW from \in Attach, NEW to \in Attach
        PROVE  [f EXCEPT !.from = from, !.to = to] \in Frame
    BY <1>5, NewPayloadType
  <2>2. ASSUME NEW from \in Attach, NEW to \in Attach
        PROVE  Promise(localaddr', [f EXCEPT !.from = from, !.to = to])
    <3> DEFINE g == [f EXCEPT !.from = from, !.to = to]
    <3>1. g.type = "DATA" /\ g.src = n /\ g.dst = m.dst /\ g.sport = sport /\ g.dport = dport
      BY DEF Payload
    <3> HIDE DEF g
    <3>2. Promise(localaddr', g)
      BY <1>12, <3>1 DEF Promise
    <3> QED
      BY <3>2 DEF g
  <2>3. SendAlong(n, r, f, net)
    BY <1>12
  <2> HIDE DEF f, r
  <2> QED
    BY <1>7, <1>9, <2>1, <2>2, <2>3, SendPromises
<1>13. CASE ServerReply(n)
  <2>1. m.path = Server /\ UNCHANGED port_table
        /\ SendAlong(n, r, Payload(n, m.dst, htonl(ServerPort), htonl(m.port), m.msg), net)
    BY <1>13 DEF ServerReply, m
  <2>2. Reach(localaddr', m.dst, m.port)
    BY <1>4, <1>5, <1>7, <2>1, ReachKept DEF LocalOK
  <2>3. ntohl(htonl(m.port)) = m.port /\ htonl(m.port) \in Ports /\ htonl(ServerPort) \in Ports
    BY <1>5, PortFacts, PortType
  <2>4. Reach(localaddr', n, htonl(ServerPort))
    BY <1>5, <1>7, <2>1 DEF Reach, HasServer
  <2>5. PromisesOK(localaddr', net')
    BY <1>12, <2>1, <2>2, <2>3, <2>4
  <2>6. Contained'
    BY <1>2, <1>5, <2>1, SendContained
  <2> QED
    BY <1>8, <1>10, <2>1, <2>5, <2>6 DEF ContainStep, ReachInv
<1>14. ASSUME m.path # Server, ~TableFull(n, m.path)
       PROVE  /\ htonl(PortOf(table, m.path)) \in Ports
              /\ Reach(localaddr', n, htonl(PortOf(table, m.path)))
  <2> DEFINE p == PortOf(table, m.path)
  <2>1. p \in ClientPorts /\ p \in Ports
    BY <1>1, <1>5, <1>14, WithClientType DEF table
  <2> HIDE DEF p
  <2>2. htonl(p) \in Ports /\ htonl(p) # ServerPort
    BY <2>1, PortFacts, PortType
  <2>3. Reach(localaddr', n, htonl(p))
    BY <1>7, <2>2 DEF Reach
  <2> QED
    BY <2>2, <2>3 DEF p
<1>15. ASSUME m.path # Server PROVE HasServer(m.dst)
  BY <1>4, <1>15 DEF LocalOK
<1>16. CASE ClientPayload(n)
  <2> DEFINE sport == htonl(PortOf(table, m.path))
  <2>1. /\ m.path # Server /\ ~TableFull(n, m.path) /\ Known(r)
        /\ port_table' = [port_table EXCEPT ![n] = table]
        /\ SendAlong(n, r, Payload(n, m.dst, sport, htonl(ServerPort), m.msg), net)
    BY <1>16 DEF ClientPayload, RouteExists, m, table
  <2>2. sport \in Ports /\ Reach(localaddr', n, sport)
    BY <1>14, <2>1
  <2>3. htonl(ServerPort) \in Ports /\ ntohl(htonl(ServerPort)) = ServerPort
    BY PortFacts
  <2>4. Reach(localaddr', m.dst, ntohl(htonl(ServerPort)))
    BY <1>15, <2>1, <2>3 DEF Reach
  <2> HIDE DEF sport
  <2>5. PromisesOK(localaddr', net')
    BY <1>12, <2>1, <2>2, <2>3, <2>4
  <2>6. Contained'
    BY <1>2, <2>1, SendContained
  <2> QED
    BY <1>8, <1>11, <2>1, <2>5, <2>6 DEF ContainStep, ReachInv
<1>17. CASE ClientDiscovery(n)
  <2> DEFINE disc == IF ReadFlag(m.flag, recvmsg[n]) = 1 THEN 1 ELSE 0
             bid == broadcast_id[n] + 1
             port == htonl(PortOf(table, m.path))
             f == RREQ(n, m.dst, port, bid, 0, 0, disc)
             E == Flood(n, InterfacesOf(n), f)
  <2>1. /\ net' = Emit(net, n, E) /\ UNCHANGED status
        /\ m.path # Server /\ ~TableFull(n, m.path)
        /\ port_table' = [port_table EXCEPT ![n] = table]
    BY <1>17 DEF ClientDiscovery, m, table
  <2>2. disc \in {0, 1} /\ bid \in Int
    BY <1>1 DEF TypeOK
  <2>3. port \in Ports /\ Reach(localaddr', n, port)
    BY <1>14, <2>1
  <2> HIDE DEF disc, bid, port
  <2>4. \A mac \in Attach : [f EXCEPT !.from = mac] \in Frame
    BY <1>5, <2>2, <2>3, NewRREQType
  <2>5. ASSUME NEW e \in E PROVE Promise(localaddr', e.frame)
    <3>1. PICK l \in InterfacesOf(n) : e = [lan |-> l, frame |-> [f EXCEPT !.from = <<n, l>>]]
      BY Zenon DEF Flood
    <3>2. /\ e.frame.type = "RREQ" /\ e.frame.src = n /\ e.frame.dst = m.dst
          /\ e.frame.port = port
      BY <3>1 DEF RREQ
    <3> QED
      BY <1>15, <2>1, <2>3, <3>2 DEF Promise
  <2> HIDE DEF f
  <2>6. \A e \in E : e.frame \in Frame
    BY <2>4, FloodType
  <2> HIDE DEF E
  <2>7. PromisesOK(localaddr', net')
    BY <1>7, <1>9, <2>1, <2>5, <2>6, PromisesSent
  <2>8. Contained'
    BY <1>2, <2>1 DEF ContainInv, Contained
  <2> QED
    BY <1>8, <1>11, <2>1, <2>7, <2>8 DEF ContainStep, ReachInv
<1>18. CASE ClientOverflow(n)
  <2>1. UNCHANGED <<net, port_table>> /\ status' = [status EXCEPT ![n] = "corrupt"]
    BY <1>18 DEF ClientOverflow
  <2>2. PromisesOK(localaddr', net')
    BY <1>7, <1>9, <2>1, PromisesKept
  <2>3. status \in [Node -> {"up", "exited", "corrupt"}]
    BY <1>1 DEF TypeOK
  <2>4. Contained'
    BY <1>2, <2>1, <2>3 DEF ContainInv, Contained
  <2> QED
    BY <1>8, <1>10, <2>1, <2>2, <2>4 DEF ContainStep, ReachInv
<1> QED
  BY <1>13, <1>16, <1>17, <1>18 DEF HandleLocal

\* A daemon handles a frame.
LEMMA FrameContainStep ==
  ASSUME ContainInv, NEW i \in Attach, HandleFrame(i), UNCHANGED appvars
  PROVE  ContainStep
<1> DEFINE f == Head(net[i])
           n == i[1]
           la == localaddr
<1>1. TimeTypes /\ TypeOK /\ ReachInv /\ RouteInv /\ n \in Node
  BY AttachType DEF ContainInv, TimeTypes
<1>2. net[i] # <<>> /\ UNCHANGED <<bound, odrq, port_table, server>>
  BY DEF HandleFrame, HandleRREQ, RREQAtDestination, RREQAtKnowingNode, RREQAtOtherNode,
         RREPAtSource, RelayRREP, PayloadAtDestination, RelayPayload, Arrived, appvars
<1>3. /\ f \in Frame /\ FrameOK(routing_table, i, f) /\ Received(i) \in [Attach -> Seq(Frame)]
      /\ net \in [Attach -> Seq(Frame)]
  BY <1>1, <1>2, ReadFrame DEF TypeOK
<1>4. Promise(la, f) /\ PromisesOK(la, Received(i))
  BY <1>1, <1>2, <1>3, ReceivedFlight DEF ReachInv, PromisesOK
<1>5. f.src \in Node /\ f.dst \in Node
  BY <1>3, FrameCases
<1>6. Grows(la, la)
  BY DEF Grows
<1>7. ASSUME UNCHANGED <<localaddr, appq>>
      PROVE  InboxOK(la)' /\ ServersOK(la)' /\ OutboxOK(la)' /\ PeersOK'
  BY <1>1, <1>2, <1>6, <1>7, InboxKept, ServersKept, OutboxKept DEF ReachInv, PeersOK
<1> HIDE DEF f
<1>8. CASE HandleRREQ(i)
  <2>1. UNCHANGED <<localaddr, appq, status>>
    BY <1>8 DEF HandleRREQ, RREQAtDestination, RREQAtKnowingNode, RREQAtOtherNode
  <2>2. PICK E : /\ f \in RREQFrame /\ net' = Emit(Received(i), n, E)
                 /\ \A e \in E : e.frame \in Frame /\ Spread(i, f, e.frame)
    BY <1>1, <1>8, RREQSends DEF f
  <2>3. HasServer(f.dst) /\ Reach(la, f.src, f.port) /\ f.port \in Ports
    BY <1>4, <2>2 DEF Promise, RREQFrame
  <2>4. ntohl(htonl(f.port)) = f.port
    BY <2>3, PortFacts
  <2>5. ASSUME NEW e \in E PROVE Promise(la, e.frame)
    BY <2>2, <2>3, <2>4 DEF Spread, Promise
  <2>6. PromisesOK(la, net')
    BY <1>3, <1>4, <1>6, <2>2, <2>5, PromisesSent
  <2>7. Contained'
    BY <1>2, <2>1 DEF ContainInv, Contained
  <2> QED
    BY <1>7, <2>1, <2>6, <2>7 DEF ContainStep, ReachInv
<1>9. CASE RREPAtSource(i)
  <2>1. /\ f.type = "RREP" /\ f.dst = n /\ net' = Received(i)
        /\ Deliver(n, Addressee(n, f.port), Data("HI", f.src, ServerPort))
    BY <1>9 DEF RREPAtSource, Arrived, f
  <2>2. f.port \in Ports /\ Reach(la, n, ntohl(f.port)) /\ HasServer(f.src)
    BY <1>3, <1>4, <2>1, FrameCases DEF Promise, RREPFrame
  <2> DEFINE d == Data("HI", f.src, ServerPort)
  <2>3. d \in DataMsg /\ d.src = f.src /\ d.port = ServerPort
    BY <1>5, PortFacts DEF Data, DataMsg
  <2>4. Reach(la, d.src, d.port)
    BY <2>2, <2>3 DEF Reach
  <2> HIDE DEF d
  <2>5. Deliver(n, Addressee(n, f.port), d)
    BY <2>1 DEF d
  <2> HIDE DEF la
  <2>6. /\ Grows(la, la') /\ Contained'
        /\ InboxOK(la)' /\ ServersOK(la)' /\ OutboxOK(la)' /\ PeersOK'
    BY <1>1, <1>2, <2>2, <2>3, <2>4, <2>5, DeliverReach DEF la
  <2>7. PromisesOK(la', net')
    BY <1>3, <1>4, <2>1, <2>6, PromisesKept
  <2> QED
    BY <2>6, <2>7 DEF ContainStep, ReachInv, la
<1>10. CASE PayloadAtDestination(i)
  <2>1. /\ f.type = "DATA" /\ f.dst = n /\ net' = Received(i)
        /\ Deliver(n, Addressee(n, f.dport), Data(f.msg, f.src, f.sport))
    BY <1>10 DEF PayloadAtDestination, Arrived, f
  <2>2. /\ f.dport \in Ports /\ f.sport \in Ports /\ f.msg \in {"HI", "TIME"}
        /\ Reach(la, n, ntohl(f.dport)) /\ Reach(la, f.src, f.sport)
    BY <1>3, <1>4, <2>1, FrameCases DEF Promise, PayloadFrame
  <2> DEFINE d == Data(f.msg, f.src, f.sport)
  <2>3. d \in DataMsg /\ d.src = f.src /\ d.port = f.sport
    BY <1>5, <2>2 DEF Data, DataMsg
  <2>4. Reach(la, d.src, d.port)
    BY <2>2, <2>3
  <2> HIDE DEF d
  <2>5. Deliver(n, Addressee(n, f.dport), d)
    BY <2>1 DEF d
  <2> HIDE DEF la
  <2>6. /\ Grows(la, la') /\ Contained'
        /\ InboxOK(la)' /\ ServersOK(la)' /\ OutboxOK(la)' /\ PeersOK'
    BY <1>1, <1>2, <2>2, <2>3, <2>4, <2>5, DeliverReach DEF la
  <2>7. PromisesOK(la', net')
    BY <1>3, <1>4, <2>1, <2>6, PromisesKept
  <2> QED
    BY <2>6, <2>7 DEF ContainStep, ReachInv, la
<1>11. CASE RelayRREP(i)
  <2> DEFINE new == Forward(i, f)
             r == new[n][f.dst]
             h == [f EXCEPT !.hop = @ + 1]
  <2>1. /\ f.type = "RREP" /\ f.dst # n /\ SendAlong(n, r, h, Received(i))
        /\ UNCHANGED <<localaddr, appq>>
    BY <1>11 DEF RelayRREP, Arrived, f
  <2>2. TablesOK(new) /\ Improves(routing_table, new)
    BY <1>1, <1>3, <2>1, ForwardRoutes DEF RouteInv
  <2>3. Known(r)
    BY <1>1, <1>3, <1>5, <2>1, <2>2 DEF FrameOK, Improves
  <2>4. <<n, r.if>> \in Attach /\ r.mac \in Attach
    BY <1>1, <1>5, <2>2, <2>3 DEF TablesOK
  <2> HIDE DEF new, r
  <2>5. f \in RREPFrame
    BY <1>3, <2>1, FrameCases
  <2>6. \A from, to \in Attach : [h EXCEPT !.from = from, !.to = to] \in Frame
    BY <1>3, <2>1, RelayedType
  <2>7. ASSUME NEW from \in Attach, NEW to \in Attach
        PROVE  Promise(la, [h EXCEPT !.from = from, !.to = to])
    <3> DEFINE g == [h EXCEPT !.from = from, !.to = to]
    <3>1. g.type = "RREP" /\ g.src = f.src /\ g.dst = f.dst /\ g.port = f.port
      BY <2>5 DEF RREPFrame
    <3> HIDE DEF g
    <3>2. Promise(la, g)
      BY <1>4, <2>1, <3>1 DEF Promise
    <3> QED
      BY <3>2 DEF g
  <2> HIDE DEF h
  <2>8. PromisesOK(la, net')
    BY <1>1, <1>3, <1>4, <1>6, <2>1, <2>4, <2>6, <2>7, SendPromises
  <2>9. Contained'
    BY <1>1, <1>2, <2>1, <2>3, SendContained
  <2> QED
    BY <1>7, <2>1, <2>8, <2>9 DEF ContainStep, ReachInv
<1>12. CASE RelayPayload(i)
  <2> DEFINE r == routing_table[n][f.dst]
  <2>1. /\ f.type = "DATA" /\ f.dst # n /\ SendAlong(n, r, f, Received(i))
        /\ UNCHANGED <<localaddr, appq>>
    BY <1>12 DEF RelayPayload, Arrived, f
  <2>2. Known(r)
    BY <1>3, <2>1 DEF FrameOK
  <2>3. <<n, r.if>> \in Attach /\ r.mac \in Attach
    BY <1>1, <1>5, <2>2 DEF TypeOK
  <2> HIDE DEF r
  <2>4. f \in PayloadFrame
    BY <1>3, <2>1, FrameCases
  <2>5. \A from, to \in Attach : [f EXCEPT !.from = from, !.to = to] \in Frame
    BY <1>3, <2>1, RelayedType
  <2>6. ASSUME NEW from \in Attach, NEW to \in Attach
        PROVE  Promise(la, [f EXCEPT !.from = from, !.to = to])
    <3> DEFINE g == [f EXCEPT !.from = from, !.to = to]
    <3>1. /\ g.type = "DATA" /\ g.src = f.src /\ g.dst = f.dst
          /\ g.sport = f.sport /\ g.dport = f.dport
      BY <2>4 DEF PayloadFrame
    <3> HIDE DEF g
    <3>2. Promise(la, g)
      BY <1>4, <2>1, <3>1 DEF Promise
    <3> QED
      BY <3>2 DEF g
  <2>7. PromisesOK(la, net')
    BY <1>1, <1>3, <1>4, <1>6, <2>1, <2>3, <2>5, <2>6, SendPromises
  <2>8. Contained'
    BY <1>1, <1>2, <2>1, <2>2, SendContained
  <2> QED
    BY <1>7, <2>1, <2>7, <2>8 DEF ContainStep, ReachInv
<1> QED
  BY <1>8, <1>9, <1>10, <1>11, <1>12 DEF HandleFrame

\* A program puts a datagram that can be delivered into its daemon's queue.
LEMMA SendsContainStep ==
  ASSUME ContainInv, NEW n \in Node, NEW m \in LocalMsg, AppSends(n, m),
         LocalOK(localaddr, n, m), ServersOK(localaddr)'
  PROVE  ContainStep
<1>1. TimeTypes /\ ReachInv /\ Grows(localaddr, localaddr)
  BY DEF ContainInv, Grows
<1>2. UNCHANGED <<localaddr, status, net, appq, bound, port_table>>
      /\ odrq' = [odrq EXCEPT ![n] = Append(@, m)]
  BY DEF AppSends
<1>3. OutboxOK(localaddr)'
  BY <1>1, <1>2, OutboxKept DEF ReachInv
<1>4. Contained'
  BY <1>2 DEF ContainInv, Contained
<1> QED
  BY <1>1, <1>2, <1>3, <1>4 DEF ContainStep, ReachInv, InboxOK, PeersOK

\* A program takes a datagram, or ends.
LEMMA TakesContainStep ==
  ASSUME ContainInv, NEW n \in Node, NEW p \in Path, AppReceives(n, p) \/ AppExits(n, p),
         ServersOK(localaddr)'
  PROVE  ContainStep
<1>1. TimeTypes /\ ReachInv
  BY DEF ContainInv
<1>2. UNCHANGED <<localaddr, status, net, odrq, port_table>> /\ bound' \subseteq bound
  BY DEF AppReceives, AppExits
<1>3. appq \in [Node -> [Path -> Seq(DataMsg)]]
  BY <1>1 DEF TimeTypes, TypeOK, DataMsg
<1>4. InboxOK(localaddr)'
  <2> SUFFICES ASSUME NEW a \in Node, NEW c \in Path, NEW k \in 1 .. Len(appq'[a][c])
               PROVE  Reach(localaddr, appq'[a][c][k].src, appq'[a][c][k].port)
    BY <1>2 DEF InboxOK
  <2>1. appq[n][p] \in Seq(DataMsg)
    BY <1>3
  <2>2. CASE a = n /\ c = p /\ AppReceives(n, p)
    <3>1. appq'[a][c] = Tail(appq[n][p]) /\ appq[n][p] # <<>>
      BY <1>3, <2>2 DEF AppReceives
    <3>2. k \in 1 .. Len(Tail(appq[n][p]))
      BY ONLY <3>1, k \in 1 .. Len(appq'[a][c])
    <3>3. k + 1 \in 1 .. Len(appq[n][p]) /\ Tail(appq[n][p])[k] = appq[n][p][k + 1]
      BY <2>1, <3>1, <3>2
    <3> QED
      BY <1>1, <3>1, <3>3 DEF ReachInv, InboxOK
  <2>3. CASE a = n /\ c = p /\ AppExits(n, p)
    <3>1. appq'[a][c] = <<>>
      BY <1>3, <2>3 DEF AppExits
    <3> QED
      BY <3>1
  <2>4. CASE ~(a = n /\ c = p)
    <3>1. appq'[a][c] = appq[a][c]
      BY <1>3, <2>4 DEF AppReceives, AppExits
    <3> QED
      BY <1>1, <3>1 DEF ReachInv, InboxOK
  <2> QED
    BY <2>2, <2>3, <2>4
<1>5. Contained'
  BY <1>2 DEF ContainInv, Contained
<1> QED
  BY <1>1, <1>2, <1>4, <1>5 DEF ContainStep, ReachInv, OutboxOK, PeersOK

\* The programs.
LEMMA ProgramContainStep ==
  ASSUME ContainInv, ServersRun,
         \/ \E a \in Clients : ClientStep(a)
         \/ \E n \in Node : ServerStep(n)
         \/ \E a \in Running : Quit(a)
  PROVE  ContainStep
<1>1. TimeTypes /\ ReachInv /\ Server \in Path /\ UNCHANGED localaddr
  BY DEF ContainInv, Path, ClientStep, Ask, TimeOut, TakeAnswer, ClientFails, ServerStep,
         ServerReceives, ServerSends, ServerFails, Quit, AppSends, AppReceives, AppExits
<1>2. server \in [Node -> [pc : {"recv", "send", "done"}, src : Node, port : Ports]]
  BY <1>1 DEF TimeTypes, AppTypeOK
<1>3. ASSUME UNCHANGED server PROVE ServersOK(localaddr)'
  BY <1>1, <1>3 DEF ReachInv, ServersOK
<1>4. ASSUME NEW n \in Node, NEW pc \in {"recv", "done"}, server' = [server EXCEPT ![n].pc = pc]
      PROVE  ServersOK(localaddr)'
  <2> SUFFICES ASSUME NEW a \in Node, server'[a].pc = "send"
               PROVE  Reach(localaddr, server'[a].src, server'[a].port)
    BY <1>1 DEF ServersOK
  <2>1. a # n /\ server'[a] = server[a]
    BY <1>2, <1>4
  <2> QED
    BY <1>1, <2>1 DEF ReachInv, ServersOK
<1>5. ASSUME NEW a \in Clients, NEW d \in Targets, Ask(a, d) PROVE ContainStep
  <2>1. a \in Running /\ a = <<a[1], a[2]>> /\ a[1] \in Node /\ a[2] \in Client /\ d \in Node
        /\ 0 \in Flags
    BY ProgramTypes, UserAssumption, RetryAssumption
  <2> DEFINE m == Request(a[2], d, 0)
  <2>2. m \in LocalMsg /\ m.path = a[2] /\ m.dst = d
    BY <2>1, RequestType DEF Request
  <2>3. AppSends(a[1], m) /\ UNCHANGED server
    BY <1>5 DEF Ask
  <2> HIDE DEF m
  <2>4. LocalOK(localaddr, a[1], m)
    BY <2>1, <2>2, PathAssumption DEF LocalOK, HasServer, ServersRun
  <2> QED
    BY <1>3, <2>1, <2>2, <2>3, <2>4, SendsContainStep
<1>6. ASSUME NEW a \in Clients, TimeOut(a) PROVE ContainStep
  <2>1. a \in Running /\ a = <<a[1], a[2]>> /\ a[1] \in Node /\ a[2] \in Client
    BY ProgramTypes
  <2>2. client[a].dst \in Node /\ 1 \in Flags
    BY <1>1, <1>6, UserAssumption, RetryAssumption DEF TimeOut, TimeTypes, AppTypeOK
  <2> DEFINE m == Request(a[2], client[a].dst, 1)
  <2>3. m \in LocalMsg /\ m.path = a[2] /\ m.dst = client[a].dst
    BY <2>1, <2>2, RequestType DEF Request
  <2>4. AppSends(a[1], m) /\ UNCHANGED server
    BY <1>6 DEF TimeOut
  <2> HIDE DEF m
  <2>5. HasServer(client[a].dst)
    BY <1>6 DEF ContainInv, AskedOK, TimeOut
  <2>6. LocalOK(localaddr, a[1], m)
    BY <2>1, <2>3, <2>5, PathAssumption DEF LocalOK
  <2> QED
    BY <1>3, <2>1, <2>3, <2>4, <2>6, SendsContainStep
<1>7. ASSUME NEW a \in Clients, TakeAnswer(a) \/ ClientFails(a) PROVE ContainStep
  <2>1. a[1] \in Node /\ a[2] \in Path /\ UNCHANGED server
    BY <1>7, ProgramTypes DEF TakeAnswer, ClientFails
  <2> QED
    BY <1>3, <1>7, <2>1, TakesContainStep DEF TakeAnswer, ClientFails
<1>8. ASSUME NEW n \in Node, ServerReceives(n) PROVE ContainStep
  <2> DEFINE m == Head(appq[n][Server])
  <2>1. appq[n][Server] \in Seq(DataMsg) /\ appq[n][Server] # <<>>
    BY <1>1, <1>8 DEF TimeTypes, TypeOK, DataMsg, ServerReceives, AppReceives
  <2>2. 1 \in 1 .. Len(appq[n][Server]) /\ m = appq[n][Server][1]
    BY <2>1
  <2>3. Reach(localaddr, m.src, m.port)
    BY <1>1, <2>2 DEF ReachInv, InboxOK
  <2>4. server' = [server EXCEPT ![n] = [pc |-> "send", src |-> m.src, port |-> m.port]]
    BY <1>8 DEF ServerReceives
  <2> HIDE DEF m
  <2>5. ServersOK(localaddr)'
    BY <1>1, <1>2, <2>3, <2>4 DEF ReachInv, ServersOK
  <2> QED
    BY <1>1, <1>8, <2>5, TakesContainStep DEF ServerReceives
<1>9. ASSUME NEW n \in Node, ServerSends(n) PROVE ContainStep
  <2> DEFINE m == Reply(server[n])
  <2>1. m \in LocalMsg /\ m.path = Server /\ m.dst = server[n].src /\ m.port = server[n].port
    BY <1>2, ReplyType DEF Reply
  <2>2. AppSends(n, m) /\ server' = [server EXCEPT ![n].pc = "recv"] /\ server[n].pc = "send"
    BY <1>9 DEF ServerSends
  <2> HIDE DEF m
  <2>3. <<n, Server>> \in Running
    BY <1>1, <2>1, <2>2 DEF AppSends, TimeTypes, BoundOK
  <2>4. LocalOK(localaddr, n, m)
    BY <1>1, <2>1, <2>2, <2>3 DEF ReachInv, ServersOK, LocalOK
  <2>5. ServersOK(localaddr)'
    BY <1>4, <2>2
  <2> QED
    BY <2>1, <2>2, <2>4, <2>5, SendsContainStep
<1>10. ASSUME NEW n \in Node, ServerFails(n) PROVE ContainStep
  BY <1>1, <1>4, <1>10, TakesContainStep DEF ServerFails
<1>11. ASSUME NEW a \in Running, Quit(a) PROVE ContainStep
  <2>1. a[1] \in Node /\ a[2] \in Path /\ AppExits(a[1], a[2])
    BY <1>11, ProgramTypes DEF Quit
  <2>2. ServersOK(localaddr)'
    BY <1>3, <1>4, <1>11, <2>1 DEF Quit
  <2> QED
    BY <2>1, <2>2, TakesContainStep
<1> QED
  BY <1>5, <1>6, <1>7, <1>8, <1>9, <1>10, <1>11 DEF ClientStep, ServerStep

\* The nodes that clients ask.
LEMMA AskedStep ==
  ASSUME TimeTypes, ServersRun, AskedOK, [TimeNext]_allvars
  PROVE  AskedOK'
<1> DEFINE Place == [pc : {"prompt", "wait", "done"}, dst : Node,
                     asked : 0 .. MaxAsk, tries : 0 .. MaxRetry]
<1>1. client \in [Clients -> Place]
  BY DEF TimeTypes, AppTypeOK
<1>2. CASE UNCHANGED client
  BY <1>2 DEF AskedOK
<1>3. ASSUME NEW a \in Clients, NEW x, client' = [client EXCEPT ![a] = x],
             x.pc = "wait" => HasServer(x.dst)
      PROVE  AskedOK'
  <2> HIDE DEF Place
  <2> QED
    BY <1>1, <1>3 DEF AskedOK
<1>4. ASSUME NEW a \in Clients, NEW d \in Targets, Ask(a, d) PROVE AskedOK'
  <2> DEFINE x == [pc |-> "wait", dst |-> d, asked |-> client[a].asked + 1, tries |-> 0]
  <2>1. client' = [client EXCEPT ![a] = x] /\ x.dst = d
    BY <1>4 DEF Ask
  <2>2. HasServer(d)
    BY DEF ServersRun, HasServer
  <2> HIDE DEF x
  <2> QED
    BY <1>3, <2>1, <2>2
<1>5. ASSUME NEW a \in Clients, TimeOut(a) PROVE AskedOK'
  <2> DEFINE x == [client[a] EXCEPT !.tries = @ + 1]
  <2>1. client[a] \in Place
    BY <1>1
  <2>2. client' = [client EXCEPT ![a] = x] /\ x.dst = client[a].dst /\ x.pc = client[a].pc
    BY <1>1, <1>5, <2>1 DEF TimeOut
  <2> HIDE DEF x
  <2> QED
    BY <1>3, <2>2 DEF AskedOK
<1>6. ASSUME NEW a \in Clients, NEW pc \in {"prompt", "done"},
             client' = [client EXCEPT ![a].pc = pc]
      PROVE  AskedOK'
  <2> DEFINE x == [client[a] EXCEPT !.pc = pc]
  <2>1. client[a] \in Place
    BY <1>1
  <2>2. client' = [client EXCEPT ![a] = x] /\ x.pc = pc
    BY <1>1, <1>6, <2>1
  <2> HIDE DEF x
  <2> QED
    BY <1>3, <2>2
<1> QED
  BY <1>2, <1>4, <1>5, <1>6 DEF TimeNext, ClientStep, TakeAnswer, ClientFails, ServerStep,
     ServerReceives, ServerSends, ServerFails, Quit, allvars, appvars

\* A frame is lost, or nothing happens.
LEMMA QuietContainStep ==
  ASSUME ContainInv, (\E i \in Attach : LoseFrame(i)) \/ UNCHANGED vars, UNCHANGED appvars
  PROVE  ContainStep
<1>1. ReachInv /\ net \in [Attach -> Seq(Frame)]
  BY DEF ContainInv, TimeTypes, TypeOK
<1>2. UNCHANGED <<localaddr, status, odrq, appq, bound, port_table, server>>
  BY DEF LoseFrame, vars, appvars
<1>3. PromisesOK(localaddr, net')
  <2>1. CASE UNCHANGED vars
    BY <1>1, <2>1 DEF vars, ReachInv
  <2>2. ASSUME NEW i \in Attach, LoseFrame(i) PROVE PromisesOK(localaddr, net')
    BY <1>1, <2>2, ReceivedFlight DEF LoseFrame, ReachInv, PromisesOK
  <2> QED
    BY <2>1, <2>2
<1>4. Contained'
  BY <1>2 DEF ContainInv, Contained
<1> QED
  BY <1>1, <1>2, <1>3, <1>4
  DEF ContainStep, ReachInv, InboxOK, ServersOK, OutboxOK, PeersOK

LEMMA ContainInvStep ==
  ServersRun /\ ContainInv /\ [TimeNext]_allvars => ContainInv'
<1> SUFFICES ASSUME ServersRun, ContainInv, [TimeNext]_allvars PROVE ContainInv'
  OBVIOUS
<1>1. TimeTypes' /\ [Next]_vars
  BY TimeTypeStep DEF ContainInv
<1>2. RouteInv'
  BY <1>1, RouteInvStep DEF ContainInv
<1>3. AskedOK'
  BY AskedStep DEF ContainInv
<1>4. ContainStep
  BY LocalContainStep, FrameContainStep, QuietContainStep, ProgramContainStep
  DEF TimeNext, Daemons, allvars, appvars
<1> QED
  BY <1>1, <1>2, <1>3, <1>4 DEF ContainInv, ContainStep

\* Nothing is under way at the start.
LEMMA ContainInit == TimeInit => ContainInv
<1> SUFFICES ASSUME TimeInit PROVE ContainInv
  OBVIOUS
<1>1. TimeTypes /\ RouteInv
  BY TimeTypeInit, RouteInit DEF TimeInit
<1>2. \A j \in Attach : InFlight(net, j) = {}
  BY DEF TimeInit, Init, InFlight
<1>3. /\ \A n \in Node : localaddr[n] = NoPath /\ port_table[n] = <<>> /\ odrq[n] = <<>>
      /\ \A n \in Node, p \in Path : appq[n][p] = <<>>
  BY DEF TimeInit, Init
<1>4. PromisesOK(localaddr, net) /\ InboxOK(localaddr) /\ OutboxOK(localaddr) /\ PeersOK
  BY <1>2, <1>3 DEF PromisesOK, InboxOK, OutboxOK, PeersOK
<1>5. AskedOK /\ ServersOK(localaddr)
  BY DEF TimeInit, AppInit, AskedOK, ServersOK
<1>6. Contained
  BY DEF TimeInit, Init, Contained
<1> QED
  BY <1>1, <1>4, <1>5, <1>6 DEF ContainInv, ReachInv

----------------------------------------------------------------------------
(* Servers have routes *)

ClientNodes == {a[1] : a \in Clients}

SingleHomed(n) == \A k, l \in InterfacesOf(n) : k = l

\* The networks in which a request cannot overtake the RREQ that enters the way
\* back.  No client is on a node that users name; and a node that passes RREQs on
\* runs no client, is not named, and finds nothing above 0 in the uninitialised
\* broadcast_id of an entry, so that it floods the first RREQ of every source.
PlainNetwork ==
  /\ ClientNodes \cap Targets = {}
  /\ \A n \in Node, d \in Targets : n # d =>
       \/ SingleHomed(n)
       \/ n \notin Targets \cup ClientNodes /\ \A g \in GarbageId : g <= 0

IsRREQ(f, s) == f.type = "RREQ" /\ f.src = s

\* The node of interface j is s, has a route to s or a RREQ of s to read at j.
Heard(rt, q, s, j) ==
  \/ j[1] = s
  \/ Known(rt[j[1]][s])
  \/ \E f \in InFlight(q, j) : IsRREQ(f, s)

Covered(rt, q, s, l) == \A j \in Attach : j[2] = l => Heard(rt, q, s, j)

CoveredAt(rt, q, s, n) == \A l \in InterfacesOf(n) : Covered(rt, q, s, l)

\* x may send a payload to y: a client's node that has a route to a named node,
\* or that named node, answering.
Talk(rt, x, y) ==
  \/ x \in ClientNodes /\ y \in Targets /\ Known(rt[x][y])
  \/ x \in Targets /\ y \in ClientNodes /\ Known(rt[y][x])

Issued(b, s) == s \in ClientNodes /\ b[s] > 0

\* RREQs come from clients' nodes and ask for named ones, RREPs take the opposite
\* way, and neither passes through another client's node.
FramePlain(rt, b, j, f) ==
  /\ f.type = "RREQ" =>
       /\ Issued(b, f.src) /\ f.dst \in Targets /\ f.bid > 0
       /\ f.from[1] \in ClientNodes => f.from[1] = f.src
  /\ f.type = "RREP" =>
       /\ f.src \in Targets /\ Issued(b, f.dst)
       /\ j[1] \in ClientNodes => j[1] = f.dst
  /\ f.type = "DATA" => Talk(rt, f.src, f.dst)

FramesPlain(rt, b, q) ==
  \A j \in Attach : \A f \in InFlight(q, j) : FramePlain(rt, b, j, f)

\* A RREQ on a segment was broadcast there.
FloodsOK(rt, q) ==
  \A j \in Attach : \A f \in InFlight(q, j) :
    f.type = "RREQ" => Covered(rt, q, f.src, j[2])

TablesPlain(rt, b) ==
  /\ \A n \in Node, s \in ClientNodes :
       IF Known(rt[n][s]) THEN rt[n][s].mac[1] \in ClientNodes => rt[n][s].mac[1] = s
       ELSE rt[n][s].bid \in GarbageId
  /\ \A s \in ClientNodes, d \in Targets : Known(rt[s][d]) => b[s] > 0

\* A node that knows a client's node s and is not the one asked for has passed a
\* RREQ of s on; s has flooded one if it has issued one.
Knowing(rt, b, q) ==
  /\ \A n \in Node, s \in ClientNodes, d \in Targets :
       n # d /\ Known(rt[n][s]) => CoveredAt(rt, q, s, n)
  /\ \A s \in ClientNodes : b[s] > 0 => CoveredAt(rt, q, s, s)

\* Before a payload for a named node there is a RREQ of its source in the queue,
\* unless the source is known already.
Ordered(rt, q) ==
  \A j \in Attach : \A k \in 1 .. Len(q[j]) :
    q[j][k].type = "DATA" /\ q[j][k].dst \in Targets =>
      \/ j[1] = q[j][k].src
      \/ Known(rt[j[1]][q[j][k].src])
      \/ \E h \in 1 .. k - 1 : IsRREQ(q[j][h], q[j][k].src)

NetPlain(rt, b, q) ==
  /\ FramesPlain(rt, b, q) /\ FloodsOK(rt, q) /\ TablesPlain(rt, b)
  /\ Knowing(rt, b, q) /\ Ordered(rt, q)

\* What an application of n has been sent can be answered.
Answerable(rt, n, x) == Talk(rt, n, x) /\ Known(rt[n][x])

InboxPlain(rt, inbox) ==
  \A n \in Node, p \in Path : \A k \in 1 .. Len(inbox[n][p]) :
    Answerable(rt, n, inbox[n][p][k].src)

ServersPlain(rt, place) ==
  \A n \in Node : place[n].pc = "send" => Answerable(rt, n, place[n].src)

MsgPlain(rt, n, m) ==
  IF m.path = Server THEN Answerable(rt, n, m.dst) ELSE n \in ClientNodes /\ m.dst \in Targets

OutboxPlain(rt, out) ==
  \A n \in Node : \A k \in 1 .. Len(out[n]) : MsgPlain(rt, n, out[n][k])

AskedPlain == \A a \in Clients : client[a].pc = "wait" => client[a].dst \in Targets

AppsPlain(rt, inbox, place, out) ==
  InboxPlain(rt, inbox) /\ ServersPlain(rt, place) /\ OutboxPlain(rt, out)

PlainInv ==
  /\ TimeTypes /\ RouteInv /\ AskedPlain
  /\ NetPlain(routing_table, broadcast_id, net)
  /\ AppsPlain(routing_table, appq, server, odrq)

\* What a step has to show besides the types, the routes and the clients.
PlainStep ==
  /\ NetPlain(routing_table', broadcast_id', net')
  /\ AppsPlain(routing_table', appq', server', odrq')

\* How a step may change tables, counters and queues.
Onward(rt, b, q, new, b2, q2) ==
  /\ \A n, d \in Node : Known(rt[n][d]) => Known(new[n][d])
  /\ \A s \in Node : b[s] > 0 => b2[s] > 0
  /\ \A s \in Node, j \in Attach : Heard(rt, q, s, j) => Heard(new, q2, s, j)

LEMMA PlainNames ==
  /\ ClientNodes \subseteq Node /\ Targets \subseteq Node
  /\ \A a \in Clients : a[1] \in ClientNodes
  BY ProgramTypes, UserAssumption DEF ClientNodes

\* Sending takes nothing out of the queues, and whoever is in reach of something
\* sent gets something sent that it is in reach of.
LEMMA FlightGrows ==
  ASSUME NEW q \in [Attach -> Seq(Frame)], NEW n, NEW E, \A e \in E : e.frame \in Frame,
         NEW j \in Attach
  PROVE  /\ InFlight(q, j) \subseteq InFlight(Emit(q, n, E), j)
         /\ (\E e \in E : Hears(j, n, e)) =>
               \E e \in E : Hears(j, n, e) /\ e.frame \in InFlight(Emit(q, n, E), j)
<1>1. q[j] \in Seq(Frame)
  OBVIOUS
<1>2. CASE \E e \in E : Hears(j, n, e)
  <2> DEFINE c == CHOOSE e \in E : Hears(j, n, e)
             z == Emit(q, n, E)[j]
  <2>1. c \in E /\ Hears(j, n, c)
    BY <1>2
  <2>2. z = Append(q[j], c.frame)
    BY <1>2 DEF Emit
  <2>3. c.frame \in Frame
    BY <2>1
  <2> HIDE DEF c
  <2>4. /\ \A k \in 1 .. Len(q[j]) : k \in 1 .. Len(z) /\ z[k] = q[j][k]
        /\ Len(q[j]) + 1 \in 1 .. Len(z) /\ z[Len(q[j]) + 1] = c.frame
    BY <1>1, <2>2, <2>3
  <2>5. c.frame \in InFlight(Emit(q, n, E), j)
    BY <2>4 DEF InFlight
  <2>6. InFlight(q, j) \subseteq InFlight(Emit(q, n, E), j)
    BY <2>4 DEF InFlight
  <2> QED
    BY <2>1, <2>5, <2>6
<1>3. CASE ~\E e \in E : Hears(j, n, e)
  <2>1. Emit(q, n, E)[j] = q[j]
    BY <1>3 DEF Emit
  <2> QED
    BY <1>3, <2>1 DEF InFlight
<1> QED
  BY <1>2, <1>3

\* Sending nothing.
LEMMA EmitNothing ==
  ASSUME NEW q \in [Attach -> Seq(Frame)], NEW n
  PROVE  Emit(q, n, {}) = q
  BY DEF Emit

\* Who has heard of s has still heard of it after a send.
LEMMA OnwardSent ==
  ASSUME NEW rt, NEW b, NEW q, NEW new, NEW b2, NEW q1 \in [Attach -> Seq(Frame)],
         Onward(rt, b, q, new, b2, q1), NEW n, NEW E, \A e \in E : e.frame \in Frame
  PROVE  Onward(rt, b, q, new, b2, Emit(q1, n, E))
<1>1. ASSUME NEW s \in Node, NEW j \in Attach, Heard(new, q1, s, j)
      PROVE  Heard(new, Emit(q1, n, E), s, j)
  <2>1. InFlight(q1, j) \subseteq InFlight(Emit(q1, n, E), j)
    BY FlightGrows
  <2> QED
    BY <1>1, <2>1 DEF Heard
<1> QED
  BY <1>1 DEF Onward

\* And after a frame was read, because the source of a RREQ is entered.
LEMMA OnwardRead ==
  ASSUME net \in [Attach -> Seq(Frame)], NEW i \in Attach, net[i] # <<>>, NEW rt, NEW new, NEW b,
         Improves(rt, new), NEW f, f = Head(net[i]),
         f.type = "RREQ" => Known(new[i[1]][f.src])
  PROVE  Onward(rt, b, net, new, b, Received(i))
<1>1. ASSUME NEW s \in Node, NEW j \in Attach, Heard(rt, net, s, j)
      PROVE  Heard(new, Received(i), s, j)
  <2>1. j[1] \in Node /\ i[1] \in Node
    BY AttachType
  <2>2. CASE j[1] = s \/ Known(rt[j[1]][s])
    BY <2>1, <2>2 DEF Heard, Improves
  <2>3. ASSUME NEW g \in InFlight(net, j), IsRREQ(g, s)
        PROVE  Heard(new, Received(i), s, j)
    <3>1. PICK k \in 1 .. Len(net[j]) : g = net[j][k]
      BY DEF InFlight
    <3>2. CASE j = i /\ k = 1
      <4>1. g = f
        BY <3>1, <3>2
      <4> QED
        BY <2>3, <3>2, <4>1 DEF IsRREQ, Heard
    <3>3. CASE j = i /\ k # 1
      <4>1. net[i] \in Seq(Frame) /\ Received(i)[i] = Tail(net[i])
        BY DEF Received
      <4>2. k - 1 \in 1 .. Len(Tail(net[i])) /\ Tail(net[i])[k - 1] = g
        BY <3>1, <3>3, <4>1
      <4>3. g \in InFlight(Received(i), j)
        BY <3>3, <4>1, <4>2 DEF InFlight
      <4> QED
        BY <2>3, <4>3 DEF Heard
    <3>4. CASE j # i
      <4>1. Received(i)[j] = net[j]
        BY <3>4 DEF Received
      <4>2. g \in InFlight(Received(i), j)
        BY <3>1, <4>1 DEF InFlight
      <4> QED
        BY <2>3, <4>2 DEF Heard
    <3> QED
      BY <3>2, <3>3, <3>4
  <2> QED
    BY <1>1, <2>2, <2>3 DEF Heard
<1> QED
  BY <1>1 DEF Onward, Improves

LEMMA CoveredOnward ==
  ASSUME NEW rt, NEW b, NEW q, NEW new, NEW b2, NEW q2, Onward(rt, b, q, new, b2, q2),
         NEW s \in Node
  PROVE  /\ \A l : Covered(rt, q, s, l) => Covered(new, q2, s, l)
         /\ \A n : CoveredAt(rt, q, s, n) => CoveredAt(new, q2, s, n)
  BY DEF Onward, Covered, CoveredAt

LEMMA TalkOnward ==
  ASSUME NEW rt, NEW new, \A n, d \in Node : Known(rt[n][d]) => Known(new[n][d])
  PROVE  /\ \A x, y : Talk(rt, x, y) => Talk(new, x, y)
         /\ \A x, y \in Node : Answerable(rt, x, y) => Answerable(new, x, y)
  BY PlainNames DEF Talk, Answerable

LEMMA FramePlainOnward ==
  ASSUME NEW rt, NEW b, NEW q, NEW new, NEW b2, NEW q2, Onward(rt, b, q, new, b2, q2),
         NEW j, NEW f, FramePlain(rt, b, j, f)
  PROVE  FramePlain(new, b2, j, f)
<1>1. \A x, y : Talk(rt, x, y) => Talk(new, x, y)
  BY TalkOnward DEF Onward
<1>2. \A s : Issued(b, s) => Issued(b2, s)
  BY PlainNames DEF Onward, Issued
<1> QED
  BY <1>1, <1>2 DEF FramePlain

\* Payloads stay in order when one whose receiver has heard of the source joins
\* the end of a queue.
LEMMA OrderSent ==
  ASSUME NEW rt, NEW q \in [Attach -> Seq(Frame)], Ordered(rt, q), NEW n, NEW E,
         \A e \in E : e.frame \in Frame,
         \A e \in E : \A j \in Attach :
           Hears(j, n, e) /\ e.frame.type = "DATA" /\ e.frame.dst \in Targets =>
             Heard(rt, q, e.frame.src, j)
  PROVE  Ordered(rt, Emit(q, n, E))
<1> DEFINE q2 == Emit(q, n, E)
<1> SUFFICES ASSUME NEW j \in Attach, NEW k \in 1 .. Len(q2[j]),
                    q2[j][k].type = "DATA", q2[j][k].dst \in Targets
             PROVE  \/ j[1] = q2[j][k].src
                    \/ Known(rt[j[1]][q2[j][k].src])
                    \/ \E h \in 1 .. k - 1 : IsRREQ(q2[j][h], q2[j][k].src)
  BY DEF Ordered
<1>1. q[j] \in Seq(Frame) /\ Len(q[j]) \in Nat
  OBVIOUS
<1>2. CASE \E e \in E : Hears(j, n, e)
  <2> DEFINE c == CHOOSE e \in E : Hears(j, n, e)
  <2>1. c \in E /\ Hears(j, n, c)
    BY <1>2
  <2>2. q2[j] = Append(q[j], c.frame)
    BY <1>2 DEF Emit
  <2>3. c.frame \in Frame
    BY <2>1
  <2> HIDE DEF c, q2
  <2>4. /\ k \in 1 .. Len(q[j]) + 1
        /\ \A h \in 1 .. Len(q[j]) : q2[j][h] = q[j][h]
        /\ q2[j][Len(q[j]) + 1] = c.frame
    BY <1>1, <2>2, <2>3
  <2>5. CASE k = Len(q[j]) + 1
    <3>1. q2[j][k] = c.frame
      BY <2>4, <2>5
    <3>2. Heard(rt, q, c.frame.src, j)
      BY <2>1, <3>1
    <3>3. ASSUME NEW g \in InFlight(q, j), IsRREQ(g, c.frame.src)
          PROVE  \E h \in 1 .. k - 1 : IsRREQ(q2[j][h], c.frame.src)
      <4>1. PICK h \in 1 .. Len(q[j]) : g = q[j][h]
        BY DEF InFlight
      <4>2. h \in 1 .. k - 1 /\ q2[j][h] = g
        BY <1>1, <2>4, <2>5, <4>1
      <4> QED
        BY <3>3, <4>2
    <3> QED
      BY <3>1, <3>2, <3>3 DEF Heard
  <2>6. CASE k # Len(q[j]) + 1
    <3>1. k \in 1 .. Len(q[j]) /\ q2[j][k] = q[j][k]
      BY <1>1, <2>4, <2>6
    <3>2. \A h \in 1 .. k - 1 : q2[j][h] = q[j][h]
      BY <1>1, <2>4, <3>1
    <3>3. \/ j[1] = q[j][k].src
          \/ Known(rt[j[1]][q[j][k].src])
          \/ \E h \in 1 .. k - 1 : IsRREQ(q[j][h], q[j][k].src)
      BY <3>1 DEF Ordered
    <3> QED
      BY <3>1, <3>2, <3>3
  <2> QED
    BY <2>5, <2>6
<1>3. CASE ~\E e \in E : Hears(j, n, e)
  <2>1. q2[j] = q[j]
    BY <1>3 DEF Emit
  <2> HIDE DEF q2
  <2> QED
    BY <2>1 DEF Ordered
<1> QED
  BY <1>2, <1>3

\* And when the head of a queue is read.
LEMMA OrderRead ==
  ASSUME net \in [Attach -> Seq(Frame)], NEW i \in Attach, net[i] # <<>>, NEW rt, NEW new,
         Ordered(rt, net), Improves(rt, new), NEW f, f = Head(net[i]),
         f.type = "RREQ" => Known(new[i[1]][f.src])
  PROVE  Ordered(new, Received(i))
<1> DEFINE q == Received(i)
<1> SUFFICES ASSUME NEW j \in Attach, NEW k \in 1 .. Len(q[j]),
                    q[j][k].type = "DATA", q[j][k].dst \in Targets
             PROVE  \/ j[1] = q[j][k].src
                    \/ Known(new[j[1]][q[j][k].src])
                    \/ \E h \in 1 .. k - 1 : IsRREQ(q[j][h], q[j][k].src)
  BY DEF Ordered
<1>1. net[j] \in Seq(Frame) /\ Received(i) \in [Attach -> Seq(Frame)] /\ j[1] \in Node
  BY ReceivedType, AttachType
<1>2. q[j][k] \in Frame
  BY <1>1
<1>3. q[j][k].src \in Node
  BY <1>2, FrameCases
<1>4. CASE j = i
  <2>1. q[j] = Tail(net[i]) /\ net[i] \in Seq(Frame) /\ net[i] # <<>> /\ f = net[i][1]
    BY <1>1, <1>4 DEF Received
  <2> HIDE DEF q
  <2>2. k \in 1 .. Len(Tail(net[i]))
    BY ONLY <2>1, k \in 1 .. Len(q[j])
  <2>3. /\ k + 1 \in 1 .. Len(net[i])
        /\ \A h \in 1 .. k : Tail(net[i])[h] = net[i][h + 1]
    BY ONLY <2>1, <2>2
  <2>4. q[j][k] = net[i][k + 1]
    BY <2>1, <2>2, <2>3
  <2>5. \/ i[1] = q[j][k].src
        \/ Known(rt[i[1]][q[j][k].src])
        \/ \E h \in 1 .. (k + 1) - 1 : IsRREQ(net[i][h], q[j][k].src)
    BY <2>3, <2>4 DEF Ordered
  <2>6. ASSUME NEW h \in 1 .. (k + 1) - 1, IsRREQ(net[i][h], q[j][k].src)
        PROVE  \/ Known(new[j[1]][q[j][k].src])
               \/ \E g \in 1 .. k - 1 : IsRREQ(q[j][g], q[j][k].src)
    <3>1. CASE h = 1
      BY <1>4, <2>1, <2>6, <3>1 DEF IsRREQ
    <3>2. CASE h # 1
      <4>1. h - 1 \in 1 .. k - 1 /\ h - 1 \in 1 .. k /\ (h - 1) + 1 = h
        BY <2>2, <3>2
      <4>2. q[j][h - 1] = net[i][h]
        BY <2>1, <2>3, <4>1
      <4> QED
        BY <2>6, <4>1, <4>2
    <3> QED
      BY <3>1, <3>2
  <2> QED
    BY <1>1, <1>3, <1>4, <2>5, <2>6 DEF Improves
<1>5. CASE j # i
  <2>1. q[j] = net[j]
    BY <1>5 DEF Received
  <2> HIDE DEF q
  <2>2. \/ j[1] = q[j][k].src
        \/ Known(rt[j[1]][q[j][k].src])
        \/ \E h \in 1 .. k - 1 : IsRREQ(q[j][h], q[j][k].src)
    BY <2>1 DEF Ordered
  <2> QED
    BY <1>1, <1>3, <2>2 DEF Improves
<1> QED
  BY <1>4, <1>5

\* What has to be shown of a frame that is sent to interface j, when the queues are
\* q before the send and q2 after it.
SentPlain(rt, b, q, q2, j, f) ==
  /\ FramePlain(rt, b, j, f)
  /\ f.type = "RREQ" => Covered(rt, q2, f.src, j[2])
  /\ f.type = "DATA" /\ f.dst \in Targets => Heard(rt, q, f.src, j)

\* Whoever knows or has issued something it did not before has passed it on.
PassedOn(rt, b, new, b2, q2) ==
  /\ \A n \in Node, s \in ClientNodes, d \in Targets : n # d /\ Known(new[n][s]) =>
       Known(rt[n][s]) \/ CoveredAt(new, q2, s, n)
  /\ \A s \in ClientNodes : b2[s] > 0 => b[s] > 0 \/ CoveredAt(new, q2, s, s)

\* A step has taken a frame, or none, out of the queues q, which left q1, and
\* entered what it learned.
ReadPlain(rt, b, q, new, b2, q1) ==
  /\ q \in [Attach -> Seq(Frame)] /\ q1 \in [Attach -> Seq(Frame)]
  /\ NetPlain(rt, b, q) /\ Onward(rt, b, q, new, b2, q1)
  /\ \A j \in Attach : InFlight(q1, j) \subseteq InFlight(q, j)
  /\ Ordered(new, q1) /\ TablesPlain(new, b2)

SendsPlain(rt, b, q, q2, n, E) ==
  /\ q2 = Emit(q, n, E)
  /\ \A e \in E : e.frame \in Frame
  /\ \A e \in E : \A j \in Attach : Hears(j, n, e) => SentPlain(rt, b, q, q2, j, e.frame)

\* The network after it has also put the frames in E into the queues.
LEMMA NetStep ==
  ASSUME NEW rt, NEW b, NEW q, NEW new, NEW b2, NEW q1, ReadPlain(rt, b, q, new, b2, q1),
         NEW n, NEW E, NEW q2, SendsPlain(new, b2, q1, q2, n, E),
         PassedOn(rt, b, new, b2, q2)
  PROVE  NetPlain(new, b2, q2)
<1> USE DEF ReadPlain, SendsPlain
<1>1. Onward(rt, b, q, new, b2, q2)
  BY OnwardSent
<1>2. ASSUME NEW j \in Attach, NEW f \in InFlight(q2, j)
      PROVE  FramePlain(new, b2, j, f) /\ (f.type = "RREQ" => Covered(new, q2, f.src, j[2]))
  <2>1. CASE f \in InFlight(q1, j)
    <3>1. f \in InFlight(q, j)
      BY <2>1
    <3>2. f \in Frame
      BY <3>1, FlightType
    <3>3. f.src \in Node
      BY <3>2, FrameCases
    <3>4. FramePlain(rt, b, j, f) /\ (f.type = "RREQ" => Covered(rt, q, f.src, j[2]))
      BY <3>1 DEF NetPlain, FramesPlain, FloodsOK
    <3> QED
      BY <1>1, <3>3, <3>4, FramePlainOnward, CoveredOnward
  <2>2. CASE \E e \in E : Hears(j, n, e) /\ f = e.frame
    BY <2>2 DEF SentPlain
  <2>3. f \in InFlight(Emit(q1, n, E), j)
    BY <1>2
  <2>4. q1 \in [Attach -> Seq(Frame)] /\ \A e \in E : e.frame \in Frame
    OBVIOUS
  <2>5. f \in InFlight(q1, j) \/ \E e \in E : Hears(j, n, e) /\ f = e.frame
    BY ONLY j \in Attach, <2>3, <2>4, EmitFlight
  <2> QED
    BY <2>1, <2>2, <2>5
<1>3. FramesPlain(new, b2, q2) /\ FloodsOK(new, q2)
  BY <1>2 DEF FramesPlain, FloodsOK
<1>4. Ordered(new, q2)
  <2>1. \A e \in E : \A j \in Attach :
          Hears(j, n, e) /\ e.frame.type = "DATA" /\ e.frame.dst \in Targets =>
            Heard(new, q1, e.frame.src, j)
    BY DEF SentPlain
  <2> QED
    BY <2>1, OrderSent
<1>5. ASSUME NEW m \in Node, NEW s \in ClientNodes, NEW d \in Targets, m # d, Known(new[m][s])
      PROVE  CoveredAt(new, q2, s, m)
  <2>1. s \in Node
    BY PlainNames
  <2>2. CASE Known(rt[m][s])
    <3>1. CoveredAt(rt, q, s, m)
      BY <1>5, <2>2 DEF NetPlain, Knowing
    <3> QED
      BY <1>1, <2>1, <3>1, CoveredOnward
  <2> QED
    BY <1>5, <2>2 DEF PassedOn
<1>6. ASSUME NEW s \in ClientNodes, b2[s] > 0
      PROVE  CoveredAt(new, q2, s, s)
  <2>1. s \in Node
    BY PlainNames
  <2>2. CASE b[s] > 0
    <3>1. CoveredAt(rt, q, s, s)
      BY <2>2 DEF NetPlain, Knowing
    <3> QED
      BY <1>1, <2>1, <3>1, CoveredOnward
  <2> QED
    BY <1>6, <2>2 DEF PassedOn
<1>7. Knowing(new, b2, q2)
  BY <1>5, <1>6 DEF Knowing
<1> QED
  BY <1>3, <1>4, <1>7 DEF NetPlain

\* A step that learns no route to a client's node and sends f along the route r.
LEMMA AlongPlain ==
  ASSUME NEW rt, NEW b, NEW q, NEW new, NEW q1, ReadPlain(rt, b, q, new, b, q1),
         \A m \in Node, s \in ClientNodes : Known(new[m][s]) => Known(rt[m][s]),
         NEW n, NEW r, Known(r), NEW f, SendAlong(n, r, f, q1),
         NEW g \in Frame, g = [f EXCEPT !.from = <<n, r.if>>, !.to = r.mac], g.type # "RREQ",
         \A j \in Attach : j[2] = r.if /\ j = g.to => SentPlain(new, b, q1, net', j, g)
  PROVE  NetPlain(new, b, net') /\ UNCHANGED status
<1> DEFINE a == Along(n, r, f)
<1>1. a.frame = g /\ a.lan = r.if
  BY DEF Along
<1>2. net' = Emit(q1, n, {a}) /\ UNCHANGED status
  BY DEF SendAlong
<1> HIDE DEF a
<1>3. SendsPlain(new, b, q1, net', n, {a})
  BY <1>1, <1>2 DEF Hears, SendsPlain
<1>4. PassedOn(rt, b, new, b, net')
  BY DEF PassedOn
<1>5. NetPlain(new, b, net')
  BY <1>3, <1>4, NetStep
<1> QED
  BY <1>2, <1>5

\* A step that learns no route to a client's node and sends nothing.
LEMMA SilentPlain ==
  ASSUME NEW rt, NEW b, NEW q, NEW new, NEW q1, ReadPlain(rt, b, q, new, b, q1),
         \A m \in Node, s \in ClientNodes : Known(new[m][s]) => Known(rt[m][s])
  PROVE  NetPlain(new, b, q1)
<1>1. PICK n : n = NoIf
  OBVIOUS
<1>2. Emit(q1, n, {}) = q1
  BY EmitNothing DEF ReadPlain
<1>3. SendsPlain(new, b, q1, q1, n, {})
  BY <1>2 DEF SendsPlain
<1>4. PassedOn(rt, b, new, b, q1)
  BY DEF PassedOn
<1> QED
  BY <1>3, <1>4, NetStep

\* Nothing is lost when nothing changes.
LEMMA OnwardSame ==
  ASSUME NEW rt, NEW b, NEW q
  PROVE  Onward(rt, b, q, rt, b, q)
  BY DEF Onward

\* Whoever is next on a client's way to a named node has heard of the client's node.
LEMMA NextHears ==
  ASSUME NEW rt, NEW b, NEW q, NetPlain(rt, b, q), NEW n \in Node, NEW s \in ClientNodes,
         NEW d \in Targets, n # d, Known(rt[s][d]), n = s \/ Known(rt[n][s]),
         NEW j \in Attach, <<n, j[2]>> \in Attach
  PROVE  Heard(rt, q, s, j)
<1>1. CoveredAt(rt, q, s, n)
  <2>1. CASE n = s
    <3>1. b[s] > 0
      BY DEF NetPlain, TablesPlain
    <3> QED
      BY <2>1, <3>1 DEF NetPlain, Knowing
  <2>2. CASE Known(rt[n][s])
    BY <2>2 DEF NetPlain, Knowing
  <2> QED
    BY <2>1, <2>2
<1>2. j[2] \in InterfacesOf(n)
  BY AttachType DEF InterfacesOf
<1> QED
  BY <1>1, <1>2 DEF CoveredAt, Covered

\* A node sends a payload of its own.
LEMMA PayloadPlain ==
  ASSUME PlainInv, PlainNetwork, NEW n \in Node, NEW d \in Node,
         Answerable(routing_table, n, d), NEW sport \in Ports, NEW dport \in Ports,
         NEW msg \in {"HI", "TIME"},
         SendAlong(n, routing_table[n][d], Payload(n, d, sport, dport, msg), net)
  PROVE  NetPlain(routing_table, broadcast_id, net') /\ UNCHANGED status
<1> DEFINE rt == routing_table
           r == rt[n][d]
           f == Payload(n, d, sport, dport, msg)
           g == [f EXCEPT !.from = <<n, r.if>>, !.to = r.mac]
<1>1. TypeOK /\ NetPlain(rt, broadcast_id, net)
  BY DEF PlainInv, RouteInv
<1>2. Known(r) /\ Talk(rt, n, d)
  BY DEF Answerable
<1>3. <<n, r.if>> \in Attach /\ r.mac \in Attach /\ net \in [Attach -> Seq(Frame)]
  BY <1>1, <1>2 DEF TypeOK
<1>4. g \in Frame
  BY <1>3, NewPayloadType
<1>5. g.type = "DATA" /\ g.src = n /\ g.dst = d
  BY DEF Payload
<1>6. SendAlong(n, r, f, net)
  OBVIOUS
<1>7. g = [f EXCEPT !.from = <<n, r.if>>, !.to = r.mac]
  OBVIOUS
<1> HIDE DEF g, f
<1>8. ASSUME NEW j \in Attach, j[2] = r.if
      PROVE  SentPlain(rt, broadcast_id, net, net', j, g)
  <2>1. ASSUME d \in Targets PROVE Heard(rt, net, n, j)
    <3>1. n \in ClientNodes /\ n # d /\ Known(rt[n][d])
      BY <1>2, <2>1 DEF Talk, PlainNetwork
    <3> QED
      BY <1>1, <1>3, <1>8, <2>1, <3>1, NextHears
  <2> QED
    BY <1>2, <1>5, <2>1 DEF SentPlain, FramePlain
<1>9. ReadPlain(rt, broadcast_id, net, rt, broadcast_id, net)
  BY <1>1, <1>3, OnwardSame DEF ReadPlain, NetPlain
<1> HIDE DEF r, rt
<1>10. /\ \A m \in Node, s \in ClientNodes : Known(rt[m][s]) => Known(rt[m][s])
       /\ \A j \in Attach : j[2] = r.if /\ j = g.to =>
            SentPlain(rt, broadcast_id, net, net', j, g)
       /\ Known(r) /\ g.type # "RREQ"
  BY <1>2, <1>5, <1>8
<1>11. NetPlain(rt, broadcast_id, net') /\ UNCHANGED status
  BY ONLY <1>4, <1>6, <1>7, <1>9, <1>10, AlongPlain
<1> QED
  BY <1>11 DEF rt

\* A client's node floods a RREQ of its own.
LEMMA DiscoveryPlain ==
  ASSUME PlainInv, NEW n \in ClientNodes, NEW d \in Targets, NEW port \in Ports,
         NEW disc \in {0, 1},
         broadcast_id' = [broadcast_id EXCEPT ![n] = @ + 1],
         net' = Emit(net, n, Flood(n, InterfacesOf(n),
                                   RREQ(n, d, port, broadcast_id[n] + 1, 0, 0, disc)))
  PROVE  NetPlain(routing_table, broadcast_id', net')
<1> DEFINE rt == routing_table
           bid == broadcast_id[n] + 1
           f == RREQ(n, d, port, bid, 0, 0, disc)
           E == Flood(n, InterfacesOf(n), f)
<1>1. TypeOK /\ NetPlain(rt, broadcast_id, net) /\ net \in [Attach -> Seq(Frame)]
      /\ broadcast_id \in [Node -> Nat] /\ n \in Node /\ d \in Node
  BY PlainNames DEF PlainInv, RouteInv, TypeOK
<1>2. bid \in Int /\ bid > 0 /\ broadcast_id'[n] = bid
      /\ \A s \in Node : s # n => broadcast_id'[s] = broadcast_id[s]
  BY <1>1
<1>3. net' = Emit(net, n, E)
  OBVIOUS
<1> HIDE DEF bid
<1>4. \A mac \in Attach : [f EXCEPT !.from = mac] \in Frame
  BY <1>1, <1>2, NewRREQType
<1>5. ASSUME NEW e \in E
      PROVE  /\ e.frame.type = "RREQ" /\ e.frame.src = n /\ e.frame.dst = d
             /\ e.frame.bid = bid /\ e.frame.from[1] = n
  <2>1. PICK l \in InterfacesOf(n) : e = [lan |-> l, frame |-> [f EXCEPT !.from = <<n, l>>]]
    BY Zenon DEF Flood
  <2>2. /\ e.frame.type = "RREQ" /\ e.frame.src = n /\ e.frame.dst = d
        /\ e.frame.bid = bid /\ e.frame.from = <<n, l>>
    BY <2>1 DEF RREQ
  <2> QED
    BY <2>2
<1>6. \A l \in InterfacesOf(n) : \E e \in E : e.lan = l
  <2> SUFFICES ASSUME NEW l \in InterfacesOf(n) PROVE \E e \in E : e.lan = l
    OBVIOUS
  <2>1. [lan |-> l, frame |-> [f EXCEPT !.from = <<n, l>>]] \in E
    BY Zenon DEF Flood
  <2>2. [lan |-> l, frame |-> [f EXCEPT !.from = <<n, l>>]].lan = l
    OBVIOUS
  <2> QED
    BY <2>1, <2>2
<1> HIDE DEF f
<1>7. \A e \in E : e.frame \in Frame
  BY <1>1, <1>4, FloodType
<1> HIDE DEF E
<1>8. ASSUME NEW j \in Attach, j[2] \in InterfacesOf(n)
      PROVE  Heard(rt, net', n, j)
  <2>1. CASE j[1] = n
    BY <2>1 DEF Heard
  <2>2. CASE j[1] # n
    <3>1. PICK e \in E : e.lan = j[2]
      BY <1>6, <1>8
    <3>2. Hears(j, n, e)
      BY <1>5, <2>2, <3>1 DEF Hears
    <3>3. PICK c \in E : c.frame \in InFlight(net', j)
      BY <1>1, <1>3, <1>7, <3>2, FlightGrows
    <3> QED
      BY <1>5, <3>3 DEF Heard, IsRREQ
  <2> QED
    BY <2>1, <2>2
<1>9. CoveredAt(rt, net', n, n)
  BY <1>8 DEF CoveredAt, Covered
<1>10. ASSUME NEW e \in E, NEW j \in Attach, Hears(j, n, e)
       PROVE  SentPlain(rt, broadcast_id', net, net', j, e.frame)
  <2>1. e.lan = j[2]
    BY <1>10 DEF Hears
  <2>2. j[2] \in InterfacesOf(n)
    <3>1. PICK l \in InterfacesOf(n) : e = [lan |-> l, frame |-> [f EXCEPT !.from = <<n, l>>]]
      BY Zenon DEF Flood, E
    <3> QED
      BY <2>1, <3>1
  <2>3. Covered(rt, net', n, j[2])
    BY <1>9, <2>2 DEF CoveredAt
  <2>4. Issued(broadcast_id', n)
    BY <1>2 DEF Issued
  <2> QED
    BY <1>2, <1>5, <2>3, <2>4 DEF SentPlain, FramePlain
<1>11. Onward(rt, broadcast_id, net, rt, broadcast_id', net)
  <2>1. \A s \in Node : broadcast_id[s] > 0 => broadcast_id'[s] > 0
    BY <1>2
  <2> QED
    BY <2>1 DEF Onward
<1>12. Ordered(rt, net) /\ TablesPlain(rt, broadcast_id')
  <2>1. \A s \in ClientNodes : broadcast_id[s] > 0 => broadcast_id'[s] > 0
    BY <1>2, PlainNames
  <2> QED
    BY <1>1, <2>1 DEF NetPlain, TablesPlain
<1>13. PassedOn(rt, broadcast_id, rt, broadcast_id', net')
  BY <1>2, <1>9, PlainNames DEF PassedOn
<1>14. ReadPlain(rt, broadcast_id, net, rt, broadcast_id', net)
  BY <1>1, <1>11, <1>12 DEF ReadPlain
<1>15. SendsPlain(rt, broadcast_id', net, net', n, E)
  BY <1>3, <1>7, <1>10 DEF SendsPlain
<1> HIDE DEF rt
<1>16. NetPlain(rt, broadcast_id', net')
  BY <1>13, <1>14, <1>15, NetStep
<1> QED
  BY <1>16 DEF rt

\* What a node sends because of a RREQ f: an answer back over the segment f came
\* from, and copies of f on the others.
Relays(i, f, e) ==
  /\ e.frame \in Frame
  /\ \/ /\ e.frame.type = "RREP" /\ e.lan = i[2]
        /\ e.frame.src = f.dst /\ e.frame.dst = f.src /\ e.frame.to = f.from
     \/ /\ e.frame.type = "RREQ" /\ e.lan \in InterfacesOf(i[1]) \ {i[2]}
        /\ e.frame.src = f.src /\ e.frame.dst = f.dst /\ e.frame.bid = f.bid
        /\ e.frame.from = <<i[1], e.lan>>

\* The first RREQ that a node reads from a source; it is newer than what the entry
\* holds, and not for this node.
FirstSeen(i, f) ==
  LET e == routing_table[i[1]][f.src] IN f.dst # i[1] /\ ~Known(e) /\ e.bid < f.bid

\* Such a RREQ is passed on.
LEMMA RREQRelays ==
  ASSUME TypeOK, NEW i \in Attach, HandleRREQ(i), NEW f, f = Head(net[i])
  PROVE  \E E : /\ net' = Emit(Received(i), i[1], E)
                /\ \A e \in E : Relays(i, f, e)
                /\ FirstSeen(i, f) =>
                     \A l \in InterfacesOf(i[1]) \ {i[2]} : \E e \in E : e.lan = l
<1> DEFINE n == i[1]
           O == InterfacesOf(n) \ {i[2]}
<1>1. net[i] # <<>> /\ f.type = "RREQ" /\ f = Head(net[i])
  BY DEF HandleRREQ, RREQAtDestination, RREQAtKnowingNode, RREQAtOtherNode, Arrived
<1>2. f \in Frame
  BY <1>1, ReceivedType DEF TypeOK
<1>3. f \in RREQFrame
  BY <1>1, <1>2, FrameCases
<1>4. TablesOK(routing_table) /\ TablesOK(Reverse(i, f))
  BY <1>1, <1>2, LearnedTables DEF TypeOK, TablesOK
<1>5. n \in Node /\ f.dst \in Node /\ f.sent \in {0, 1} /\ f.disc \in {0, 1}
  BY <1>3, AttachType DEF RREQFrame
<1>6. ASSUME NEW hop \in Nat, NEW disc \in {0, 1}, NEW e \in Answers(i, f, hop, disc)
      PROVE  Relays(i, f, e)
  <2>1. e.frame \in Frame
    BY <1>1, <1>2, <1>4, AnswersType
  <2>2. e = Answer(i, f, hop, disc)
    BY DEF Answers
  <2> DEFINE back == Reverse(i, f)[i[1]][f.src]
  <2>3. /\ e.lan = i[2]
        /\ e.frame = [RREP(f.dst, f.src, htonl(f.port), hop, disc) EXCEPT
                        !.to = f.from, !.from = <<i[1], back.if>>]
    BY <2>2 DEF Answer
  <2> HIDE DEF back
  <2>4. /\ e.frame.type = "RREP" /\ e.frame.src = f.dst /\ e.frame.dst = f.src
        /\ e.frame.to = f.from
    BY <2>3 DEF RREP
  <2> QED
    BY <2>1, <2>3, <2>4 DEF Relays
<1>7. ASSUME NEW sent \in {0, 1}
      PROVE  /\ \A e \in Reflood(i, f, sent) : Relays(i, f, e)
             /\ \A l \in O : \E e \in Reflood(i, f, sent) : e.lan = l
  <2>1. ASSUME NEW e \in Reflood(i, f, sent) PROVE Relays(i, f, e)
    <3>1. e.frame \in Frame
      BY <1>1, <1>2, RefloodType
    <3>2. PICK l \in O :
            e = [lan |-> l, frame |-> [[f EXCEPT !.hop = @ + 1, !.sent = sent] EXCEPT !.from = <<n, l>>]]
      BY Zenon DEF Reflood, Flood
    <3>3. /\ e.frame.type = "RREQ" /\ e.frame.src = f.src /\ e.frame.dst = f.dst
          /\ e.frame.bid = f.bid /\ e.frame.from = <<n, l>> /\ e.lan = l
      BY <1>3, <3>2 DEF RREQFrame
    <3> QED
      BY <3>1, <3>3 DEF Relays
  <2>2. ASSUME NEW l \in O PROVE \E e \in Reflood(i, f, sent) : e.lan = l
    <3> DEFINE x == [[f EXCEPT !.hop = @ + 1, !.sent = sent] EXCEPT !.from = <<n, l>>]
               e == [lan |-> l, frame |-> x]
    <3>1. e \in Reflood(i, f, sent)
      BY Zenon DEF Reflood, Flood
    <3> HIDE DEF x
    <3>2. e.lan = l
      OBVIOUS
    <3> QED
      BY <3>1, <3>2
  <2> QED
    BY <2>1, <2>2
<1>8. FirstSeen(i, f) => Fresh(i, f) /\ BetterSource(i, f)
  BY DEF FirstSeen, Fresh, BetterSource, Efficient
<1> HIDE DEF O
<1>9. \E E : /\ net' = Emit(Received(i), n, E)
             /\ \A e \in E : Relays(i, f, e)
             /\ FirstSeen(i, f) => \A l \in O : \E e \in E : e.lan = l
  <2>1. CASE RREQAtDestination(i)
    <3>1. f.dst = n /\ net' = Emit(Received(i), n, Answers(i, f, 0, f.disc))
      BY <1>1, <2>1 DEF RREQAtDestination
    <3>2. ~FirstSeen(i, f)
      BY <3>1 DEF FirstSeen
    <3>3. \A e \in Answers(i, f, 0, f.disc) : Relays(i, f, e)
      BY <1>5, <1>6
    <3> QED
      BY <3>1, <3>2, <3>3
  <2>2. CASE RREQAtKnowingNode(i)
    <3> DEFINE hops == Reverse(i, f)[n][f.dst].hops
               A == Answers(i, f, hops, 0)
               R == Reflood(i, f, 1)
               E == A \cup (IF BetterSource(i, f) THEN R ELSE {})
    <3>1. net' = Emit(Received(i), n, E)
      BY <1>1, <2>2 DEF RREQAtKnowingNode
    <3>2. hops \in Nat
      BY <1>4, <1>5 DEF TablesOK, Entry
    <3>3. \A e \in A : Relays(i, f, e)
      BY <1>6, <3>2
    <3>4. (\A e \in R : Relays(i, f, e)) /\ \A l \in O : \E e \in R : e.lan = l
      BY <1>7
    <3> HIDE DEF A, R
    <3>5. \A e \in E : Relays(i, f, e)
      BY <3>3, <3>4
    <3>6. FirstSeen(i, f) => \A l \in O : \E e \in E : e.lan = l
      BY <1>8, <3>4
    <3> HIDE DEF E
    <3> QED
      BY <3>1, <3>5, <3>6
  <2>3. CASE RREQAtOtherNode(i)
    <3> DEFINE R == Reflood(i, f, f.sent)
               E == IF Fresh(i, f) THEN R ELSE {}
    <3>1. net' = Emit(Received(i), n, E)
      BY <1>1, <2>3 DEF RREQAtOtherNode
    <3>2. (\A e \in R : Relays(i, f, e)) /\ \A l \in O : \E e \in R : e.lan = l
      BY <1>5, <1>7
    <3> HIDE DEF R
    <3>3. \A e \in E : Relays(i, f, e)
      BY <3>2
    <3>4. FirstSeen(i, f) => \A l \in O : \E e \in E : e.lan = l
      BY <1>8, <3>2
    <3> HIDE DEF E
    <3> QED
      BY <3>1, <3>3, <3>4
  <2> QED
    BY <2>1, <2>2, <2>3 DEF HandleRREQ
<1> QED
  BY <1>9 DEF O

\* The tables after the source of a RREQ is entered.
LEMMA ReverseFacts ==
  ASSUME RouteInv, NEW i \in Attach, NEW f \in Frame, f.type = "RREQ",
         FrameOK(routing_table, i, f)
  PROVE  /\ Improves(routing_table, Reverse(i, f)) /\ Known(Reverse(i, f)[i[1]][f.src])
         /\ \A n, d \in Node : n # i[1] \/ d # f.src =>
              Reverse(i, f)[n][d] = routing_table[n][d]
         /\ \/ Reverse(i, f)[i[1]][f.src].mac = f.from
            \/ /\ Known(routing_table[i[1]][f.src])
               /\ Reverse(i, f)[i[1]][f.src].mac = routing_table[i[1]][f.src].mac
<1> DEFINE e == routing_table[i[1]][f.src]
           x == Learn(e, i[2], f.from, f.hop, f.disc)
           y == [x EXCEPT !.bid = f.bid]
<1>1. TypeOK /\ RoutesOK(routing_table)
  BY DEF RouteInv
<1>2. Improves(routing_table, Reverse(i, f)) /\ Known(Reverse(i, f)[i[1]][f.src])
  BY <1>1, ReverseRoutes
<1>3. routing_table \in [Node -> [Node -> Entry]] /\ i[1] \in Node /\ f.src \in Node
      /\ i[2] \in Lan /\ f.from \in Attach /\ f.hop \in Nat
  BY <1>1, AttachType, FrameCases DEF TypeOK
<1>4. e \in Entry
  BY <1>3
<1>5. x \in Entry
  BY <1>3, <1>4, LearnType
<1>6. \/ x.mac = f.from
      \/ Known(e) /\ x = e
  BY DEF Learn, Efficient
<1>7. Reverse(i, f) = [routing_table EXCEPT ![i[1]][f.src] = y]
  BY DEF Reverse
<1> HIDE DEF x
<1>8. y.mac = x.mac
  BY <1>5 DEF Entry
<1> HIDE DEF y
<1>9. \A n, d \in Node : Reverse(i, f)[n][d] =
        IF n = i[1] /\ d = f.src THEN y ELSE routing_table[n][d]
  BY <1>3, <1>7
<1> QED
  BY <1>2, <1>3, <1>6, <1>8, <1>9

\* A node handles a RREQ.
LEMMA RREQPlain ==
  ASSUME PlainInv, PlainNetwork, NEW i \in Attach, HandleRREQ(i)
  PROVE  /\ NetPlain(routing_table', broadcast_id, net')
         /\ Improves(routing_table, routing_table')
<1> DEFINE n == i[1]
           rt == routing_table
           b == broadcast_id
<1>1. RouteInv /\ TypeOK /\ NetPlain(rt, b, net) /\ net \in [Attach -> Seq(Frame)] /\ n \in Node
  BY AttachType DEF PlainInv, RouteInv, TypeOK
<1>2. PICK f : f = Head(net[i])
  OBVIOUS
<1>3. net[i] # <<>> /\ f.type = "RREQ" /\ routing_table' = Reverse(i, f)
  BY <1>2 DEF HandleRREQ, RREQAtDestination, RREQAtKnowingNode, RREQAtOtherNode, Arrived
<1>4. /\ f \in Frame /\ FrameOK(rt, i, f) /\ Received(i) \in [Attach -> Seq(Frame)]
      /\ f \in InFlight(net, i)
      /\ \A j \in Attach : InFlight(Received(i), j) \subseteq InFlight(net, j)
  BY <1>1, <1>2, <1>3, ReadFrame, ReceivedFlight
<1>5. FramePlain(rt, b, i, f) /\ Covered(rt, net, f.src, i[2])
  BY <1>1, <1>3, <1>4 DEF NetPlain, FramesPlain, FloodsOK
<1>6. PICK s : s = f.src
  OBVIOUS
<1>7. /\ Issued(b, s) /\ s \in ClientNodes /\ s \in Node /\ s \notin Targets
      /\ f.dst \in Targets /\ f.bid > 0 /\ (f.from[1] \in ClientNodes => f.from[1] = s)
  BY <1>3, <1>5, <1>6, PlainNames DEF FramePlain, Issued, PlainNetwork
<1>8. PICK new : new = Reverse(i, f)
  OBVIOUS
<1>9. /\ Improves(rt, new) /\ Known(new[n][s])
      /\ \A m, d \in Node : m # n \/ d # s => new[m][d] = rt[m][d]
      /\ new[n][s].mac = f.from \/ (Known(rt[n][s]) /\ new[n][s].mac = rt[n][s].mac)
  BY <1>1, <1>3, <1>4, <1>6, <1>8, ReverseFacts
<1>10. TablesPlain(new, b)
  <2>1. TablesPlain(rt, b)
    BY <1>1 DEF NetPlain
  <2>2. ASSUME NEW m \in Node, NEW c \in ClientNodes
        PROVE  IF Known(new[m][c]) THEN new[m][c].mac[1] \in ClientNodes => new[m][c].mac[1] = c
               ELSE new[m][c].bid \in GarbageId
    <3>1. c \in Node
      BY PlainNames
    <3>2. CASE m = n /\ c = s
      BY <1>7, <1>9, <2>1, <3>2 DEF TablesPlain
    <3>3. CASE ~(m = n /\ c = s)
      <4>1. new[m][c] = rt[m][c]
        BY <1>9, <3>1, <3>3
      <4> QED
        BY <2>1, <4>1 DEF TablesPlain
    <3> QED
      BY <3>2, <3>3
  <2>3. ASSUME NEW c \in ClientNodes, NEW d \in Targets, Known(new[c][d])
        PROVE  b[c] > 0
    <3>1. new[c][d] = rt[c][d]
      BY <1>7, <1>9, PlainNames
    <3> QED
      BY <2>1, <2>3, <3>1 DEF TablesPlain
  <2> QED
    BY <2>2, <2>3 DEF TablesPlain
<1>11. Onward(rt, b, net, new, b, Received(i)) /\ Ordered(new, Received(i))
  <2>1. f.type = "RREQ" => Known(new[i[1]][f.src])
    BY <1>6, <1>9
  <2>2. Ordered(rt, net)
    BY <1>1 DEF NetPlain
  <2> QED
    BY <1>1, <1>2, <1>3, <1>9, <2>1, <2>2, OnwardRead, OrderRead
<1>12. ReadPlain(rt, b, net, new, b, Received(i))
  BY <1>1, <1>4, <1>10, <1>11 DEF ReadPlain
<1>13. PICK E : /\ net' = Emit(Received(i), n, E)
                /\ \A e \in E : Relays(i, f, e)
                /\ FirstSeen(i, f) => \A l \in InterfacesOf(n) \ {i[2]} : \E e \in E : e.lan = l
  BY <1>1, <1>2, RREQRelays
<1>14. \A e \in E : e.frame \in Frame
  BY <1>13 DEF Relays
<1>15. Onward(rt, b, net, new, b, net')
  BY <1>4, <1>11, <1>13, <1>14, OnwardSent
<1>16. ASSUME NEW l \in InterfacesOf(n) \ {i[2]}, NEW e \in E, e.lan = l
       PROVE  Covered(new, net', s, l)
  <2> SUFFICES ASSUME NEW j \in Attach, j[2] = l PROVE Heard(new, net', s, j)
    BY DEF Covered
  <2>1. CASE j[1] = n
    BY <1>9, <2>1 DEF Heard
  <2>2. CASE j[1] # n
    <3>1. Hears(j, n, e)
      BY <1>13, <1>16, <2>2 DEF Relays, Hears
    <3>2. PICK c \in E : Hears(j, n, c) /\ c.frame \in InFlight(net', j)
      BY <1>4, <1>13, <1>14, <3>1, FlightGrows
    <3>3. c.frame.type = "RREQ" /\ c.frame.src = s
      BY <1>6, <1>13, <1>16, <3>2 DEF Relays, Hears
    <3> QED
      BY <3>2, <3>3 DEF Heard, IsRREQ
  <2> QED
    BY <2>1, <2>2
<1>17. ASSUME NEW e \in E, NEW j \in Attach, Hears(j, n, e)
       PROVE  SentPlain(new, b, Received(i), net', j, e.frame)
  <2>1. CASE e.frame.type = "RREP"
    <3>1. /\ e.frame.src = f.dst /\ e.frame.dst = s /\ e.frame.to = f.from /\ e.frame.to = j
      BY <1>6, <1>13, <1>17, <2>1 DEF Relays, Hears
    <3>2. j[1] \in ClientNodes => j[1] = s
      BY <1>7, <3>1
    <3> QED
      BY <1>7, <2>1, <3>1, <3>2 DEF SentPlain, FramePlain
  <2>2. CASE e.frame.type # "RREP"
    <3>1. /\ e.frame.type = "RREQ" /\ e.lan \in InterfacesOf(n) \ {i[2]} /\ e.lan = j[2]
          /\ e.frame.src = s /\ e.frame.dst = f.dst /\ e.frame.bid = f.bid
          /\ e.frame.from = <<n, e.lan>>
      BY <1>6, <1>13, <1>17, <2>2 DEF Relays, Hears
    <3>2. e.frame.from[1] = n
      BY <3>1
    <3>3. Covered(new, net', s, j[2])
      BY <1>16, <3>1
    <3>4. n \notin ClientNodes
      <4>1. SUFFICES ASSUME n \in ClientNodes PROVE FALSE
        OBVIOUS
      <4>2. SingleHomed(n)
        BY <1>1, <1>7, <4>1 DEF PlainNetwork
      <4>3. i[2] \in InterfacesOf(n)
        BY AttachType DEF InterfacesOf
      <4> QED
        BY <3>1, <4>2, <4>3 DEF SingleHomed
    <3> QED
      BY <1>7, <3>1, <3>2, <3>3, <3>4 DEF SentPlain, FramePlain
  <2> QED
    BY <2>1, <2>2
<1>18. SendsPlain(new, b, Received(i), net', n, E)
  BY <1>13, <1>14, <1>17 DEF SendsPlain
<1>19. ASSUME NEW d \in Targets, n # d, ~Known(rt[n][s])
       PROVE  CoveredAt(new, net', s, n)
  <2> SUFFICES ASSUME NEW l \in InterfacesOf(n) PROVE Covered(new, net', s, l)
    BY DEF CoveredAt
  <2>1. CASE l = i[2]
    BY <1>5, <1>6, <1>7, <1>15, <2>1, CoveredOnward
  <2>2. CASE l # i[2]
    <3>1. i[2] \in InterfacesOf(n)
      BY AttachType DEF InterfacesOf
    <3>2. ~SingleHomed(n)
      BY <2>2, <3>1 DEF SingleHomed
    <3>3. n \notin Targets /\ \A g \in GarbageId : g <= 0
      BY <1>1, <1>19, <3>2 DEF PlainNetwork
    <3>4. rt[n][s].bid \in GarbageId
      BY <1>1, <1>7, <1>19 DEF NetPlain, TablesPlain
    <3>5. rt[n][s].bid < f.bid
      <4>1. rt[n][s].bid \in Int /\ f.bid \in Int
        BY <1>3, <1>4, <3>4, GarbageAssumption, FrameCases DEF RREQFrame
      <4> QED
        BY <1>7, <3>3, <3>4, <4>1
    <3>6. FirstSeen(i, f)
      BY <1>6, <1>7, <1>19, <3>3, <3>5 DEF FirstSeen
    <3>7. PICK e \in E : e.lan = l
      BY <1>13, <2>2, <3>6
    <3> QED
      BY <1>16, <2>2, <3>7
  <2> QED
    BY <2>1, <2>2
<1>20. PassedOn(rt, b, new, b, net')
  <2>1. ASSUME NEW m \in Node, NEW c \in ClientNodes, NEW d \in Targets, m # d, Known(new[m][c])
        PROVE  Known(rt[m][c]) \/ CoveredAt(new, net', c, m)
    <3>1. c \in Node
      BY PlainNames
    <3>2. CASE m = n /\ c = s
      BY <1>19, <2>1, <3>2
    <3>3. CASE ~(m = n /\ c = s)
      BY <1>9, <2>1, <3>1, <3>3
    <3> QED
      BY <3>2, <3>3
  <2> QED
    BY <2>1 DEF PassedOn
<1> HIDE DEF rt, b, n
<1>21. NetPlain(new, b, net')
  BY <1>12, <1>18, <1>20, NetStep
<1> QED
  BY <1>3, <1>8, <1>9, <1>21 DEF rt, b

\* The tables after the source of a RREP is entered.
LEMMA ForwardFacts ==
  ASSUME RouteInv, NEW i \in Attach, NEW f \in Frame, f.type = "RREP",
         FrameOK(routing_table, i, f)
  PROVE  /\ Improves(routing_table, Forward(i, f)) /\ Known(Forward(i, f)[i[1]][f.src])
         /\ TablesOK(Forward(i, f))
         /\ \A n, d \in Node : n # i[1] \/ d # f.src =>
              Forward(i, f)[n][d] = routing_table[n][d]
<1>1. TypeOK /\ RoutesOK(routing_table)
  BY DEF RouteInv
<1>2. /\ Improves(routing_table, Forward(i, f)) /\ Known(Forward(i, f)[i[1]][f.src])
      /\ TablesOK(Forward(i, f))
  BY <1>1, ForwardRoutes
<1>3. routing_table \in [Node -> [Node -> Entry]] /\ i[1] \in Node /\ f.src \in Node
  BY <1>1, AttachType, FrameCases DEF TypeOK
<1>4. \A n, d \in Node : n # i[1] \/ d # f.src =>
        Forward(i, f)[n][d] = routing_table[n][d]
  BY <1>3 DEF Forward
<1> QED
  BY <1>2, <1>4

\* What a node that reads a RREP f knows before it sends anything.
LEMMA ForwardPlain ==
  ASSUME PlainInv, PlainNetwork, NEW i \in Attach, Arrived(i, "RREP"), NEW f, f = Head(net[i]),
         NEW new, new = Forward(i, f)
  PROVE  /\ f \in RREPFrame /\ FramePlain(routing_table, broadcast_id, i, f)
         /\ FrameOK(routing_table, i, f)
         /\ Improves(routing_table, new) /\ TablesOK(new) /\ Known(new[i[1]][f.src])
         /\ \A n \in Node, s \in ClientNodes : new[n][s] = routing_table[n][s]
         /\ ReadPlain(routing_table, broadcast_id, net, new, broadcast_id, Received(i))
<1> DEFINE n == i[1]
           rt == routing_table
           b == broadcast_id
<1>1. RouteInv /\ TypeOK /\ NetPlain(rt, b, net) /\ net \in [Attach -> Seq(Frame)] /\ n \in Node
  BY AttachType DEF PlainInv, RouteInv, TypeOK
<1>2. net[i] # <<>> /\ f.type = "RREP"
  BY DEF Arrived
<1>3. /\ f \in Frame /\ FrameOK(rt, i, f) /\ Received(i) \in [Attach -> Seq(Frame)]
      /\ f \in InFlight(net, i)
      /\ \A j \in Attach : InFlight(Received(i), j) \subseteq InFlight(net, j)
  BY <1>1, <1>2, ReadFrame, ReceivedFlight
<1>4. FramePlain(rt, b, i, f)
  BY <1>1, <1>3 DEF NetPlain, FramesPlain
<1>5. f.src \in Targets /\ f.src \in Node /\ Issued(b, f.dst) /\ (n \in ClientNodes => n = f.dst)
  BY <1>2, <1>4, PlainNames DEF FramePlain
<1>6. /\ Improves(rt, new) /\ Known(new[n][f.src]) /\ TablesOK(new)
      /\ \A m, d \in Node : m # n \/ d # f.src => new[m][d] = rt[m][d]
  BY <1>1, <1>2, <1>3, ForwardFacts
<1>7. \A m \in Node, s \in ClientNodes : new[m][s] = rt[m][s]
  BY <1>5, <1>6, PlainNames DEF PlainNetwork
<1>8. TablesPlain(new, b)
  <2>1. TablesPlain(rt, b)
    BY <1>1 DEF NetPlain
  <2>2. ASSUME NEW c \in ClientNodes, NEW d \in Targets, Known(new[c][d])
        PROVE  b[c] > 0
    <3>1. CASE c = n /\ d = f.src
      BY <1>5, <3>1 DEF Issued
    <3>2. CASE ~(c = n /\ d = f.src)
      <4>1. new[c][d] = rt[c][d]
        BY <1>6, <3>2, PlainNames
      <4> QED
        BY <2>1, <2>2, <4>1 DEF TablesPlain
    <3> QED
      BY <3>1, <3>2
  <2> QED
    BY <1>7, <2>1, <2>2 DEF TablesPlain
<1>9. Onward(rt, b, net, new, b, Received(i)) /\ Ordered(new, Received(i))
  <2>1. f.type = "RREQ" => Known(new[i[1]][f.src])
    BY <1>2
  <2>2. Ordered(rt, net)
    BY <1>1 DEF NetPlain
  <2> QED
    BY <1>1, <1>2, <1>6, <2>1, <2>2, OnwardRead, OrderRead
<1>10. ReadPlain(rt, b, net, new, b, Received(i))
  BY <1>1, <1>3, <1>8, <1>9 DEF ReadPlain
<1>11. f \in RREPFrame
  BY <1>2, <1>3, FrameCases
<1> QED
  BY <1>3, <1>4, <1>6, <1>7, <1>10, <1>11

\* A node relays a RREP.
LEMMA RelayRREPPlain ==
  ASSUME PlainInv, PlainNetwork, NEW i \in Attach, RelayRREP(i)
  PROVE  /\ NetPlain(routing_table', broadcast_id, net')
         /\ Improves(routing_table, routing_table') /\ UNCHANGED status
<1> DEFINE n == i[1]
           rt == routing_table
           b == broadcast_id
<1>1. PICK f : f = Head(net[i])
  OBVIOUS
<1>2. PICK new : new = Forward(i, f)
  OBVIOUS
<1>3. PICK h : h = [f EXCEPT !.hop = @ + 1]
  OBVIOUS
<1>4. PICK r : r = new[n][f.dst]
  OBVIOUS
<1>5. /\ Arrived(i, "RREP") /\ f.dst # n /\ routing_table' = new
      /\ SendAlong(n, r, h, Received(i))
  BY <1>1, <1>2, <1>3, <1>4 DEF RelayRREP
<1>6. /\ f \in RREPFrame /\ FramePlain(rt, b, i, f) /\ FrameOK(rt, i, f)
      /\ Improves(rt, new) /\ TablesOK(new) /\ Known(new[i[1]][f.src])
      /\ \A m \in Node, s \in ClientNodes : new[m][s] = rt[m][s]
      /\ ReadPlain(rt, b, net, new, b, Received(i))
  BY <1>1, <1>2, <1>5, ForwardPlain
<1>7. f \in Frame /\ f.type = "RREP" /\ f.dst \in Node /\ n \in Node
  BY <1>6, AttachType DEF Frame, RREPFrame
<1>8. f.src \in Targets /\ Issued(b, f.dst) /\ f.dst \in ClientNodes
  BY <1>6, <1>7 DEF FramePlain, Issued
<1>9. Known(r) /\ r = rt[n][f.dst]
  BY <1>4, <1>5, <1>6, <1>7, <1>8 DEF FrameOK
<1>10. <<n, r.if>> \in Attach /\ r.mac \in Attach
  BY <1>4, <1>6, <1>7, <1>9 DEF TablesOK
<1>11. PICK g : g = [h EXCEPT !.from = <<n, r.if>>, !.to = r.mac]
  OBVIOUS
<1>12. g \in Frame
  BY <1>3, <1>7, <1>10, <1>11, RelayedType
<1>13. g.type = "RREP" /\ g.src = f.src /\ g.dst = f.dst /\ g.to = r.mac
  BY <1>3, <1>6, <1>11 DEF RREPFrame
<1>14. r.mac[1] \in ClientNodes => r.mac[1] = f.dst
  <2>1. PlainInv => TablesPlain(rt, b)
    BY DEF PlainInv, NetPlain
  <2> QED
    BY <1>7, <1>8, <1>9, <2>1 DEF TablesPlain
<1>15. \A j \in Attach : j[2] = r.if /\ j = g.to =>
         SentPlain(new, b, Received(i), net', j, g)
  BY <1>8, <1>13, <1>14 DEF SentPlain, FramePlain
<1>16. /\ \A m \in Node, s \in ClientNodes : Known(new[m][s]) => Known(rt[m][s])
       /\ ReadPlain(rt, b, net, new, b, Received(i)) /\ g.type # "RREQ"
  BY <1>6, <1>13
<1> HIDE DEF rt, b, n
<1>17. NetPlain(new, b, net') /\ UNCHANGED status
  BY ONLY <1>5, <1>9, <1>11, <1>12, <1>15, <1>16, AlongPlain
<1> QED
  BY <1>5, <1>6, <1>17 DEF rt, b

\* What a node that reads a payload f knows before it sends anything: if f is for a
\* named node, the way back to its source.
LEMMA PayloadRead ==
  ASSUME PlainInv, NEW i \in Attach, Arrived(i, "DATA"), NEW f, f = Head(net[i])
  PROVE  /\ f \in PayloadFrame /\ FrameOK(routing_table, i, f)
         /\ Talk(routing_table, f.src, f.dst)
         /\ f.dst \in Targets => i[1] = f.src \/ Known(routing_table[i[1]][f.src])
         /\ ReadPlain(routing_table, broadcast_id, net, routing_table, broadcast_id, Received(i))
<1> DEFINE rt == routing_table
           b == broadcast_id
<1>1. RouteInv /\ TypeOK /\ NetPlain(rt, b, net) /\ net \in [Attach -> Seq(Frame)]
      /\ TablesOK(rt)
  BY DEF PlainInv, RouteInv, TypeOK, TablesOK
<1>2. net[i] # <<>> /\ f.type = "DATA"
  BY DEF Arrived
<1>3. /\ f \in Frame /\ FrameOK(rt, i, f) /\ Received(i) \in [Attach -> Seq(Frame)]
      /\ f \in InFlight(net, i)
      /\ \A j \in Attach : InFlight(Received(i), j) \subseteq InFlight(net, j)
  BY <1>1, <1>2, ReadFrame, ReceivedFlight
<1>4. f \in PayloadFrame
  BY <1>2, <1>3, FrameCases
<1>5. Talk(rt, f.src, f.dst)
  BY <1>1, <1>2, <1>3 DEF NetPlain, FramesPlain, FramePlain
<1>6. f.dst \in Targets => i[1] = f.src \/ Known(rt[i[1]][f.src])
  <2>1. net[i] \in Seq(Frame) /\ 1 \in 1 .. Len(net[i]) /\ f = net[i][1]
    BY <1>1, <1>2
  <2>2. ~\E h \in 1 .. 1 - 1 : IsRREQ(net[i][h], net[i][1].src)
    OBVIOUS
  <2>3. net[i][1].type = "DATA" /\ net[i][1].dst \in Targets =>
          \/ i[1] = net[i][1].src
          \/ Known(rt[i[1]][net[i][1].src])
          \/ \E h \in 1 .. 1 - 1 : IsRREQ(net[i][h], net[i][1].src)
    BY <1>1, <2>1 DEF NetPlain, Ordered
  <2> QED
    BY <1>2, <2>1, <2>2, <2>3
<1>7. Onward(rt, b, net, rt, b, Received(i)) /\ Ordered(rt, Received(i))
  <2>1. f.type = "RREQ" => Known(rt[i[1]][f.src])
    BY <1>2
  <2>2. Ordered(rt, net) /\ Improves(rt, rt)
    BY <1>1, SameImproves DEF NetPlain
  <2> QED
    BY <1>1, <1>2, <2>1, <2>2, OnwardRead, OrderRead
<1>8. ReadPlain(rt, b, net, rt, b, Received(i))
  BY <1>1, <1>3, <1>7 DEF ReadPlain, NetPlain
<1> QED
  BY <1>3, <1>4, <1>5, <1>6, <1>8

\* A node relays a payload.
LEMMA RelayPayloadPlain ==
  ASSUME PlainInv, PlainNetwork, NEW i \in Attach, RelayPayload(i)
  PROVE  NetPlain(routing_table, broadcast_id, net')
<1> DEFINE n == i[1]
           rt == routing_table
           b == broadcast_id
<1>1. PICK f : f = Head(net[i])
  OBVIOUS
<1>2. PICK r : r = rt[n][f.dst]
  OBVIOUS
<1>3. Arrived(i, "DATA") /\ f.dst # n /\ SendAlong(n, r, f, Received(i))
  BY <1>1, <1>2 DEF RelayPayload
<1>4. /\ f \in PayloadFrame /\ FrameOK(rt, i, f) /\ Talk(rt, f.src, f.dst)
      /\ f.dst \in Targets => n = f.src \/ Known(rt[n][f.src])
      /\ ReadPlain(rt, b, net, rt, b, Received(i))
  BY <1>1, <1>3, PayloadRead
<1>5. f \in Frame /\ f.type = "DATA" /\ f.dst \in Node /\ f.src \in Node /\ n \in Node
  BY <1>4, AttachType DEF Frame, PayloadFrame
<1>6. Known(r)
  BY <1>2, <1>3, <1>4, <1>5 DEF FrameOK
<1>7. <<n, r.if>> \in Attach /\ r.mac \in Attach
  BY <1>2, <1>5, <1>6 DEF PlainInv, TimeTypes, TypeOK
<1>8. PICK g : g = [f EXCEPT !.from = <<n, r.if>>, !.to = r.mac]
  OBVIOUS
<1>9. g \in Frame
  BY <1>5, <1>7, <1>8, RelayedType
<1>10. g.type = "DATA" /\ g.src = f.src /\ g.dst = f.dst
  BY <1>4, <1>8 DEF PayloadFrame
<1>11. ASSUME NEW j \in Attach, j[2] = r.if
       PROVE  SentPlain(rt, b, Received(i), net', j, g)
  <2>1. ASSUME f.dst \in Targets PROVE Heard(rt, Received(i), f.src, j)
    <3>1. f.src \in ClientNodes /\ Known(rt[f.src][f.dst])
      BY <1>4, <2>1 DEF Talk, PlainNetwork
    <3>2. NetPlain(rt, b, net)
      BY DEF PlainInv
    <3>3. Heard(rt, net, f.src, j)
      BY <1>3, <1>4, <1>5, <1>7, <1>11, <2>1, <3>1, <3>2, NextHears
    <3>4. Onward(rt, b, net, rt, b, Received(i))
      BY <1>4 DEF ReadPlain
    <3> QED
      BY <1>5, <3>3, <3>4 DEF Onward
  <2> QED
    BY <1>4, <1>10, <2>1 DEF SentPlain, FramePlain
<1>12. /\ \A m \in Node, s \in ClientNodes : Known(rt[m][s]) => Known(rt[m][s])
       /\ \A j \in Attach : j[2] = r.if /\ j = g.to =>
            SentPlain(rt, b, Received(i), net', j, g)
       /\ ReadPlain(rt, b, net, rt, b, Received(i)) /\ g.type # "RREQ"
  BY <1>4, <1>10, <1>11
<1> HIDE DEF rt, b, n
<1>13. NetPlain(rt, b, net')
  BY ONLY <1>3, <1>6, <1>8, <1>9, <1>12, AlongPlain
<1> QED
  BY <1>13 DEF rt, b

\* The applications' queues when the tables improve.
LEMMA AppsOnward ==
  ASSUME TimeTypes, NEW rt, NEW new, Improves(rt, new)
  PROVE  /\ InboxPlain(rt, appq) => InboxPlain(new, appq)
         /\ ServersPlain(rt, server) => ServersPlain(new, server)
         /\ OutboxPlain(rt, odrq) => OutboxPlain(new, odrq)
<1>1. \A x, y \in Node : Answerable(rt, x, y) => Answerable(new, x, y)
  BY TalkOnward DEF Improves
<1>2. ASSUME NEW n \in Node, NEW p \in Path, NEW k \in 1 .. Len(appq[n][p])
      PROVE  appq[n][p][k].src \in Node
  <2>1. appq[n][p] \in Seq(DataMsg)
    BY DEF TimeTypes, TypeOK, DataMsg
  <2>2. appq[n][p][k] \in DataMsg
    BY <2>1
  <2> QED
    BY <2>2 DEF DataMsg
<1>3. \A n \in Node : server[n].src \in Node
  BY DEF TimeTypes, AppTypeOK
<1>4. ASSUME NEW n \in Node, NEW k \in 1 .. Len(odrq[n])
      PROVE  odrq[n][k].dst \in Node
  <2>1. odrq[n] \in Seq(LocalMsg)
    BY DEF TimeTypes, TypeOK
  <2>2. odrq[n][k] \in LocalMsg
    BY <2>1
  <2> QED
    BY <2>2, LocalMsgType
<1>5. InboxPlain(rt, appq) => InboxPlain(new, appq)
  BY <1>1, <1>2 DEF InboxPlain
<1>6. ServersPlain(rt, server) => ServersPlain(new, server)
  BY <1>1, <1>3 DEF ServersPlain
<1>7. OutboxPlain(rt, odrq) => OutboxPlain(new, odrq)
  BY <1>1, <1>4 DEF OutboxPlain, MsgPlain
<1> QED
  BY <1>5, <1>6, <1>7

\* A datagram joins or leaves a daemon's queue.
LEMMA OutboxChange ==
  ASSUME TimeTypes, NEW rt, OutboxPlain(rt, odrq), NEW n \in Node, NEW m,
         \/ odrq[n] # <<>> /\ odrq' = [odrq EXCEPT ![n] = Tail(@)]
         \/ /\ m \in LocalMsg /\ MsgPlain(rt, n, m)
            /\ odrq' = [odrq EXCEPT ![n] = Append(@, m)]
  PROVE  OutboxPlain(rt, odrq')
<1> SUFFICES ASSUME NEW a \in Node, NEW k \in 1 .. Len(odrq'[a])
             PROVE  MsgPlain(rt, a, odrq'[a][k])
  BY DEF OutboxPlain
<1>1. odrq \in [Node -> Seq(LocalMsg)] /\ odrq[n] \in Seq(LocalMsg)
  BY DEF TimeTypes, TypeOK
<1>2. CASE a # n
  <2>1. odrq'[a] = odrq[a]
    BY <1>1, <1>2
  <2> QED
    BY <2>1 DEF OutboxPlain
<1>3. CASE a = n /\ odrq[n] # <<>> /\ odrq' = [odrq EXCEPT ![n] = Tail(@)]
  <2>1. odrq'[a] = Tail(odrq[n]) /\ odrq[n] # <<>>
    BY <1>1, <1>3
  <2>2. k \in 1 .. Len(Tail(odrq[n]))
    BY ONLY <2>1, k \in 1 .. Len(odrq'[a])
  <2>3. k + 1 \in 1 .. Len(odrq[n]) /\ Tail(odrq[n])[k] = odrq[n][k + 1]
    BY ONLY <1>1, <2>1, <2>2
  <2> QED
    BY <1>3, <2>1, <2>3 DEF OutboxPlain
<1>4. CASE /\ a = n /\ m \in LocalMsg /\ MsgPlain(rt, n, m)
           /\ odrq' = [odrq EXCEPT ![n] = Append(@, m)]
  <2>1. odrq'[a] = Append(odrq[n], m)
    BY <1>1, <1>4
  <2>2. k \in 1 .. Len(Append(odrq[n], m))
    BY ONLY <2>1, k \in 1 .. Len(odrq'[a])
  <2>3. CASE k = Len(odrq[n]) + 1
    <3>1. odrq'[a][k] = m
      BY <1>1, <1>4, <2>1, <2>3
    <3> QED
      BY <1>4, <3>1
  <2>4. CASE k # Len(odrq[n]) + 1
    <3>1. k \in 1 .. Len(odrq[n]) /\ odrq'[a][k] = odrq[n][k]
      BY <1>1, <1>4, <2>1, <2>2, <2>4
    <3> QED
      BY <1>4, <3>1 DEF OutboxPlain
  <2> QED
    BY <2>3, <2>4
<1> QED
  BY <1>2, <1>3, <1>4

\* A daemon delivers what its application can answer.
LEMMA InboxDeliver ==
  ASSUME TimeTypes, NEW rt, InboxPlain(rt, appq), NEW n \in Node, NEW path,
         NEW data \in DataMsg, Answerable(rt, n, data.src), Deliver(n, path, data)
  PROVE  InboxPlain(rt, appq')
<1>1. appq \in [Node -> [Path -> Seq(DataMsg)]] /\ bound \subseteq Node \X Path
  BY DEF TimeTypes, TypeOK, DataMsg
<1>2. CASE <<n, path>> \notin bound
  BY <1>2 DEF Deliver
<1>3. CASE <<n, path>> \in bound
  <2> SUFFICES ASSUME NEW a \in Node, NEW p \in Path, NEW k \in 1 .. Len(appq'[a][p])
               PROVE  Answerable(rt, a, appq'[a][p][k].src)
    BY DEF InboxPlain
  <2>1. path \in Path /\ appq' = [appq EXCEPT ![n][path] = Append(@, data)]
    BY <1>1, <1>3 DEF Deliver
  <2>2. CASE ~(a = n /\ p = path)
    <3>1. appq'[a][p] = appq[a][p]
      BY <1>1, <2>1, <2>2
    <3> QED
      BY <3>1 DEF InboxPlain
  <2>3. CASE a = n /\ p = path
    <3>1. appq'[a][p] = Append(appq[n][path], data) /\ appq[n][path] \in Seq(DataMsg)
      BY <1>1, <2>1, <2>3
    <3>2. k \in 1 .. Len(Append(appq[n][path], data))
      BY ONLY <3>1, k \in 1 .. Len(appq'[a][p])
    <3>3. CASE k = Len(appq[n][path]) + 1
      <4>1. appq'[a][p][k] = data
        BY <3>1, <3>3
      <4> QED
        BY <2>3, <4>1
    <3>4. CASE k # Len(appq[n][path]) + 1
      <4>1. k \in 1 .. Len(appq[n][path]) /\ appq'[a][p][k] = appq[n][path][k]
        BY <3>1, <3>2, <3>4
      <4> QED
        BY <2>1, <2>3, <4>1 DEF InboxPlain
    <3> QED
      BY <3>3, <3>4
  <2> QED
    BY <2>2, <2>3
<1> QED
  BY <1>2, <1>3

\* An application takes a datagram, or ends.
LEMMA InboxTake ==
  ASSUME TimeTypes, NEW rt, InboxPlain(rt, appq), NEW n \in Node, NEW p \in Path,
         AppReceives(n, p) \/ AppExits(n, p)
  PROVE  InboxPlain(rt, appq')
<1>1. appq \in [Node -> [Path -> Seq(DataMsg)]] /\ appq[n][p] \in Seq(DataMsg)
  BY DEF TimeTypes, TypeOK, DataMsg
<1> SUFFICES ASSUME NEW a \in Node, NEW c \in Path, NEW k \in 1 .. Len(appq'[a][c])
             PROVE  Answerable(rt, a, appq'[a][c][k].src)
  BY DEF InboxPlain
<1>2. CASE a = n /\ c = p /\ AppReceives(n, p)
  <2>1. appq'[a][c] = Tail(appq[n][p]) /\ appq[n][p] # <<>>
    BY <1>1, <1>2 DEF AppReceives
  <2>2. k \in 1 .. Len(Tail(appq[n][p]))
    BY ONLY <2>1, k \in 1 .. Len(appq'[a][c])
  <2>3. k + 1 \in 1 .. Len(appq[n][p]) /\ Tail(appq[n][p])[k] = appq[n][p][k + 1]
    BY <1>1, <2>1, <2>2
  <2> QED
    BY <1>2, <2>1, <2>3 DEF InboxPlain
<1>3. CASE a = n /\ c = p /\ AppExits(n, p)
  <2>1. appq'[a][c] = <<>>
    BY <1>1, <1>3 DEF AppExits
  <2> QED
    BY <2>1
<1>4. CASE ~(a = n /\ c = p)
  <2>1. appq'[a][c] = appq[a][c]
    BY <1>1, <1>4 DEF AppReceives, AppExits
  <2> QED
    BY <2>1 DEF InboxPlain
<1> QED
  BY <1>2, <1>3, <1>4

\* A daemon handles a local datagram.
LEMMA LocalPlainStep ==
  ASSUME PlainInv, PlainNetwork, NEW n \in Node, HandleLocal(n), UNCHANGED appvars
  PROVE  PlainStep
<1> DEFINE rt == routing_table
<1>1. TimeTypes /\ TypeOK /\ NetPlain(rt, broadcast_id, net) /\ AppsPlain(rt, appq, server, odrq)
  BY DEF PlainInv, TimeTypes
<1>2. HasLocal(n) /\ TakeLocal(n) /\ UNCHANGED <<routing_table, appq, server>>
  BY DEF HandleLocal, ServerReply, ClientPayload, ClientDiscovery, ClientOverflow, appvars
<1>3. PICK m : m = Head(odrq[n])
  OBVIOUS
<1>4. m \in LocalMsg /\ odrq[n] \in Seq(LocalMsg) /\ odrq[n] # <<>>
  BY <1>1, <1>2, <1>3, TakeLocalType DEF HasLocal, TypeOK
<1>5. MsgPlain(rt, n, m)
  <2>1. 1 \in 1 .. Len(odrq[n]) /\ m = odrq[n][1]
    BY <1>3, <1>4
  <2> QED
    BY <1>1, <2>1 DEF AppsPlain, OutboxPlain
<1>6. /\ m.path \in Path /\ m.dst \in Node /\ m.port \in Ports /\ m.msg \in {"HI", "TIME"}
      /\ m.path # Server => m.path \in Client /\ n \in ClientNodes /\ m.dst \in Targets
  BY <1>4, <1>5, LocalMsgType DEF MsgPlain, Path
<1>7. odrq' = [odrq EXCEPT ![n] = Tail(@)]
  BY <1>2 DEF TakeLocal
<1>8. AppsPlain(rt, appq', server', odrq')
  <2>1. OutboxPlain(rt, odrq)
    BY <1>1 DEF AppsPlain
  <2>2. OutboxPlain(rt, odrq')
    BY <1>1, <1>4, <1>7, <2>1, OutboxChange
  <2> QED
    BY <1>1, <1>2, <2>2 DEF AppsPlain
<1>9. ASSUME NetPlain(rt, broadcast_id', net') PROVE PlainStep
  BY <1>2, <1>8, <1>9 DEF PlainStep
<1>10. CASE ServerReply(n)
  <2>1. m.path = Server /\ UNCHANGED broadcast_id
        /\ SendAlong(n, rt[n][m.dst],
                     Payload(n, m.dst, htonl(ServerPort), htonl(m.port), m.msg), net)
    BY <1>3, <1>10 DEF ServerReply
  <2>2. Answerable(rt, n, m.dst)
    BY <1>5, <2>1 DEF MsgPlain
  <2>3. htonl(ServerPort) \in Ports /\ htonl(m.port) \in Ports
    BY <1>6, PortFacts, PortType
  <2>4. NetPlain(rt, broadcast_id, net')
    BY <1>6, <2>1, <2>2, <2>3, PayloadPlain
  <2> QED
    BY <1>9, <2>1, <2>4
<1>11. PICK table : table = WithClient(n, m.path)
  OBVIOUS
<1>12. ASSUME m.path # Server, ~TableFull(n, m.path)
       PROVE  htonl(PortOf(table, m.path)) \in Ports
  <2> DEFINE p == PortOf(table, m.path)
  <2>1. p \in Ports
    BY <1>1, <1>6, <1>11, <1>12, WithClientType
  <2> HIDE DEF p
  <2>2. htonl(p) \in Ports
    BY <2>1, PortType
  <2> QED
    BY <2>2 DEF p
<1>13. CASE ClientPayload(n)
  <2>1. PICK sport : sport = htonl(PortOf(table, m.path))
    OBVIOUS
  <2>2. /\ m.path # Server /\ ~TableFull(n, m.path) /\ Known(rt[n][m.dst])
        /\ SendAlong(n, rt[n][m.dst], Payload(n, m.dst, sport, htonl(ServerPort), m.msg), net)
        /\ UNCHANGED broadcast_id
    BY <1>3, <1>11, <1>13, <2>1 DEF ClientPayload, RouteExists
  <2>3. sport \in Ports /\ htonl(ServerPort) \in Ports
    BY <1>12, <2>1, <2>2, PortFacts
  <2>4. Answerable(rt, n, m.dst)
    BY <1>6, <2>2 DEF Answerable, Talk
  <2>5. NetPlain(rt, broadcast_id, net')
    BY <1>6, <2>2, <2>3, <2>4, PayloadPlain
  <2> QED
    BY <1>9, <2>2, <2>5
<1>14. CASE ClientDiscovery(n)
  <2>1. PICK port : port = htonl(PortOf(table, m.path))
    OBVIOUS
  <2>2. PICK disc \in {0, 1} : disc = IF ReadFlag(m.flag, recvmsg[n]) = 1 THEN 1 ELSE 0
    OBVIOUS
  <2>3. /\ m.path # Server /\ ~TableFull(n, m.path)
        /\ broadcast_id' = [broadcast_id EXCEPT ![n] = @ + 1]
        /\ net' = Emit(net, n, Flood(n, InterfacesOf(n),
                                     RREQ(n, m.dst, port, broadcast_id[n] + 1, 0, 0, disc)))
    BY <1>3, <1>11, <1>14, <2>1, <2>2 DEF ClientDiscovery
  <2>4. port \in Ports
    BY <1>12, <2>1, <2>3
  <2>5. NetPlain(rt, broadcast_id', net')
    BY <1>6, <2>3, <2>4, DiscoveryPlain
  <2> QED
    BY <1>9, <2>5
<1>15. CASE ClientOverflow(n)
  BY <1>1, <1>9, <1>15 DEF ClientOverflow
<1> QED
  BY <1>10, <1>13, <1>14, <1>15 DEF HandleLocal

\* A daemon handles a frame.
LEMMA FramePlainStep ==
  ASSUME PlainInv, PlainNetwork, NEW i \in Attach, HandleFrame(i), UNCHANGED appvars
  PROVE  PlainStep
<1> DEFINE n == i[1]
           rt == routing_table
           b == broadcast_id
<1>1. TimeTypes /\ TypeOK /\ AppsPlain(rt, appq, server, odrq) /\ n \in Node /\ TablesOK(rt)
  BY AttachType DEF PlainInv, TimeTypes, TypeOK, TablesOK
<1>2. UNCHANGED <<broadcast_id, odrq, server>>
  BY DEF HandleFrame, HandleRREQ, RREQAtDestination, RREQAtKnowingNode, RREQAtOtherNode,
         RREPAtSource, RelayRREP, PayloadAtDestination, RelayPayload, appvars
<1>3. ASSUME UNCHANGED appq, Improves(rt, routing_table'), NetPlain(routing_table', b, net')
      PROVE  PlainStep
  BY <1>1, <1>2, <1>3, AppsOnward DEF PlainStep, AppsPlain
<1>4. ASSUME Improves(rt, routing_table'), NetPlain(routing_table', b, net'),
             NEW path, NEW data \in DataMsg, Answerable(routing_table', n, data.src),
             Deliver(n, path, data)
      PROVE  PlainStep
  <2>1. AppsPlain(routing_table', appq, server, odrq)
    BY <1>1, <1>4, AppsOnward DEF AppsPlain
  <2>2. InboxPlain(routing_table', appq')
    BY <1>1, <1>4, <2>1, InboxDeliver DEF AppsPlain
  <2> QED
    BY <1>2, <1>4, <2>1, <2>2 DEF PlainStep, AppsPlain
<1>5. CASE HandleRREQ(i)
  <2>1. UNCHANGED appq
    BY <1>5 DEF HandleRREQ, RREQAtDestination, RREQAtKnowingNode, RREQAtOtherNode
  <2> QED
    BY <1>3, <1>5, <2>1, RREQPlain
<1>6. CASE RREPAtSource(i)
  <2>1. PICK f : f = Head(net[i])
    OBVIOUS
  <2>2. PICK new : new = Forward(i, f)
    OBVIOUS
  <2>3. PICK d : d = Data("HI", f.src, ServerPort)
    OBVIOUS
  <2>4. /\ Arrived(i, "RREP") /\ f.dst = n /\ routing_table' = new /\ net' = Received(i)
        /\ Deliver(n, Addressee(n, f.port), d)
    BY <1>6, <2>1, <2>2, <2>3 DEF RREPAtSource
  <2>5. /\ f \in RREPFrame /\ FramePlain(rt, b, i, f)
        /\ Improves(rt, new) /\ Known(new[n][f.src])
        /\ \A m \in Node, s \in ClientNodes : new[m][s] = rt[m][s]
        /\ ReadPlain(rt, b, net, new, b, Received(i))
    BY <2>1, <2>2, <2>4, ForwardPlain
  <2>6. NetPlain(new, b, Received(i))
    BY <2>5, SilentPlain
  <2>7. f.type = "RREP" /\ f.src \in Node
    BY <2>5 DEF RREPFrame
  <2>8. n \in ClientNodes /\ f.src \in Targets
    BY <2>4, <2>5, <2>7 DEF FramePlain, Issued
  <2>9. Answerable(new, n, f.src)
    BY <2>5, <2>8 DEF Answerable, Talk
  <2>10. d \in DataMsg /\ d.src = f.src
    BY <2>3, <2>7, PortFacts DEF Data, DataMsg
  <2> QED
    BY <1>4, <2>4, <2>5, <2>6, <2>9, <2>10
<1>7. CASE RelayRREP(i)
  <2>1. UNCHANGED appq
    BY <1>7 DEF RelayRREP
  <2> QED
    BY <1>3, <1>7, <2>1, RelayRREPPlain
<1>8. CASE PayloadAtDestination(i)
  <2>1. PICK f : f = Head(net[i])
    OBVIOUS
  <2>2. PICK d : d = Data(f.msg, f.src, f.sport)
    OBVIOUS
  <2>3. /\ Arrived(i, "DATA") /\ f.dst = n /\ UNCHANGED routing_table /\ net' = Received(i)
        /\ Deliver(n, Addressee(n, f.dport), d)
    BY <1>8, <2>1, <2>2 DEF PayloadAtDestination
  <2>4. /\ f \in PayloadFrame /\ Talk(rt, f.src, f.dst)
        /\ f.dst \in Targets => n = f.src \/ Known(rt[n][f.src])
        /\ ReadPlain(rt, b, net, rt, b, Received(i))
    BY <2>1, <2>3, PayloadRead
  <2>5. NetPlain(rt, b, Received(i))
    BY <2>4, SilentPlain
  <2>6. Answerable(rt, n, f.src)
    BY <2>3, <2>4 DEF Talk, Answerable, PlainNetwork
  <2>7. d \in DataMsg /\ d.src = f.src
    BY <2>2, <2>4 DEF PayloadFrame, Data, DataMsg
  <2>8. Improves(rt, rt)
    BY <1>1, SameImproves
  <2> QED
    BY <1>4, <2>3, <2>5, <2>6, <2>7, <2>8
<1>9. CASE RelayPayload(i)
  <2>1. UNCHANGED <<appq, routing_table>>
    BY <1>9 DEF RelayPayload
  <2>2. Improves(rt, rt)
    BY <1>1, SameImproves
  <2> QED
    BY <1>3, <1>9, <2>1, <2>2, RelayPayloadPlain
<1> QED
  BY <1>5, <1>6, <1>7, <1>8, <1>9 DEF HandleFrame

\* The programs.
LEMMA ProgramPlainStep ==
  ASSUME PlainInv,
         \/ \E a \in Clients : ClientStep(a)
         \/ \E n \in Node : ServerStep(n)
         \/ \E a \in Running : Quit(a)
  PROVE  PlainStep
<1> DEFINE rt == routing_table
<1>1. /\ TimeTypes /\ Server \in Path /\ UNCHANGED <<routing_table, broadcast_id, net>>
      /\ NetPlain(rt, broadcast_id, net) /\ InboxPlain(rt, appq) /\ ServersPlain(rt, server)
      /\ OutboxPlain(rt, odrq)
  BY DEF PlainInv, AppsPlain, Path, ClientStep, Ask, TimeOut, TakeAnswer, ClientFails, ServerStep,
         ServerReceives, ServerSends, ServerFails, Quit, AppSends, AppReceives, AppExits
<1>2. server \in [Node -> [pc : {"recv", "send", "done"}, src : Node, port : Ports]]
  BY <1>1 DEF TimeTypes, AppTypeOK
<1>3. ASSUME NEW n \in Node, NEW pc \in {"recv", "done"}, server' = [server EXCEPT ![n].pc = pc]
      PROVE  ServersPlain(rt, server')
  <2> SUFFICES ASSUME NEW a \in Node, server'[a].pc = "send"
               PROVE  Answerable(rt, a, server'[a].src)
    BY DEF ServersPlain
  <2>1. a # n /\ server'[a] = server[a]
    BY <1>2, <1>3
  <2> QED
    BY <1>1, <2>1 DEF ServersPlain
<1>4. ASSUME InboxPlain(rt, appq'), ServersPlain(rt, server'), OutboxPlain(rt, odrq')
      PROVE  PlainStep
  BY <1>1, <1>4 DEF PlainStep, AppsPlain
<1>5. ASSUME NEW n \in Node, NEW m \in LocalMsg, AppSends(n, m), MsgPlain(rt, n, m)
      PROVE  InboxPlain(rt, appq') /\ OutboxPlain(rt, odrq')
  <2>1. odrq' = [odrq EXCEPT ![n] = Append(@, m)] /\ UNCHANGED appq
    BY <1>5 DEF AppSends
  <2>2. OutboxPlain(rt, odrq')
    BY <1>1, <1>5, <2>1, OutboxChange
  <2> QED
    BY <1>1, <2>1, <2>2
<1>6. ASSUME NEW n \in Node, NEW p \in Path, AppReceives(n, p) \/ AppExits(n, p)
      PROVE  InboxPlain(rt, appq') /\ OutboxPlain(rt, odrq')
  <2>1. UNCHANGED odrq
    BY <1>6 DEF AppReceives, AppExits
  <2>2. InboxPlain(rt, appq')
    BY <1>1, <1>6, InboxTake
  <2> QED
    BY <1>1, <2>1, <2>2
<1>7. ASSUME NEW a \in Clients, NEW d \in Targets, Ask(a, d) PROVE PlainStep
  <2>1. a[1] \in Node /\ a[2] \in Client /\ d \in Node /\ 0 \in Flags /\ a[1] \in ClientNodes
    BY ProgramTypes, PlainNames, RetryAssumption
  <2>2. PICK m : m = Request(a[2], d, 0)
    OBVIOUS
  <2>3. m \in LocalMsg /\ m.path = a[2] /\ m.dst = d
    BY <2>1, <2>2, RequestType DEF Request
  <2>4. AppSends(a[1], m) /\ UNCHANGED server
    BY <1>7, <2>2 DEF Ask
  <2>5. MsgPlain(rt, a[1], m)
    BY <2>1, <2>3, PathAssumption DEF MsgPlain
  <2> QED
    BY <1>1, <1>4, <1>5, <2>1, <2>3, <2>4, <2>5
<1>8. ASSUME NEW a \in Clients, TimeOut(a) PROVE PlainStep
  <2>1. a[1] \in Node /\ a[2] \in Client /\ a[1] \in ClientNodes
    BY ProgramTypes, PlainNames
  <2>2. client[a].dst \in Node /\ client[a].dst \in Targets /\ 1 \in Flags
    BY <1>1, <1>8, UserAssumption, RetryAssumption
    DEF PlainInv, AskedPlain, TimeOut, TimeTypes, AppTypeOK
  <2>3. PICK m : m = Request(a[2], client[a].dst, 1)
    OBVIOUS
  <2>4. m \in LocalMsg /\ m.path = a[2] /\ m.dst = client[a].dst
    BY <2>1, <2>2, <2>3, RequestType DEF Request
  <2>5. AppSends(a[1], m) /\ UNCHANGED server
    BY <1>8, <2>3 DEF TimeOut
  <2>6. MsgPlain(rt, a[1], m)
    BY <2>1, <2>2, <2>4, PathAssumption DEF MsgPlain
  <2> QED
    BY <1>1, <1>4, <1>5, <2>1, <2>4, <2>5, <2>6
<1>9. ASSUME NEW a \in Clients, TakeAnswer(a) \/ ClientFails(a) PROVE PlainStep
  <2>1. a[1] \in Node /\ a[2] \in Path /\ UNCHANGED server
        /\ (AppReceives(a[1], a[2]) \/ AppExits(a[1], a[2]))
    BY <1>9, ProgramTypes DEF TakeAnswer, ClientFails
  <2> QED
    BY <1>1, <1>4, <1>6, <2>1
<1>10. ASSUME NEW n \in Node, ServerReceives(n) PROVE PlainStep
  <2>1. PICK m : m = Head(appq[n][Server])
    OBVIOUS
  <2>2. appq[n][Server] \in Seq(DataMsg) /\ appq[n][Server] # <<>>
    BY <1>1, <1>10 DEF TimeTypes, TypeOK, DataMsg, ServerReceives, AppReceives
  <2>3. 1 \in 1 .. Len(appq[n][Server]) /\ m = appq[n][Server][1]
    BY <2>1, <2>2
  <2>4. Answerable(rt, n, m.src)
    BY <1>1, <2>3 DEF InboxPlain
  <2>5. server' = [server EXCEPT ![n] = [pc |-> "send", src |-> m.src, port |-> m.port]]
        /\ AppReceives(n, Server)
    BY <1>10, <2>1 DEF ServerReceives
  <2>6. ServersPlain(rt, server')
    BY <1>1, <1>2, <2>4, <2>5 DEF ServersPlain
  <2> QED
    BY <1>1, <1>4, <1>6, <2>5, <2>6
<1>11. ASSUME NEW n \in Node, ServerSends(n) PROVE PlainStep
  <2>1. PICK m : m = Reply(server[n])
    OBVIOUS
  <2>2. m \in LocalMsg /\ m.path = Server /\ m.dst = server[n].src
    BY <1>2, <2>1, ReplyType DEF Reply
  <2>3. AppSends(n, m) /\ server' = [server EXCEPT ![n].pc = "recv"] /\ server[n].pc = "send"
    BY <1>11, <2>1 DEF ServerSends
  <2>4. MsgPlain(rt, n, m)
    BY <1>1, <2>2, <2>3 DEF ServersPlain, MsgPlain
  <2>5. ServersPlain(rt, server')
    BY <1>3, <2>3
  <2> QED
    BY <1>4, <1>5, <2>2, <2>3, <2>4, <2>5
<1>12. ASSUME NEW n \in Node, ServerFails(n) PROVE PlainStep
  <2>1. AppExits(n, Server) /\ ServersPlain(rt, server')
    BY <1>3, <1>12 DEF ServerFails
  <2> QED
    BY <1>1, <1>4, <1>6, <2>1
<1>13. ASSUME NEW a \in Running, Quit(a) PROVE PlainStep
  <2>1. a[1] \in Node /\ a[2] \in Path /\ AppExits(a[1], a[2])
    BY <1>13, ProgramTypes DEF Quit
  <2>2. ServersPlain(rt, server')
    BY <1>1, <1>3, <1>13, <2>1 DEF Quit
  <2> QED
    BY <1>4, <1>6, <2>1, <2>2
<1> QED
  BY <1>7, <1>8, <1>9, <1>10, <1>11, <1>12, <1>13 DEF ClientStep, ServerStep

\* Clients wait for named nodes.
LEMMA AskedPlainStep ==
  ASSUME TimeTypes, AskedPlain, [TimeNext]_allvars
  PROVE  AskedPlain'
<1> DEFINE Place == [pc : {"prompt", "wait", "done"}, dst : Node,
                     asked : 0 .. MaxAsk, tries : 0 .. MaxRetry]
<1>1. client \in [Clients -> Place]
  BY DEF TimeTypes, AppTypeOK
<1>2. CASE UNCHANGED client
  BY <1>2 DEF AskedPlain
<1>3. ASSUME NEW a \in Clients, NEW x, client' = [client EXCEPT ![a] = x],
             x.pc = "wait" => x.dst \in Targets
      PROVE  AskedPlain'
  <2> HIDE DEF Place
  <2> QED
    BY <1>1, <1>3 DEF AskedPlain
<1>4. ASSUME NEW a \in Clients, NEW d \in Targets, Ask(a, d) PROVE AskedPlain'
  <2> DEFINE x == [pc |-> "wait", dst |-> d, asked |-> client[a].asked + 1, tries |-> 0]
  <2>1. client' = [client EXCEPT ![a] = x] /\ x.dst = d
    BY <1>4 DEF Ask
  <2> HIDE DEF x
  <2> QED
    BY <1>3, <2>1
<1>5. ASSUME NEW a \in Clients, TimeOut(a) PROVE AskedPlain'
  <2> DEFINE x == [client[a] EXCEPT !.tries = @ + 1]
  <2>1. client[a] \in Place
    BY <1>1
  <2>2. client' = [client EXCEPT ![a] = x] /\ x.dst = client[a].dst /\ x.pc = client[a].pc
    BY <1>1, <1>5, <2>1 DEF TimeOut
  <2> HIDE DEF x
  <2> QED
    BY <1>3, <2>2 DEF AskedPlain
<1>6. ASSUME NEW a \in Clients, NEW pc \in {"prompt", "done"},
             client' = [client EXCEPT ![a].pc = pc]
      PROVE  AskedPlain'
  <2> DEFINE x == [client[a] EXCEPT !.pc = pc]
  <2>1. client[a] \in Place
    BY <1>1
  <2>2. client' = [client EXCEPT ![a] = x] /\ x.pc = pc
    BY <1>1, <1>6, <2>1
  <2> HIDE DEF x
  <2> QED
    BY <1>3, <2>2
<1> QED
  BY <1>2, <1>4, <1>5, <1>6 DEF TimeNext, ClientStep, TakeAnswer, ClientFails, ServerStep,
     ServerReceives, ServerSends, ServerFails, Quit, allvars, appvars

LEMMA PlainInvStep ==
  PlainNetwork /\ ~Lossy /\ PlainInv /\ [TimeNext]_allvars => PlainInv'
<1> SUFFICES ASSUME PlainNetwork, ~Lossy, PlainInv, [TimeNext]_allvars PROVE PlainInv'
  OBVIOUS
<1>1. TimeTypes' /\ [Next]_vars
  BY TimeTypeStep DEF PlainInv
<1>2. RouteInv'
  BY <1>1, RouteInvStep DEF PlainInv
<1>3. AskedPlain'
  BY AskedPlainStep DEF PlainInv
<1>4. ~\E i \in Attach : LoseFrame(i)
  BY DEF LoseFrame
<1>5. ASSUME UNCHANGED allvars PROVE PlainStep
  BY <1>5 DEF allvars, vars, appvars, PlainInv, PlainStep
<1>6. PlainStep
  BY <1>4, <1>5, LocalPlainStep, FramePlainStep, ProgramPlainStep DEF TimeNext, Daemons, appvars
<1> QED
  BY <1>1, <1>2, <1>3, <1>6 DEF PlainInv, PlainStep

\* Nothing is under way and nothing is known at the start.
LEMMA PlainInit == TimeInit => PlainInv
<1> SUFFICES ASSUME TimeInit PROVE PlainInv
  OBVIOUS
<1>1. TimeTypes /\ RouteInv
  BY TimeTypeInit, RouteInit DEF TimeInit
<1>2. \A j \in Attach : net[j] = <<>> /\ InFlight(net, j) = {}
  BY DEF TimeInit, Init, InFlight
<1>3. /\ \A n \in Node : odrq[n] = <<>> /\ broadcast_id[n] = 0
      /\ \A n \in Node, p \in Path : appq[n][p] = <<>>
      /\ \A n, d \in Node : ~Known(routing_table[n][d]) /\ routing_table[n][d].bid \in GarbageId
  BY DEF TimeInit, Init, Known
<1>4. FramesPlain(routing_table, broadcast_id, net) /\ FloodsOK(routing_table, net)
  BY <1>2 DEF FramesPlain, FloodsOK
<1>5. TablesPlain(routing_table, broadcast_id) /\ Knowing(routing_table, broadcast_id, net)
  BY <1>3, PlainNames DEF TablesPlain, Knowing
<1>6. Ordered(routing_table, net)
  BY <1>2 DEF Ordered
<1>7. AppsPlain(routing_table, appq, server, odrq) /\ AskedPlain
  BY <1>3 DEF TimeInit, AppInit, AppsPlain, InboxPlain, ServersPlain, OutboxPlain, AskedPlain
<1> QED
  BY <1>1, <1>4, <1>5, <1>6, <1>7 DEF PlainInv, NetPlain

\* A server's answer, when its daemon reads it, can be sent.
LEMMA PlainServers == PlainInv => ServerHasRoute
<1> SUFFICES ASSUME PlainInv, NEW n \in Node, odrq[n] # <<>>, Head(odrq[n]).path = Server
             PROVE  Known(routing_table[n][Head(odrq[n]).dst])
  BY DEF ServerHasRoute
<1>1. odrq[n] \in Seq(LocalMsg)
  BY DEF PlainInv, TimeTypes, TypeOK
<1>2. 1 \in 1 .. Len(odrq[n]) /\ Head(odrq[n]) = odrq[n][1]
  BY <1>1
<1>3. MsgPlain(routing_table, n, Head(odrq[n]))
  BY <1>2 DEF PlainInv, AppsPlain, OutboxPlain
<1> QED
  BY <1>3 DEF MsgPlain, Answerable

----------------------------------------------------------------------------
(* No daemon ends *)

LocalClients(n) == {c \in Client : <<n, c>> \in Running}

\* port_table has an entry for every client of a node, besides the server's.
Room ==
  \A n \in Node : IsFiniteSet(LocalClients(n)) /\ Cardinality(LocalClients(n)) < PortSlots

\* No client has two entries.
PortsDistinct ==
  \A n \in Node : \A j, k \in 1 .. Len(port_table[n]) :
    port_table[n][j] = port_table[n][k] => j = k

UpInv == ContainInv /\ PlainInv /\ AllUp /\ bound = Running /\ PortsDistinct

\* What a step has to show besides ContainInv and PlainInv.
UpStep == UNCHANGED <<status, bound>> /\ PortsDistinct'

\* A client that is not in port_table finds an entry in it.
LEMMA ClientHasEntry ==
  ASSUME TypeOK, PeersOK, PortsDistinct, Room, NEW n \in Node, NEW c \in LocalClients(n)
  PROVE  ~TableFull(n, c)
<1> SUFFICES ASSUME ~Entered(n, c), Len(port_table[n]) = PortSlots - 1 PROVE FALSE
  BY DEF TableFull
<1>1. PICK t : t = port_table[n]
  OBVIOUS
<1>2. PICK N : N = PortSlots
  OBVIOUS
<1>3. N \in Nat /\ N > 0 /\ t \in Seq(Client) /\ Len(t) = N - 1
  BY <1>1, <1>2, PortAssumption DEF TypeOK
<1>4. /\ \A k \in 1 .. N - 1 : t[k] \in LocalClients(n) /\ t[k] # c
      /\ \A j, k \in 1 .. N - 1 : t[j] = t[k] => j = k
  <2>1. ASSUME NEW k \in 1 .. N - 1 PROVE t[k] \in LocalClients(n) /\ t[k] # c
    <3>1. k \in 1 .. Len(port_table[n])
      BY <1>1, <1>3
    <3>2. t[k] \in Client
      BY <1>3
    <3>3. <<n, t[k]>> \in Running
      BY <1>1, <3>1 DEF PeersOK
    <3> QED
      BY <1>1, <3>1, <3>2, <3>3 DEF Entered, LocalClients
  <2>2. \A j, k \in 1 .. N - 1 : t[j] = t[k] => j = k
    BY <1>1, <1>3 DEF PortsDistinct
  <2> QED
    BY <2>1, <2>2
<1> DEFINE S == 1 .. N
           T == LocalClients(n)
           f == [k \in S |-> IF k = N THEN c ELSE t[k]]
<1>5. f \in [S -> T] /\ \A x, y \in S : x # y => f[x] # f[y]
  BY <1>3, <1>4
<1>6. IsFiniteSet(S) /\ Cardinality(S) = N
  <2>1. /\ IsFiniteSet(S)
        /\ Cardinality(S) = IF 1 > N THEN 0 ELSE N - 1 + 1
    BY <1>3, FS_Interval, 1 \in Int, N \in Int
  <2> QED
    BY <1>3, <2>1
<1>7. IsFiniteSet(T) /\ Cardinality(T) < N
  BY <1>2 DEF Room
<1> HIDE DEF S, T, f
<1>8. PICK x \in S, y \in S : x # y /\ f[x] = f[y]
  BY <1>5, <1>6, <1>7, FS_PigeonHole
<1> QED
  BY <1>5, <1>8

\* A new client's entry is a new one.
LEMMA EntryDistinct ==
  ASSUME TypeOK, PortsDistinct, NEW n \in Node, NEW c \in Client,
         port_table' = [port_table EXCEPT ![n] = WithClient(n, c)]
  PROVE  PortsDistinct'
<1>1. port_table \in [Node -> Seq(Client)]
  BY DEF TypeOK
<1> SUFFICES ASSUME NEW a \in Node, NEW j \in 1 .. Len(port_table'[a]),
                    NEW k \in 1 .. Len(port_table'[a]), port_table'[a][j] = port_table'[a][k]
             PROVE  j = k
  BY DEF PortsDistinct
<1>2. CASE a # n \/ Entered(n, c)
  <2>1. port_table'[a] = port_table[a]
    BY <1>1, <1>2 DEF WithClient
  <2> QED
    BY <2>1 DEF PortsDistinct
<1>3. CASE a = n /\ ~Entered(n, c)
  <2>1. PICK t : t = port_table[n]
    OBVIOUS
  <2>2. PICK l : l = Len(t)
    OBVIOUS
  <2>3. t \in Seq(Client) /\ l \in Nat /\ port_table'[a] = Append(t, c)
    BY <1>1, <1>3, <2>1, <2>2 DEF WithClient
  <2>4. /\ \A x \in 1 .. l : t[x] # c
        /\ \A x, y \in 1 .. l : t[x] = t[y] => x = y
    BY <1>3, <2>1, <2>2 DEF Entered, PortsDistinct
  <2>5. /\ \A x \in 1 .. l : Append(t, c)[x] = t[x]
        /\ Append(t, c)[l + 1] = c /\ Len(Append(t, c)) = l + 1
    BY <2>2, <2>3
  <2>6. j \in 1 .. l + 1 /\ k \in 1 .. l + 1 /\ Append(t, c)[j] = Append(t, c)[k]
    BY <2>3, <2>5
  <2>7. (j \in 1 .. l \/ j = l + 1) /\ (k \in 1 .. l \/ k = l + 1)
    BY ONLY <2>3, <2>6
  <2> QED
    BY ONLY <2>4, <2>5, <2>6, <2>7
<1> QED
  BY <1>2, <1>3

\* A daemon handles a local datagram.
LEMMA LocalUpStep ==
  ASSUME UpInv, Room, NEW n \in Node, HandleLocal(n)
  PROVE  UpStep
<1>1. TypeOK /\ ReachInv /\ PortsDistinct /\ ServerHasRoute
  BY PlainServers DEF UpInv, ContainInv, TimeTypes
<1>2. HasLocal(n) /\ UNCHANGED bound
  BY DEF HandleLocal, ServerReply, ClientPayload, ClientDiscovery, ClientOverflow
<1>3. PICK m : m = Head(odrq[n])
  OBVIOUS
<1>4. m \in LocalMsg /\ odrq[n] \in Seq(LocalMsg) /\ odrq[n] # <<>>
  BY <1>1, <1>2, <1>3, TakeLocalType DEF HasLocal, TypeOK
<1>5. <<n, m.path>> \in Running
  <2>1. 1 \in 1 .. Len(odrq[n]) /\ m = odrq[n][1]
    BY <1>3, <1>4
  <2> QED
    BY <1>1, <2>1 DEF ReachInv, OutboxOK, LocalOK
<1>6. m.path # Server => m.path \in Client /\ m.path \in LocalClients(n)
  BY <1>4, <1>5, LocalMsgType DEF LocalClients, Path
<1>7. ASSUME UNCHANGED port_table PROVE PortsDistinct'
  BY <1>1, <1>7 DEF PortsDistinct
<1>8. CASE ServerReply(n)
  <2>1. m.path = Server /\ UNCHANGED port_table
        /\ \E f : SendAlong(n, routing_table[n][m.dst], f, net)
    BY <1>3, <1>8 DEF ServerReply
  <2>2. Known(routing_table[n][m.dst])
    BY <1>1, <1>3, <1>4, <2>1 DEF ServerHasRoute
  <2>3. UNCHANGED status
    BY <2>1, <2>2 DEF SendAlong
  <2> QED
    BY <1>2, <1>7, <2>1, <2>3 DEF UpStep
<1>9. CASE ClientPayload(n)
  <2>1. /\ m.path # Server /\ Known(routing_table[n][m.dst])
        /\ \E f : SendAlong(n, routing_table[n][m.dst], f, net)
        /\ port_table' = [port_table EXCEPT ![n] = WithClient(n, m.path)]
    BY <1>3, <1>9 DEF ClientPayload, RouteExists
  <2>2. UNCHANGED status
    BY <2>1 DEF SendAlong
  <2> QED
    BY <1>1, <1>2, <1>6, <2>1, <2>2, EntryDistinct DEF UpStep
<1>10. CASE ClientDiscovery(n)
  <2>1. /\ m.path # Server /\ UNCHANGED status
        /\ port_table' = [port_table EXCEPT ![n] = WithClient(n, m.path)]
    BY <1>3, <1>10 DEF ClientDiscovery
  <2> QED
    BY <1>1, <1>2, <1>6, <2>1, EntryDistinct DEF UpStep
<1>11. CASE ClientOverflow(n)
  <2>1. m.path # Server /\ TableFull(n, m.path)
    BY <1>3, <1>11 DEF ClientOverflow
  <2> QED
    BY <1>1, <1>6, <2>1, ClientHasEntry DEF ReachInv
<1> QED
  BY <1>8, <1>9, <1>10, <1>11 DEF HandleLocal

\* A daemon handles a frame.
LEMMA FrameUpStep ==
  ASSUME UpInv, NEW i \in Attach, HandleFrame(i)
  PROVE  UpStep
<1> DEFINE n == i[1]
<1>1. TypeOK /\ ReachInv /\ RouteInv /\ PortsDistinct /\ bound = Running /\ n \in Node
  BY AttachType DEF UpInv, ContainInv, TimeTypes
<1>2. net[i] # <<>> /\ UNCHANGED <<bound, port_table>>
  BY DEF HandleFrame, HandleRREQ, RREQAtDestination, RREQAtKnowingNode, RREQAtOtherNode,
         RREPAtSource, RelayRREP, PayloadAtDestination, RelayPayload, Arrived
<1>3. PortsDistinct'
  BY <1>1, <1>2 DEF PortsDistinct
<1>4. PICK f : f = Head(net[i])
  OBVIOUS
<1>5. f \in Frame /\ FrameOK(routing_table, i, f) /\ f \in InFlight(net, i)
  BY <1>1, <1>2, <1>4, ReadFrame, ReceivedFlight DEF TypeOK
<1>6. Promise(localaddr, f) /\ f.dst \in Node
  BY <1>1, <1>5, FrameCases DEF ReachInv, PromisesOK
<1>7. ASSUME NEW port \in Ports, Reach(localaddr, n, ntohl(port)), NEW data,
             Deliver(n, Addressee(n, port), data)
      PROVE  UNCHANGED status
  <2>1. <<n, Addressee(n, port)>> \in bound
    BY <1>1, <1>7, AddresseeRuns
  <2> QED
    BY <1>7, <2>1 DEF Deliver
<1>8. CASE HandleRREQ(i)
  BY <1>2, <1>3, <1>8
  DEF HandleRREQ, RREQAtDestination, RREQAtKnowingNode, RREQAtOtherNode, UpStep
<1>9. CASE RREPAtSource(i)
  <2>1. /\ f.type = "RREP" /\ f.dst = n
        /\ \E data : Deliver(n, Addressee(n, f.port), data)
    BY <1>4, <1>9 DEF RREPAtSource, Arrived
  <2>2. f.port \in Ports /\ Reach(localaddr, n, ntohl(f.port))
    BY <1>5, <1>6, <2>1, FrameCases DEF Promise, RREPFrame
  <2> QED
    BY <1>2, <1>3, <1>7, <2>1, <2>2 DEF UpStep
<1>10. CASE RelayRREP(i)
  <2>1. PICK new : new = Forward(i, f)
    OBVIOUS
  <2>2. /\ f.type = "RREP" /\ f.dst # n
        /\ \E g : SendAlong(n, new[n][f.dst], g, Received(i))
    BY <1>4, <1>10, <2>1 DEF RelayRREP, Arrived
  <2>3. Improves(routing_table, new)
    BY <1>1, <1>5, <2>1, <2>2, ForwardFacts
  <2>4. Known(new[n][f.dst])
    BY <1>1, <1>5, <1>6, <2>2, <2>3 DEF FrameOK, Improves
  <2>5. UNCHANGED status
    BY <2>2, <2>4 DEF SendAlong
  <2> QED
    BY <1>2, <1>3, <2>5 DEF UpStep
<1>11. CASE PayloadAtDestination(i)
  <2>1. /\ f.type = "DATA" /\ f.dst = n
        /\ \E data : Deliver(n, Addressee(n, f.dport), data)
    BY <1>4, <1>11 DEF PayloadAtDestination, Arrived
  <2>2. f.dport \in Ports /\ Reach(localaddr, n, ntohl(f.dport))
    BY <1>5, <1>6, <2>1, FrameCases DEF Promise, PayloadFrame
  <2> QED
    BY <1>2, <1>3, <1>7, <2>1, <2>2 DEF UpStep
<1>12. CASE RelayPayload(i)
  <2>1. /\ f.type = "DATA" /\ f.dst # n
        /\ \E g : SendAlong(n, routing_table[n][f.dst], g, Received(i))
    BY <1>4, <1>12 DEF RelayPayload, Arrived
  <2>2. Known(routing_table[n][f.dst])
    BY <1>5, <2>1 DEF FrameOK
  <2>3. UNCHANGED status
    BY <2>1, <2>2 DEF SendAlong
  <2> QED
    BY <1>2, <1>3, <2>3 DEF UpStep
<1> QED
  BY <1>8, <1>9, <1>10, <1>11, <1>12 DEF HandleFrame

\* The programs: none ends, because no daemon has and no user ends one.
LEMMA ProgramUpStep ==
  ASSUME UpInv, ~Quits,
         \/ \E a \in Clients : ClientStep(a)
         \/ \E n \in Node : ServerStep(n)
         \/ \E a \in Running : Quit(a)
  PROVE  UpStep
<1>1. \A n \in Node : status[n] # "exited"
  BY DEF UpInv, AllUp, Up
<1>2. \A a \in Clients : a[1] \in Node
  BY ProgramTypes
<1>3. UNCHANGED <<status, bound, port_table>>
  BY <1>1, <1>2 DEF ClientStep, Ask, TimeOut, TakeAnswer, ClientFails, ServerStep,
     ServerReceives, ServerSends, ServerFails, Quit, AppSends, AppReceives
<1> QED
  BY <1>3 DEF UpInv, UpStep, PortsDistinct

LEMMA UpInvStep ==
  /\ ServersRun /\ PlainNetwork /\ Room /\ ~Lossy /\ ~Quits
  /\ UpInv /\ [TimeNext]_allvars
  => UpInv'
<1> SUFFICES ASSUME ServersRun, PlainNetwork, Room, ~Lossy, ~Quits, UpInv, [TimeNext]_allvars
             PROVE  UpInv'
  OBVIOUS
<1>1. ContainInv' /\ PlainInv'
  BY ContainInvStep, PlainInvStep DEF UpInv
<1>2. ~\E i \in Attach : LoseFrame(i)
  BY DEF LoseFrame
<1>3. ASSUME UNCHANGED allvars PROVE UpStep
  BY <1>3 DEF allvars, vars, UpInv, UpStep, PortsDistinct
<1>4. UpStep
  BY <1>2, <1>3, LocalUpStep, FrameUpStep, ProgramUpStep DEF TimeNext, Daemons
<1> QED
  BY <1>1, <1>4 DEF UpInv, UpStep, AllUp, Up

LEMMA UpInit == TimeInit => UpInv
<1> SUFFICES ASSUME TimeInit PROVE UpInv
  OBVIOUS
<1>1. AllUp /\ bound = Running /\ PortsDistinct
  BY DEF TimeInit, Init, AllUp, Up, PortsDistinct
<1> QED
  BY <1>1, ContainInit, PlainInit DEF UpInv

----------------------------------------------------------------------------
(* Theorems *)

\* The variables of clients and servers keep their types, for every network and
\* any number of clients, requests and time-outs: what a server reads from a
\* datagram is a node and a port it can answer.
THEOREM AppTypeCorrect == TimeSpec => []AppTypeOK
<1>1. TimeTypes => AppTypeOK
  BY DEF TimeTypes
<1> QED
  BY <1>1, TimeTypesHold, PTL

\* The client and server programs use the daemons only in ways module ODR allows:
\* every behaviour of the time service is one of ODR.
THEOREM TimeImplementsODR == TimeSpec => ODRSpec
<1>1. TimeInit => Init
  BY DEF TimeInit
<1> QED
  BY <1>1, TimeTypesHold, TimeTypeStep, PTL DEF TimeSpec, ODRSpec, Spec

\* Theorem: under the time service too, a daemon that is given a RREP or a payload
\* to relay has a route for it.
THEOREM RelaysHaveRoutesInService == TimeSpec => []RelayHasRoute
  BY TimeImplementsODR, RelaysHaveRoutes, PTL DEF ODRSpec

\* If users name nodes that run a server, the daemon of a node without a server ends
\* only after an application of that node has: whatever is lost, whoever ends
\* elsewhere, whichever port_table is full, and although ports are converted once
\* too often, what arrives always finds a program that was started on the node.
THEOREM FailuresAreContained == ServersRun => (TimeSpec => []Contained)
<1> SUFFICES ASSUME ServersRun PROVE TimeSpec => []Contained
  OBVIOUS
<1>1. ContainInv => Contained
  BY DEF ContainInv
<1> QED
  BY <1>1, ContainInit, ContainInvStep, PTL DEF TimeSpec

\* If users name nodes that run no client, if nodes that pass RREQs on run neither
\* and start with no broadcast_id above 0, and if no frame is lost, then a server's
\* answer always finds a route: no payload overtakes the RREQ that enters the way
\* back, whatever the network, its cycles, the clients and their time-outs.
THEOREM ServersHaveRoutes == PlainNetwork /\ ~Lossy => (TimeSpec => []ServerHasRoute)
<1> SUFFICES ASSUME PlainNetwork, ~Lossy PROVE TimeSpec => []ServerHasRoute
  OBVIOUS
<1> QED
  BY PlainInit, PlainInvStep, PlainServers, PTL DEF TimeSpec

\* In such a network, if moreover the named nodes run servers, port_table has room
\* for the clients of every node and nobody ends a program, no daemon ever ends:
\* every send finds a route, every delivery a socket and every client an entry.
THEOREM NoDaemonEnds ==
  ServersRun /\ PlainNetwork /\ Room /\ ~Lossy /\ ~Quits => (TimeSpec => []AllUp)
<1> SUFFICES ASSUME ServersRun, PlainNetwork, Room, ~Lossy, ~Quits
             PROVE  TimeSpec => []AllUp
  OBVIOUS
<1>1. UpInv => AllUp
  BY DEF UpInv
<1> QED
  BY <1>1, UpInit, UpInvStep, PTL DEF TimeSpec
=============================================================================
