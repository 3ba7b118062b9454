----------------------------- MODULE ODR_proofs -----------------------------
(* Theorems about module ODR and their proofs. *)
EXTENDS ODR, TLAPS

----------------------------------------------------------------------------
(* Types of the operators *)

\* A byte-reversed port is a port on the wire, and back.
LEMMA PortType == \A p \in Ports : htonl(p) \in Ports /\ ntohl(p) \in Ports
  BY PortAssumption DEF Ports, ClientPorts, ServerPort, htonl, ntohl

\* The byte behind a client's datagram stays a digit or none.
LEMMA LeftBehindType == \A p \in Ports : LeftBehind(p) \in -1 .. 9
  BY PortAssumption DEF Ports, ClientPorts, ServerPort, LeftBehind

\* A frame's type tells its fields.
LEMMA FrameCases ==
  ASSUME NEW f \in Frame
  PROVE  /\ f.type = "RREQ" => f \in RREQFrame
         /\ f.type = "RREP" => f \in RREPFrame
         /\ f.type = "DATA" => f \in PayloadFrame
         /\ f.type \in {"RREQ", "RREP", "DATA"}
         /\ f.from \in Attach /\ f.src \in Node /\ f.dst \in Node
         /\ f.type # "DATA" => f.hop \in Nat /\ f.disc \in {0, 1}
  BY DEF Frame, RREQFrame, RREPFrame, PayloadFrame

\* Sending well-formed frames leaves queues of well-formed frames.
LEMMA EmitType ==
  ASSUME NEW q \in [Attach -> Seq(Frame)], NEW n, NEW E,
         \A e \in E : e.frame \in Frame
  PROVE  Emit(q, n, E) \in [Attach -> Seq(Frame)]
<1> SUFFICES ASSUME NEW j \in Attach
             PROVE  (IF \E e \in E : Hears(j, n, e)
                     THEN Append(q[j], (CHOOSE e \in E : Hears(j, n, e)).frame)
                     ELSE q[j]) \in Seq(Frame)
  BY DEF Emit
<1>1. CASE \E e \in E : Hears(j, n, e)
  <2> DEFINE c == CHOOSE e \in E : Hears(j, n, e)
  <2>1. c \in E
    BY <1>1
  <2>2. c.frame \in Frame
    BY <2>1
  <2>3. q[j] \in Seq(Frame)
    OBVIOUS
  <2> HIDE DEF c
  <2>4. Append(q[j], c.frame) \in Seq(Frame)
    BY <2>2, <2>3
  <2> QED
    BY <1>1, <2>4 DEF c
<1>2. CASE ~\E e \in E : Hears(j, n, e)
  BY <1>2
<1> QED
  BY <1>1, <1>2

\* A queue without its first frame.
LEMMA ReceivedType ==
  ASSUME net \in [Attach -> Seq(Frame)], NEW i \in Attach, net[i] # <<>>
  PROVE  /\ Received(i) \in [Attach -> Seq(Frame)]
         /\ Head(net[i]) \in Frame
  BY DEF Received

\* What is learned from a frame is a routing entry with a route, or the old one.
LEMMA LearnType ==
  ASSUME NEW e \in Entry, NEW l \in Lan, NEW mac \in Attach, NEW hop \in Nat,
         NEW disc
  PROVE  /\ Learn(e, l, mac, hop, disc) \in Entry
         /\ Learn(e, l, mac, hop, disc).bid = e.bid
         /\ Known(Learn(e, l, mac, hop, disc))
         /\ \/ Learn(e, l, mac, hop, disc) = e
            \/ /\ Learn(e, l, mac, hop, disc).if = l
               /\ Learn(e, l, mac, hop, disc).mac = mac
  BY NoIfAssumption DEF Learn, Entry, Known, Efficient

----------------------------------------------------------------------------
(* Type correctness *)

\* The tables of all daemons are well formed.
TablesOK(rt) ==
  /\ rt \in [Node -> [Node -> Entry]]
  /\ \A n, d \in Node : Known(rt[n][d]) =>
       <<n, rt[n][d].if>> \in Attach /\ rt[n][d].mac \in Attach

\* An interface is a node and a segment.
LEMMA AttachType ==
  \A i \in Attach : i[1] \in Node /\ i[2] \in Lan /\ i = <<i[1], i[2]>>
  BY TopologyAssumption

\* Tables stay well formed when one entry is replaced by a well-formed one.
LEMMA ReplaceType ==
  ASSUME NEW rt, TablesOK(rt), NEW n \in Node, NEW d \in Node, NEW x \in Entry,
         Known(x) => <<n, x.if>> \in Attach /\ x.mac \in Attach
  PROVE  TablesOK([rt EXCEPT ![n][d] = x])
<1> DEFINE new == [rt EXCEPT ![n][d] = x]
<1>1. new \in [Node -> [Node -> Entry]]
  BY DEF TablesOK
<1>2. \A m, c \in Node : new[m][c] = IF m = n /\ c = d THEN x ELSE rt[m][c]
  BY DEF TablesOK
<1> HIDE DEF new
<1>3. \A m, c \in Node : Known(new[m][c]) =>
        <<m, new[m][c].if>> \in Attach /\ new[m][c].mac \in Attach
  BY <1>2 DEF TablesOK
<1> QED
  BY <1>1, <1>3 DEF TablesOK, new

\* The reverse route of a RREQ and the forward route of a RREP.
LEMMA LearnedTables ==
  ASSUME TablesOK(routing_table), NEW i \in Attach, NEW f \in Frame
  PROVE  /\ f.type = "RREQ" => TablesOK(Reverse(i, f))
         /\ f.type = "RREP" => TablesOK(Forward(i, f))
<1> DEFINE n == i[1]
           e == routing_table[n][f.src]
           x == Learn(e, i[2], f.from, f.hop, f.disc)
<1>1. n \in Node /\ i[2] \in Lan /\ i = <<n, i[2]>>
  BY AttachType
<1>2. f.src \in Node
  BY FrameCases
<1>3. e \in Entry
  BY <1>1, <1>2 DEF TablesOK
<1>4. ASSUME f.type # "DATA"
      PROVE  /\ x \in Entry
             /\ Known(x) => <<n, x.if>> \in Attach /\ x.mac \in Attach
  <2>1. f.from \in Attach /\ f.hop \in Nat
    BY <1>4, FrameCases
  <2>2. x \in Entry /\ (x = e \/ (x.if = i[2] /\ x.mac = f.from))
    BY <1>1, <1>3, <2>1, LearnType
  <2>3. Known(e) => <<n, e.if>> \in Attach /\ e.mac \in Attach
    BY <1>1, <1>2 DEF TablesOK
  <2> QED
    BY <1>1, <2>1, <2>2, <2>3
<1>5. ASSUME f.type = "RREQ" PROVE TablesOK(Reverse(i, f))
  <2> DEFINE y == [x EXCEPT !.bid = f.bid]
  <2>1. f.bid \in Int
    BY <1>5, FrameCases DEF RREQFrame
  <2>2. x \in Entry /\ (Known(x) => <<n, x.if>> \in Attach /\ x.mac \in Attach)
    BY <1>4, <1>5
  <2> HIDE DEF x
  <2>3. y \in Entry /\ y.if = x.if /\ y.mac = x.mac
    BY <2>1, <2>2 DEF Entry
  <2>4. Known(y) => <<n, y.if>> \in Attach /\ y.mac \in Attach
    BY <2>2, <2>3 DEF Known
  <2> HIDE DEF y
  <2>5. TablesOK([routing_table EXCEPT ![n][f.src] = y])
    BY <1>1, <1>2, <2>3, <2>4, ReplaceType
  <2> QED
    BY <2>5 DEF Reverse, x, y
<1>6. ASSUME f.type = "RREP" PROVE TablesOK(Forward(i, f))
  <2>1. x \in Entry /\ (Known(x) => <<n, x.if>> \in Attach /\ x.mac \in Attach)
    BY <1>4, <1>6
  <2> HIDE DEF x
  <2>2. TablesOK([routing_table EXCEPT ![n][f.src] = x])
    BY <1>1, <1>2, <2>1, ReplaceType
  <2>3. Forward(i, f) = [routing_table EXCEPT ![n][f.src] = x]
    BY <1>1, <1>2 DEF Forward, x, TablesOK
  <2> QED
    BY <2>2, <2>3
<1> QED
  BY <1>5, <1>6

\* The copies of a flooded RREQ.
LEMMA FloodType ==
  ASSUME NEW n \in Node, NEW L \in SUBSET InterfacesOf(n), NEW f,
         \A mac \in Attach : [f EXCEPT !.from = mac] \in Frame
  PROVE  \A e \in Flood(n, L, f) : e.frame \in Frame
<1> SUFFICES ASSUME NEW l \in L
             PROVE  [lan |-> l, frame |-> [f EXCEPT !.from = <<n, l>>]].frame \in Frame
  BY Zenon DEF Flood
<1>1. <<n, l>> \in Attach
  BY DEF InterfacesOf
<1>2. [f EXCEPT !.from = <<n, l>>] \in Frame
  BY <1>1
<1> QED
  BY <1>2

\* A new RREQ.
LEMMA NewRREQType ==
  ASSUME NEW n \in Node, NEW d \in Node, NEW port \in Ports, NEW bid \in Int,
         NEW disc \in {0, 1}, NEW mac \in Attach
  PROVE  [RREQ(n, d, port, bid, 0, 0, disc) EXCEPT !.from = mac] \in Frame
  BY DEF RREQ, RREQFrame, Frame

\* A new payload.
LEMMA NewPayloadType ==
  ASSUME NEW n \in Node, NEW d \in Node, NEW sport \in Ports, NEW dport \in Ports,
         NEW msg \in {"HI", "TIME"}, NEW from \in Attach, NEW to \in Attach
  PROVE  [Payload(n, d, sport, dport, msg) EXCEPT !.from = from, !.to = to] \in Frame
  BY DEF Payload, PayloadFrame, Frame

\* A RREQ that is flooded on, and a RREP or payload that is relayed.
LEMMA RelayedType ==
  ASSUME NEW f \in Frame, NEW from \in Attach, NEW to \in Attach, NEW sent \in {0, 1}
  PROVE  /\ f.type = "RREQ" =>
              [[f EXCEPT !.hop = @ + 1, !.sent = sent] EXCEPT !.from = from] \in Frame
         /\ f.type = "RREP" =>
              [[f EXCEPT !.hop = @ + 1] EXCEPT !.from = from, !.to = to] \in Frame
         /\ f.type = "DATA" => [f EXCEPT !.from = from, !.to = to] \in Frame
<1>1. ASSUME f.type = "RREQ"
      PROVE  [[f EXCEPT !.hop = @ + 1, !.sent = sent] EXCEPT !.from = from] \in RREQFrame
  <2>1. f \in RREQFrame
    BY <1>1, FrameCases
  <2> DEFINE h == f.hop + 1
  <2>2. h \in Nat
    BY <2>1 DEF RREQFrame
  <2> HIDE DEF h
  <2>3. [f EXCEPT !.hop = h, !.sent = sent] \in RREQFrame
    BY <2>1, <2>2 DEF RREQFrame
  <2>4. [[f EXCEPT !.hop = h, !.sent = sent] EXCEPT !.from = from] \in RREQFrame
    BY <2>3 DEF RREQFrame
  <2> QED
    BY <2>4 DEF h
<1>2. ASSUME f.type = "RREP"
      PROVE  [[f EXCEPT !.hop = @ + 1] EXCEPT !.from = from, !.to = to] \in RREPFrame
  <2>1. f \in RREPFrame
    BY <1>2, FrameCases
  <2>2. [f EXCEPT !.hop = @ + 1] \in RREPFrame
    BY <2>1 DEF RREPFrame
  <2> QED
    BY <2>2 DEF RREPFrame
<1>3. ASSUME f.type = "DATA"
      PROVE  [f EXCEPT !.from = from, !.to = to] \in PayloadFrame
  <2>1. f \in PayloadFrame
    BY <1>3, FrameCases
  <2> QED
    BY <2>1 DEF PayloadFrame
<1> QED
  BY <1>1, <1>2, <1>3 DEF Frame

\* Sending along a route keeps the types of the queues and of status.
LEMMA SendAlongType ==
  ASSUME NEW n \in Node, NEW e \in Entry, NEW f,
         NEW q \in [Attach -> Seq(Frame)],
         Known(e) => <<n, e.if>> \in Attach /\ e.mac \in Attach,
         \A from, to \in Attach : [f EXCEPT !.from = from, !.to = to] \in Frame,
         status \in [Node -> {"up", "exited", "corrupt"}],
         SendAlong(n, e, f, q)
  PROVE  /\ net' \in [Attach -> Seq(Frame)]
         /\ status' \in [Node -> {"up", "exited", "corrupt"}]
<1>1. CASE Known(e)
  <2>1. Along(n, e, f).frame \in Frame
    BY <1>1 DEF Along
  <2>2. Emit(q, n, {Along(n, e, f)}) \in [Attach -> Seq(Frame)]
    BY <2>1, EmitType
  <2> QED
    BY <1>1, <2>2 DEF SendAlong
<1>2. CASE ~Known(e)
  BY <1>2 DEF SendAlong
<1> QED
  BY <1>1, <1>2

\* The RREP that answers a RREQ.
LEMMA AnswersType ==
  ASSUME TablesOK(routing_table), NEW i \in Attach, NEW f \in Frame,
         f.type = "RREQ", NEW hop \in Nat, NEW disc \in {0, 1}
  PROVE  \A e \in Answers(i, f, hop, disc) : e.frame \in Frame
<1> DEFINE back == Reverse(i, f)[i[1]][f.src]
<1>1. i[1] \in Node /\ f.src \in Node /\ f.dst \in Node /\ f.from \in Attach
      /\ f.port \in Ports /\ f.hop \in Nat /\ i[2] \in Lan
  BY AttachType, FrameCases DEF RREQFrame
<1>2. htonl(f.port) \in Ports
  BY <1>1, PortType
<1>3. <<i[1], back.if>> \in Attach
  <2>1. TablesOK(Reverse(i, f))
    BY LearnedTables
  <2>2. routing_table[i[1]][f.src] \in Entry
    BY <1>1 DEF TablesOK
  <2> DEFINE x == Learn(routing_table[i[1]][f.src], i[2], f.from, f.hop, f.disc)
  <2>3. Known(x) /\ x \in Entry
    BY <1>1, <2>2, LearnType
  <2>4. back = [x EXCEPT !.bid = f.bid]
    BY <1>1 DEF Reverse, TablesOK
  <2> HIDE DEF x, back
  <2>5. Known(back)
    BY <2>3, <2>4 DEF Known, Entry
  <2> QED
    BY <1>1, <2>1, <2>5 DEF TablesOK, back
<1>4. Answer(i, f, hop, disc).frame \in Frame
  <2> HIDE DEF back
  <2>1. [RREP(f.dst, f.src, htonl(f.port), hop, disc) EXCEPT
           !.to = f.from, !.from = <<i[1], back.if>>] \in Frame
    BY <1>1, <1>2, <1>3 DEF RREP, RREPFrame, Frame
  <2> QED
    BY <2>1 DEF Answer, back
<1> QED
  BY <1>4 DEF Answers

\* What the handling of a RREQ sends on.
LEMMA RefloodType ==
  ASSUME NEW i \in Attach, NEW f \in Frame, f.type = "RREQ", NEW sent \in {0, 1}
  PROVE  \A e \in Reflood(i, f, sent) : e.frame \in Frame
<1>1. \A mac \in Attach : [[f EXCEPT !.hop = @ + 1, !.sent = sent] EXCEPT !.from = mac] \in Frame
  BY RelayedType
<1>2. i[1] \in Node /\ InterfacesOf(i[1]) \ {i[2]} \in SUBSET InterfacesOf(i[1])
  BY AttachType
<1> QED
  BY <1>1, <1>2, FloodType DEF Reflood

\* What port_table is after a client's datagram, and the client's port.
LEMMA WithClientType ==
  ASSUME TypeOK, NEW n \in Node, NEW p \in Client, ~TableFull(n, p)
  PROVE  /\ WithClient(n, p) \in Seq(Client)
         /\ Len(WithClient(n, p)) < PortSlots
         /\ PortOf(WithClient(n, p), p) \in ClientPorts
         /\ PortOf(WithClient(n, p), p) \in Ports
<1> DEFINE t == port_table[n]
           w == WithClient(n, p)
<1>1. t \in Seq(Client) /\ Len(t) < PortSlots /\ Len(t) \in Nat
  BY DEF TypeOK
<1>2. w \in Seq(Client) /\ Len(w) < PortSlots /\ \E k \in 1 .. Len(w) : w[k] = p
  <2>1. CASE Entered(n, p)
    BY <1>1, <2>1 DEF WithClient, Entered
  <2>2. CASE ~Entered(n, p)
    <3>1. w = Append(t, p) /\ Len(t) # PortSlots - 1
      BY <2>2 DEF WithClient, TableFull
    <3>2. w \in Seq(Client) /\ Len(w) = Len(t) + 1 /\ w[Len(t) + 1] = p
      BY <1>1, <3>1
    <3> QED
      BY <1>1, <3>1, <3>2, PortAssumption
  <2> QED
    BY <2>1, <2>2
<1> HIDE DEF w
<1>3. PortOf(w, p) \in ClientPorts
  <2> DEFINE c == CHOOSE k \in 1 .. Len(w) : w[k] = p
  <2>1. c \in 1 .. Len(w)
    BY <1>2
  <2> HIDE DEF c
  <2>2. 5999 + c \in ClientPorts
    BY <1>2, <2>1, PortAssumption DEF ClientPorts
  <2> QED
    BY <2>2 DEF PortOf, c
<1> QED
  BY <1>2, <1>3 DEF w, Ports

\* Whom the daemon delivers to is an application or, before the first local
\* datagram, nobody.
LEMMA AddresseeType ==
  ASSUME TypeOK, NEW n \in Node, NEW port \in Ports
  PROVE  Addressee(n, port) \in Path \cup {NoPath}
<1>1. port_table[n] \in Seq(Client) /\ localaddr[n] \in Path \cup {NoPath}
  BY DEF TypeOK
<1>2. ASSUME NEW k \in 1 .. Len(port_table[n]), ntohl(port) = 5999 + k
      PROVE  port_table[n][ntohl(port) - 5999] \in Client
  <2>1. ntohl(port) - 5999 = k
    BY <1>1, <1>2
  <2> QED
    BY <1>1, <2>1
<1> QED
  BY <1>1, <1>2 DEF Addressee, Path

DataMsg == [msg : {"HI", "TIME"}, src : Node, port : Ports]

\* Delivering keeps the types of what it changes.
LEMMA DeliverType ==
  ASSUME TypeOK, NEW n \in Node, NEW path \in Path \cup {NoPath}, NEW data \in DataMsg,
         Deliver(n, path, data)
  PROVE  /\ localaddr' \in [Node -> Path \cup {NoPath}]
         /\ status' \in [Node -> {"up", "exited", "corrupt"}]
         /\ appq' \in [Node -> [Path -> Seq(DataMsg)]]
<1>1. /\ localaddr \in [Node -> Path \cup {NoPath}]
      /\ status \in [Node -> {"up", "exited", "corrupt"}]
      /\ appq \in [Node -> [Path -> Seq(DataMsg)]]
  BY DEF TypeOK, DataMsg
<1>2. localaddr' \in [Node -> Path \cup {NoPath}]
  BY <1>1 DEF Deliver
<1>3. CASE <<n, path>> \in bound
  <2>1. path \in Path
    BY <1>3, PathAssumption DEF TypeOK, Path
  <2>2. Append(appq[n][path], data) \in Seq(DataMsg)
    BY <1>1, <2>1
  <2>3. appq' = [appq EXCEPT ![n][path] = Append(appq[n][path], data)] /\ status' = status
    BY <1>3 DEF Deliver
  <2> QED
    BY <1>1, <1>2, <2>1, <2>2, <2>3
<1>4. CASE <<n, path>> \notin bound
  BY <1>1, <1>2, <1>4 DEF Deliver
<1> QED
  BY <1>3, <1>4

\* Taking a local datagram: its fields, the queue and localaddr.
LEMMA TakeLocalType ==
  ASSUME TypeOK, NEW n \in Node, HasLocal(n), TakeLocal(n)
  PROVE  /\ Head(odrq[n]) \in LocalMsg
         /\ odrq' \in [Node -> Seq(LocalMsg)]
         /\ localaddr' \in [Node -> Path \cup {NoPath}]
<1>1. odrq[n] \in Seq(LocalMsg) /\ odrq[n] # <<>>
  BY DEF TypeOK, HasLocal
<1>2. Head(odrq[n]) \in LocalMsg /\ Tail(odrq[n]) \in Seq(LocalMsg)
  BY <1>1
<1>3. Head(odrq[n]).path \in Path
  BY <1>2 DEF LocalMsg, Path
<1> QED
  BY <1>2, <1>3 DEF TakeLocal, TypeOK

\* The fields of a local datagram.
LEMMA LocalMsgType ==
  ASSUME NEW m \in LocalMsg
  PROVE  /\ m.path \in Path /\ m.dst \in Node /\ m.port \in Ports
         /\ m.msg \in {"HI", "TIME"} /\ m.flag \in {0, 1}
         /\ m.path # Server => m.path \in Client /\ m.flag \in Flags
         /\ m.path = Server => m.flag = 0
<1>1. ServerPort \in Ports
  BY DEF Ports
<1>2. CASE m \in [path : Client, dst : Node, port : {ServerPort}, msg : {"HI"}, flag : Flags]
  BY <1>1, <1>2, PathAssumption, FlagAssumption DEF Path
<1>3. CASE m \in [path : {Server}, dst : Node, port : Ports, msg : {"TIME"}, flag : {0}]
  BY <1>3, PathAssumption DEF Path
<1> QED
  BY <1>2, <1>3 DEF LocalMsg

\* The initial state has the types.
LEMMA TypeInit == Init => TypeOK
<1> SUFFICES ASSUME Init PROVE TypeOK
  OBVIOUS
<1>1. routing_table \in [Node -> [Node -> Entry]]
      /\ \A n, d \in Node : ~Known(routing_table[n][d])
  <2> DEFINE Blank == [if : {NoIf}, mac : {<<>>}, hops : {0}, bid : GarbageId]
  <2>1. routing_table \in [Node -> [Node -> Blank]]
    BY DEF Init
  <2>2. ASSUME NEW e \in Blank PROVE e \in Entry /\ ~Known(e)
    <3>1. e = [if |-> NoIf, mac |-> <<>>, hops |-> 0, bid |-> e.bid] /\ e.bid \in GarbageId
      OBVIOUS
    <3>2. e.bid \in Int
      BY <3>1, GarbageAssumption
    <3> QED
      BY <3>1, <3>2 DEF Entry, Known
  <2> HIDE DEF Blank
  <2> QED
    BY <2>1, <2>2
<1>2. /\ port_table \in [Node -> Seq(Client)]
      /\ \A n \in Node : Len(port_table[n]) < PortSlots
  BY PortAssumption DEF Init
<1>3. /\ broadcast_id \in [Node -> Nat]
      /\ localaddr \in [Node -> Path \cup {NoPath}]
      /\ recvmsg \in [Node -> -1 .. 9]
      /\ status \in [Node -> {"up", "exited", "corrupt"}]
      /\ bound \subseteq Node \X Path
  BY GarbageAssumption, RunningAssumption DEF Init, Path
<1>4. /\ net \in [Attach -> Seq(Frame)]
      /\ odrq \in [Node -> Seq(LocalMsg)]
      /\ appq \in [Node -> [Path -> Seq([msg : {"HI", "TIME"}, src : Node, port : Ports])]]
  BY DEF Init
<1> QED
  BY <1>1, <1>2, <1>3, <1>4 DEF TypeOK

\* A daemon handles a local datagram.
LEMMA LocalTypeStep ==
  ASSUME TypeOK, NEW n \in Node, HandleLocal(n)
  PROVE  TypeOK'
<1> DEFINE m == Head(odrq[n])
           table == WithClient(n, m.path)
<1>1. HasLocal(n) /\ TakeLocal(n)
  BY DEF HandleLocal, ServerReply, ClientPayload, ClientDiscovery, ClientOverflow
<1>2. /\ m \in LocalMsg
      /\ odrq' \in [Node -> Seq(LocalMsg)]
      /\ localaddr' \in [Node -> Path \cup {NoPath}]
  BY <1>1, TakeLocalType
<1>3. /\ m.path \in Path /\ m.dst \in Node /\ m.port \in Ports /\ m.msg \in {"HI", "TIME"}
      /\ m.path # Server => m.path \in Client
  BY <1>2, LocalMsgType
<1>4. /\ ServerPort \in Ports /\ htonl(ServerPort) \in Ports /\ htonl(m.port) \in Ports
      /\ LeftBehind(m.port) \in -1 .. 9
  BY <1>3, PortType, LeftBehindType DEF Ports
<1> DEFINE r == routing_table[n][m.dst]
<1>5. /\ r \in Entry
      /\ Known(r) => <<n, r.if>> \in Attach /\ r.mac \in Attach
      /\ status \in [Node -> {"up", "exited", "corrupt"}]
      /\ net \in [Attach -> Seq(Frame)]
  BY <1>3 DEF TypeOK
<1> HIDE DEF m, table
<1>6. CASE ServerReply(n)
  <2> DEFINE f == Payload(n, m.dst, htonl(ServerPort), htonl(m.port), m.msg)
  <2>1. \A from, to \in Attach : [f EXCEPT !.from = from, !.to = to] \in Frame
    BY <1>3, <1>4, NewPayloadType
  <2>2. SendAlong(n, r, f, net)
    BY <1>6 DEF ServerReply, m
  <2> HIDE DEF f, r
  <2>3. /\ net' \in [Attach -> Seq(Frame)]
        /\ status' \in [Node -> {"up", "exited", "corrupt"}]
    BY <1>5, <2>1, <2>2, SendAlongType
  <2>4. recvmsg' = [recvmsg EXCEPT ![n] = LeftBehind(m.port)]
        /\ UNCHANGED <<routing_table, port_table, broadcast_id, appq, bound>>
    BY <1>6 DEF ServerReply, m
  <2> QED
    BY <1>2, <1>4, <2>3, <2>4 DEF TypeOK
<1>7. ASSUME m.path # Server, ~TableFull(n, m.path)
      PROVE  /\ table \in Seq(Client)
             /\ Len(table) < PortSlots
             /\ htonl(PortOf(table, m.path)) \in Ports
  BY <1>3, <1>7, WithClientType, PortType DEF table
<1>8. CASE ClientPayload(n)
  <2> DEFINE f == Payload(n, m.dst, htonl(PortOf(table, m.path)), htonl(ServerPort), m.msg)
  <2>1. /\ table \in Seq(Client)
        /\ Len(table) < PortSlots
        /\ htonl(PortOf(table, m.path)) \in Ports
    BY <1>7, <1>8 DEF ClientPayload, m
  <2>2. \A from, to \in Attach : [f EXCEPT !.from = from, !.to = to] \in Frame
    BY <1>3, <1>4, <2>1, NewPayloadType
  <2>3. SendAlong(n, r, f, net)
    BY <1>8 DEF ClientPayload, m, table
  <2> HIDE DEF f, r
  <2>4. /\ net' \in [Attach -> Seq(Frame)]
        /\ status' \in [Node -> {"up", "exited", "corrupt"}]
    BY <1>5, <2>2, <2>3, SendAlongType
  <2>5. port_table' = [port_table EXCEPT ![n] = table]
        /\ UNCHANGED <<routing_table, broadcast_id, recvmsg, appq, bound>>
    BY <1>8 DEF ClientPayload, m, table
  <2> QED
    BY <1>2, <2>1, <2>4, <2>5 DEF TypeOK
<1>9. CASE ClientDiscovery(n)
  <2> DEFINE disc == IF ReadFlag(m.flag, recvmsg[n]) = 1 THEN 1 ELSE 0
             bid == broadcast_id[n] + 1
             f == RREQ(n, m.dst, htonl(PortOf(table, m.path)), bid, 0, 0, disc)
  <2>1. /\ table \in Seq(Client)
        /\ Len(table) < PortSlots
        /\ htonl(PortOf(table, m.path)) \in Ports
    BY <1>7, <1>9 DEF ClientDiscovery, m
  <2>2. disc \in {0, 1} /\ bid \in Nat /\ bid \in Int
    BY DEF TypeOK
  <2>3. /\ port_table' = [port_table EXCEPT ![n] = table]
        /\ broadcast_id' = [broadcast_id EXCEPT ![n] = bid]
        /\ net' = Emit(net, n, Flood(n, InterfacesOf(n), f))
        /\ UNCHANGED <<routing_table, recvmsg, status, appq, bound>>
    BY <1>9 DEF ClientDiscovery, m, table
  <2> HIDE DEF disc, bid
  <2>4. \A mac \in Attach : [f EXCEPT !.from = mac] \in Frame
    BY <1>3, <2>1, <2>2, NewRREQType
  <2> HIDE DEF f
  <2>5. \A e \in Flood(n, InterfacesOf(n), f) : e.frame \in Frame
    BY <2>4, FloodType
  <2>6. net' \in [Attach -> Seq(Frame)]
    BY <1>5, <2>3, <2>5, EmitType
  <2> QED
    BY <1>2, <2>1, <2>2, <2>3, <2>6 DEF TypeOK
<1>10. CASE ClientOverflow(n)
  BY <1>2, <1>10 DEF ClientOverflow, TypeOK
<1> QED
  BY <1>6, <1>8, <1>9, <1>10 DEF HandleLocal

\* A daemon handles a frame.
LEMMA FrameTypeStep ==
  ASSUME TypeOK, NEW i \in Attach, HandleFrame(i)
  PROVE  TypeOK'
<1> DEFINE f == Head(net[i])
           n == i[1]
<1>1. n \in Node /\ i[2] \in Lan
  BY AttachType
<1>2. net[i] # <<>> /\ net \in [Attach -> Seq(Frame)]
  BY DEF TypeOK, HandleFrame, HandleRREQ, RREQAtDestination, RREQAtKnowingNode,
         RREQAtOtherNode, RREPAtSource, RelayRREP, PayloadAtDestination, RelayPayload, Arrived
<1>3. f \in Frame /\ Received(i) \in [Attach -> Seq(Frame)]
  BY <1>2, ReceivedType
<1>4. TablesOK(routing_table) /\ status \in [Node -> {"up", "exited", "corrupt"}]
  BY DEF TypeOK, TablesOK
<1>5. f.src \in Node /\ f.dst \in Node /\ f.from \in Attach
  BY <1>3, FrameCases
<1> DEFINE rest == <<port_table, broadcast_id, recvmsg, odrq, bound>>
<1> HIDE DEF f
<1>6. ASSUME f.type = "RREQ",
             routing_table' = Reverse(i, f),
             NEW E, \A e \in E : e.frame \in Frame,
             net' = Emit(Received(i), n, E),
             UNCHANGED <<port_table, broadcast_id, localaddr, recvmsg, status, odrq, appq, bound>>
      PROVE  TypeOK'
  <2>1. TablesOK(routing_table')
    BY <1>3, <1>4, <1>6, LearnedTables
  <2>2. net' \in [Attach -> Seq(Frame)]
    BY <1>3, <1>6, EmitType
  <2> QED
    BY <1>6, <2>1, <2>2 DEF TypeOK, TablesOK
<1>7. ASSUME f.type = "RREQ", NEW hop \in Nat, NEW disc \in {0, 1}
      PROVE  \A e \in Answers(i, f, hop, disc) : e.frame \in Frame
  BY <1>3, <1>4, <1>7, AnswersType
<1>8. ASSUME f.type = "RREQ", NEW sent \in {0, 1}
      PROVE  \A e \in Reflood(i, f, sent) : e.frame \in Frame
  BY <1>3, <1>8, RefloodType
<1>9. CASE RREQAtDestination(i)
  <2>1. f.type = "RREQ" /\ f.disc \in {0, 1}
    BY <1>3, <1>9, FrameCases DEF RREQAtDestination, Arrived, f
  <2>2. \A e \in Answers(i, f, 0, f.disc) : e.frame \in Frame
    BY <1>7, <2>1
  <2>3. /\ routing_table' = Reverse(i, f)
        /\ net' = Emit(Received(i), n, Answers(i, f, 0, f.disc))
        /\ UNCHANGED <<port_table, broadcast_id, localaddr, recvmsg, status, odrq, appq, bound>>
    BY <1>9 DEF RREQAtDestination, f
  <2> QED
    BY <1>6, <2>1, <2>2, <2>3
<1>10. CASE RREQAtKnowingNode(i)
  <2> DEFINE hops == Reverse(i, f)[n][f.dst].hops
             E == Answers(i, f, hops, 0)
                    \cup (IF BetterSource(i, f) THEN Reflood(i, f, 1) ELSE {})
  <2>1. f.type = "RREQ"
    BY <1>10 DEF RREQAtKnowingNode, Arrived, f
  <2>2. TablesOK(Reverse(i, f))
    BY <1>3, <1>4, <2>1, LearnedTables
  <2>3. hops \in Nat
    BY <1>1, <1>5, <2>2 DEF TablesOK, Entry
  <2>4. \A e \in E : e.frame \in Frame
    BY <1>7, <1>8, <2>1, <2>3
  <2>5. /\ routing_table' = Reverse(i, f)
        /\ net' = Emit(Received(i), n, E)
        /\ UNCHANGED <<port_table, broadcast_id, localaddr, recvmsg, status, odrq, appq, bound>>
    BY <1>10 DEF RREQAtKnowingNode, f
  <2> HIDE DEF E
  <2> QED
    BY <1>6, <2>1, <2>4, <2>5
<1>11. CASE RREQAtOtherNode(i)
  <2> DEFINE E == IF Fresh(i, f) THEN Reflood(i, f, f.sent) ELSE {}
  <2>1. f.type = "RREQ" /\ f.sent \in {0, 1}
    BY <1>3, <1>11, FrameCases DEF RREQAtOtherNode, Arrived, f, RREQFrame
  <2>2. \A e \in E : e.frame \in Frame
    BY <1>8, <2>1
  <2>3. /\ routing_table' = Reverse(i, f)
        /\ net' = Emit(Received(i), n, E)
        /\ UNCHANGED <<port_table, broadcast_id, localaddr, recvmsg, status, odrq, appq, bound>>
    BY <1>11 DEF RREQAtOtherNode, f
  <2> HIDE DEF E
  <2> QED
    BY <1>6, <2>1, <2>2, <2>3
<1>12. CASE RREPAtSource(i)
  <2> DEFINE data == Data("HI", f.src, ServerPort)
             path == Addressee(n, f.port)
  <2>1. f.type = "RREP" /\ f.port \in Ports
    BY <1>3, <1>12, FrameCases DEF RREPAtSource, Arrived, f, RREPFrame
  <2>2. TablesOK(Forward(i, f))
    BY <1>3, <1>4, <2>1, LearnedTables
  <2>3. data \in DataMsg
    BY <1>5 DEF Data, DataMsg, Ports
  <2>4. path \in Path \cup {NoPath}
    BY <1>1, <2>1, AddresseeType
  <2>5. Deliver(n, path, data)
        /\ routing_table' = Forward(i, f) /\ net' = Received(i) /\ UNCHANGED rest
    BY <1>12 DEF RREPAtSource, f
  <2> HIDE DEF data, path
  <2>6. /\ localaddr' \in [Node -> Path \cup {NoPath}]
        /\ status' \in [Node -> {"up", "exited", "corrupt"}]
        /\ appq' \in [Node -> [Path -> Seq(DataMsg)]]
    BY <1>1, <2>3, <2>4, <2>5, DeliverType
  <2> QED
    BY <1>3, <2>2, <2>5, <2>6 DEF TypeOK, TablesOK, DataMsg
<1>13. CASE RelayRREP(i)
  <2> DEFINE r == Forward(i, f)[n][f.dst]
             g == [f EXCEPT !.hop = @ + 1]
  <2>1. f.type = "RREP"
    BY <1>13 DEF RelayRREP, Arrived, f
  <2>2. TablesOK(Forward(i, f))
    BY <1>3, <1>4, <2>1, LearnedTables
  <2>3. r \in Entry /\ (Known(r) => <<n, r.if>> \in Attach /\ r.mac \in Attach)
    BY <1>1, <1>5, <2>2 DEF TablesOK
  <2>4. \A from, to \in Attach : [g EXCEPT !.from = from, !.to = to] \in Frame
    BY <1>3, <2>1, RelayedType
  <2>5. SendAlong(n, r, g, Received(i))
        /\ routing_table' = Forward(i, f) /\ UNCHANGED <<rest, localaddr, appq>>
    BY <1>13 DEF RelayRREP, f
  <2> HIDE DEF r, g
  <2>6. /\ net' \in [Attach -> Seq(Frame)]
        /\ status' \in [Node -> {"up", "exited", "corrupt"}]
    BY <1>1, <1>3, <1>4, <2>3, <2>4, <2>5, SendAlongType
  <2> QED
    BY <2>2, <2>5, <2>6 DEF TypeOK, TablesOK
<1>14. CASE PayloadAtDestination(i)
  <2> DEFINE data == Data(f.msg, f.src, f.sport)
             path == Addressee(n, f.dport)
  <2>1. f.type = "DATA" /\ f.sport \in Ports /\ f.dport \in Ports /\ f.msg \in {"HI", "TIME"}
    BY <1>3, <1>14, FrameCases DEF PayloadAtDestination, Arrived, f, PayloadFrame
  <2>2. data \in DataMsg
    BY <1>5, <2>1 DEF Data, DataMsg
  <2>3. path \in Path \cup {NoPath}
    BY <1>1, <2>1, AddresseeType
  <2>4. Deliver(n, path, data) /\ net' = Received(i) /\ UNCHANGED <<routing_table, rest>>
    BY <1>14 DEF PayloadAtDestination, f
  <2> HIDE DEF data, path
  <2>5. /\ localaddr' \in [Node -> Path \cup {NoPath}]
        /\ status' \in [Node -> {"up", "exited", "corrupt"}]
        /\ appq' \in [Node -> [Path -> Seq(DataMsg)]]
    BY <1>1, <2>2, <2>3, <2>4, DeliverType
  <2> QED
    BY <1>3, <2>4, <2>5 DEF TypeOK, DataMsg
<1>15. CASE RelayPayload(i)
  <2> DEFINE r == routing_table[n][f.dst]
  <2>1. f.type = "DATA"
    BY <1>15 DEF RelayPayload, Arrived, f
  <2>2. r \in Entry /\ (Known(r) => <<n, r.if>> \in Attach /\ r.mac \in Attach)
    BY <1>1, <1>4, <1>5 DEF TablesOK
  <2>3. \A from, to \in Attach : [f EXCEPT !.from = from, !.to = to] \in Frame
    BY <1>3, <2>1, RelayedType
  <2>4. SendAlong(n, r, f, Received(i)) /\ UNCHANGED <<routing_table, rest, localaddr, appq>>
    BY <1>15 DEF RelayPayload, f
  <2> HIDE DEF r
  <2>5. /\ net' \in [Attach -> Seq(Frame)]
        /\ status' \in [Node -> {"up", "exited", "corrupt"}]
    BY <1>1, <1>3, <1>4, <2>2, <2>3, <2>4, SendAlongType
  <2> QED
    BY <2>4, <2>5 DEF TypeOK
<1> QED
  BY <1>9, <1>10, <1>11, <1>12, <1>13, <1>14, <1>15 DEF HandleFrame, HandleRREQ

\* The network loses a frame, or an application sends, receives or ends.
LEMMA OutsideTypeStep ==
  ASSUME TypeOK, Applications \/ \E i \in Attach : LoseFrame(i)
  PROVE  TypeOK'
<1>1. ASSUME NEW i \in Attach, LoseFrame(i) PROVE TypeOK'
  <2>1. net' \in [Attach -> Seq(Frame)]
    BY <1>1, ReceivedType DEF LoseFrame, TypeOK
  <2> QED
    BY <1>1, <2>1 DEF LoseFrame, TypeOK
<1>2. ASSUME NEW n \in Node, NEW m \in LocalMsg, AppSends(n, m) PROVE TypeOK'
  <2>1. Append(odrq[n], m) \in Seq(LocalMsg)
    BY DEF TypeOK
  <2> QED
    BY <1>2, <2>1 DEF AppSends, TypeOK
<1>3. ASSUME NEW n \in Node, NEW p \in Path, AppReceives(n, p) PROVE TypeOK'
  <2>1. appq \in [Node -> [Path -> Seq(DataMsg)]] /\ appq[n][p] # <<>>
    BY <1>3 DEF AppReceives, TypeOK, DataMsg
  <2>2. Tail(appq[n][p]) \in Seq(DataMsg)
    BY <2>1
  <2>3. appq' \in [Node -> [Path -> Seq(DataMsg)]]
    BY <1>3, <2>1, <2>2 DEF AppReceives
  <2> QED
    BY <1>3, <2>3 DEF AppReceives, TypeOK, DataMsg
<1>4. ASSUME NEW n \in Node, NEW p \in Path, AppExits(n, p) PROVE TypeOK'
  <2>1. appq \in [Node -> [Path -> Seq(DataMsg)]]
    BY DEF TypeOK, DataMsg
  <2>2. appq' \in [Node -> [Path -> Seq(DataMsg)]]
    BY <1>4, <2>1 DEF AppExits
  <2>3. bound' \subseteq Node \X Path
    BY <1>4 DEF AppExits, TypeOK
  <2> QED
    BY <1>4, <2>2, <2>3 DEF AppExits, TypeOK, DataMsg
<1> QED
  BY <1>1, <1>2, <1>3, <1>4 DEF Applications

\* No step takes a variable out of its type.
LEMMA TypeStep == TypeOK /\ [Next]_vars => TypeOK'
<1>1. ASSUME TypeOK, UNCHANGED vars PROVE TypeOK'
  BY <1>1 DEF vars, TypeOK
<1> QED
  BY <1>1, LocalTypeStep, FrameTypeStep, OutsideTypeStep DEF Next, Daemons

\* TypeOK is an invariant of the daemons for every network, every number of
\* clients and every application behaviour: in particular the handlers never
\* store a route over an interface the node does not have.
THEOREM TypeCorrect == Spec => []TypeOK
  BY TypeInit, TypeStep, PTL DEF Spec
=============================================================================
