-------------------------------- MODULE ODR --------------------------------
(***************************************************************************)
(* The on-demand routing daemon of Assignment 3 (Code/ODR.c), one process  *)
(* per node.  A daemon serves one UNIX domain socket, on which the local   *)
(* applications send it datagrams, and one packet socket per interface.    *)
(* Each datagram or frame is handled to the end before the next select(),  *)
(* so one handler is one atomic action.                                    *)
(*                                                                         *)
(* A node is connected to a set of LANs, by one interface each; the        *)
(* interface <<n, l>> is also its Ethernet address.  The kernel queues the *)
(* frames an interface has received (net), the datagrams the daemon has    *)
(* not read (odrq) and those an application has not read (appq).           *)
(***************************************************************************)
EXTENDS Integers, Sequences

CONSTANTS
  Node,          \* the virtual machines, named by their canonical address
  Lan,           \* the Ethernet segments
  Attach,        \* the interfaces <<node, lan>> other than lo and eth0
  Client,        \* sun_path names the clients get from mkstemp
  Server,        \* the server's well-known sun_path, "240411"
  NoIf,          \* outgoing_if = 0: the entry holds no route
  NoPath,        \* localaddr before the first datagram: an empty sun_path
  Running,       \* the <<node, sun_path>> that are bound at the start
  Flags,         \* values the clients pass as msg_send's last parameter
  LittleEndian,  \* whether htonl and ntohl reverse the bytes on this host
  PortSlots,     \* entries of port_table (10 in the code)
  GarbageId,     \* what the uninitialised broadcast_id fields may hold
  GarbageTail,   \* what the uninitialised recvmsg buffer may hold
  Lossy          \* whether the network may lose frames

ASSUME TopologyAssumption == Attach \subseteq Node \X Lan
ASSUME NoIfAssumption == NoIf \notin Lan
ASSUME PathAssumption == Server \notin Client /\ NoPath \notin Client \cup {Server}
ASSUME PortAssumption == PortSlots \in Nat \ {0}
ASSUME RunningAssumption == Running \subseteq Node \X (Client \cup {Server})
ASSUME FlagAssumption == Flags \subseteq {0, 1} /\ LittleEndian \in BOOLEAN
ASSUME GarbageAssumption == GarbageId \subseteq Int /\ GarbageTail \subseteq -1 .. 9

VARIABLES
  routing_table, \* [node][destination]: struct routing_entry
  port_table,    \* [node]: the clients entered so far, in order
  broadcast_id,  \* [node]: the identifier of the last RREQ issued
  localaddr,     \* [node]: the peer of the last local datagram
  recvmsg,       \* [node]: the buffer's byte behind a client's datagram
  status,        \* [node]: "up", "exited", or "corrupt" (undefined behaviour)
  net,           \* [interface]: frames received and not yet read
  odrq,          \* [node]: local datagrams not yet read by the daemon
  appq,          \* [node][sun_path]: datagrams not yet read by the application
  bound          \* the <<node, sun_path>> with a socket bound to them

vars == <<routing_table, port_table, broadcast_id, localaddr, recvmsg, status,
          net, odrq, appq, bound>>

Path == Client \cup {Server}

----------------------------------------------------------------------------
(* Numbers on the wire *)

\* On a little-endian host htonl and ntohl are the same byte reversal, an
\* involution; -x stands for the reversed bytes of the port number x.
htonl(x) == IF LittleEndian THEN -x ELSE x

ntohl(x) == htonl(x)

ServerPort == 5000

\* Entry k of port_table is given the port 5999 + k; entry 0 is the server's.
ClientPorts == 6000 .. 5999 + PortSlots

Ports == LET host == ClientPorts \cup {ServerPort} IN host \cup {-p : p \in host}

\* The entry of port_table that sun_path p has, and its port.
Entered(n, p) == \E k \in 1 .. Len(port_table[n]) : port_table[n][k] = p

PortOf(table, p) == 5999 + CHOOSE k \in 1 .. Len(table) : table[k] = p

\* sscanf(recvmsg, "%s %d %s %d") on a buffer recvfrom does not terminate: a
\* client's datagram is 24 bytes long, and a digit left behind it by an
\* earlier, longer datagram is read as part of the flag (-1: not a digit).
ReadFlag(flag, tail) == IF tail = -1 THEN flag ELSE 10 * flag + tail

\* The byte a server's datagram leaves at that place.  A port of four digits
\* puts a letter of the date there; the decimal form of a byte-reversed port is
\* longer and puts one of its own digits there: 0x88130000 for 5000 (negative),
\* 0x70170000 + k * 2^24 for 6000 + k.
LeftBehind(port) ==
  IF port > 0 THEN -1
  ELSE IF port = -ServerPort THEN 9
  ELSE (6 * (-port - 6000)) % 10

----------------------------------------------------------------------------
(* The network (external): Ethernet segments and packet-socket queues *)

InterfacesOf(n) == {l \in Lan : <<n, l>> \in Attach}

\* What node n puts on a segment reaches, if broadcast, every other interface
\* of the segment, and otherwise the one that has the destination address.
Hears(j, n, e) ==
  /\ j[1] # n
  /\ j[2] = e.lan
  /\ e.frame.type = "RREQ" \/ e.frame.to = j

\* The queues after node n sent the frames in E, at most one on each segment.
Emit(queues, n, E) ==
  [j \in Attach |->
     IF \E e \in E : Hears(j, n, e)
     THEN Append(queues[j], (CHOOSE e \in E : Hears(j, n, e)).frame)
     ELSE queues[j]]

Received(i) == [net EXCEPT ![i] = Tail(@)]

----------------------------------------------------------------------------
(* Routing entries *)

Entry == [if : Lan \cup {NoIf}, mac : Attach \cup {<<>>}, hops : Nat, bid : Int]

Known(e) == e.if # NoIf

\* Mutants of Efficient: the comparison of hop counts dropped, or reversed.
EfficientAnyHops(e, l, hop, disc) == disc = 1 \/ ~Known(e) \/ e.if # l

EfficientLonger(e, l, hop, disc) == disc = 1 \/ ~Known(e) \/ e.hops < hop + 1

\* Whether a RREQ or RREP that arrived over segment l, travelled hop hops and
\* has the given forced-discovery field replaces the entry e.
Efficient(e, l, hop, disc) ==
  \/ disc = 1
  \/ ~Known(e)
  \/ e.hops > hop + 1
  \/ e.hops = hop + 1 /\ e.if # l

\* Mutant of Learn: an entry that is not improved is deleted.
LearnOrDelete(e, l, mac, hop, disc) ==
  IF Efficient(e, l, hop, disc)
  THEN [if |-> l, mac |-> mac, hops |-> hop + 1, bid |-> e.bid]
  ELSE [e EXCEPT !.if = NoIf]

Learn(e, l, mac, hop, disc) ==
  IF Efficient(e, l, hop, disc)
  THEN [if |-> l, mac |-> mac, hops |-> hop + 1, bid |-> e.bid]
  ELSE e

----------------------------------------------------------------------------
(* Frames *)

RREQ(src, dst, port, bid, hop, sent, disc) ==
  [type |-> "RREQ", from |-> <<>>, src |-> src, dst |-> dst, port |-> port,
   bid |-> bid, hop |-> hop, sent |-> sent, disc |-> disc]

RREP(src, dst, port, hop, disc) ==
  [type |-> "RREP", from |-> <<>>, to |-> <<>>, src |-> src, dst |-> dst,
   port |-> port, hop |-> hop, disc |-> disc]

Payload(src, dst, sport, dport, msg) ==
  [type |-> "DATA", from |-> <<>>, to |-> <<>>, src |-> src, dst |-> dst,
   sport |-> sport, dport |-> dport, msg |-> msg]

\* One copy of a RREQ on each of n's interfaces L, from that interface.
Flood(n, L, f) == {[lan |-> l, frame |-> [f EXCEPT !.from = <<n, l>>]] : l \in L}

\* The frame f sent along the route of entry e.
Along(n, e, f) ==
  [lan |-> e.if, frame |-> [f EXCEPT !.from = <<n, e.if>>, !.to = e.mac]]

\* sendto() along the route of entry e.  No caller checks that there is one:
\* without, ifindex 0 makes sendto() fail whatever if_fd[-3] holds, and the
\* daemon exits.
SendAlong(n, e, f, queues) ==
  IF Known(e)
  THEN net' = Emit(queues, n, {Along(n, e, f)}) /\ UNCHANGED status
  ELSE net' = queues /\ status' = [status EXCEPT ![n] = "exited"]

----------------------------------------------------------------------------
(* Datagrams of the local applications *)

Up(n) == status[n] = "up"

HasLocal(n) == Up(n) /\ odrq[n] # <<>>

\* recvfrom() stores the sender in localaddr.
TakeLocal(n) ==
  /\ odrq' = [odrq EXCEPT ![n] = Tail(@)]
  /\ localaddr' = [localaddr EXCEPT ![n] = Head(odrq[n]).path]

\* A reply of the local server: sent along the route to the client's node.
ServerReply(n) ==
  LET m == Head(odrq[n])
      f == Payload(n, m.dst, htonl(ServerPort), htonl(m.port), m.msg)
  IN  /\ HasLocal(n)
      /\ m.path = Server
      /\ TakeLocal(n)
      /\ recvmsg' = [recvmsg EXCEPT ![n] = LeftBehind(m.port)]
      /\ SendAlong(n, routing_table[n][m.dst], f, net)
      /\ UNCHANGED <<routing_table, port_table, broadcast_id, appq, bound>>

\* A client that is not in port_table takes the next entry and the next port.
TableFull(n, p) == ~Entered(n, p) /\ Len(port_table[n]) = PortSlots - 1

WithClient(n, p) ==
  IF Entered(n, p) THEN port_table[n] ELSE Append(port_table[n], p)

\* Whether a request is sent as a payload at once.
RouteExists(n, m) ==
  Known(routing_table[n][m.dst]) /\ ReadFlag(m.flag, recvmsg[n]) = 0

ClientPayload(n) ==
  LET m == Head(odrq[n])
      table == WithClient(n, m.path)
      f == Payload(n, m.dst, htonl(PortOf(table, m.path)), htonl(ServerPort), m.msg)
  IN  /\ HasLocal(n)
      /\ m.path # Server
      /\ ~TableFull(n, m.path)
      /\ RouteExists(n, m)
      /\ TakeLocal(n)
      /\ port_table' = [port_table EXCEPT ![n] = table]
      /\ SendAlong(n, routing_table[n][m.dst], f, net)
      /\ UNCHANGED <<routing_table, broadcast_id, recvmsg, appq, bound>>

\* No route, or a flag: a RREQ with a new broadcast_id floods all interfaces.
ClientDiscovery(n) ==
  LET m == Head(odrq[n])
      table == WithClient(n, m.path)
      disc == IF ReadFlag(m.flag, recvmsg[n]) = 1 THEN 1 ELSE 0
      f == RREQ(n, m.dst, htonl(PortOf(table, m.path)), broadcast_id[n] + 1, 0, 0, disc)
  IN  /\ HasLocal(n)
      /\ m.path # Server
      /\ ~TableFull(n, m.path)
      /\ ~RouteExists(n, m)
      /\ TakeLocal(n)
      /\ port_table' = [port_table EXCEPT ![n] = table]
      /\ broadcast_id' = [broadcast_id EXCEPT ![n] = @ + 1]
      /\ net' = Emit(net, n, Flood(n, InterfacesOf(n), f))
      /\ UNCHANGED <<routing_table, recvmsg, status, appq, bound>>

\* The entry behind the last one is written: what the daemon does from here on
\* is undefined.
ClientOverflow(n) ==
  /\ HasLocal(n)
  /\ Head(odrq[n]).path # Server
  /\ TableFull(n, Head(odrq[n]).path)
  /\ TakeLocal(n)
  /\ status' = [status EXCEPT ![n] = "corrupt"]
  /\ UNCHANGED <<routing_table, port_table, broadcast_id, recvmsg, net, appq, bound>>

----------------------------------------------------------------------------
(* Frames from an interface i = <<n, l>> *)

Arrived(i, type) == Up(i[1]) /\ net[i] # <<>> /\ Head(net[i]).type = type

\* Mutant of Reverse: the route is not entered.
ReverseIdOnly(i, f) == [routing_table EXCEPT ![i[1]][f.src].bid = f.bid]

\* Mutant of Reverse: the source is taken for the node that sent the frame.
ReverseToSource(i, f) ==
  LET e == routing_table[i[1]][f.src]
  IN  [routing_table EXCEPT
         ![i[1]][f.src] = [Learn(e, i[2], <<f.src, i[2]>>, f.hop, f.disc) EXCEPT !.bid = f.bid]]

\* n's table after the 'reverse' route to the source of RREQ f; the entry's
\* broadcast_id becomes f's in every branch of the handler.
Reverse(i, f) ==
  LET e == routing_table[i[1]][f.src]
  IN  [routing_table EXCEPT
         ![i[1]][f.src] = [Learn(e, i[2], f.from, f.hop, f.disc) EXCEPT !.bid = f.bid]]

BetterSource(i, f) == Efficient(routing_table[i[1]][f.src], i[2], f.hop, f.disc)

\* Mutant of Fresh: off by one.
FreshLater(i, f) == routing_table[i[1]][f.src].bid + 1 < f.bid

\* The RREQ is newer than the last one from its source, or is that one again
\* over a more efficient route.
Fresh(i, f) ==
  LET e == routing_table[i[1]][f.src]
  IN  e.bid < f.bid \/ (e.bid = f.bid /\ BetterSource(i, f))

\* Mutant of Answer: the entry is read before the reverse route is in it.
AnswerTooEarly(i, f, hop, disc) ==
  [lan |-> i[2],
   frame |-> [RREP(f.dst, f.src, htonl(f.port), hop, disc) EXCEPT
                !.to = f.from, !.from = <<i[1], routing_table[i[1]][f.src].if>>]]

\* The RREP goes out on the interface the RREQ came in on, to the node that
\* sent it; its source address is that of the interface towards f.src, and its
\* port is a second conversion of a number that is in network order already.
Answer(i, f, hop, disc) ==
  LET back == Reverse(i, f)[i[1]][f.src]
  IN  [lan |-> i[2],
       frame |-> [RREP(f.dst, f.src, htonl(f.port), hop, disc) EXCEPT
                    !.to = f.from, !.from = <<i[1], back.if>>]]

Answers(i, f, hop, disc) ==
  IF f.sent = 0 /\ Fresh(i, f) THEN {Answer(i, f, hop, disc)} ELSE {}

\* Mutant of Reflood: the hop count is not incremented.
RefloodSameHops(i, f, sent) ==
  Flood(i[1], InterfacesOf(i[1]) \ {i[2]}, [f EXCEPT !.sent = sent])

\* The RREQ floods all interfaces but the one it came in on.
Reflood(i, f, sent) ==
  Flood(i[1], InterfacesOf(i[1]) \ {i[2]},
        [f EXCEPT !.hop = @ + 1, !.sent = sent])

\* Whether the node can answer for the destination; its table has the reverse
\* route to the source by now.
CanAnswer(i, f) == Known(Reverse(i, f)[i[1]][f.dst]) /\ f.disc = 0

\* Mutant of RREQAtDestination: answered without a reverse route.
RREQAtDestinationForgets(i) ==
  LET f == Head(net[i])
  IN  /\ Arrived(i, "RREQ")
      /\ f.dst = i[1]
      /\ routing_table' = ReverseIdOnly(i, f)
      /\ net' = Emit(Received(i), i[1], Answers(i, f, 0, f.disc))
      /\ UNCHANGED <<port_table, broadcast_id, localaddr, recvmsg, status, odrq, appq, bound>>

RREQAtDestination(i) ==
  LET f == Head(net[i])
  IN  /\ Arrived(i, "RREQ")
      /\ f.dst = i[1]
      /\ routing_table' = Reverse(i, f)
      /\ net' = Emit(Received(i), i[1], Answers(i, f, 0, f.disc))
      /\ UNCHANGED <<port_table, broadcast_id, localaddr, recvmsg, status, odrq, appq, bound>>

RREQAtKnowingNode(i) ==
  LET f == Head(net[i])
      hops == Reverse(i, f)[i[1]][f.dst].hops
  IN  /\ Arrived(i, "RREQ")
      /\ f.dst # i[1]
      /\ CanAnswer(i, f)
      /\ routing_table' = Reverse(i, f)
      /\ net' = Emit(Received(i), i[1],
                     Answers(i, f, hops, 0)
                       \cup (IF BetterSource(i, f) THEN Reflood(i, f, 1) ELSE {}))
      /\ UNCHANGED <<port_table, broadcast_id, localaddr, recvmsg, status, odrq, appq, bound>>

RREQAtOtherNode(i) ==
  LET f == Head(net[i])
  IN  /\ Arrived(i, "RREQ")
      /\ f.dst # i[1]
      /\ ~CanAnswer(i, f)
      /\ routing_table' = Reverse(i, f)
      /\ net' = Emit(Received(i), i[1], IF Fresh(i, f) THEN Reflood(i, f, f.sent) ELSE {})
      /\ UNCHANGED <<port_table, broadcast_id, localaddr, recvmsg, status, odrq, appq, bound>>

\* n's table after the 'forward' route to the source of RREP f.
Forward(i, f) ==
  [routing_table EXCEPT ![i[1]][f.src] = Learn(@, i[2], f.from, f.hop, f.disc)]

\* Mutant of Addressee: no match is an error.
AddresseeStrict(n, port) ==
  IF ntohl(port) = ServerPort THEN Server
  ELSE IF \E k \in 1 .. Len(port_table[n]) : ntohl(port) = 5999 + k
  THEN port_table[n][ntohl(port) - 5999]
  ELSE NoPath

\* The application that a port on the wire designates; localaddr keeps its
\* value when no entry of port_table matches.
Addressee(n, port) ==
  IF ntohl(port) = ServerPort THEN Server
  ELSE IF \E k \in 1 .. Len(port_table[n]) : ntohl(port) = 5999 + k
  THEN port_table[n][ntohl(port) - 5999]
  ELSE localaddr[n]

\* sendto() the application; it fails, and the daemon exits, when no socket is
\* bound to the path.
Deliver(n, path, data) ==
  /\ localaddr' = [localaddr EXCEPT ![n] = path]
  /\ IF <<n, path>> \in bound
     THEN appq' = [appq EXCEPT ![n][path] = Append(@, data)] /\ UNCHANGED status
     ELSE status' = [status EXCEPT ![n] = "exited"] /\ UNCHANGED appq

Data(msg, src, port) == [msg |-> msg, src |-> src, port |-> port]

RREPAtSource(i) ==
  LET f == Head(net[i])
  IN  /\ Arrived(i, "RREP")
      /\ f.dst = i[1]
      /\ routing_table' = Forward(i, f)
      /\ net' = Received(i)
      /\ Deliver(i[1], Addressee(i[1], f.port), Data("HI", f.src, ServerPort))
      /\ UNCHANGED <<port_table, broadcast_id, recvmsg, odrq, bound>>

RelayRREP(i) ==
  LET f == Head(net[i])
  IN  /\ Arrived(i, "RREP")
      /\ f.dst # i[1]
      /\ routing_table' = Forward(i, f)
      /\ SendAlong(i[1], Forward(i, f)[i[1]][f.dst], [f EXCEPT !.hop = @ + 1], Received(i))
      /\ UNCHANGED <<port_table, broadcast_id, localaddr, recvmsg, odrq, appq, bound>>

\* The application is told the source port as it is on the wire.
PayloadAtDestination(i) ==
  LET f == Head(net[i])
  IN  /\ Arrived(i, "DATA")
      /\ f.dst = i[1]
      /\ net' = Received(i)
      /\ Deliver(i[1], Addressee(i[1], f.dport), Data(f.msg, f.src, f.sport))
      /\ UNCHANGED <<routing_table, port_table, broadcast_id, recvmsg, odrq, bound>>

RelayPayload(i) ==
  LET f == Head(net[i])
  IN  /\ Arrived(i, "DATA")
      /\ f.dst # i[1]
      /\ SendAlong(i[1], routing_table[i[1]][f.dst], f, Received(i))
      /\ UNCHANGED <<routing_table, port_table, broadcast_id, localaddr, recvmsg, odrq, appq, bound>>

----------------------------------------------------------------------------
(* What surrounds the daemons (external) *)

\* A frame is lost between the wire and the daemon.
LoseFrame(i) ==
  /\ Lossy
  /\ net[i] # <<>>
  /\ net' = Received(i)
  /\ UNCHANGED <<routing_table, port_table, broadcast_id, localaddr, recvmsg,
                 status, odrq, appq, bound>>

\* An application's msg_send reaches the daemon's socket.
AppSends(n, m) ==
  /\ Up(n)
  /\ <<n, m.path>> \in bound
  /\ odrq' = [odrq EXCEPT ![n] = Append(@, m)]
  /\ UNCHANGED <<routing_table, port_table, broadcast_id, localaddr, recvmsg,
                 status, net, appq, bound>>

\* An application's msg_recv takes its next datagram.
AppReceives(n, p) ==
  /\ <<n, p>> \in bound
  /\ appq[n][p] # <<>>
  /\ appq' = [appq EXCEPT ![n][p] = Tail(@)]
  /\ UNCHANGED <<routing_table, port_table, broadcast_id, localaddr, recvmsg,
                 status, net, odrq, bound>>

\* An application ends, and with it the socket and the datagrams in it.
AppExits(n, p) ==
  /\ <<n, p>> \in bound
  /\ bound' = bound \ {<<n, p>>}
  /\ appq' = [appq EXCEPT ![n][p] = <<>>]
  /\ UNCHANGED <<routing_table, port_table, broadcast_id, localaddr, recvmsg,
                 status, net, odrq>>

\* A client asks for the time service, the server answers on any port.
LocalMsg ==
  [path : Client, dst : Node, port : {ServerPort}, msg : {"HI"}, flag : Flags]
    \cup [path : {Server}, dst : Node, port : Ports, msg : {"TIME"}, flag : {0}]

----------------------------------------------------------------------------

Init ==
  /\ routing_table \in
       [Node -> [Node -> [if : {NoIf}, mac : {<<>>}, hops : {0}, bid : GarbageId]]]
  /\ port_table = [n \in Node |-> <<>>]
  /\ broadcast_id = [n \in Node |-> 0]
  /\ localaddr = [n \in Node |-> NoPath]
  /\ recvmsg \in [Node -> GarbageTail]
  /\ status = [n \in Node |-> "up"]
  /\ net = [i \in Attach |-> <<>>]
  /\ odrq = [n \in Node |-> <<>>]
  /\ appq = [n \in Node |-> [p \in Path |-> <<>>]]
  /\ bound = Running

HandleLocal(n) ==
  ServerReply(n) \/ ClientPayload(n) \/ ClientDiscovery(n) \/ ClientOverflow(n)

HandleRREQ(i) == RREQAtDestination(i) \/ RREQAtKnowingNode(i) \/ RREQAtOtherNode(i)

HandleFrame(i) ==
  \/ HandleRREQ(i)
  \/ RREPAtSource(i) \/ RelayRREP(i)
  \/ PayloadAtDestination(i) \/ RelayPayload(i)

Daemons == (\E n \in Node : HandleLocal(n)) \/ (\E i \in Attach : HandleFrame(i))

Applications ==
  \/ \E n \in Node, m \in LocalMsg : AppSends(n, m)
  \/ \E n \in Node, p \in Path : AppReceives(n, p) \/ AppExits(n, p)

Next == Daemons \/ (\E i \in Attach : LoseFrame(i)) \/ Applications

Spec == Init /\ [][Next]_vars

----------------------------------------------------------------------------
(* Properties *)

RREQFrame ==
  [type : {"RREQ"}, from : Attach, src : Node, dst : Node, port : Ports,
   bid : Int, hop : Nat, sent : {0, 1}, disc : {0, 1}]

RREPFrame ==
  [type : {"RREP"}, from : Attach, to : Attach, src : Node, dst : Node,
   port : Ports, hop : Nat, disc : {0, 1}]

PayloadFrame ==
  [type : {"DATA"}, from : Attach, to : Attach, src : Node, dst : Node,
   sport : Ports, dport : Ports, msg : {"HI", "TIME"}]

Frame == RREQFrame \cup RREPFrame \cup PayloadFrame

\* Every variable of the daemons has its type; a route names an interface of
\* the node and an Ethernet address, and port_table stays within its array.
TypeOK ==
  /\ routing_table \in [Node -> [Node -> Entry]]
  /\ \A n, d \in Node : Known(routing_table[n][d]) =>
       /\ <<n, routing_table[n][d].if>> \in Attach
       /\ routing_table[n][d].mac \in Attach
  /\ port_table \in [Node -> Seq(Client)]
  /\ \A n \in Node : Len(port_table[n]) < PortSlots
  /\ broadcast_id \in [Node -> Nat]
  /\ localaddr \in [Node -> Path \cup {NoPath}]
  /\ recvmsg \in [Node -> -1 .. 9]
  /\ status \in [Node -> {"up", "exited", "corrupt"}]
  /\ net \in [Attach -> Seq(Frame)]
  /\ odrq \in [Node -> Seq(LocalMsg)]
  /\ appq \in [Node -> [Path -> Seq([msg : {"HI", "TIME"}, src : Node, port : Ports])]]
  /\ bound \subseteq Node \X Path

\* The frames on their way to interface i.
InFlight(queues, i) == {queues[i][k] : k \in 1 .. Len(queues[i])}

NextHop(n, d) == routing_table[n][d].mac[1]

\* Following next hops towards d ends at d: the next hop of a route is d, or
\* has itself a route to d with fewer hops.  The update rules of the RREQ and
\* RREP handlers have to ensure it without sequence numbers; forced discovery
\* overrides them, so this is claimed of runs without it.
LoopFree ==
  \A n, d \in Node : Known(routing_table[n][d]) =>
    \/ NextHop(n, d) = d
    \/ /\ Known(routing_table[NextHop(n, d)][d])
       /\ routing_table[NextHop(n, d)][d].hops < routing_table[n][d].hops

\* The next hop of a route is a node on the segment the route leaves through.
NextHopIsNeighbour ==
  \A n, d \in Node : Known(routing_table[n][d]) =>
    <<NextHop(n, d), routing_table[n][d].if>> \in Attach

\* A node that is given a RREP or a payload to relay has a route for it: the
\* relaying code sends without checking, and the daemon would exit.
RelayHasRoute ==
  \A i \in Attach : \A f \in InFlight(net, i) :
    f.type # "RREQ" /\ f.dst # i[1] => Known(routing_table[i[1]][f.dst])

Adjacent(m, n) == \E l \in Lan : <<m, l>> \in Attach /\ <<n, l>> \in Attach

\* A walk of k hops over the segments leads from d to n.
Walk(d, n, k) ==
  \E w \in [0 .. k -> Node] :
    w[0] = d /\ w[k] = n /\ \A j \in 1 .. k : Adjacent(w[j - 1], w[j])

\* A hop count is never smaller than the distance: the counts that the RREQ and
\* RREP handlers add up, at one node for the table and at another for the
\* frame, belong to a walk that exists.
HopsAreReal ==
  \A n, d \in Node : Known(routing_table[n][d]) =>
    Walk(d, n, routing_table[n][d].hops)

\* No handler takes a route away: frames in flight count on the routes that
\* were there when they were sent.
RoutesStay ==
  [][\A n, d \in Node : Known(routing_table[n][d]) => Known(routing_table'[n][d])]_vars

\* Without forced discovery no handler makes a route longer.
RoutesNeverLengthen ==
  [][\A n, d \in Node : Known(routing_table[n][d]) =>
       routing_table'[n][d].hops <= routing_table[n][d].hops]_vars
=============================================================================
