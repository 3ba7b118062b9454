-------------------------- MODULE ODRRoutes_proofs --------------------------
(***************************************************************************)
(* The routes the daemons build: a route leads over neighbours that have   *)
(* routes of their own, frames are only given to nodes that can pass them  *)
(* on, and, unless a client forces a discovery, hop counts fall along a    *)
(* route, so that there are no loops.                                      *)
(*                                                                         *)
(* A route at n is learned from a frame that the next hop sent, and what   *)
(* the next hop knew when it sent the frame it still knows, because no     *)
(* handler removes a route.  The invariant therefore speaks about the      *)
(* frames in flight as well as about the tables.                           *)
(***************************************************************************)
EXTENDS ODR_proofs

\* No client passes a flag, and no datagram can be read as if it did.
Unforced == Flags = {0} /\ 1 \notin GarbageTail

Via(rt, n, d) == rt[n][d].mac[1]

\* The next hop of every route is a neighbour and the destination itself or a
\* node with a route, shorter if nothing is forced.
RoutesOK(rt) ==
  \A n, d \in Node : Known(rt[n][d]) =>
    /\ <<Via(rt, n, d), rt[n][d].if>> \in Attach
    /\ \/ Via(rt, n, d) = d
       \/ /\ Known(rt[Via(rt, n, d)][d])
          /\ Unforced => rt[Via(rt, n, d)][d].hops < rt[n][d].hops

\* The sender of a frame f to interface j is a neighbour; it is f's source or
\* knows the way to it, in at most as many hops as f says if nothing is forced;
\* and whoever is to relay f knows the way to its destination.
FrameOK(rt, j, f) ==
  /\ <<f.from[1], j[2]>> \in Attach
  /\ f.type # "DATA" =>
       /\ \/ f.from[1] = f.src
          \/ /\ Known(rt[f.from[1]][f.src])
             /\ Unforced => rt[f.from[1]][f.src].hops <= f.hop
       /\ Unforced => f.disc = 0
  /\ f.type # "RREQ" /\ f.dst # j[1] => Known(rt[j[1]][f.dst])

FramesOK(rt, q) == \A j \in Attach : \A f \in InFlight(q, j) : FrameOK(rt, j, f)

BuffersOK == Unforced => \A n \in Node : recvmsg[n] # 1

RouteInv ==
  /\ TypeOK
  /\ RoutesOK(routing_table)
  /\ FramesOK(routing_table, net)
  /\ BuffersOK

\* How a step may change the tables.
Improves(rt, new) ==
  \A n, d \in Node : Known(rt[n][d]) =>
    /\ Known(new[n][d])
    /\ Unforced => new[n][d].hops <= rt[n][d].hops

----------------------------------------------------------------------------

\* The frames in flight after a send are those before it and the sent ones.
LEMMA EmitFlight ==
  ASSUME NEW q \in [Attach -> Seq(Frame)], NEW n, NEW E,
         \A e \in E : e.frame \in Frame,
         NEW j \in Attach, NEW f \in InFlight(Emit(q, n, E), j)
  PROVE  f \in InFlight(q, j) \/ \E e \in E : Hears(j, n, e) /\ f = e.frame
<1>1. CASE \E e \in E : Hears(j, n, e)
  <2> DEFINE c == CHOOSE e \in E : Hears(j, n, e)
  <2>1. c \in E /\ Hears(j, n, c)
    BY <1>1
  <2>2. Emit(q, n, E)[j] = Append(q[j], c.frame)
    BY <1>1 DEF Emit
  <2> HIDE DEF c
  <2>3. PICK k \in 1 .. Len(Append(q[j], c.frame)) : f = Append(q[j], c.frame)[k]
    BY <2>2 DEF InFlight
  <2>4. c.frame \in Frame /\ q[j] \in Seq(Frame)
    BY <2>1
  <2>5. CASE k = Len(q[j]) + 1
    BY <2>1, <2>3, <2>4, <2>5
  <2>6. CASE k \in 1 .. Len(q[j])
    BY <2>3, <2>4, <2>6 DEF InFlight
  <2> QED
    BY <2>3, <2>4, <2>5, <2>6
<1>2. CASE ~\E e \in E : Hears(j, n, e)
  BY <1>2 DEF Emit, InFlight
<1> QED
  BY <1>1, <1>2

\* Reading a frame takes it out of flight and adds none.
LEMMA ReceivedFlight ==
  ASSUME NEW i \in Attach, net \in [Attach -> Seq(Frame)], net[i] # <<>>
  PROVE  /\ Head(net[i]) \in InFlight(net, i)
         /\ \A j \in Attach : InFlight(Received(i), j) \subseteq InFlight(net, j)
<1>1. net[i] \in Seq(Frame) /\ Len(net[i]) \in Nat /\ Len(net[i]) > 0
  OBVIOUS
<1>2. Head(net[i]) \in InFlight(net, i)
  BY <1>1 DEF InFlight
<1>3. ASSUME NEW j \in Attach, NEW f \in InFlight(Received(i), j)
      PROVE  f \in InFlight(net, j)
  <2>1. CASE j = i
    <3>1. PICK k \in 1 .. Len(Tail(net[i])) : f = Tail(net[i])[k]
      BY <1>3, <2>1 DEF InFlight, Received
    <3>2. k + 1 \in 1 .. Len(net[i]) /\ f = net[i][k + 1]
      BY <1>1, <3>1
    <3> QED
      BY <2>1, <3>2 DEF InFlight
  <2>2. CASE j # i
    BY <1>3, <2>2 DEF InFlight, Received
  <2> QED
    BY <2>1, <2>2
<1> QED
  BY <1>2, <1>3

\* Frames in flight are frames.
LEMMA FlightType ==
  ASSUME NEW q \in [Attach -> Seq(Frame)], NEW j \in Attach, NEW f \in InFlight(q, j)
  PROVE  f \in Frame
  BY DEF InFlight

\* What holds of a frame keeps holding when the tables improve.
LEMMA FrameKept ==
  ASSUME NEW rt, NEW new, TablesOK(rt), TablesOK(new), Improves(rt, new),
         NEW j \in Attach, NEW f \in Frame, FrameOK(rt, j, f)
  PROVE  FrameOK(new, j, f)
<1>1. f.from[1] \in Node /\ f.src \in Node /\ f.dst \in Node /\ j[1] \in Node
      /\ f.type \in {"RREQ", "RREP", "DATA"} /\ (f.type # "DATA" => f.hop \in Nat)
  BY FrameCases, AttachType
<1>2. rt[f.from[1]][f.src].hops \in Nat /\ new[f.from[1]][f.src].hops \in Nat
  BY <1>1 DEF TablesOK, Entry
<1> QED
  BY <1>1, <1>2 DEF FrameOK, Improves

\* The frames after a step: the tables improve, and every frame sent is right
\* for each interface that hears it.
LEMMA FramesStep ==
  ASSUME NEW rt, NEW new, TablesOK(rt), TablesOK(new), Improves(rt, new),
         NEW q \in [Attach -> Seq(Frame)], FramesOK(rt, q),
         NEW n, NEW E, \A e \in E : e.frame \in Frame,
         \A e \in E : \A j \in Attach : Hears(j, n, e) => FrameOK(new, j, e.frame)
  PROVE  FramesOK(new, Emit(q, n, E))
<1> SUFFICES ASSUME NEW j \in Attach, NEW f \in InFlight(Emit(q, n, E), j)
             PROVE  FrameOK(new, j, f)
  BY DEF FramesOK
<1>1. CASE f \in InFlight(q, j)
  BY <1>1, FlightType, FrameKept DEF FramesOK
<1>2. CASE \E e \in E : Hears(j, n, e) /\ f = e.frame
  BY <1>2
<1> QED
  BY <1>1, <1>2, EmitFlight

\* What a handler learns from a frame keeps the routes right and improves them.
LEMMA LearnedRoutes ==
  ASSUME NEW rt, TablesOK(rt), RoutesOK(rt),
         NEW i \in Attach, NEW f \in Frame, f.type # "DATA", FrameOK(rt, i, f),
         NEW y \in Entry,
         \/ /\ Efficient(rt[i[1]][f.src], i[2], f.hop, f.disc)
            /\ y.if = i[2] /\ y.mac = f.from /\ y.hops = f.hop + 1
         \/ /\ ~Efficient(rt[i[1]][f.src], i[2], f.hop, f.disc)
            /\ y.if = rt[i[1]][f.src].if
            /\ y.mac = rt[i[1]][f.src].mac
            /\ y.hops = rt[i[1]][f.src].hops,
         NEW new, new = [rt EXCEPT ![i[1]][f.src] = y]
  PROVE  /\ RoutesOK(new)
         /\ Improves(rt, new)
         /\ Known(new[i[1]][f.src])
         /\ Unforced => new[i[1]][f.src].hops <= f.hop + 1
<1> DEFINE n == i[1]
           s == f.src
           e == rt[n][s]
           m == f.from[1]
<1>1. n \in Node /\ s \in Node /\ i[2] \in Lan /\ i = <<n, i[2]>> /\ m \in Node
      /\ f.hop \in Nat /\ f.disc \in {0, 1}
  BY AttachType, FrameCases
<1>2. \A a, d \in Node : new[a][d] = IF a = n /\ d = s THEN y ELSE rt[a][d]
  BY <1>1 DEF TablesOK
<1>3. \A a, d \in Node : rt[a][d].hops \in Nat
  BY DEF TablesOK, Entry
<1>4. e.hops \in Nat /\ y.hops \in Nat
  BY <1>1, <1>3 DEF Entry
<1>5. Known(y)
  BY <1>1, NoIfAssumption DEF Known, Efficient
<1>6. ASSUME Unforced
      PROVE  y.hops <= f.hop + 1 /\ (Known(e) => y.hops <= e.hops)
  <2>1. f.disc # 1
    BY <1>6 DEF FrameOK
  <2> QED
    BY <1>1, <1>4, <2>1 DEF Efficient
<1>7. Improves(rt, new)
  BY <1>1, <1>2, <1>3, <1>5, <1>6 DEF Improves
<1>8. ASSUME NEW a \in Node, NEW d \in Node, Known(new[a][d])
      PROVE  /\ <<Via(new, a, d), new[a][d].if>> \in Attach
             /\ \/ Via(new, a, d) = d
                \/ /\ Known(new[Via(new, a, d)][d])
                   /\ Unforced => new[Via(new, a, d)][d].hops < new[a][d].hops
  <2>1. CASE /\ a = n /\ d = s
             /\ Efficient(e, i[2], f.hop, f.disc)
    <3>1. new[a][d] = y /\ y.if = i[2] /\ y.mac = f.from /\ y.hops = f.hop + 1
      BY <1>1, <1>2, <2>1
    <3>2. Via(new, a, d) = m
      BY <3>1 DEF Via
    <3>3. <<m, i[2]>> \in Attach
          /\ (m = s \/ (Known(rt[m][s]) /\ (Unforced => rt[m][s].hops <= f.hop)))
      BY DEF FrameOK
    <3>4. ASSUME m # s PROVE Known(new[m][s]) /\ (Unforced => new[m][s].hops <= rt[m][s].hops)
      BY <1>1, <1>7, <3>3, <3>4 DEF Improves
    <3>5. new[m][s].hops \in Nat /\ rt[m][s].hops \in Nat
      BY <1>1, <1>2, <1>3, <1>4
    <3>6. ASSUME m # s
          PROVE  Known(new[m][s]) /\ (Unforced => new[m][s].hops < f.hop + 1)
      BY <1>1, <3>3, <3>4, <3>5, <3>6
    <3>7. <<m, new[a][d].if>> \in Attach /\ new[a][d].hops = f.hop + 1 /\ d = s
      BY <2>1, <3>1, <3>3
    <3> HIDE DEF m
    <3> QED
      BY <3>2, <3>6, <3>7
  <2>2. CASE ~(/\ a = n /\ d = s
               /\ Efficient(e, i[2], f.hop, f.disc))
    <3>1. /\ new[a][d].if = rt[a][d].if
          /\ new[a][d].mac = rt[a][d].mac
          /\ new[a][d].hops = rt[a][d].hops
      BY <1>2, <2>2
    <3>2. Known(rt[a][d]) /\ Via(new, a, d) = Via(rt, a, d)
      BY <1>8, <3>1 DEF Known, Via
    <3> DEFINE v == Via(rt, a, d)
    <3>3. <<v, rt[a][d].if>> \in Attach
          /\ (v = d \/ (Known(rt[v][d]) /\ (Unforced => rt[v][d].hops < rt[a][d].hops)))
      BY <3>2 DEF RoutesOK
    <3>4. v \in Node
      BY <3>3, TopologyAssumption
    <3>5. Known(rt[v][d]) => Known(new[v][d]) /\ (Unforced => new[v][d].hops <= rt[v][d].hops)
      BY <1>7, <3>4 DEF Improves
    <3>6. new[v][d].hops \in Nat /\ rt[v][d].hops \in Nat /\ rt[a][d].hops \in Nat
      BY <1>2, <1>3, <1>4, <3>4
    <3> HIDE DEF v
    <3> QED
      BY <3>1, <3>2, <3>3, <3>5, <3>6 DEF v
  <2> QED
    BY <2>1, <2>2
<1>9. RoutesOK(new)
  BY <1>8 DEF RoutesOK
<1> QED
  BY <1>1, <1>2, <1>5, <1>6, <1>7, <1>9

\* The same for the reverse route of a RREQ.
LEMMA ReverseRoutes ==
  ASSUME TypeOK, RoutesOK(routing_table),
         NEW i \in Attach, NEW f \in Frame, f.type = "RREQ", FrameOK(routing_table, i, f)
  PROVE  /\ TablesOK(Reverse(i, f))
         /\ RoutesOK(Reverse(i, f))
         /\ Improves(routing_table, Reverse(i, f))
         /\ Known(Reverse(i, f)[i[1]][f.src])
         /\ Unforced => Reverse(i, f)[i[1]][f.src].hops <= f.hop + 1
<1> DEFINE e == routing_table[i[1]][f.src]
           x == Learn(e, i[2], f.from, f.hop, f.disc)
           y == [x EXCEPT !.bid = f.bid]
<1>1. TablesOK(routing_table)
  BY DEF TypeOK, TablesOK
<1>2. i[1] \in Node /\ i[2] \in Lan /\ f.src \in Node /\ f.from \in Attach
      /\ f.hop \in Nat /\ f.bid \in Int
  BY AttachType, FrameCases DEF RREQFrame
<1>3. e \in Entry
  BY <1>1, <1>2 DEF TablesOK
<1>4. x \in Entry
  BY <1>2, <1>3, LearnType
<1>5. y \in Entry /\ y.if = x.if /\ y.mac = x.mac /\ y.hops = x.hops
  <2> HIDE DEF x
  <2> QED
    BY <1>2, <1>4 DEF Entry
<1>6. \/ /\ Efficient(e, i[2], f.hop, f.disc)
         /\ x.if = i[2] /\ x.mac = f.from /\ x.hops = f.hop + 1
      \/ ~Efficient(e, i[2], f.hop, f.disc) /\ x = e
  BY DEF Learn
<1>7. Reverse(i, f) = [routing_table EXCEPT ![i[1]][f.src] = y]
  BY DEF Reverse
<1> HIDE DEF x, y
<1>8. TablesOK(Reverse(i, f))
  BY <1>1, LearnedTables
<1>9. \/ /\ Efficient(e, i[2], f.hop, f.disc)
         /\ y.if = i[2] /\ y.mac = f.from /\ y.hops = f.hop + 1
      \/ /\ ~Efficient(e, i[2], f.hop, f.disc)
         /\ y.if = e.if /\ y.mac = e.mac /\ y.hops = e.hops
  BY <1>5, <1>6
<1>10. f.type # "DATA" /\ y \in Entry
  BY <1>5
<1> DEFINE new == Reverse(i, f)
<1>11. /\ RoutesOK(new)
       /\ Improves(routing_table, new)
       /\ Known(new[i[1]][f.src])
       /\ Unforced => new[i[1]][f.src].hops <= f.hop + 1
  BY <1>1, <1>7, <1>9, <1>10, LearnedRoutes
<1> QED
  BY <1>8, <1>11

\* And for the forward route of a RREP.
LEMMA ForwardRoutes ==
  ASSUME TypeOK, RoutesOK(routing_table),
         NEW i \in Attach, NEW f \in Frame, f.type = "RREP", FrameOK(routing_table, i, f)
  PROVE  /\ TablesOK(Forward(i, f))
         /\ RoutesOK(Forward(i, f))
         /\ Improves(routing_table, Forward(i, f))
         /\ Known(Forward(i, f)[i[1]][f.src])
         /\ Unforced => Forward(i, f)[i[1]][f.src].hops <= f.hop + 1
<1> DEFINE e == routing_table[i[1]][f.src]
           x == Learn(e, i[2], f.from, f.hop, f.disc)
<1>1. TablesOK(routing_table)
  BY DEF TypeOK, TablesOK
<1>2. i[1] \in Node /\ i[2] \in Lan /\ f.src \in Node /\ f.from \in Attach /\ f.hop \in Nat
  BY AttachType, FrameCases
<1>3. e \in Entry
  BY <1>1, <1>2 DEF TablesOK
<1>4. x \in Entry
  BY <1>2, <1>3, LearnType
<1>5. \/ /\ Efficient(e, i[2], f.hop, f.disc)
         /\ x.if = i[2] /\ x.mac = f.from /\ x.hops = f.hop + 1
      \/ ~Efficient(e, i[2], f.hop, f.disc) /\ x = e
  BY DEF Learn
<1>6. Forward(i, f) = [routing_table EXCEPT ![i[1]][f.src] = x]
  BY <1>1, <1>2 DEF Forward, TablesOK
<1> HIDE DEF x
<1>7. TablesOK(Forward(i, f))
  BY <1>1, LearnedTables
<1>8. \/ /\ Efficient(e, i[2], f.hop, f.disc)
         /\ x.if = i[2] /\ x.mac = f.from /\ x.hops = f.hop + 1
      \/ /\ ~Efficient(e, i[2], f.hop, f.disc)
         /\ x.if = e.if /\ x.mac = e.mac /\ x.hops = e.hops
  BY <1>5
<1>9. f.type # "DATA"
  OBVIOUS
<1> DEFINE new == Forward(i, f)
<1>10. /\ RoutesOK(new)
       /\ Improves(routing_table, new)
       /\ Known(new[i[1]][f.src])
       /\ Unforced => new[i[1]][f.src].hops <= f.hop + 1
  BY <1>1, <1>4, <1>6, <1>8, <1>9, LearnedRoutes
<1> QED
  BY <1>7, <1>10

----------------------------------------------------------------------------
(* The frames the handlers send *)

\* A copy of a RREQ that n floods: n is its source, or knows the way to it in
\* as many hops as the copy says.
LEMMA FloodOK ==
  ASSUME NEW rt, NEW n \in Node, NEW L \in SUBSET InterfacesOf(n), NEW f,
         \A mac \in Attach :
           LET g == [f EXCEPT !.from = mac]
           IN  /\ g.type = "RREQ" /\ g.from = mac /\ g.src \in Node
               /\ n = g.src \/ (Known(rt[n][g.src]) /\ (Unforced => rt[n][g.src].hops <= g.hop))
               /\ Unforced => g.disc = 0
  PROVE  \A e \in Flood(n, L, f) : \A j \in Attach :
           Hears(j, n, e) => FrameOK(rt, j, e.frame)
<1> SUFFICES ASSUME NEW l \in L, NEW j \in Attach, j[2] = l
             PROVE  FrameOK(rt, j, [f EXCEPT !.from = <<n, l>>])
  BY DEF Flood, Hears
<1> DEFINE g == [f EXCEPT !.from = <<n, l>>]
<1>1. <<n, l>> \in Attach
  BY DEF InterfacesOf
<1>2. /\ g.type = "RREQ" /\ g.from = <<n, l>>
      /\ n = g.src \/ (Known(rt[n][g.src]) /\ (Unforced => rt[n][g.src].hops <= g.hop))
      /\ Unforced => g.disc = 0
  BY <1>1
<1>3. g.from[1] = n
  BY <1>2
<1> HIDE DEF g
<1>4. FrameOK(rt, j, g)
  BY <1>1, <1>2, <1>3 DEF FrameOK
<1> QED
  BY <1>4 DEF g

\* A RREP or payload g that n sends along its route to the destination d.
LEMMA AlongOK ==
  ASSUME NEW rt, TablesOK(rt), RoutesOK(rt), NEW n \in Node, NEW d \in Node,
         Known(rt[n][d]),
         NEW g \in Frame, g.type # "RREQ", g.dst = d,
         g.from = <<n, rt[n][d].if>>, g.to = rt[n][d].mac,
         g.type # "DATA" =>
           /\ Known(rt[n][g.src])
           /\ Unforced => rt[n][g.src].hops <= g.hop /\ g.disc = 0
  PROVE  \A e \in {[lan |-> rt[n][d].if, frame |-> g]} : \A j \in Attach :
           Hears(j, n, e) => FrameOK(rt, j, e.frame)
<1> DEFINE r == rt[n][d]
           a == [lan |-> r.if, frame |-> g]
<1>1. <<n, r.if>> \in Attach
  BY DEF TablesOK
<1>2. a.lan = r.if /\ a.frame = g
  OBVIOUS
<1>3. g.from[1] = n
  OBVIOUS
<1> HIDE DEF a
<1>4. ASSUME NEW j \in Attach, Hears(j, n, a)
      PROVE  FrameOK(rt, j, g)
  <2>1. j[2] = r.if /\ j = r.mac
    BY <1>2, <1>4 DEF Hears
  <2>2. j[1] = Via(rt, n, d)
    BY <2>1 DEF Via
  <2>3. g.dst # j[1] => Known(rt[j[1]][g.dst])
    BY <2>2 DEF RoutesOK
  <2> HIDE DEF r
  <2> QED
    BY <1>1, <1>3, <2>1, <2>3 DEF FrameOK
<1> QED
  BY <1>2, <1>4 DEF a

\* The RREP with which a node answers a RREQ f: the node that sent f is f's
\* source or knows the way back to it.
LEMMA AnswerOK ==
  ASSUME TypeOK, RoutesOK(routing_table),
         NEW i \in Attach, NEW f \in Frame, f.type = "RREQ", FrameOK(routing_table, i, f),
         NEW hop \in Nat, NEW disc, Unforced => disc = 0,
         \/ f.dst = i[1]
         \/ Known(Reverse(i, f)[i[1]][f.dst]) /\ hop = Reverse(i, f)[i[1]][f.dst].hops
  PROVE  \A e \in Answers(i, f, hop, disc) : \A j \in Attach :
           Hears(j, i[1], e) => FrameOK(Reverse(i, f), j, e.frame)
<1> DEFINE new == Reverse(i, f)
           n == i[1]
           a == Answer(i, f, hop, disc)
           g == a.frame
<1>1. n \in Node /\ f.src \in Node /\ f.dst \in Node /\ f.from \in Attach
      /\ f.from[1] \in Node /\ i = <<n, i[2]>>
  BY AttachType, FrameCases
<1>2. TablesOK(new) /\ Improves(routing_table, new)
  BY ReverseRoutes
<1>3. /\ a.lan = i[2]
      /\ g.type = "RREP" /\ g.to = f.from /\ g.from = <<n, new[n][f.src].if>>
      /\ g.src = f.dst /\ g.dst = f.src /\ g.hop = hop /\ g.disc = disc
  BY DEF Answer, RREP
<1>4. g.from[1] = n
  BY <1>3
<1>5. f.from[1] = f.src \/ Known(new[f.from[1]][f.src])
  BY <1>1, <1>2 DEF FrameOK, Improves
<1>6. new[n][f.dst].hops \in Nat
  BY <1>1, <1>2 DEF TablesOK, Entry
<1> HIDE DEF new, a
<1>7. ASSUME NEW j \in Attach, Hears(j, n, a)
      PROVE  FrameOK(new, j, g)
  <2>1. j = f.from /\ j[2] = i[2]
    BY <1>3, <1>7 DEF Hears
  <2>2. n = g.src \/ (Known(new[n][g.src]) /\ new[n][g.src].hops <= g.hop)
    BY <1>3, <1>6 DEF new
  <2>3. g.dst # j[1] => Known(new[j[1]][g.dst])
    BY <1>3, <1>5, <2>1
  <2>4. <<g.from[1], j[2]>> \in Attach
    BY <1>1, <1>4, <2>1
  <2> QED
    BY <1>3, <1>4, <2>2, <2>3, <2>4 DEF FrameOK
<1>8. \A e \in Answers(i, f, hop, disc) : e = a
  BY DEF Answers, a
<1> QED
  BY <1>7, <1>8 DEF new

\* The copies of a RREQ that a node floods on.
LEMMA RefloodOK ==
  ASSUME TypeOK, RoutesOK(routing_table),
         NEW i \in Attach, NEW f \in Frame, f.type = "RREQ", FrameOK(routing_table, i, f),
         NEW sent \in {0, 1}
  PROVE  \A e \in Reflood(i, f, sent) : \A j \in Attach :
           Hears(j, i[1], e) => FrameOK(Reverse(i, f), j, e.frame)
<1> DEFINE new == Reverse(i, f)
           n == i[1]
           h == [f EXCEPT !.hop = @ + 1, !.sent = sent]
<1>1. n \in Node /\ InterfacesOf(n) \ {i[2]} \in SUBSET InterfacesOf(n)
  BY AttachType
<1>2. Known(new[n][f.src]) /\ (Unforced => new[n][f.src].hops <= f.hop + 1)
  BY ReverseRoutes
<1>3. f \in RREQFrame /\ (Unforced => f.disc = 0)
  BY FrameCases DEF FrameOK
<1> HIDE DEF new
<1>4. ASSUME NEW mac \in Attach
      PROVE  LET g == [h EXCEPT !.from = mac]
             IN  /\ g.type = "RREQ" /\ g.from = mac /\ g.src = f.src /\ g.src \in Node
                 /\ g.hop = f.hop + 1 /\ g.disc = f.disc
  BY <1>3 DEF RREQFrame
<1> HIDE DEF h
<1>5. \A e \in Flood(n, InterfacesOf(n) \ {i[2]}, h) : \A j \in Attach :
        Hears(j, n, e) => FrameOK(new, j, e.frame)
  BY <1>1, <1>2, <1>3, <1>4, FloodOK
<1> QED
  BY <1>5 DEF Reflood, h, new

\* What a node makes of a RREQ f: a copy, one hop further, or an answer.
Spread(i, f, g) ==
  /\ g.from[1] = i[1]
  /\ \/ /\ g.type = "RREQ" /\ g.src = f.src /\ g.dst = f.dst
        /\ g.port = f.port /\ g.hop = f.hop + 1
     \/ /\ g.type = "RREP" /\ g.src = f.dst /\ g.dst = f.src /\ g.port = htonl(f.port)
        /\ \/ f.dst = i[1] /\ g.hop = 0
           \/ /\ Known(Reverse(i, f)[i[1]][f.dst])
              /\ g.hop = Reverse(i, f)[i[1]][f.dst].hops

\* The handlers of a RREQ send nothing else.
LEMMA RREQSends ==
  ASSUME TypeOK, NEW i \in Attach, HandleRREQ(i)
  PROVE  \E f \in RREQFrame :
           /\ f = Head(net[i]) /\ routing_table' = Reverse(i, f)
           /\ \E E : /\ net' = Emit(Received(i), i[1], E)
                     /\ \A e \in E : e.frame \in Frame /\ Spread(i, f, e.frame)
<1> DEFINE f == Head(net[i])
           n == i[1]
<1>1. net[i] # <<>> /\ f.type = "RREQ" /\ routing_table' = Reverse(i, f)
  BY DEF HandleRREQ, RREQAtDestination, RREQAtKnowingNode, RREQAtOtherNode, Arrived
<1>2. f \in Frame
  BY <1>1, ReceivedType DEF TypeOK
<1>3. f \in RREQFrame
  BY <1>1, <1>2, FrameCases
<1>4. TablesOK(routing_table) /\ TablesOK(Reverse(i, f))
  BY <1>1, <1>2, LearnedTables DEF TypeOK, TablesOK
<1>5. n \in Node /\ f.dst \in Node /\ f.sent \in {0, 1} /\ f.disc \in {0, 1}
  BY <1>3, AttachType DEF RREQFrame
<1> HIDE DEF f
<1>6. ASSUME NEW hop \in Nat, NEW disc \in {0, 1},
             \/ f.dst = n /\ hop = 0
             \/ Known(Reverse(i, f)[n][f.dst]) /\ hop = Reverse(i, f)[n][f.dst].hops,
             NEW e \in Answers(i, f, hop, disc)
      PROVE  e.frame \in Frame /\ Spread(i, f, e.frame)
  <2>1. e.frame \in Frame
    BY <1>1, <1>2, <1>4, AnswersType
  <2>2. e = Answer(i, f, hop, disc)
    BY DEF Answers
  <2> DEFINE back == Reverse(i, f)[i[1]][f.src]
  <2>3. e.frame = [RREP(f.dst, f.src, htonl(f.port), hop, disc) EXCEPT
                     !.to = f.from, !.from = <<i[1], back.if>>]
    BY <2>2 DEF Answer
  <2> HIDE DEF back
  <2>4. /\ e.frame.type = "RREP" /\ e.frame.src = f.dst /\ e.frame.dst = f.src
        /\ e.frame.port = htonl(f.port) /\ e.frame.hop = hop /\ e.frame.from = <<n, back.if>>
    BY <2>3 DEF RREP
  <2> HIDE DEF n
  <2>5. e.frame.from[1] = n
    BY <2>4
  <2> QED
    BY <1>6, <2>1, <2>4, <2>5 DEF Spread, n
<1>7. ASSUME NEW sent \in {0, 1}, NEW e \in Reflood(i, f, sent)
      PROVE  e.frame \in Frame /\ Spread(i, f, e.frame)
  <2>1. e.frame \in Frame
    BY <1>1, <1>2, RefloodType
  <2>2. PICK l \in Lan :
          e = [lan |-> l, frame |-> [[f EXCEPT !.hop = @ + 1, !.sent = sent] EXCEPT !.from = <<n, l>>]]
    BY Zenon DEF Reflood, Flood, InterfacesOf
  <2>3. /\ e.frame.type = "RREQ" /\ e.frame.src = f.src /\ e.frame.dst = f.dst
        /\ e.frame.port = f.port /\ e.frame.hop = f.hop + 1 /\ e.frame.from = <<n, l>>
    BY <1>3, <2>2 DEF RREQFrame
  <2>4. e.frame.from[1] = n
    BY <2>3
  <2> QED
    BY <2>1, <2>3, <2>4 DEF Spread
<1>8. \E E : /\ net' = Emit(Received(i), n, E)
             /\ \A e \in E : e.frame \in Frame /\ Spread(i, f, e.frame)
  <2>1. CASE RREQAtDestination(i)
    <3>1. f.dst = n /\ net' = Emit(Received(i), n, Answers(i, f, 0, f.disc))
      BY <2>1 DEF RREQAtDestination, f
    <3>2. \A e \in Answers(i, f, 0, f.disc) : e.frame \in Frame /\ Spread(i, f, e.frame)
      BY <1>5, <1>6, <3>1
    <3> QED
      BY <3>1, <3>2
  <2>2. CASE RREQAtKnowingNode(i)
    <3> DEFINE hops == Reverse(i, f)[n][f.dst].hops
               A == Answers(i, f, hops, 0)
               R == Reflood(i, f, 1)
               E == A \cup (IF BetterSource(i, f) THEN R ELSE {})
    <3>1. Known(Reverse(i, f)[n][f.dst]) /\ net' = Emit(Received(i), n, E)
      BY <2>2 DEF RREQAtKnowingNode, CanAnswer, f
    <3>2. hops \in Nat
      BY <1>4, <1>5 DEF TablesOK, Entry
    <3>3. \A e \in A : e.frame \in Frame /\ Spread(i, f, e.frame)
      BY <1>6, <3>1, <3>2
    <3>4. \A e \in R : e.frame \in Frame /\ Spread(i, f, e.frame)
      BY <1>7
    <3> HIDE DEF A, R
    <3>5. \A e \in E : e.frame \in Frame /\ Spread(i, f, e.frame)
      BY <3>3, <3>4
    <3> HIDE DEF E
    <3> QED
      BY <3>1, <3>5
  <2>3. CASE RREQAtOtherNode(i)
    <3> DEFINE R == Reflood(i, f, f.sent)
               E == IF Fresh(i, f) THEN R ELSE {}
    <3>1. net' = Emit(Received(i), n, E)
      BY <2>3 DEF RREQAtOtherNode, f
    <3>2. \A e \in R : e.frame \in Frame /\ Spread(i, f, e.frame)
      BY <1>5, <1>7
    <3> HIDE DEF R
    <3>3. \A e \in E : e.frame \in Frame /\ Spread(i, f, e.frame)
      BY <3>2
    <3> HIDE DEF E
    <3> QED
      BY <3>1, <3>3
  <2> QED
    BY <2>1, <2>2, <2>3 DEF HandleRREQ
<1> QED
  BY <1>1, <1>3, <1>8 DEF f

----------------------------------------------------------------------------
(* The steps *)

\* Frames in flight stay right when the tables improve and nothing is sent.
LEMMA FramesKept ==
  ASSUME NEW rt, NEW new, TablesOK(rt), TablesOK(new), Improves(rt, new),
         NEW q \in [Attach -> Seq(Frame)], FramesOK(rt, q)
  PROVE  FramesOK(new, q)
  BY FlightType, FrameKept DEF FramesOK

\* Tables improve when they do not change.
LEMMA SameImproves ==
  ASSUME NEW rt, TablesOK(rt)
  PROVE  Improves(rt, rt)
  BY DEF Improves, TablesOK, Entry

\* The frame a handler reads, and those it leaves in the queues.
LEMMA ReadFrame ==
  ASSUME RouteInv, NEW i \in Attach, net[i] # <<>>
  PROVE  /\ Head(net[i]) \in Frame
         /\ FrameOK(routing_table, i, Head(net[i]))
         /\ Received(i) \in [Attach -> Seq(Frame)]
         /\ FramesOK(routing_table, Received(i))
<1>1. net \in [Attach -> Seq(Frame)]
  BY DEF RouteInv, TypeOK
<1>2. /\ Head(net[i]) \in InFlight(net, i)
      /\ \A j \in Attach : InFlight(Received(i), j) \subseteq InFlight(net, j)
  BY <1>1, ReceivedFlight
<1> QED
  BY <1>1, <1>2, ReceivedType DEF RouteInv, FramesOK

\* A handler that enters new routes and sends f along its route to d.
LEMMA SendStep ==
  ASSUME NEW rt, NEW new, TablesOK(rt), TablesOK(new), Improves(rt, new), RoutesOK(new),
         NEW q \in [Attach -> Seq(Frame)], FramesOK(rt, q),
         NEW n \in Node, NEW d \in Node, NEW f,
         \A from, to \in Attach : [f EXCEPT !.from = from, !.to = to] \in Frame,
         NEW g, g = [f EXCEPT !.from = <<n, new[n][d].if>>, !.to = new[n][d].mac],
         g.type # "RREQ", g.dst = d,
         g.from = <<n, new[n][d].if>>, g.to = new[n][d].mac,
         g.type # "DATA" =>
           /\ Known(new[n][g.src])
           /\ Unforced => new[n][g.src].hops <= g.hop /\ g.disc = 0,
         SendAlong(n, new[n][d], f, q)
  PROVE  FramesOK(new, net')
<1> DEFINE r == new[n][d]
           a == [lan |-> r.if, frame |-> g]
<1>1. CASE Known(r)
  <2>1. <<n, r.if>> \in Attach /\ r.mac \in Attach
    BY <1>1 DEF TablesOK
  <2>2. g \in Frame
    BY <2>1
  <2>3. Along(n, r, f) = a /\ a.frame = g
    BY DEF Along
  <2>4. net' = Emit(q, n, {a})
    BY <1>1, <2>3 DEF SendAlong
  <2>5. \A e \in {a} : \A j \in Attach : Hears(j, n, e) => FrameOK(new, j, e.frame)
    BY <1>1, <2>2, AlongOK
  <2> HIDE DEF a
  <2>6. \A e \in {a} : e.frame \in Frame
    BY <2>2, <2>3
  <2> QED
    BY <2>4, <2>5, <2>6, FramesStep
<1>2. CASE ~Known(r)
  BY <1>2, FramesKept DEF SendAlong
<1> QED
  BY <1>1, <1>2

\* Reading a client's datagram: without a flag, and with nothing behind it that
\* reads as one, no discovery is forced.
LEMMA NoFlag ==
  ASSUME RouteInv, Unforced, NEW n \in Node, NEW m \in LocalMsg, m.path # Server
  PROVE  ReadFlag(m.flag, recvmsg[n]) # 1
<1>1. m.flag = 0
  BY LocalMsgType DEF Unforced
<1>2. recvmsg[n] \in -1 .. 9 /\ recvmsg[n] # 1
  BY DEF RouteInv, TypeOK, BuffersOK
<1> QED
  BY <1>1, <1>2 DEF ReadFlag

\* No reply of a server leaves the digit 1 behind a client's datagram.
LEMMA NoOneBehind ==
  ASSUME NEW p \in Ports
  PROVE  LeftBehind(p) # 1
<1>1. p \in Int
  BY PortAssumption DEF Ports, ClientPorts, ServerPort
<1> QED
  BY <1>1 DEF LeftBehind

\* What a step has to show besides TypeOK'.
RouteStep ==
  /\ RoutesOK(routing_table')
  /\ FramesOK(routing_table', net')
  /\ BuffersOK'
  /\ Improves(routing_table, routing_table')

\* A daemon handles a local datagram.
LEMMA LocalRouteStep ==
  ASSUME RouteInv, NEW n \in Node, HandleLocal(n)
  PROVE  RouteStep
<1> DEFINE m == Head(odrq[n])
           table == WithClient(n, m.path)
           r == routing_table[n][m.dst]
<1>1. HasLocal(n) /\ TakeLocal(n) /\ TypeOK
  BY DEF HandleLocal, ServerReply, ClientPayload, ClientDiscovery, ClientOverflow, RouteInv
<1>2. m \in LocalMsg
  BY <1>1, TakeLocalType
<1>3. /\ m.path \in Path /\ m.dst \in Node /\ m.port \in Ports /\ m.msg \in {"HI", "TIME"}
      /\ m.path # Server => m.path \in Client
  BY <1>2, LocalMsgType
<1>4. ServerPort \in Ports /\ htonl(ServerPort) \in Ports /\ htonl(m.port) \in Ports
  BY <1>3, PortType DEF Ports
<1>5. TablesOK(routing_table) /\ RoutesOK(routing_table) /\ FramesOK(routing_table, net)
      /\ net \in [Attach -> Seq(Frame)]
  BY DEF RouteInv, TypeOK, TablesOK
<1>6. Improves(routing_table, routing_table)
  BY <1>5, SameImproves
<1>7. UNCHANGED routing_table
  BY DEF HandleLocal, ServerReply, ClientPayload, ClientDiscovery, ClientOverflow
<1> HIDE DEF m, table
<1>8. ASSUME NEW sport \in Ports, NEW dport \in Ports,
             SendAlong(n, r, Payload(n, m.dst, sport, dport, m.msg), net)
      PROVE  FramesOK(routing_table, net')
  <2> DEFINE f == Payload(n, m.dst, sport, dport, m.msg)
             g == [f EXCEPT !.from = <<n, r.if>>, !.to = r.mac]
  <2>1. \A from, to \in Attach : [f EXCEPT !.from = from, !.to = to] \in Frame
    BY <1>3, NewPayloadType
  <2>2. g.type = "DATA" /\ g.dst = m.dst /\ g.from = <<n, r.if>> /\ g.to = r.mac
    BY DEF Payload
  <2> HIDE DEF f
  <2>3. g = [f EXCEPT !.from = <<n, r.if>>, !.to = r.mac]
    OBVIOUS
  <2>4. SendAlong(n, r, f, net)
    BY <1>8 DEF f
  <2> HIDE DEF g
  <2> QED
    BY <1>3, <1>5, <1>6, <2>1, <2>2, <2>3, <2>4, SendStep
<1>9. CASE ServerReply(n)
  <2>1. SendAlong(n, r, Payload(n, m.dst, htonl(ServerPort), htonl(m.port), m.msg), net)
        /\ recvmsg' = [recvmsg EXCEPT ![n] = LeftBehind(m.port)]
    BY <1>9 DEF ServerReply, m
  <2>2. BuffersOK'
    BY <1>3, <2>1, NoOneBehind DEF RouteInv, TypeOK, BuffersOK
  <2>3. FramesOK(routing_table, net')
    BY <1>4, <1>8, <2>1
  <2> QED
    BY <1>5, <1>6, <1>7, <2>2, <2>3 DEF RouteStep
<1>10. ASSUME m.path # Server, ~TableFull(n, m.path)
       PROVE  htonl(PortOf(table, m.path)) \in Ports
  BY <1>1, <1>3, <1>10, WithClientType, PortType DEF table
<1>11. CASE ClientPayload(n)
  <2>1. SendAlong(n, r, Payload(n, m.dst, htonl(PortOf(table, m.path)), htonl(ServerPort), m.msg), net)
        /\ m.path # Server /\ ~TableFull(n, m.path) /\ UNCHANGED recvmsg
    BY <1>11 DEF ClientPayload, m, table
  <2>2. FramesOK(routing_table, net')
    BY <1>4, <1>8, <1>10, <2>1
  <2> QED
    BY <1>5, <1>6, <1>7, <2>1, <2>2 DEF RouteStep, RouteInv, BuffersOK
<1>12. CASE ClientDiscovery(n)
  <2> DEFINE disc == IF ReadFlag(m.flag, recvmsg[n]) = 1 THEN 1 ELSE 0
             bid == broadcast_id[n] + 1
             port == htonl(PortOf(table, m.path))
             f == RREQ(n, m.dst, port, bid, 0, 0, disc)
             E == Flood(n, InterfacesOf(n), f)
  <2>1. /\ net' = Emit(net, n, E)
        /\ m.path # Server /\ ~TableFull(n, m.path) /\ UNCHANGED recvmsg
    BY <1>12 DEF ClientDiscovery, m, table
  <2>2. disc \in {0, 1} /\ bid \in Int /\ (Unforced => disc = 0)
    BY <1>1, <1>2, <2>1, NoFlag DEF TypeOK
  <2>3. port \in Ports
    BY <1>10, <2>1
  <2> HIDE DEF disc, bid, port
  <2>4. \A mac \in Attach : [f EXCEPT !.from = mac] \in Frame
    BY <1>3, <2>2, <2>3, NewRREQType
  <2>5. \A mac \in Attach :
          LET g == [f EXCEPT !.from = mac]
          IN  g.type = "RREQ" /\ g.from = mac /\ g.src = n /\ g.disc = disc
    BY DEF RREQ
  <2> HIDE DEF f
  <2>6. InterfacesOf(n) \in SUBSET InterfacesOf(n)
    OBVIOUS
  <2>7. \A e \in E : e.frame \in Frame
    BY <2>4, <2>6, FloodType
  <2>8. \A e \in E : \A j \in Attach : Hears(j, n, e) => FrameOK(routing_table, j, e.frame)
    BY <2>2, <2>5, <2>6, FloodOK
  <2> HIDE DEF E
  <2>9. FramesOK(routing_table, net')
    BY <1>5, <1>6, <2>1, <2>7, <2>8, FramesStep
  <2> QED
    BY <1>5, <1>6, <1>7, <2>1, <2>9 DEF RouteStep, RouteInv, BuffersOK
<1>13. CASE ClientOverflow(n)
  <2>1. UNCHANGED <<net, recvmsg>>
    BY <1>13 DEF ClientOverflow
  <2> QED
    BY <1>5, <1>6, <1>7, <2>1 DEF RouteStep, RouteInv, BuffersOK
<1> QED
  BY <1>9, <1>11, <1>12, <1>13 DEF HandleLocal

\* A daemon handles a frame.
LEMMA FrameRouteStep ==
  ASSUME RouteInv, NEW i \in Attach, HandleFrame(i)
  PROVE  RouteStep
<1> DEFINE f == Head(net[i])
           n == i[1]
           rt == routing_table
<1>1. n \in Node /\ TypeOK
  BY AttachType DEF RouteInv
<1>2. net[i] # <<>>
  BY DEF HandleFrame, HandleRREQ, RREQAtDestination, RREQAtKnowingNode,
         RREQAtOtherNode, RREPAtSource, RelayRREP, PayloadAtDestination, RelayPayload, Arrived
<1>3. /\ f \in Frame /\ FrameOK(rt, i, f)
      /\ Received(i) \in [Attach -> Seq(Frame)] /\ FramesOK(rt, Received(i))
  BY <1>2, ReadFrame
<1>4. TablesOK(rt) /\ RoutesOK(rt)
  BY DEF RouteInv, TypeOK, TablesOK
<1>5. f.src \in Node /\ f.dst \in Node /\ (f.type # "DATA" => (Unforced => f.disc = 0))
  BY <1>3, FrameCases DEF FrameOK
<1>6. Improves(rt, rt)
  BY <1>4, SameImproves
<1>7. BuffersOK'
  BY DEF RouteInv, BuffersOK, HandleFrame, HandleRREQ, RREQAtDestination, RREQAtKnowingNode,
         RREQAtOtherNode, RREPAtSource, RelayRREP, PayloadAtDestination, RelayPayload
<1> HIDE DEF f
<1>8. ASSUME f.type = "RREQ"
      PROVE  /\ TablesOK(Reverse(i, f)) /\ RoutesOK(Reverse(i, f))
             /\ Improves(rt, Reverse(i, f))
  BY <1>1, <1>3, <1>4, <1>8, ReverseRoutes
<1>9. ASSUME f.type = "RREP"
      PROVE  /\ TablesOK(Forward(i, f)) /\ RoutesOK(Forward(i, f))
             /\ Improves(rt, Forward(i, f))
             /\ Known(Forward(i, f)[n][f.src])
             /\ Unforced => Forward(i, f)[n][f.src].hops <= f.hop + 1
  BY <1>1, <1>3, <1>4, <1>9, ForwardRoutes
<1>10. ASSUME f.type = "RREQ", routing_table' = Reverse(i, f),
              NEW E, \A e \in E : e.frame \in Frame,
              \A e \in E : \A j \in Attach : Hears(j, n, e) => FrameOK(Reverse(i, f), j, e.frame),
              net' = Emit(Received(i), n, E)
       PROVE  RouteStep
  <2> DEFINE new == Reverse(i, f)
  <2>1. TablesOK(new) /\ RoutesOK(new) /\ Improves(rt, new)
    BY <1>8, <1>10
  <2>2. \A e \in E : \A j \in Attach : Hears(j, n, e) => FrameOK(new, j, e.frame)
    BY <1>10
  <2> HIDE DEF new
  <2>3. FramesOK(new, Emit(Received(i), n, E))
    BY <1>3, <1>4, <1>10, <2>1, <2>2, FramesStep
  <2> QED
    BY <1>7, <1>10, <2>1, <2>3 DEF RouteStep, new
<1>11. ASSUME f.type = "RREQ", NEW hop \in Nat, NEW disc \in {0, 1}, Unforced => disc = 0,
              \/ f.dst = n
              \/ Known(Reverse(i, f)[n][f.dst]) /\ hop = Reverse(i, f)[n][f.dst].hops
       PROVE  /\ \A e \in Answers(i, f, hop, disc) : e.frame \in Frame
              /\ \A e \in Answers(i, f, hop, disc) : \A j \in Attach :
                   Hears(j, n, e) => FrameOK(Reverse(i, f), j, e.frame)
  BY <1>1, <1>3, <1>4, <1>11, AnswersType, AnswerOK
<1>12. ASSUME f.type = "RREQ", NEW sent \in {0, 1}
       PROVE  /\ \A e \in Reflood(i, f, sent) : e.frame \in Frame
              /\ \A e \in Reflood(i, f, sent) : \A j \in Attach :
                   Hears(j, n, e) => FrameOK(Reverse(i, f), j, e.frame)
  BY <1>1, <1>3, <1>4, <1>12, RefloodType, RefloodOK
<1>13. CASE RREQAtDestination(i)
  <2> DEFINE E == Answers(i, f, 0, f.disc)
  <2>1. /\ f.type = "RREQ" /\ f.dst = n /\ routing_table' = Reverse(i, f)
        /\ net' = Emit(Received(i), n, E)
    BY <1>13 DEF RREQAtDestination, Arrived, f
  <2>2. f.disc \in {0, 1}
    BY <1>3, <2>1, FrameCases
  <2>3. /\ \A e \in E : e.frame \in Frame
        /\ \A e \in E : \A j \in Attach : Hears(j, n, e) => FrameOK(Reverse(i, f), j, e.frame)
    BY <1>5, <1>11, <2>1, <2>2
  <2> HIDE DEF E
  <2> QED
    BY <1>10, <2>1, <2>3
<1>14. CASE RREQAtKnowingNode(i)
  <2> DEFINE hops == Reverse(i, f)[n][f.dst].hops
             A == Answers(i, f, hops, 0)
             R == Reflood(i, f, 1)
             E == A \cup (IF BetterSource(i, f) THEN R ELSE {})
  <2>1. /\ f.type = "RREQ" /\ Known(Reverse(i, f)[n][f.dst]) /\ routing_table' = Reverse(i, f)
        /\ net' = Emit(Received(i), n, E)
    BY <1>14 DEF RREQAtKnowingNode, Arrived, CanAnswer, f
  <2>2. hops \in Nat
    BY <1>1, <1>5, <1>8, <2>1 DEF TablesOK, Entry
  <2>3. /\ \A e \in A : e.frame \in Frame
        /\ \A e \in A : \A j \in Attach : Hears(j, n, e) => FrameOK(Reverse(i, f), j, e.frame)
    BY <1>11, <2>1, <2>2
  <2>4. /\ \A e \in R : e.frame \in Frame
        /\ \A e \in R : \A j \in Attach : Hears(j, n, e) => FrameOK(Reverse(i, f), j, e.frame)
    BY <1>12, <2>1
  <2> HIDE DEF A, R
  <2>5. /\ \A e \in E : e.frame \in Frame
        /\ \A e \in E : \A j \in Attach : Hears(j, n, e) => FrameOK(Reverse(i, f), j, e.frame)
    BY <2>3, <2>4
  <2> HIDE DEF E
  <2> QED
    BY <1>10, <2>1, <2>5
<1>15. CASE RREQAtOtherNode(i)
  <2> DEFINE R == Reflood(i, f, f.sent)
             E == IF Fresh(i, f) THEN R ELSE {}
  <2>1. /\ f.type = "RREQ" /\ routing_table' = Reverse(i, f)
        /\ net' = Emit(Received(i), n, E)
    BY <1>15 DEF RREQAtOtherNode, Arrived, f
  <2>2. f.sent \in {0, 1}
    BY <1>3, <2>1, FrameCases DEF RREQFrame
  <2>3. /\ \A e \in R : e.frame \in Frame
        /\ \A e \in R : \A j \in Attach : Hears(j, n, e) => FrameOK(Reverse(i, f), j, e.frame)
    BY <1>12, <2>1, <2>2
  <2> HIDE DEF R
  <2>4. /\ \A e \in E : e.frame \in Frame
        /\ \A e \in E : \A j \in Attach : Hears(j, n, e) => FrameOK(Reverse(i, f), j, e.frame)
    BY <2>3
  <2> HIDE DEF E
  <2> QED
    BY <1>10, <2>1, <2>4
<1>16. CASE RREPAtSource(i)
  <2>1. f.type = "RREP" /\ routing_table' = Forward(i, f) /\ net' = Received(i)
    BY <1>16 DEF RREPAtSource, Arrived, f
  <2>2. FramesOK(Forward(i, f), Received(i))
    BY <1>3, <1>4, <1>9, <2>1, FramesKept
  <2> QED
    BY <1>7, <1>9, <2>1, <2>2 DEF RouteStep
<1>17. CASE RelayRREP(i)
  <2> DEFINE new == Forward(i, f)
             r == new[n][f.dst]
             h == [f EXCEPT !.hop = @ + 1]
             g == [h EXCEPT !.from = <<n, r.if>>, !.to = r.mac]
  <2>1. f.type = "RREP" /\ routing_table' = new /\ SendAlong(n, r, h, Received(i))
    BY <1>17 DEF RelayRREP, Arrived, f
  <2>2. /\ TablesOK(new) /\ RoutesOK(new) /\ Improves(rt, new) /\ Known(new[n][f.src])
        /\ Unforced => new[n][f.src].hops <= f.hop + 1
    BY <1>9, <2>1
  <2> HIDE DEF new
  <2>3. f \in RREPFrame
    BY <1>3, <2>1, FrameCases
  <2>4. h.type = "RREP" /\ h.src = f.src /\ h.dst = f.dst /\ h.hop = f.hop + 1
        /\ h.disc = f.disc /\ h \in RREPFrame
    BY <2>3 DEF RREPFrame
  <2>5. \A from, to \in Attach : [h EXCEPT !.from = from, !.to = to] \in Frame
    BY <1>3, <2>1, RelayedType
  <2> HIDE DEF h, r
  <2>6. g.type = "RREP" /\ g.src = f.src /\ g.dst = f.dst /\ g.hop = f.hop + 1
        /\ g.disc = f.disc /\ g.from = <<n, r.if>> /\ g.to = r.mac
    BY <2>4 DEF RREPFrame
  <2>7. g = [h EXCEPT !.from = <<n, r.if>>, !.to = r.mac]
    OBVIOUS
  <2> HIDE DEF g
  <2>8. g.type # "RREQ" /\ (g.type # "DATA" =>
          Known(new[n][g.src]) /\ (Unforced => new[n][g.src].hops <= g.hop /\ g.disc = 0))
    BY <1>5, <2>1, <2>2, <2>6
  <2>9. FramesOK(new, net')
    BY <1>1, <1>3, <1>4, <1>5, <2>1, <2>2, <2>5, <2>6, <2>7, <2>8, SendStep DEF r
  <2> QED
    BY <1>7, <2>1, <2>2, <2>9 DEF RouteStep
<1>18. CASE PayloadAtDestination(i)
  <2>1. UNCHANGED routing_table /\ net' = Received(i)
    BY <1>18 DEF PayloadAtDestination
  <2> QED
    BY <1>3, <1>4, <1>6, <1>7, <2>1 DEF RouteStep
<1>19. CASE RelayPayload(i)
  <2> DEFINE r == rt[n][f.dst]
             g == [f EXCEPT !.from = <<n, r.if>>, !.to = r.mac]
  <2>1. f.type = "DATA" /\ UNCHANGED routing_table /\ SendAlong(n, r, f, Received(i))
    BY <1>19 DEF RelayPayload, Arrived, f
  <2>2. f \in PayloadFrame
    BY <1>3, <2>1, FrameCases
  <2>3. \A from, to \in Attach : [f EXCEPT !.from = from, !.to = to] \in Frame
    BY <1>3, <2>1, RelayedType
  <2> HIDE DEF r
  <2>4. g.type = "DATA" /\ g.dst = f.dst /\ g.from = <<n, r.if>> /\ g.to = r.mac
    BY <2>2 DEF PayloadFrame
  <2>5. g = [f EXCEPT !.from = <<n, r.if>>, !.to = r.mac]
    OBVIOUS
  <2> HIDE DEF g
  <2>6. FramesOK(rt, net')
    BY <1>1, <1>3, <1>4, <1>5, <1>6, <2>1, <2>3, <2>4, <2>5, SendStep DEF r
  <2> QED
    BY <1>4, <1>6, <1>7, <2>1, <2>6 DEF RouteStep
<1> QED
  BY <1>13, <1>14, <1>15, <1>16, <1>17, <1>18, <1>19 DEF HandleFrame, HandleRREQ

\* The network, the applications, and a step that changes nothing.
LEMMA OutsideRouteStep ==
  ASSUME RouteInv,
         Applications \/ (\E i \in Attach : LoseFrame(i)) \/ UNCHANGED vars
  PROVE  RouteStep
<1>1. TablesOK(routing_table) /\ RoutesOK(routing_table) /\ FramesOK(routing_table, net)
      /\ BuffersOK
  BY DEF RouteInv, TypeOK, TablesOK
<1>2. Improves(routing_table, routing_table)
  BY <1>1, SameImproves
<1>3. UNCHANGED <<routing_table, recvmsg>>
  BY DEF Applications, LoseFrame, AppSends, AppReceives, AppExits, vars
<1>4. BuffersOK'
  BY <1>1, <1>3 DEF BuffersOK
<1>5. ASSUME NEW i \in Attach, LoseFrame(i) PROVE FramesOK(routing_table, net')
  BY <1>5, ReadFrame DEF LoseFrame
<1>6. CASE Applications \/ UNCHANGED vars
  <2>1. UNCHANGED net
    BY <1>6 DEF Applications, AppSends, AppReceives, AppExits, vars
  <2> QED
    BY <1>1, <1>2, <1>3, <1>4, <2>1 DEF RouteStep
<1> QED
  BY <1>1, <1>2, <1>3, <1>4, <1>5, <1>6 DEF RouteStep

\* Every step keeps the invariant and improves the tables.
LEMMA RouteInvStep == RouteInv /\ [Next]_vars => RouteInv' /\ RouteStep
<1> SUFFICES ASSUME RouteInv, [Next]_vars PROVE RouteInv' /\ RouteStep
  OBVIOUS
<1>1. RouteStep
  BY LocalRouteStep, FrameRouteStep, OutsideRouteStep DEF Next, Daemons
<1>2. TypeOK'
  BY TypeStep DEF RouteInv
<1> QED
  BY <1>1, <1>2 DEF RouteInv, RouteStep

\* No routes and no frames, at the start.
LEMMA RouteInit == Init => RouteInv
<1> SUFFICES ASSUME Init PROVE RouteInv
  OBVIOUS
<1>1. TypeOK
  BY TypeInit
<1>2. \A n, d \in Node : ~Known(routing_table[n][d])
  <2> DEFINE Blank == [if : {NoIf}, mac : {<<>>}, hops : {0}, bid : GarbageId]
  <2>1. routing_table \in [Node -> [Node -> Blank]]
    BY DEF Init
  <2>2. \A e \in Blank : ~Known(e)
    BY DEF Known
  <2> HIDE DEF Blank
  <2> QED
    BY <2>1, <2>2
<1>3. \A j \in Attach : InFlight(net, j) = {}
  BY DEF Init, InFlight
<1>4. BuffersOK
  BY DEF Init, BuffersOK, Unforced
<1> QED
  BY <1>1, <1>2, <1>3, <1>4 DEF RouteInv, RoutesOK, FramesOK

\* The invariant holds throughout.
LEMMA RoutesRight == Spec => []RouteInv
  BY RouteInit, RouteInvStep, PTL DEF Spec

----------------------------------------------------------------------------
(* Hop counts *)

\* Hop counts in tables, and in RREQs and RREPs under way, belong to walks: from the
\* destination to the node, and from the source to the node that sent the frame.
WalksOK(rt) == \A n, d \in Node : Known(rt[n][d]) => Walk(d, n, rt[n][d].hops)

FrameWalks(f) == f.type # "DATA" => Walk(f.src, f.from[1], f.hop)

FramesWalk(q) == \A j \in Attach : \A f \in InFlight(q, j) : FrameWalks(f)

WalkInv == RouteInv /\ WalksOK(routing_table) /\ FramesWalk(net)

\* To stay is a walk.
LEMMA WalkZero ==
  ASSUME NEW d \in Node
  PROVE  Walk(d, d, 0)
<1> DEFINE w == [j \in 0 .. 0 |-> d]
<1>1. w \in [0 .. 0 -> Node] /\ w[0] = d /\ \A j \in 1 .. 0 : Adjacent(w[j - 1], w[j])
  OBVIOUS
<1> HIDE DEF w
<1> QED
  BY <1>1 DEF Walk

\* A walk can go on to a neighbour.
LEMMA WalkOn ==
  ASSUME NEW d \in Node, NEW m \in Node, NEW n \in Node, NEW k \in Nat,
         Walk(d, m, k), Adjacent(m, n)
  PROVE  Walk(d, n, k + 1)
<1>1. PICK w \in [0 .. k -> Node] :
        w[0] = d /\ w[k] = m /\ \A j \in 1 .. k : Adjacent(w[j - 1], w[j])
  BY DEF Walk
<1> DEFINE v == [j \in 0 .. k + 1 |-> IF j = k + 1 THEN n ELSE w[j]]
<1>2. v \in [0 .. k + 1 -> Node] /\ v[0] = d /\ v[k + 1] = n
  BY <1>1
<1>3. ASSUME NEW j \in 1 .. k + 1 PROVE Adjacent(v[j - 1], v[j])
  <2>1. CASE j = k + 1
    <3>1. v[j - 1] = m /\ v[j] = n
      BY <1>1, <2>1
    <3> QED
      BY <3>1
  <2>2. CASE j # k + 1
    <3>1. j \in 1 .. k /\ v[j - 1] = w[j - 1] /\ v[j] = w[j]
      BY <2>2
    <3> QED
      BY <1>1, <3>1
  <2> QED
    BY <2>1, <2>2
<1> HIDE DEF v
<1> QED
  BY <1>2, <1>3 DEF Walk

\* The node that reads a RREQ or RREP is one hop further from its source.
LEMMA ReaderWalks ==
  ASSUME NEW i \in Attach, NEW f \in Frame, f.type # "DATA",
         FrameOK(routing_table, i, f), FrameWalks(f)
  PROVE  Walk(f.src, i[1], f.hop + 1)
<1>1. /\ i[1] \in Node /\ i[2] \in Lan /\ i = <<i[1], i[2]>>
      /\ f.src \in Node /\ f.from[1] \in Node /\ f.hop \in Nat
  BY AttachType, FrameCases
<1>2. Adjacent(f.from[1], i[1])
  BY <1>1 DEF FrameOK, Adjacent
<1> QED
  BY <1>1, <1>2, WalkOn DEF FrameWalks

\* A table that learns from the frame.
LEMMA LearnedWalks ==
  ASSUME NEW rt, TablesOK(rt), WalksOK(rt), NEW i \in Attach, NEW s \in Node, NEW hop,
         Walk(s, i[1], hop + 1), NEW y,
         y.hops = hop + 1 \/ (y.if = rt[i[1]][s].if /\ y.hops = rt[i[1]][s].hops)
  PROVE  WalksOK([rt EXCEPT ![i[1]][s] = y])
<1> DEFINE new == [rt EXCEPT ![i[1]][s] = y]
<1>1. i[1] \in Node
  BY AttachType
<1>2. \A a, d \in Node : new[a][d] = IF a = i[1] /\ d = s THEN y ELSE rt[a][d]
  BY <1>1 DEF TablesOK
<1> HIDE DEF new
<1>3. ASSUME NEW a \in Node, NEW d \in Node, Known(new[a][d])
      PROVE  Walk(d, a, new[a][d].hops)
  <2>1. CASE a = i[1] /\ d = s
    <3>1. new[a][d] = y
      BY <1>2, <2>1
    <3>2. CASE y.hops = hop + 1
      BY <2>1, <3>1, <3>2
    <3>3. CASE y.if = rt[i[1]][s].if /\ y.hops = rt[i[1]][s].hops
      BY <1>1, <1>3, <2>1, <3>1, <3>3 DEF WalksOK, Known
    <3> QED
      BY <3>2, <3>3
  <2>2. CASE ~(a = i[1] /\ d = s)
    BY <1>2, <1>3, <2>2 DEF WalksOK
  <2> QED
    BY <2>1, <2>2
<1>4. WalksOK(new)
  BY <1>3 DEF WalksOK
<1> QED
  BY <1>4 DEF new

LEMMA HandlerWalks ==
  ASSUME TypeOK, WalksOK(routing_table), NEW i \in Attach, NEW f \in Frame,
         f.type # "DATA", Walk(f.src, i[1], f.hop + 1)
  PROVE  /\ f.type = "RREQ" => WalksOK(Reverse(i, f))
         /\ f.type = "RREP" => WalksOK(Forward(i, f))
<1> DEFINE rt == routing_table
           e == rt[i[1]][f.src]
           x == Learn(e, i[2], f.from, f.hop, f.disc)
           y == [x EXCEPT !.bid = f.bid]
<1>1. TablesOK(rt) /\ i[1] \in Node /\ i[2] \in Lan /\ f.src \in Node /\ f.from \in Attach
      /\ f.hop \in Nat
  BY AttachType, FrameCases DEF TypeOK, TablesOK
<1>2. e \in Entry
  BY <1>1 DEF TablesOK
<1>3. x \in Entry
  BY <1>1, <1>2, LearnType
<1>4. x.hops = f.hop + 1 \/ (x.if = e.if /\ x.hops = e.hops)
  BY DEF Learn
<1>5. y.hops = x.hops /\ y.if = x.if
  <2> HIDE DEF x
  <2> QED
    BY <1>3 DEF Entry
<1>6. Reverse(i, f) = [rt EXCEPT ![i[1]][f.src] = y]
  BY DEF Reverse
<1>7. Forward(i, f) = [rt EXCEPT ![i[1]][f.src] = x]
  BY <1>1 DEF Forward, TablesOK
<1> HIDE DEF x, y
<1>8. WalksOK([rt EXCEPT ![i[1]][f.src] = y])
  BY <1>1, <1>4, <1>5, LearnedWalks
<1>9. WalksOK([rt EXCEPT ![i[1]][f.src] = x])
  BY <1>1, <1>4, LearnedWalks
<1> QED
  BY <1>6, <1>7, <1>8, <1>9

\* The frames in flight after the frames of E were sent.
LEMMA SentWalks ==
  ASSUME NEW q \in [Attach -> Seq(Frame)], FramesWalk(q), NEW n, NEW E,
         \A e \in E : e.frame \in Frame /\ FrameWalks(e.frame)
  PROVE  FramesWalk(Emit(q, n, E))
<1> SUFFICES ASSUME NEW j \in Attach, NEW f \in InFlight(Emit(q, n, E), j) PROVE FrameWalks(f)
  BY DEF FramesWalk
<1>1. f \in InFlight(q, j) \/ \E e \in E : Hears(j, n, e) /\ f = e.frame
  BY EmitFlight
<1> QED
  BY <1>1 DEF FramesWalk

LEMMA SentAlongWalks ==
  ASSUME NEW q \in [Attach -> Seq(Frame)], FramesWalk(q), NEW n \in Node, NEW e, NEW f,
         Known(e) => <<n, e.if>> \in Attach /\ e.mac \in Attach,
         \A from, to \in Attach :
           LET g == [f EXCEPT !.from = from, !.to = to]
           IN  g \in Frame /\ (from[1] = n => FrameWalks(g)),
         SendAlong(n, e, f, q)
  PROVE  FramesWalk(net')
<1>1. CASE Known(e)
  <2> DEFINE a == Along(n, e, f)
             from == <<n, e.if>>
  <2>1. a.frame = [f EXCEPT !.from = from, !.to = e.mac]
    BY DEF Along
  <2>2. from \in Attach /\ from[1] = n /\ e.mac \in Attach
    BY <1>1
  <2> HIDE DEF from
  <2>3. a.frame \in Frame /\ FrameWalks(a.frame)
    BY <2>1, <2>2
  <2>4. net' = Emit(q, n, {a})
    BY <1>1 DEF SendAlong
  <2> HIDE DEF a
  <2>5. \A x \in {a} : x.frame \in Frame /\ FrameWalks(x.frame)
    BY <2>3
  <2> QED
    BY <2>4, <2>5, SentWalks
<1>2. CASE ~Known(e)
  BY <1>2 DEF SendAlong
<1> QED
  BY <1>1, <1>2

\* Payloads say nothing about hops.
LEMMA PayloadWalks ==
  ASSUME NEW q \in [Attach -> Seq(Frame)], FramesWalk(q), NEW n \in Node, NEW e, NEW f,
         Known(e) => <<n, e.if>> \in Attach /\ e.mac \in Attach,
         \A from, to \in Attach :
           LET g == [f EXCEPT !.from = from, !.to = to] IN g \in Frame /\ g.type = "DATA",
         SendAlong(n, e, f, q)
  PROVE  FramesWalk(net')
<1>1. \A from, to \in Attach :
        LET g == [f EXCEPT !.from = from, !.to = to]
        IN  g \in Frame /\ (from[1] = n => FrameWalks(g))
  BY DEF FrameWalks
<1> QED
  BY <1>1, SentAlongWalks

\* A daemon handles a local datagram.
LEMMA LocalWalkStep ==
  ASSUME WalkInv, NEW n \in Node, HandleLocal(n)
  PROVE  WalksOK(routing_table') /\ FramesWalk(net')
<1> DEFINE m == Head(odrq[n])
           table == WithClient(n, m.path)
           r == routing_table[n][m.dst]
<1>1. HasLocal(n) /\ TakeLocal(n) /\ TypeOK /\ UNCHANGED routing_table
  BY DEF HandleLocal, ServerReply, ClientPayload, ClientDiscovery, ClientOverflow, WalkInv, RouteInv
<1>2. m \in LocalMsg
  BY <1>1, TakeLocalType
<1>3. /\ m.path \in Path /\ m.dst \in Node /\ m.port \in Ports /\ m.msg \in {"HI", "TIME"}
      /\ m.path # Server => m.path \in Client
  BY <1>2, LocalMsgType
<1>4. htonl(ServerPort) \in Ports /\ htonl(m.port) \in Ports
  BY <1>3, PortType DEF Ports
<1>5. net \in [Attach -> Seq(Frame)] /\ FramesWalk(net) /\ WalksOK(routing_table')
      /\ (Known(r) => <<n, r.if>> \in Attach /\ r.mac \in Attach)
  BY <1>1, <1>3 DEF WalkInv, TypeOK
<1> HIDE DEF m, table
<1>6. ASSUME NEW sport \in Ports, NEW dport \in Ports,
             SendAlong(n, r, Payload(n, m.dst, sport, dport, m.msg), net)
      PROVE  FramesWalk(net')
  <2> DEFINE f == Payload(n, m.dst, sport, dport, m.msg)
  <2>1. ASSUME NEW from \in Attach, NEW to \in Attach
        PROVE  [f EXCEPT !.from = from, !.to = to] \in Frame
    BY <1>3, NewPayloadType
  <2>2. ASSUME NEW from \in Attach, NEW to \in Attach
        PROVE  [f EXCEPT !.from = from, !.to = to].type = "DATA"
    BY DEF Payload
  <2>3. SendAlong(n, r, f, net)
    BY <1>6
  <2> HIDE DEF f, r
  <2> QED
    BY <1>5, <2>1, <2>2, <2>3, PayloadWalks
<1>7. CASE ServerReply(n)
  <2>1. SendAlong(n, r, Payload(n, m.dst, htonl(ServerPort), htonl(m.port), m.msg), net)
    BY <1>7 DEF ServerReply, m
  <2> QED
    BY <1>4, <1>5, <1>6, <2>1
<1>8. ASSUME m.path # Server, ~TableFull(n, m.path)
      PROVE  htonl(PortOf(table, m.path)) \in Ports
  BY <1>1, <1>3, <1>8, WithClientType, PortType DEF table
<1>9. CASE ClientPayload(n)
  <2>1. SendAlong(n, r, Payload(n, m.dst, htonl(PortOf(table, m.path)), htonl(ServerPort), m.msg), net)
        /\ m.path # Server /\ ~TableFull(n, m.path)
    BY <1>9 DEF ClientPayload, m, table
  <2> QED
    BY <1>4, <1>5, <1>6, <1>8, <2>1
<1>10. CASE ClientDiscovery(n)
  <2> DEFINE disc == IF ReadFlag(m.flag, recvmsg[n]) = 1 THEN 1 ELSE 0
             bid == broadcast_id[n] + 1
             port == htonl(PortOf(table, m.path))
             f == RREQ(n, m.dst, port, bid, 0, 0, disc)
             E == Flood(n, InterfacesOf(n), f)
  <2>1. net' = Emit(net, n, E) /\ m.path # Server /\ ~TableFull(n, m.path)
    BY <1>10 DEF ClientDiscovery, m, table
  <2>2. disc \in {0, 1} /\ bid \in Int /\ port \in Ports
    BY <1>1, <1>8, <2>1 DEF TypeOK
  <2> HIDE DEF disc, bid, port
  <2>3. \A mac \in Attach : [f EXCEPT !.from = mac] \in Frame
    BY <1>3, <2>2, NewRREQType
  <2>4. ASSUME NEW e \in E PROVE FrameWalks(e.frame)
    <3>1. PICK l \in InterfacesOf(n) : e = [lan |-> l, frame |-> [f EXCEPT !.from = <<n, l>>]]
      BY Zenon DEF Flood
    <3>2. e.frame.src = n /\ e.frame.from = <<n, l>> /\ e.frame.hop = 0
      BY <3>1 DEF RREQ
    <3>3. e.frame.from[1] = n
      BY <3>2
    <3> QED
      BY <3>2, <3>3, WalkZero DEF FrameWalks
  <2> HIDE DEF f
  <2>5. \A e \in E : e.frame \in Frame
    BY <2>3, FloodType
  <2> HIDE DEF E
  <2> QED
    BY <1>5, <2>1, <2>4, <2>5, SentWalks
<1>11. CASE ClientOverflow(n)
  BY <1>5, <1>11 DEF ClientOverflow
<1> QED
  BY <1>7, <1>9, <1>10, <1>11 DEF HandleLocal

\* A daemon handles a frame.
LEMMA FrameWalkStep ==
  ASSUME WalkInv, NEW i \in Attach, HandleFrame(i)
  PROVE  WalksOK(routing_table') /\ FramesWalk(net')
<1> DEFINE f == Head(net[i])
           n == i[1]
<1>1. TypeOK /\ RouteInv /\ WalksOK(routing_table) /\ n \in Node
  BY AttachType DEF WalkInv, RouteInv
<1>2. net[i] # <<>>
  BY DEF HandleFrame, HandleRREQ, RREQAtDestination, RREQAtKnowingNode, RREQAtOtherNode,
         RREPAtSource, RelayRREP, PayloadAtDestination, RelayPayload, Arrived
<1>3. /\ f \in Frame /\ FrameOK(routing_table, i, f) /\ Received(i) \in [Attach -> Seq(Frame)]
      /\ net \in [Attach -> Seq(Frame)]
  BY <1>1, <1>2, ReadFrame DEF TypeOK
<1>4. FrameWalks(f) /\ FramesWalk(Received(i))
  BY <1>2, <1>3, ReceivedFlight DEF WalkInv, FramesWalk
<1>5. f.src \in Node /\ f.dst \in Node
  BY <1>3, FrameCases
<1> HIDE DEF f
<1>6. ASSUME f.type # "DATA" PROVE Walk(f.src, n, f.hop + 1)
  BY <1>3, <1>4, <1>6, ReaderWalks
<1>7. /\ f.type = "RREQ" => WalksOK(Reverse(i, f))
      /\ f.type = "RREP" => WalksOK(Forward(i, f))
  BY <1>1, <1>3, <1>6, HandlerWalks
<1>8. CASE HandleRREQ(i)
  <2>1. PICK E : /\ f \in RREQFrame /\ routing_table' = Reverse(i, f)
                 /\ net' = Emit(Received(i), n, E)
                 /\ \A e \in E : e.frame \in Frame /\ Spread(i, f, e.frame)
    BY <1>1, <1>8, RREQSends DEF f
  <2>2. f.type = "RREQ"
    BY <2>1 DEF RREQFrame
  <2>3. WalksOK(Reverse(i, f)) /\ Walk(f.src, n, f.hop + 1) /\ Walk(n, n, 0)
    BY <1>1, <1>6, <1>7, <2>2, WalkZero
  <2>4. ASSUME NEW e \in E PROVE FrameWalks(e.frame)
    <3>1. Spread(i, f, e.frame)
      BY <2>1
    <3> DEFINE g == e.frame
               b == Reverse(i, f)[n][f.dst]
    <3>2. Known(b) => Walk(f.dst, n, b.hops)
      BY <1>1, <1>5, <2>3 DEF WalksOK
    <3> HIDE DEF g, b
    <3>3. /\ g.from[1] = n
          /\ \/ g.src = f.src /\ g.hop = f.hop + 1
             \/ g.src = f.dst /\ f.dst = n /\ g.hop = 0
             \/ g.src = f.dst /\ Known(b) /\ g.hop = b.hops
      BY <3>1 DEF Spread, g, b
    <3>4. FrameWalks(g)
      BY <2>3, <3>2, <3>3 DEF FrameWalks
    <3> QED
      BY <3>4 DEF g
  <2> QED
    BY <1>3, <1>4, <2>1, <2>3, <2>4, SentWalks
<1>9. CASE RREPAtSource(i)
  <2>1. f.type = "RREP" /\ routing_table' = Forward(i, f) /\ net' = Received(i)
    BY <1>9 DEF RREPAtSource, Arrived, f
  <2> QED
    BY <1>4, <1>7, <2>1
<1>10. CASE RelayRREP(i)
  <2> DEFINE new == Forward(i, f)
             r == new[n][f.dst]
             h == [f EXCEPT !.hop = @ + 1]
  <2>1. f.type = "RREP" /\ routing_table' = new /\ SendAlong(n, r, h, Received(i))
    BY <1>10 DEF RelayRREP, Arrived, f
  <2>2. TablesOK(new)
    BY <1>1, <1>3, <2>1, ForwardRoutes DEF RouteInv
  <2>3. Known(r) => <<n, r.if>> \in Attach /\ r.mac \in Attach
    BY <1>1, <1>5, <2>2 DEF TablesOK
  <2> HIDE DEF new, r
  <2>4. f \in RREPFrame
    BY <1>3, <2>1, FrameCases
  <2>5. \A from, to \in Attach : [h EXCEPT !.from = from, !.to = to] \in Frame
    BY <1>3, <2>1, RelayedType
  <2>6. ASSUME NEW from \in Attach, NEW to \in Attach, from[1] = n
        PROVE  FrameWalks([h EXCEPT !.from = from, !.to = to])
    <3> DEFINE g == [h EXCEPT !.from = from, !.to = to]
    <3>1. g.src = f.src /\ g.hop = f.hop + 1 /\ g.from = from
      BY <2>4 DEF RREPFrame
    <3> HIDE DEF g
    <3>2. FrameWalks(g)
      BY <1>6, <2>1, <2>6, <3>1 DEF FrameWalks
    <3> QED
      BY <3>2 DEF g
  <2> HIDE DEF h
  <2>7. FramesWalk(net')
    BY <1>1, <1>3, <1>4, <2>1, <2>3, <2>5, <2>6, SentAlongWalks
  <2> QED
    BY <1>7, <2>1, <2>7 DEF new
<1>11. CASE PayloadAtDestination(i)
  BY <1>1, <1>4, <1>11 DEF PayloadAtDestination
<1>12. CASE RelayPayload(i)
  <2> DEFINE r == routing_table[n][f.dst]
  <2>1. f.type = "DATA" /\ UNCHANGED routing_table /\ SendAlong(n, r, f, Received(i))
    BY <1>12 DEF RelayPayload, Arrived, f
  <2>2. Known(r) => <<n, r.if>> \in Attach /\ r.mac \in Attach
    BY <1>1, <1>5 DEF TypeOK
  <2> HIDE DEF r
  <2>3. f \in PayloadFrame
    BY <1>3, <2>1, FrameCases
  <2>4. ASSUME NEW from \in Attach, NEW to \in Attach
        PROVE  /\ [f EXCEPT !.from = from, !.to = to] \in Frame
               /\ [f EXCEPT !.from = from, !.to = to].type = "DATA"
    BY <1>3, <2>1, <2>3, RelayedType DEF PayloadFrame
  <2>5. FramesWalk(net')
    BY <1>1, <1>3, <1>4, <2>1, <2>2, <2>4, PayloadWalks
  <2> QED
    BY <1>1, <2>1, <2>5
<1> QED
  BY <1>8, <1>9, <1>10, <1>11, <1>12 DEF HandleFrame

LEMMA WalkInvStep == WalkInv /\ [Next]_vars => WalkInv'
<1> SUFFICES ASSUME WalkInv, [Next]_vars PROVE WalkInv'
  OBVIOUS
<1>1. RouteInv'
  BY RouteInvStep DEF WalkInv
<1>2. ASSUME NEW i \in Attach, LoseFrame(i) PROVE FramesWalk(net') /\ UNCHANGED routing_table
  <2>1. net \in [Attach -> Seq(Frame)] /\ net[i] # <<>> /\ net' = Received(i)
        /\ UNCHANGED routing_table
    BY <1>2 DEF WalkInv, RouteInv, TypeOK, LoseFrame
  <2> QED
    BY <2>1, ReceivedFlight DEF WalkInv, FramesWalk
<1>3. ASSUME Applications \/ UNCHANGED vars PROVE UNCHANGED <<net, routing_table>>
  BY <1>3 DEF Applications, AppSends, AppReceives, AppExits, vars
<1>4. WalksOK(routing_table') /\ FramesWalk(net')
  BY <1>2, <1>3, LocalWalkStep, FrameWalkStep DEF Next, Daemons, WalkInv
<1> QED
  BY <1>1, <1>4 DEF WalkInv, WalksOK, FramesWalk

LEMMA WalkInit == Init => WalkInv
<1> SUFFICES ASSUME Init PROVE WalkInv
  OBVIOUS
<1>1. RouteInv
  BY RouteInit
<1>2. \A n, d \in Node : ~Known(routing_table[n][d])
  <2> DEFINE Blank == [if : {NoIf}, mac : {<<>>}, hops : {0}, bid : GarbageId]
  <2>1. routing_table \in [Node -> [Node -> Blank]]
    BY DEF Init
  <2>2. \A e \in Blank : ~Known(e)
    BY DEF Known
  <2> HIDE DEF Blank
  <2> QED
    BY <2>1, <2>2
<1>3. \A j \in Attach : InFlight(net, j) = {}
  BY DEF Init, InFlight
<1> QED
  BY <1>1, <1>2, <1>3 DEF WalkInv, WalksOK, FramesWalk

----------------------------------------------------------------------------
(* Theorems *)

\* The next hop of a route is a neighbour, whatever clients do.
THEOREM RoutesLeadToNeighbours == Spec => []NextHopIsNeighbour
<1>1. RouteInv => NextHopIsNeighbour
  BY DEF RouteInv, RoutesOK, NextHopIsNeighbour, NextHop, Via
<1> QED
  BY <1>1, RoutesRight, PTL

\* A daemon that is given a RREP or payload to relay always has a route for it,
\* so the unchecked sendto() of the relaying code never fails: with lost frames,
\* forced discoveries and unknown ports as well.
THEOREM RelaysHaveRoutes == Spec => []RelayHasRoute
<1>1. RouteInv => RelayHasRoute
  BY DEF RouteInv, FramesOK, FrameOK, RelayHasRoute
<1> QED
  BY <1>1, RoutesRight, PTL

\* Unless a discovery is forced, following next hops never loops, although ODR
\* has no sequence numbers.
THEOREM NoRoutingLoops == Unforced => (Spec => []LoopFree)
<1> SUFFICES ASSUME Unforced PROVE Spec => []LoopFree
  OBVIOUS
<1>1. RouteInv => LoopFree
  BY DEF RouteInv, RoutesOK, LoopFree, NextHop, Via
<1> QED
  BY <1>1, RoutesRight, PTL

\* No handler ever takes a route away.
THEOREM RoutesAreKept == Spec => RoutesStay
<1>1. RouteInv /\ [Next]_vars =>
        [\A n, d \in Node : Known(routing_table[n][d]) => Known(routing_table'[n][d])]_vars
  BY RouteInvStep DEF RouteStep, Improves
<1> QED
  BY <1>1, RoutesRight, PTL DEF Spec, RoutesStay

\* Unless a discovery is forced, no handler makes a route longer.
THEOREM RoutesOnlyShorten == Unforced => (Spec => RoutesNeverLengthen)
<1> SUFFICES ASSUME Unforced PROVE Spec => RoutesNeverLengthen
  OBVIOUS
<1>1. RouteInv /\ [Next]_vars =>
        [\A n, d \in Node : Known(routing_table[n][d]) =>
           routing_table'[n][d].hops <= routing_table[n][d].hops]_vars
  BY RouteInvStep DEF RouteStep, Improves
<1> QED
  BY <1>1, RoutesRight, PTL DEF Spec, RoutesNeverLengthen

\* A hop count is that of a walk over the segments, with forced discoveries, loss
\* and nodes that answer for others as well: no route is believed to be shorter than
\* it can be.
THEOREM HopCountsAreReal == Spec => []HopsAreReal
<1>1. WalkInv => HopsAreReal
  BY DEF WalkInv, WalksOK, HopsAreReal
<1> QED
  BY <1>1, WalkInit, WalkInvStep, PTL DEF Spec
=============================================================================
