---------------------------- MODULE TimeService ----------------------------
(***************************************************************************)
(* The time clients and servers of Assignment 3 (client.c, server.c) and   *)
(* their library (API.c) on top of the routing daemons of module ODR.      *)
(*                                                                         *)
(* A client prompts for a server node, sends a request with flag 0, and    *)
(* waits; each time select() expires it sends the request again with flag  *)
(* 1.  It takes the first datagram it is sent for the answer.  A server    *)
(* receives a datagram and answers it.                                     *)
(***************************************************************************)
EXTENDS ODR

CONSTANTS
  Targets,     \* the nodes that the users name as server nodes
  MaxAsk,      \* bound: requests typed at one client
  MaxRetry,    \* bound: time-outs of one request
  Quits        \* whether applications may be ended by their user

ASSUME UserAssumption ==
  Targets \subseteq Node /\ MaxAsk \in Nat /\ MaxRetry \in Nat /\ Quits \in BOOLEAN
\* A request is sent with flag 0, and with flag 1 after a time-out.
ASSUME RetryAssumption == 0 \in Flags /\ (MaxRetry > 0 => 1 \in Flags)

VARIABLES
  client,      \* [<<node, path>>]: a client's place in its loop
  server       \* [node]: a server's place in its loop

Clients == {a \in Running : a[2] # Server}

appvars == <<client, server>>
allvars == <<vars, appvars>>

\* Mutant of Request: port and flag swapped.
RequestSwapped(c, d, flag) ==
  [path |-> c, dst |-> d, port |-> flag, msg |-> "HI", flag |-> ServerPort]

\* What msg_send formats for the daemon: destination, port, message, flag.
Request(c, d, flag) ==
  [path |-> c, dst |-> d, port |-> ServerPort, msg |-> "HI", flag |-> flag]

Reply(s) ==
  [path |-> Server, dst |-> s.src, port |-> s.port, msg |-> "TIME", flag |-> 0]

AppInit ==
  /\ client = [a \in Clients |-> [pc |-> "prompt", dst |-> a[1], asked |-> 0, tries |-> 0]]
  /\ server = [n \in Node |-> [pc |-> "recv", src |-> n, port |-> ServerPort]]

\* The user names node d; the request goes to the daemon.
Ask(a, d) ==
  /\ client[a].pc = "prompt"
  /\ client[a].asked < MaxAsk
  /\ AppSends(a[1], Request(a[2], d, 0))
  /\ client' = [client EXCEPT ![a] = [pc |-> "wait", dst |-> d, asked |-> @.asked + 1, tries |-> 0]]
  /\ UNCHANGED server

\* select() expires with nothing to read: the request is sent again.
TimeOut(a) ==
  /\ client[a].pc = "wait"
  /\ appq[a[1]][a[2]] = <<>>
  /\ client[a].tries < MaxRetry
  /\ AppSends(a[1], Request(a[2], client[a].dst, 1))
  /\ client' = [client EXCEPT ![a].tries = @ + 1]
  /\ UNCHANGED server

\* Whatever datagram comes first is the answer.
TakeAnswer(a) ==
  /\ client[a].pc = "wait"
  /\ AppReceives(a[1], a[2])
  /\ client' = [client EXCEPT ![a].pc = "prompt"]
  /\ UNCHANGED server

\* msg_send fails when the daemon is gone, and the client exits.
ClientFails(a) ==
  /\ status[a[1]] = "exited"
  /\ AppExits(a[1], a[2])
  /\ client' = [client EXCEPT ![a].pc = "done"]
  /\ UNCHANGED server

\* Mutant of ServerReceives: the port is taken for an offset to the server's.
ServerReceivesOffset(n) ==
  /\ server[n].pc = "recv"
  /\ AppReceives(n, Server)
  /\ server' = [server EXCEPT ![n] = LET m == Head(appq[n][Server])
                                     IN  [pc |-> "send", src |-> m.src, port |-> m.port - ServerPort]]
  /\ UNCHANGED client

ServerReceives(n) ==
  /\ server[n].pc = "recv"
  /\ AppReceives(n, Server)
  /\ server' = [server EXCEPT ![n] = LET m == Head(appq[n][Server])
                                     IN  [pc |-> "send", src |-> m.src, port |-> m.port]]
  /\ UNCHANGED client

ServerSends(n) ==
  /\ server[n].pc = "send"
  /\ AppSends(n, Reply(server[n]))
  /\ server' = [server EXCEPT ![n].pc = "recv"]
  /\ UNCHANGED client

ServerFails(n) ==
  /\ server[n].pc = "send"
  /\ status[n] = "exited"
  /\ AppExits(n, Server)
  /\ server' = [server EXCEPT ![n].pc = "done"]
  /\ UNCHANGED client

\* The user ends an application.
Quit(a) ==
  /\ Quits
  /\ AppExits(a[1], a[2])
  /\ client' = IF a \in Clients THEN [client EXCEPT ![a].pc = "done"] ELSE client
  /\ server' = IF a \in Clients THEN server ELSE [server EXCEPT ![a[1]].pc = "done"]

ClientStep(a) ==
  (\E d \in Targets : Ask(a, d)) \/ TimeOut(a) \/ TakeAnswer(a) \/ ClientFails(a)

ServerStep(n) == ServerReceives(n) \/ ServerSends(n) \/ ServerFails(n)

TimeInit == Init /\ AppInit

TimeNext ==
  \/ Daemons /\ UNCHANGED appvars
  \/ (\E i \in Attach : LoseFrame(i)) /\ UNCHANGED appvars
  \/ \E a \in Clients : ClientStep(a)
  \/ \E n \in Node : ServerStep(n)
  \/ \E a \in Running : Quit(a)

TimeSpec == TimeInit /\ [][TimeNext]_allvars

\* select() serves every descriptor that is ready before it is called again,
\* the servers and waiting clients read whenever there is something to read, and
\* the time-out of a client expires; nobody has to type a request, and no frame
\* has to be lost.
Fairness ==
  /\ \A n \in Node : WF_allvars(HandleLocal(n) /\ UNCHANGED appvars)
  /\ \A i \in Attach : WF_allvars(HandleFrame(i) /\ UNCHANGED appvars)
  /\ \A a \in Clients : WF_allvars(TakeAnswer(a)) /\ WF_allvars(TimeOut(a))
  /\ \A n \in Node : WF_allvars(ServerStep(n))

FairTimeSpec == TimeSpec /\ Fairness

----------------------------------------------------------------------------
(* Properties *)

\* The applications' variables have their types.
AppTypeOK ==
  /\ client \in [Clients -> [pc : {"prompt", "wait", "done"}, dst : Node,
                             asked : 0 .. MaxAsk, tries : 0 .. MaxRetry]]
  /\ server \in [Node -> [pc : {"recv", "send", "done"}, src : Node, port : Ports]]

\* A datagram that a waiting client will take for its answer comes from the
\* node it asked: the daemon finds the right client by the port on the wire,
\* and no answer is left over from an earlier request.
AnswersMatch ==
  \A a \in Clients : client[a].pc = "wait" =>
    \A k \in 1 .. Len(appq[a[1]][a[2]]) : appq[a[1]][a[2]][k].src = client[a].dst

\* A server's answer finds a route to the client's node at the server's node.
ServerHasRoute ==
  \A n \in Node : odrq[n] # <<>> /\ Head(odrq[n]).path = Server =>
    Known(routing_table[n][Head(odrq[n]).dst])

\* No daemon ends.
AllUp == \A n \in Node : Up(n)

\* The daemon of a node without a server ends only after an application of that
\* node has ended: neither lost frames, nor an application or a daemon that ends
\* elsewhere, nor a full port_table there makes one of its handlers fail.
Contained ==
  \A n \in Node : status[n] = "exited" /\ <<n, Server>> \notin Running =>
    \E c \in Client : <<n, c>> \in Running \ bound

\* A client that asked is answered.
Answered == \A a \in Clients : client[a].pc = "wait" ~> client[a].pc = "prompt"

\* Every flood and every exchange comes to an end: a daemon that is up has nothing
\* left to read, and nobody keeps sending to it.
TrafficEnds == <>[](\A i \in Attach : Up(i[1]) => net[i] = <<>>)

\* The daemons, among these applications, behave as module ODR says.
ODRSpec == Spec
=============================================================================
