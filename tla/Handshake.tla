----------------------------- MODULE Handshake ------------------------------
(***************************************************************************)
(* The first half of a session of Assignment 2: clients ask the parent     *)
(* (server.c) for a file, the parent forks a child for every client that   *)
(* it does not know, the child tells the client its port, and the client   *)
(* answers the child with the width of its window.  Every datagram may be  *)
(* lost.  The second half is module FileTransfer.                          *)
(*                                                                         *)
(* A client is known by its address, <<host, port>>.  Children are         *)
(* numbered as they are forked, and a child stands for its port as well.   *)
(***************************************************************************)
EXTENDS Integers, Sequences, FiniteSets

CONSTANTS
  Client,      \* addresses of clients
  MaxAsk,      \* bound: requests of one client
  MaxLoss,     \* bound: lost datagrams
  MaxReuse,    \* bound: clients that get the address of one that has ended
  MaxChild,    \* bound: children
  MaxNrexmt,   \* RTT_MAXNREXMT
  Missing      \* may the file be missing?

ASSUME HandshakeAssumption ==
  /\ \A c \in Client : c = <<c[1], c[2]>>
  /\ MaxAsk \in Nat /\ MaxLoss \in Nat /\ MaxReuse \in Nat /\ MaxChild \in Nat
  /\ MaxNrexmt \in Nat /\ Missing \in BOOLEAN

Port(c) == c[2]

Listen == 0    \* the parent's socket; children are 1, 2, ...

VARIABLES
  connected,   \* the parent's list, as a set
  requests,    \* file names on their way to the parent
  child,       \* the children, in the order of their forks
  chldPending, \* SIGCHLD is to be delivered to the parent
  inHandler,   \* the parent is in sig_chld
  client,      \* the clients' processes
  inbox,       \* port numbers in the queue of a client's socket
  losses, reuses

sigVars == <<chldPending, inHandler>>
parentVars == <<connected, requests, sigVars>>
vars == <<parentVars, child, client, inbox, losses, reuses>>

Fresh == [pc |-> "ask", peer |-> Listen, asked |-> 0]

NewChild(c) == [pc |-> "start", of |-> c, nrexmt |-> 0, window |-> FALSE]

Init ==
  /\ connected = {} /\ requests = <<>> /\ child = <<>>
  /\ chldPending = FALSE /\ inHandler = FALSE
  /\ client = [c \in Client |-> Fresh]
  /\ inbox = [c \in Client |-> <<>>]
  /\ losses = 0 /\ reuses = 0

Children == 1 .. Len(child)

Lose == losses < MaxLoss /\ losses' = losses + 1

(* The socket of c takes a datagram of a socket to which it is connected,  *)
(* and none when its process has ended.                                    *)
Accepts(c, from) == client[c].peer = from /\ client[c].pc # "done"

Deliver(c, k, froms) ==
  inbox' = [inbox EXCEPT ![c] = @ \o
              [i \in 1 .. Cardinality({f \in froms : Accepts(c, f)}) |-> k]]

-----------------------------------------------------------------------------
(* The client sends the file name, or a random number has it lost. *)
SendRequest(c) ==
  /\ client[c].pc = "ask" /\ client[c].asked < MaxAsk
  /\ client' = [client EXCEPT ![c].pc = "select", ![c].asked = @ + 1]
  /\ \/ Lose /\ UNCHANGED requests
     \/ requests' = Append(requests, c) /\ UNCHANGED losses
  /\ UNCHANGED <<connected, sigVars, child, inbox, reuses>>

(* select() returns 0: after three seconds, and then at once. *)
SelectTimeout(c) ==
  /\ client[c].pc = "select" /\ inbox[c] = <<>> /\ client[c].asked < MaxAsk
  /\ client' = [client EXCEPT ![c].pc = "ask"]
  /\ UNCHANGED <<parentVars, child, inbox, losses, reuses>>

(* Mutant: a client that is connected to a child takes another port. *)
RecvAnyPort(c) ==
  /\ client[c].pc \in {"select", "transfer"} /\ inbox[c] # <<>>
  /\ LET k == Head(inbox[c])
     IN  /\ client' = [client EXCEPT ![c] = [pc |-> "transfer", peer |-> k, asked |-> 0]]
         /\ \/ Lose /\ UNCHANGED child
            \/ child' = [child EXCEPT ![k].window = TRUE] /\ UNCHANGED losses
  /\ inbox' = [inbox EXCEPT ![c] = Tail(@)]
  /\ UNCHANGED <<parentVars, reuses>>

(* The client connects to the child's port and sends its window, once. *)
RecvPort(c) ==
  /\ client[c].pc = "select" /\ inbox[c] # <<>>
  /\ LET k == Head(inbox[c])
     IN  /\ client' = [client EXCEPT ![c] = [pc |-> "transfer", peer |-> k, asked |-> 0]]
         /\ \/ Lose /\ UNCHANGED child
            \/ child' = [child EXCEPT ![k].window = TRUE] /\ UNCHANGED losses
  /\ inbox' = [inbox EXCEPT ![c] = Tail(@)]
  /\ UNCHANGED <<parentVars, reuses>>

(* A new client process is given the address of one that has ended. *)
Reuse(c) ==
  /\ client[c].pc = "done" /\ reuses < MaxReuse
  /\ reuses' = reuses + 1
  /\ client' = [client EXCEPT ![c] = Fresh]
  /\ inbox' = [inbox EXCEPT ![c] = <<>>]
  /\ UNCHANGED <<parentVars, child, losses>>

-----------------------------------------------------------------------------
(* Mutant: only the port is compared. *)
DuplicatePort(c) == \E d \in connected : Port(d) = Port(c)

(* DuplicateNode compares address and port. *)
DuplicateNode(c) == c \in connected

(* Mutant: the request is not recorded. *)
InsertNothing(c) == UNCHANGED connected

(* InsertLinkList: a second node with the same port is not inserted. *)
InsertConnected(c) ==
  connected' = IF \E d \in connected : Port(d) = Port(c) THEN connected ELSE connected \cup {c}

(* The parent's loop: a request of a client that it knows, and another. *)
IgnoreDuplicate ==
  /\ ~ inHandler /\ requests # <<>> /\ DuplicateNode(Head(requests))
  /\ requests' = Tail(requests)
  /\ UNCHANGED <<connected, sigVars, child, client, inbox, losses, reuses>>

Fork ==
  /\ ~ inHandler /\ requests # <<>> /\ ~ DuplicateNode(Head(requests))
  /\ Len(child) < MaxChild
  /\ requests' = Tail(requests)
  /\ InsertConnected(Head(requests))
  /\ child' = Append(child, NewChild(Head(requests)))
  /\ UNCHANGED <<sigVars, client, inbox, losses, reuses>>

(* SIGCHLD is delivered; another one may become pending in the meantime. *)
CatchChld ==
  /\ chldPending /\ ~ inHandler
  /\ chldPending' = FALSE /\ inHandler' = TRUE
  /\ UNCHANGED <<connected, requests, child, client, inbox, losses, reuses>>

Zombies == {k \in Children : child[k].pc = "zombie"}

(* Mutant: sig_chld waits for all children that have ended. *)
ReapAll ==
  /\ inHandler /\ Zombies # {}
  /\ inHandler' = FALSE
  /\ child' = [k \in Children |->
                 IF k \in Zombies THEN [child[k] EXCEPT !.pc = "reaped"] ELSE child[k]]
  /\ UNCHANGED <<connected, requests, chldPending, client, inbox, losses, reuses>>

(* sig_chld: one wait(), which blocks the parent while no child has ended. *)
Reap ==
  /\ inHandler
  /\ inHandler' = FALSE
  /\ \E k \in Zombies : child' = [child EXCEPT ![k].pc = "reaped"]
  /\ UNCHANGED <<connected, requests, chldPending, client, inbox, losses, reuses>>

-----------------------------------------------------------------------------
(* The port number goes out on the parent's socket. *)
SendPort(k) ==
  /\ child[k].pc = "start"
  /\ child' = [child EXCEPT ![k].pc = "await"]
  /\ \/ Lose /\ UNCHANGED inbox
     \/ Deliver(child[k].of, k, {Listen}) /\ UNCHANGED losses
  /\ UNCHANGED <<parentVars, client, reuses>>

Exit(k, how) ==
  /\ child' = [child EXCEPT ![k] = [@ EXCEPT !.pc = "zombie", !.nrexmt = how, !.window = FALSE]]
  /\ chldPending' = TRUE
  /\ UNCHANGED inHandler

(* Mutant: the child never gives up. *)
ResendPortForever(k) ==
  /\ child[k].pc = "await"
  /\ child' = [child EXCEPT ![k].nrexmt = @ + 1]
  /\ \/ Lose /\ UNCHANGED inbox
     \/ Deliver(child[k].of, k, {Listen, k}) /\ UNCHANGED losses
  /\ UNCHANGED <<parentVars, client, reuses>>

(* The alarm: the port number once more, on both sockets. *)
ResendPort(k) ==
  /\ child[k].pc = "await" /\ child[k].nrexmt < MaxNrexmt
  /\ child' = [child EXCEPT ![k].nrexmt = @ + 1]
  /\ \/ Lose /\ UNCHANGED inbox
     \/ Deliver(child[k].of, k, {Listen, k}) /\ UNCHANGED losses
  /\ UNCHANGED <<parentVars, client, reuses>>

GiveUp(k) ==
  /\ child[k].pc = "await" /\ child[k].nrexmt = MaxNrexmt
  /\ Exit(k, MaxNrexmt + 1)
  /\ UNCHANGED <<connected, requests, client, inbox, losses, reuses>>

(* The window arrives.  DeleteSelectedNode works on the child's own copy of *)
(* the list; the parent's keeps the client for ever.  Then the file is      *)
(* opened; the client is not told when it does not exist.                   *)
RecvWindow(k) ==
  /\ child[k].pc = "await" /\ child[k].window
  /\ \/ /\ child' = [child EXCEPT ![k] = [@ EXCEPT !.pc = "transfer", !.window = FALSE]]
        /\ UNCHANGED sigVars
     \/ Missing /\ Exit(k, 0)
  /\ UNCHANGED <<connected, requests, client, inbox, losses, reuses>>

(* Both ends of a transfer that came to its end: module FileTransfer. *)
TransferEnds(k) ==
  LET c == child[k].of
  IN  /\ child[k].pc = "transfer" /\ client[c].pc = "transfer" /\ client[c].peer = k
      /\ Exit(k, 0)
      /\ client' = [client EXCEPT ![c] = [@ EXCEPT !.pc = "done", !.peer = Listen]]
      /\ inbox' = [inbox EXCEPT ![c] = <<>>]
      /\ UNCHANGED <<connected, requests, losses, reuses>>

-----------------------------------------------------------------------------
ClientStep(c) == SendRequest(c) \/ SelectTimeout(c) \/ RecvPort(c)

ParentStep == IgnoreDuplicate \/ Fork \/ CatchChld \/ Reap

ChildStep(k) ==
  \/ SendPort(k) \/ ResendPort(k) \/ GiveUp(k) \/ RecvWindow(k) \/ TransferEnds(k)

Next ==
  \/ \E c \in Client : ClientStep(c) \/ Reuse(c)
  \/ ParentStep
  \/ \E k \in Children : ChildStep(k)

Spec == Init /\ [][Next]_vars

(* Every process runs on. *)
FairSpec ==
  /\ Spec
  /\ \A c \in Client : WF_vars(ClientStep(c))
  /\ WF_vars(ParentStep)
  /\ \A k \in 1 .. MaxChild : WF_vars(k \in Children /\ ChildStep(k))

-----------------------------------------------------------------------------
\* Every variable keeps its type.
HandshakeTypeOK ==
  /\ connected \subseteq Client /\ requests \in Seq(Client)
  /\ chldPending \in BOOLEAN /\ inHandler \in BOOLEAN
  /\ child \in Seq([pc : {"start", "await", "transfer", "zombie", "reaped"},
                    of : Client, nrexmt : 0 .. MaxNrexmt + 1, window : BOOLEAN])
  /\ client \in [Client -> [pc : {"ask", "select", "transfer", "done"},
                            peer : Children \cup {Listen}, asked : 0 .. MaxAsk]]
  /\ inbox \in [Client -> Seq(Children)]
  /\ losses \in 0 .. MaxLoss /\ reuses \in 0 .. MaxReuse

\* However often a client repeats its request, and whatever becomes of its child,
\* the parent forks one child for its address; it forks more only when a client of
\* another host with the same port was there first, because InsertLinkList leaves
\* out the second of two nodes with one key.
OneChild ==
  \A i, k \in Children :
    i # k /\ child[i].of = child[k].of =>
      \E d \in connected : d # child[k].of /\ Port(d) = Port(child[k].of)

\* A child that was sent a window is the one its client listens to: of two children
\* for one client, or of two port numbers in its queue, only one comes to transfer.
TransferIsMutual ==
  \A k \in Children :
    child[k].pc = "transfer" =>
      client[child[k].of].pc = "transfer" /\ client[child[k].of].peer = k

\* sig_chld calls wait() without WNOHANG, and never blocks: there is a child to wait
\* for, and one more if another SIGCHLD is pending.
WaitFindsChild ==
  Cardinality(Zombies) >= (IF inHandler THEN 1 ELSE 0) + (IF chldPending THEN 1 ELSE 0)

\* The child for c gave up before it heard from c.
Abandoned(c) == \E k \in Children : child[k].of = c /\ child[k].nrexmt > MaxNrexmt

\* The parent still knows the address of c from a client that has ended.
Shadowed(c) == reuses > 0 /\ DuplicateNode(c)

\* A client that asks comes to a transfer, although requests and port numbers are
\* lost, unless a child gave up on it or it has the address of an earlier client.
Served ==
  \A c \in Client :
    client[c].pc = "ask" ~> client[c].pc = "transfer" \/ Abandoned(c) \/ Shadowed(c)
=============================================================================
