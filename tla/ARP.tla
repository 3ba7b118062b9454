-------------------------------- MODULE ARP --------------------------------
(***************************************************************************)
(* The address resolution service of Assignment 4 (Code/arp.c), one        *)
(* process per node.  It serves a UNIX domain stream socket, on which      *)
(* local processes connect and name an address, and a packet socket on     *)
(* eth0.  A pass through one of the two handlers is one atomic action.     *)
(*                                                                         *)
(* All nodes are on one Ethernet.  A node stands for its address in        *)
(* vm_addr and also for the Ethernet address of its eth0.                  *)
(***************************************************************************)
EXTENDS Integers, Sequences

CONSTANTS
  Node,     \* the virtual machines
  NoMac,    \* mac_addr that nothing was copied to
  Lossy,    \* whether frames and packets may be lost
  Quits     \* the nodes where processes may be ended by their user

ASSUME NoMacAssumption == NoMac \notin Node
ASSUME FaultAssumption == Lossy \in BOOLEAN /\ Quits \subseteq Node

VARIABLES
  cache,    \* [node][address]: struct cache_entry
  eth0,     \* [node]: ARP frames received and not yet read
  conn,     \* [node]: the connections made to its ARP process, in order
  arp       \* [node]: "up" or "ended"

arpvars == <<cache, eth0, conn, arp>>

ArpUp(n) == arp[n] = "up"

----------------------------------------------------------------------------
(* Frames *)

ArpRequest(n, ip) == [op |-> 1, from |-> n, src |-> n, dst |-> ip, mac |-> NoMac]

\* Mutants of ArpReply: the address of the sender is put where that of this node
\* belongs, or the broadcast address is left there.
ArpReplySender(n, f) == [f EXCEPT !.op = 2, !.from = n, !.mac = f.from]

ArpReplyBroadcast(n, f) == [f EXCEPT !.op = 2, !.from = n, !.mac = "ff"]

\* The request with op, source address and target hardware address changed; the
\* sender's and the target's protocol addresses stay where they were.
ArpReply(n, f) == [f EXCEPT !.op = 2, !.from = n, !.mac = n]

Broadcast(n, f) ==
  [m \in Node |-> IF m # n /\ ArpUp(m) THEN Append(eth0[m], f) ELSE eth0[m]]

Unicast(queues, m, f) ==
  IF ArpUp(m) THEN [queues EXCEPT ![m] = Append(@, f)] ELSE queues

TakeFrame(n) == [eth0 EXCEPT ![n] = Tail(@)]

----------------------------------------------------------------------------
(* Connections (external): descriptors and UNIX domain stream sockets *)

\* state: "queued" until it is accepted, "open" while ARP's descriptor fd is
\* open, then "closed" by ARP, or "reset" if ARP ended before accepting it.
\* mac is what was written to it; peer: whether the process that made it lives.
NewConn(ip) ==
  [ip |-> ip, state |-> "queued", fd |-> 0, mac |-> NoMac, peer |-> TRUE]

\* The connection that descriptor fd of n's ARP process denotes, if any.
Holders(n, fd) ==
  {k \in 1 .. Len(conn[n]) : conn[n][k].state = "open" /\ conn[n][k].fd = fd}

\* accept() takes the oldest connection and the lowest free descriptor; 0
\* stands for those that are open from the start.
Oldest(n) == CHOOSE k \in 1 .. Len(conn[n]) :
               /\ conn[n][k].state = "queued"
               /\ \A j \in 1 .. k - 1 : conn[n][j].state # "queued"

FreeFd(n) == CHOOSE fd \in 1 .. Len(conn[n]) :
               /\ Holders(n, fd) = {}
               /\ \A d \in 1 .. fd - 1 : Holders(n, d) # {}

Closed(c) == [c EXCEPT !.state = IF @ = "queued" THEN "reset" ELSE "closed"]

\* n's ARP process ends, and the kernel closes its sockets.
Ended(n) ==
  /\ arp' = [arp EXCEPT ![n] = "ended"]
  /\ eth0' = [eth0 EXCEPT ![n] = <<>>]
  /\ conn' = [conn EXCEPT ![n] = [k \in DOMAIN @ |-> Closed(@[k])]]

\* write() of an address to connection k and close(), with the frames in queues
\* left to read.  If the peer has closed it, SIGPIPE ends the process.
WriteAndClose(n, k, mac, queues) ==
  IF conn[n][k].peer
  THEN /\ conn' = [conn EXCEPT ![n][k].mac = mac, ![n][k].state = "closed"]
       /\ eth0' = queues
       /\ UNCHANGED arp
  ELSE Ended(n)

----------------------------------------------------------------------------
(* Frames from eth0 *)

FrameArrived(n, op) == ArpUp(n) /\ eth0[n] # <<>> /\ Head(eth0[n]).op = op

\* A request for this node is answered; the cache is left alone.
RequestForUs(n) ==
  LET f == Head(eth0[n])
  IN  /\ FrameArrived(n, 1)
      /\ f.dst = n
      /\ eth0' = Unicast(TakeFrame(n), f.from, ArpReply(n, f))
      /\ UNCHANGED <<cache, conn, arp>>

\* The program says that it updates the cache, and does not.
RequestForOther(n) ==
  /\ FrameArrived(n, 1)
  /\ Head(eth0[n]).dst # n
  /\ eth0' = TakeFrame(n)
  /\ UNCHANGED <<cache, conn, arp>>

\* The address is entered in the cache and written to the entry's descriptor,
\* which is closed and stays in the entry.  A write to a descriptor that is not
\* open fails, and the process exits.
ReplyArrives(n) ==
  LET f == Head(eth0[n])
      k == Holders(n, cache[n][f.dst].sockfd)
  IN  /\ FrameArrived(n, 2)
      /\ cache' = [cache EXCEPT ![n][f.dst].mac = f.mac]
      /\ IF k = {} THEN Ended(n)
         ELSE WriteAndClose(n, CHOOSE x \in k : TRUE, f.mac, TakeFrame(n))

----------------------------------------------------------------------------
(* Requests of local processes *)

RequestArrived(n) == ArpUp(n) /\ \E k \in DOMAIN conn[n] : conn[n][k].state = "queued"

Cached(n, ip) == cache[n][ip].mac # NoMac

\* Mutant of AnswerFromCache: mac_addr of the process, not of the entry.
AnswerFromCacheOwn(n) ==
  LET k == Oldest(n)
      ip == conn[n][k].ip
  IN  /\ RequestArrived(n)
      /\ Cached(n, ip)
      /\ WriteAndClose(n, k, n, eth0)
      /\ UNCHANGED cache

AnswerFromCache(n) ==
  LET k == Oldest(n)
      ip == conn[n][k].ip
  IN  /\ RequestArrived(n)
      /\ Cached(n, ip)
      /\ WriteAndClose(n, k, cache[n][ip].mac, eth0)
      /\ UNCHANGED cache

\* Mutant of AskNetwork: the descriptor is not kept.
AskNetworkForgets(n) ==
  LET k == Oldest(n)
      ip == conn[n][k].ip
  IN  /\ RequestArrived(n)
      /\ ~Cached(n, ip)
      /\ conn' = [conn EXCEPT ![n][k].state = "open", ![n][k].fd = FreeFd(n)]
      /\ eth0' = Broadcast(n, ArpRequest(n, ip))
      /\ UNCHANGED <<cache, arp>>

\* The descriptor is kept, whatever the entry held, and a request broadcast.
AskNetwork(n) ==
  LET k == Oldest(n)
      ip == conn[n][k].ip
  IN  /\ RequestArrived(n)
      /\ ~Cached(n, ip)
      /\ conn' = [conn EXCEPT ![n][k].state = "open", ![n][k].fd = FreeFd(n)]
      /\ cache' = [cache EXCEPT ![n][ip].sockfd = FreeFd(n)]
      /\ eth0' = Broadcast(n, ArpRequest(n, ip))
      /\ UNCHANGED arp

ArpStep(n) ==
  \/ RequestForUs(n) \/ RequestForOther(n) \/ ReplyArrives(n)
  \/ AnswerFromCache(n) \/ AskNetwork(n)

----------------------------------------------------------------------------
(* What surrounds the processes (external) *)

LoseArpFrame(n) ==
  /\ Lossy
  /\ eth0[n] # <<>>
  /\ eth0' = TakeFrame(n)
  /\ UNCHANGED <<cache, conn, arp>>

QuitArp(n) == n \in Quits /\ ArpUp(n) /\ Ended(n) /\ UNCHANGED cache

\* A local process connects and writes an address.
Connect(n, ip) ==
  /\ ArpUp(n)
  /\ conn' = [conn EXCEPT ![n] = Append(@, NewConn(ip))]
  /\ UNCHANGED <<cache, eth0, arp>>

Abandoned(c) == [c EXCEPT !.peer = FALSE]

\* A local process ends, and with it the connections K that it made.
HangUp(n, K) ==
  /\ conn' = [conn EXCEPT ![n] =
                [k \in DOMAIN @ |-> IF k \in K THEN Abandoned(@[k]) ELSE @[k]]]
  /\ UNCHANGED <<cache, eth0, arp>>

----------------------------------------------------------------------------

ArpInit ==
  /\ cache = [n \in Node |-> [ip \in Node |-> [mac |-> NoMac, sockfd |-> 0]]]
  /\ eth0 = [n \in Node |-> <<>>]
  /\ conn = [n \in Node |-> <<>>]
  /\ arp = [n \in Node |-> "up"]

ArpNext ==
  \E n \in Node :
    \/ ArpStep(n) \/ LoseArpFrame(n) \/ QuitArp(n)
    \/ \E ip \in Node : Connect(n, ip)
    \/ \E K \in SUBSET DOMAIN conn[n] : HangUp(n, K)

ArpSpec == ArpInit /\ [][ArpNext]_arpvars

----------------------------------------------------------------------------
(* Properties *)

\* The variables of the service have their types.
ArpTypeOK ==
  /\ cache \in [Node -> [Node -> [mac : Node \cup {NoMac}, sockfd : Nat]]]
  /\ eth0 \in [Node -> Seq([op : {1, 2}, from : Node, src : Node, dst : Node,
                            mac : Node \cup {NoMac}])]
  /\ conn \in [Node -> Seq([ip : Node, state : {"queued", "open", "closed", "reset"},
                            fd : Nat, mac : Node \cup {NoMac}, peer : BOOLEAN])]
  /\ arp \in [Node -> {"up", "ended"}]

\* An address in the cache is that of the node it is entered for: it has
\* travelled through the handlers of two processes and two frames.
CacheCorrect == \A n, ip \in Node : cache[n][ip].mac \in {NoMac, ip}

\* A process is told the address that it asked for.
AnswersCorrect ==
  \A n \in Node : \A k \in DOMAIN conn[n] : conn[n][k].mac \in {NoMac, conn[n][k].ip}

\* A reply finds the descriptor of a connection that asked for the address:
\* replies are told apart by the address only, and descriptors are used again.
ReplyFindsAsker ==
  \A n \in Node : \A j \in DOMAIN eth0[n] : eth0[n][j].op = 2 =>
    \E k \in Holders(n, cache[n][eth0[n][j].dst].sockfd) :
      conn[n][k].ip = eth0[n][j].dst
=============================================================================
