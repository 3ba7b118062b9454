----------------------------- MODULE ARP_proofs -----------------------------
(***************************************************************************)
(* What the ARP processes of module ARP keep in their caches is right,     *)
(* whatever processes ask them, in whatever order, and whatever is lost.   *)
(***************************************************************************)
EXTENDS ARP, FiniteSetTheorems, SequenceTheorems, WellFoundedInduction, TLAPS

\* A set of natural numbers has a least element.
LEMMA Least ==
  ASSUME NEW T \in SUBSET Nat, T # {}
  PROVE  \E x \in T : \A y \in T : x <= y
<1>1. \E x \in T : \A y \in T : ~(<<y, x>> \in OpToRel(<, Nat))
  BY WFMin, NatLessThanWellFounded
<1>2. PICK x \in T : \A y \in T : ~(<<y, x>> \in OpToRel(<, Nat))
  BY <1>1
<1>3. \A y \in T : ~(y < x)
  BY <1>2 DEF OpToRel
<1>. QED  BY <1>3

----------------------------------------------------------------------------
(* The inductive invariant *)

ArpFrame == [op : {1, 2}, from : Node, src : Node, dst : Node, mac : Node \cup {NoMac}]

\* A reply on the wire carries the address of the node it was asked about.
CorrectFrame == {f \in ArpFrame : f.op = 2 => f.mac = f.dst}

Queues == [Node -> Seq(CorrectFrame)]

Connection ==
  [ip : Node, state : {"queued", "open", "closed", "reset"}, fd : Nat,
   mac : Node \cup {NoMac}, peer : BOOLEAN]

ConnInv == conn \in [Node -> Seq(Connection)]

EntriesInv ==
  /\ cache \in [Node -> [Node -> [mac : Node \cup {NoMac}, sockfd : Nat]]]
  /\ CacheCorrect

\* Replies under way are right as well as entries.
CacheInv ==
  /\ EntriesInv
  /\ eth0 \in Queues
  /\ ConnInv
  /\ arp \in [Node -> {"up", "ended"}]

LEMMA CacheInvTypes == CacheInv => ArpTypeOK /\ CacheCorrect
<1>1. CorrectFrame \subseteq ArpFrame
  BY DEF CorrectFrame
<1>2. ASSUME eth0 \in Queues  PROVE eth0 \in [Node -> Seq(ArpFrame)]
  BY <1>1, <1>2 DEF Queues
<1>. QED  BY <1>2 DEF CacheInv, EntriesInv, ConnInv, ArpTypeOK, Connection, ArpFrame

----------------------------------------------------------------------------
(* accept() *)

LEMMA OldestQueued ==
  ASSUME ConnInv, NEW n \in Node, RequestArrived(n)
  PROVE  Oldest(n) \in 1 .. Len(conn[n]) /\ conn[n][Oldest(n)].state = "queued"
<1>. DEFINE T == {k \in 1 .. Len(conn[n]) : conn[n][k].state = "queued"}
<1>1. T \in SUBSET Nat /\ T # {}
  BY DEF ConnInv, RequestArrived
<1>2. PICK x \in T : \A y \in T : x <= y
  BY <1>1, Least
<1>3. \A j \in 1 .. x - 1 : conn[n][j].state # "queued"
  BY <1>2 DEF ConnInv
<1>4. \E k \in 1 .. Len(conn[n]) :
        conn[n][k].state = "queued" /\ \A j \in 1 .. k - 1 : conn[n][j].state # "queued"
  BY <1>2, <1>3
<1>. QED  BY <1>4 DEF Oldest

\* There are fewer open connections than connections: one is queued.
LEMMA FreeFdExists ==
  ASSUME ConnInv, NEW n \in Node, NEW q \in 1 .. Len(conn[n]),
         conn[n][q].state = "queued"
  PROVE  \E fd \in 1 .. Len(conn[n]) : Holders(n, fd) = {}
<1>. DEFINE S == 1 .. Len(conn[n])
            T == S \ {q}
            f == [fd \in S |-> CHOOSE k \in Holders(n, fd) : TRUE]
<1>. SUFFICES ASSUME \A fd \in S : Holders(n, fd) # {}  PROVE FALSE
  OBVIOUS
<1>1. \A fd \in S : f[fd] \in Holders(n, fd)
  OBVIOUS
<1>2. f \in [S -> T]
  BY <1>1 DEF Holders
<1>3. Len(conn[n]) \in Nat
  BY DEF ConnInv
<1>4. IsFiniteSet(S) /\ Cardinality(S) = Len(conn[n])
  <2>1. /\ IsFiniteSet(S)
        /\ Cardinality(S) = IF 1 > Len(conn[n]) THEN 0 ELSE Len(conn[n]) - 1 + 1
    BY <1>3, FS_Interval, 1 \in Int, Len(conn[n]) \in Int
  <2>. QED  BY <1>3, <2>1
<1>5. IsFiniteSet(T) /\ Cardinality(T) = Len(conn[n]) - 1
  BY <1>4, FS_RemoveElement
<1>6. PICK x \in S, y \in S : x # y /\ f[x] = f[y]
  <2>. HIDE DEF S, T, f
  <2>. QED  BY <1>2, <1>3, <1>4, <1>5, FS_PigeonHole
<1>7. conn[n][f[x]].fd = x /\ conn[n][f[y]].fd = y
  BY <1>1 DEF Holders
<1>. QED  BY <1>6, <1>7

LEMMA FreeFdType ==
  ASSUME ConnInv, NEW n \in Node, RequestArrived(n)
  PROVE  FreeFd(n) \in Nat
<1>. DEFINE T == {fd \in 1 .. Len(conn[n]) : Holders(n, fd) = {}}
<1>1. T \in SUBSET Nat /\ T # {}
  BY OldestQueued, FreeFdExists
<1>2. PICK x \in T : \A y \in T : x <= y
  BY <1>1, Least
<1>3. \A d \in 1 .. x - 1 : Holders(n, d) # {}
  BY <1>2 DEF ConnInv
<1>4. \E fd \in 1 .. Len(conn[n]) :
        Holders(n, fd) = {} /\ \A d \in 1 .. fd - 1 : Holders(n, d) # {}
  BY <1>2, <1>3
<1>5. FreeFd(n) \in 1 .. Len(conn[n])
  <2>. HIDE DEF T
  <2>. QED  BY <1>4, Zenon DEF FreeFd
<1>. QED  BY <1>5

----------------------------------------------------------------------------
(* Queues and connections *)

Entry == [mac : Node \cup {NoMac}, sockfd : Nat]

\* The address of one entry becomes the one of the node it is for.
LEMMA EnterMac ==
  ASSUME EntriesInv, NEW n \in Node, NEW d \in Node,
         cache' = [cache EXCEPT ![n][d].mac = d]
  PROVE  EntriesInv'
<1>. DEFINE e == [cache[n][d] EXCEPT !.mac = d]
<1>1. cache \in [Node -> [Node -> Entry]] /\ cache[n][d] \in Entry
  BY DEF EntriesInv, Entry
<1>2. e \in Entry /\ e.mac = d
  BY <1>1 DEF Entry
<1>3. cache' = [cache EXCEPT ![n] = [cache[n] EXCEPT ![d] = e]]
  BY <1>1
<1>. HIDE DEF e
<1>4. cache' \in [Node -> [Node -> Entry]]
  <2>1. [cache[n] EXCEPT ![d] = e] \in [Node -> Entry]
    BY <1>1, <1>2
  <2>. QED  BY <1>1, <1>3, <2>1
<1>5. \A m, ip \in Node : cache'[m][ip] = IF m = n /\ ip = d THEN e ELSE cache[m][ip]
  BY <1>1, <1>3
<1>6. CacheCorrect'
  BY <1>2, <1>5 DEF EntriesInv, CacheCorrect
<1>. QED  BY <1>4, <1>6 DEF EntriesInv, Entry

\* A descriptor is entered.
LEMMA EnterFd ==
  ASSUME EntriesInv, NEW n \in Node, NEW d \in Node, NEW fd \in Nat,
         cache' = [cache EXCEPT ![n][d].sockfd = fd]
  PROVE  EntriesInv'
<1>. DEFINE e == [cache[n][d] EXCEPT !.sockfd = fd]
<1>1. cache \in [Node -> [Node -> Entry]] /\ cache[n][d] \in Entry
  BY DEF EntriesInv, Entry
<1>2. e \in Entry /\ e.mac = cache[n][d].mac
  BY <1>1 DEF Entry
<1>3. cache' = [cache EXCEPT ![n] = [cache[n] EXCEPT ![d] = e]]
  BY <1>1
<1>. HIDE DEF e
<1>4. cache' \in [Node -> [Node -> Entry]]
  <2>1. [cache[n] EXCEPT ![d] = e] \in [Node -> Entry]
    BY <1>1, <1>2
  <2>. QED  BY <1>1, <1>3, <2>1
<1>5. \A m, ip \in Node : cache'[m][ip] = IF m = n /\ ip = d THEN e ELSE cache[m][ip]
  BY <1>1, <1>3
<1>6. CacheCorrect'
  BY <1>2, <1>5 DEF EntriesInv, CacheCorrect
<1>. QED  BY <1>4, <1>6 DEF EntriesInv, Entry

LEMMA BroadcastType ==
  ASSUME eth0 \in Queues, NEW n \in Node, NEW f \in CorrectFrame
  PROVE  Broadcast(n, f) \in Queues
BY DEF Queues, Broadcast

LEMMA UnicastType ==
  ASSUME NEW queues \in Queues, NEW m \in Node, NEW f \in CorrectFrame
  PROVE  Unicast(queues, m, f) \in Queues
BY DEF Queues, Unicast

LEMMA TakeType ==
  ASSUME eth0 \in Queues, NEW n \in Node, eth0[n] # <<>>
  PROVE  TakeFrame(n) \in Queues /\ Head(eth0[n]) \in CorrectFrame
BY DEF Queues, TakeFrame

\* Every connection of one node is replaced.
LEMMA MapType ==
  ASSUME ConnInv, NEW n \in Node, NEW g \in [1 .. Len(conn[n]) -> Connection],
         conn' = [conn EXCEPT ![n] = g]
  PROVE  ConnInv'
<1>1. Len(conn[n]) \in Nat
  BY DEF ConnInv
<1>2. g \in Seq(Connection)
  BY <1>1, IsASeq, g = [i \in 1 .. Len(conn[n]) |-> g[i]]
<1>. QED  BY <1>2 DEF ConnInv

LEMMA EndedType ==
  ASSUME CacheInv, NEW n \in Node, Ended(n)
  PROVE  eth0' \in Queues /\ ConnInv' /\ arp' \in [Node -> {"up", "ended"}]
<1>. DEFINE g == [k \in DOMAIN conn[n] |-> Closed(conn[n][k])]
<1>1. DOMAIN conn[n] = 1 .. Len(conn[n])
      /\ \A k \in 1 .. Len(conn[n]) : conn[n][k] \in Connection
  BY DEF CacheInv, ConnInv
<1>2. \A c \in Connection : Closed(c) \in Connection
  BY DEF Connection, Closed
<1>3. g \in [1 .. Len(conn[n]) -> Connection]
  BY <1>1, <1>2
<1>4. conn' = [conn EXCEPT ![n] = g]
  BY DEF Ended
<1>5. ConnInv'
  <2>. HIDE DEF g
  <2>. QED  BY <1>3, <1>4, MapType DEF CacheInv
<1>. QED  BY <1>5 DEF Ended, CacheInv, Queues

LEMMA WriteType ==
  ASSUME CacheInv, NEW n \in Node, NEW k \in 1 .. Len(conn[n]),
         NEW mac \in Node \cup {NoMac}, NEW queues \in Queues,
         WriteAndClose(n, k, mac, queues)
  PROVE  eth0' \in Queues /\ ConnInv' /\ arp' \in [Node -> {"up", "ended"}]
<1>1. CASE conn[n][k].peer
  <2>. DEFINE c == [conn[n][k] EXCEPT !.mac = mac, !.state = "closed"]
  <2>1. conn[n] \in Seq(Connection) /\ conn[n][k] \in Connection
    BY DEF CacheInv, ConnInv
  <2>2. c \in Connection
    BY <2>1 DEF Connection
  <2>3. [conn[n] EXCEPT ![k] = c] \in Seq(Connection)
    <3>. HIDE DEF c
    <3>. QED  BY <2>1, <2>2, ExceptSeq
  <2>4. conn' = [conn EXCEPT ![n] = [conn[n] EXCEPT ![k] = c]]
    <3>1. conn' = [conn EXCEPT ![n][k].mac = mac, ![n][k].state = "closed"]
      BY <1>1 DEF WriteAndClose
    <3>. QED  BY <3>1, <2>1 DEF CacheInv, ConnInv
  <2>. QED  BY <1>1, <2>3, <2>4 DEF WriteAndClose, CacheInv, ConnInv
<1>2. CASE ~conn[n][k].peer
  BY <1>2, EndedType DEF WriteAndClose
<1>. QED  BY <1>1, <1>2

----------------------------------------------------------------------------
(* The steps *)

LEMMA CacheInit == ArpInit => CacheInv
BY DEF ArpInit, CacheInv, EntriesInv, CacheCorrect, ConnInv, Queues

LEMMA RequestForUsInv ==
  ASSUME CacheInv, NEW n \in Node, RequestForUs(n)
  PROVE  CacheInv'
<1>. DEFINE f == Head(eth0[n])
<1>1. f \in CorrectFrame /\ TakeFrame(n) \in Queues /\ f.dst = n
  BY TakeType DEF RequestForUs, FrameArrived, CacheInv
<1>2. ArpReply(n, f) \in CorrectFrame /\ f.from \in Node
  BY <1>1 DEF ArpReply, CorrectFrame, ArpFrame
<1>3. eth0' \in Queues
  BY <1>1, <1>2, UnicastType DEF RequestForUs
<1>. QED  BY <1>3 DEF RequestForUs, CacheInv, EntriesInv, CacheCorrect, ConnInv

LEMMA ReplyArrivesInv ==
  ASSUME CacheInv, NEW n \in Node, ReplyArrives(n)
  PROVE  CacheInv'
<1>. DEFINE f == Head(eth0[n])
            H == Holders(n, cache[n][f.dst].sockfd)
<1>1. f \in CorrectFrame /\ TakeFrame(n) \in Queues /\ f.op = 2
  BY TakeType DEF ReplyArrives, FrameArrived, CacheInv
<1>2. f.dst \in Node /\ f.mac = f.dst
  BY <1>1 DEF CorrectFrame, ArpFrame
<1>3. EntriesInv'
  <2>1. cache' = [cache EXCEPT ![n][f.dst].mac = f.dst]
    BY <1>2 DEF ReplyArrives
  <2>. HIDE DEF f
  <2>. QED  BY <1>2, <2>1, EnterMac DEF CacheInv
<1>4. eth0' \in Queues /\ ConnInv' /\ arp' \in [Node -> {"up", "ended"}]
  <2>1. CASE H = {}
    BY <2>1, EndedType DEF ReplyArrives
  <2>2. CASE H # {}
    <3>. DEFINE k == CHOOSE x \in H : TRUE
    <3>1. k \in 1 .. Len(conn[n])
      BY <2>2 DEF Holders
    <3>2. WriteAndClose(n, k, f.mac, TakeFrame(n))
      BY <2>2 DEF ReplyArrives
    <3>3. f.mac \in Node \cup {NoMac}
      BY <1>2
    <3>. HIDE DEF k, f
    <3>. QED  BY <1>1, <3>1, <3>2, <3>3, WriteType
  <2>. QED  BY <2>1, <2>2
<1>. QED  BY <1>3, <1>4 DEF CacheInv

LEMMA AnswerFromCacheInv ==
  ASSUME CacheInv, NEW n \in Node, AnswerFromCache(n)
  PROVE  CacheInv'
<1>. DEFINE k == Oldest(n)
            mac == cache[n][conn[n][k].ip].mac
<1>1. k \in 1 .. Len(conn[n])
  BY OldestQueued DEF AnswerFromCache, CacheInv
<1>2. conn[n][k].ip \in Node
  <2>. HIDE DEF k
  <2>1. conn[n][k] \in Connection
    BY <1>1 DEF CacheInv, ConnInv
  <2>. QED  BY <2>1 DEF Connection
<1>3. mac \in Node \cup {NoMac}
  BY <1>2 DEF CacheInv, EntriesInv
<1>4. WriteAndClose(n, k, mac, eth0) /\ UNCHANGED cache
  BY DEF AnswerFromCache
<1>5. eth0 \in Queues
  BY DEF CacheInv
<1>6. eth0' \in Queues /\ ConnInv' /\ arp' \in [Node -> {"up", "ended"}]
  <2>. HIDE DEF k, mac
  <2>. QED  BY <1>1, <1>3, <1>4, <1>5, WriteType
<1>. QED  BY <1>4, <1>6 DEF CacheInv, EntriesInv, CacheCorrect

LEMMA AskNetworkInv ==
  ASSUME CacheInv, NEW n \in Node, AskNetwork(n)
  PROVE  CacheInv'
<1>. DEFINE k == Oldest(n)
            ip == conn[n][k].ip
            fd == FreeFd(n)
            c == [conn[n][k] EXCEPT !.state = "open", !.fd = fd]
<1>1. k \in 1 .. Len(conn[n]) /\ fd \in Nat
  BY OldestQueued, FreeFdType DEF AskNetwork, CacheInv
<1>2. conn[n] \in Seq(Connection) /\ conn[n][k] \in Connection
  BY <1>1 DEF CacheInv, ConnInv
<1>3. c \in Connection /\ ip \in Node
  BY <1>1, <1>2 DEF Connection
<1>4. ConnInv'
  <2>1. [conn[n] EXCEPT ![k] = c] \in Seq(Connection)
    <3>. HIDE DEF c, k
    <3>. QED  BY <1>1, <1>2, <1>3, ExceptSeq
  <2>2. conn' = [conn EXCEPT ![n][k].state = "open", ![n][k].fd = fd]
    BY DEF AskNetwork
  <2>. HIDE DEF k, fd
  <2>3. conn' = [conn EXCEPT ![n] = [conn[n] EXCEPT ![k] = c]]
    BY <1>1, <1>2, <2>2 DEF CacheInv, ConnInv
  <2>. QED  BY <2>1, <2>3 DEF CacheInv, ConnInv
<1>5. EntriesInv'
  <2>1. cache' = [cache EXCEPT ![n][ip].sockfd = fd]
    BY DEF AskNetwork
  <2>. HIDE DEF ip, fd
  <2>. QED  BY <1>1, <1>3, <2>1, EnterFd DEF CacheInv
<1>6. eth0' \in Queues
  <2>1. ArpRequest(n, ip) \in CorrectFrame
    BY <1>3 DEF ArpRequest, CorrectFrame, ArpFrame
  <2>. QED  BY <2>1, BroadcastType DEF AskNetwork, CacheInv
<1>. QED  BY <1>4, <1>5, <1>6 DEF AskNetwork, CacheInv

LEMMA ConnectInv ==
  ASSUME CacheInv, NEW n \in Node, NEW ip \in Node, Connect(n, ip)
  PROVE  CacheInv'
<1>1. NewConn(ip) \in Connection
  BY DEF NewConn, Connection
<1>2. ConnInv'
  BY <1>1 DEF Connect, CacheInv, ConnInv
<1>. QED  BY <1>2 DEF Connect, CacheInv, EntriesInv, CacheCorrect

LEMMA HangUpInv ==
  ASSUME CacheInv, NEW n \in Node, NEW K, HangUp(n, K)
  PROVE  CacheInv'
<1>. DEFINE g == [k \in DOMAIN conn[n] |->
                     IF k \in K THEN Abandoned(conn[n][k]) ELSE conn[n][k]]
<1>1. DOMAIN conn[n] = 1 .. Len(conn[n])
      /\ \A k \in 1 .. Len(conn[n]) : conn[n][k] \in Connection
  BY DEF CacheInv, ConnInv
<1>2. \A c \in Connection : Abandoned(c) \in Connection
  BY DEF Connection, Abandoned
<1>3. g \in [1 .. Len(conn[n]) -> Connection]
  BY <1>1, <1>2
<1>4. conn' = [conn EXCEPT ![n] = g]
  BY DEF HangUp
<1>5. ConnInv'
  <2>. HIDE DEF g
  <2>. QED  BY <1>3, <1>4, MapType DEF CacheInv
<1>. QED  BY <1>5 DEF HangUp, CacheInv, EntriesInv, CacheCorrect

LEMMA CacheStep == CacheInv /\ [ArpNext]_arpvars => CacheInv'
<1>. SUFFICES ASSUME CacheInv, [ArpNext]_arpvars  PROVE CacheInv'
  OBVIOUS
<1>1. ASSUME NEW n \in Node, RequestForOther(n) \/ LoseArpFrame(n)  PROVE CacheInv'
  <2>1. eth0' \in Queues
    BY <1>1, TakeType DEF RequestForOther, LoseArpFrame, FrameArrived, CacheInv
  <2>. QED  BY <1>1, <2>1 DEF RequestForOther, LoseArpFrame, CacheInv, EntriesInv,
                             CacheCorrect, ConnInv
<1>2. ASSUME NEW n \in Node, QuitArp(n)  PROVE CacheInv'
  BY <1>2, EndedType DEF QuitArp, CacheInv, EntriesInv, CacheCorrect
<1>3. CASE UNCHANGED arpvars
  BY <1>3 DEF arpvars, CacheInv, EntriesInv, CacheCorrect, ConnInv
<1>. QED
  BY <1>1, <1>2, <1>3, RequestForUsInv, ReplyArrivesInv, AnswerFromCacheInv,
     AskNetworkInv, ConnectInv, HangUpInv DEF ArpNext, ArpStep

LEMMA CacheInvariant == ArpSpec => []CacheInv
BY CacheInit, CacheStep, PTL DEF ArpSpec

\* Theorem: the variables of the service keep their types; accept() always finds
\* a connection to take and a descriptor for it.
THEOREM ArpTypeCorrect == ArpSpec => []ArpTypeOK
BY CacheInvariant, CacheInvTypes, PTL

\* Theorem: an address in any node's cache is that of the node it is entered
\* for.  The handlers of arp.c copy it through a request, a reply and two
\* processes; the claim is for any number of nodes and concurrent requests.
THEOREM CachesAreCorrect == ArpSpec => []CacheCorrect
BY CacheInvariant, CacheInvTypes, PTL
=============================================================================
