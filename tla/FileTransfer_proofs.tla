------------------------ MODULE FileTransfer_proofs ------------------------
(***************************************************************************)
(* What a client prints is the file as far as it goes, and the child drops *)
(* only what the client holds, for files of any length, queues and windows *)
(* of any size and any number of losses, if the two threads of the client  *)
(* do not overlap in their use of the list.                                *)
(***************************************************************************)
EXTENDS FileTransfer, FiniteSetTheorems, SequenceTheorems, WellFoundedInduction, TLAPS

\* A set of natural numbers has a least element.
LEMMA Least ==
  ASSUME NEW T \in SUBSET Nat, T # {}
  PROVE  \E x \in T : \A y \in T : x <= y
<1>1. \E x \in T : \A y \in T : ~(<<y, x>> \in OpToRel(<, Nat))
  BY WFMin, NatLessThanWellFounded
<1>2. PICK x \in T : \A y \in T : ~(<<y, x>> \in OpToRel(<, Nat))
  BY <1>1
<1>3. \A y \in T : ~(y < x)
  BY <1>2 DEF OpToRel
<1>. QED  BY <1>3

----------------------------------------------------------------------------
(* The walk along the list *)

\* f follows h from x, n times.
Follows(h, x, n, f) ==
  /\ f[0] = x
  /\ \A i \in 0 .. n - 1 : f[i + 1] = h[f[i]]

LEMMA FollowExists ==
  ASSUME NEW S, NEW h \in [S -> S], NEW x \in S
  PROVE  \A n \in Nat : \E f \in [0 .. n -> S] : Follows(h, x, n, f)
<1>. DEFINE Ok(n) == \E f \in [0 .. n -> S] : Follows(h, x, n, f)
            T == {n \in Nat : ~Ok(n)}
<1>. SUFFICES ASSUME T # {}  PROVE FALSE
  OBVIOUS
<1>1. PICK n \in T : \A y \in T : n <= y
  BY Least
<1>2. n # 0
  <2>. DEFINE f == [i \in 0 .. 0 |-> x]
  <2>1. f \in [0 .. 0 -> S] /\ Follows(h, x, 0, f)
    BY DEF Follows
  <2>2. Ok(0)
    BY <2>1
  <2>. QED  BY <2>2
<1>3. n - 1 \in Nat /\ n - 1 \notin T
  BY <1>1, <1>2
<1>4. PICK f \in [0 .. n - 1 -> S] : Follows(h, x, n - 1, f)
  BY <1>3
<1>. DEFINE g == [i \in 0 .. n |-> IF i = n THEN h[f[n - 1]] ELSE f[i]]
<1>5. n \in Nat /\ f[n - 1] \in S /\ \A i \in 0 .. n : i = n \/ i \in 0 .. n - 1
  BY <1>3, <1>4
<1>6. g \in [0 .. n -> S]
  BY <1>5
<1>7. Follows(h, x, n, g)
  <2>1. g[0] = x
    BY <1>2, <1>4, <1>5 DEF Follows
  <2>2. ASSUME NEW i \in 0 .. n - 1  PROVE g[i + 1] = h[g[i]]
    <3>1. CASE i = n - 1
      BY <1>5, <3>1
    <3>2. CASE i # n - 1
      <4>1. i \in 0 .. (n - 1) - 1 /\ i + 1 \in 0 .. n - 1 /\ i + 1 # n /\ i # n
        BY <1>5, <3>2
      <4>2. f[i + 1] = h[f[i]]
        BY <1>4, <4>1 DEF Follows
      <4>. QED  BY <1>5, <4>1, <4>2
    <3>. QED  BY <3>1, <3>2
  <2>. QED  BY <2>1, <2>2 DEF Follows
<1>8. Ok(n)
  BY <1>6, <1>7
<1>. QED  BY <1>1, <1>8

LEMMA FollowUnique ==
  ASSUME NEW S, NEW h \in [S -> S], NEW x \in S, NEW n \in Nat, NEW m \in Nat,
         NEW f, NEW g, Follows(h, x, n, f), Follows(h, x, m, g),
         NEW k \in 0 .. n, k <= m
  PROVE  f[k] = g[k]
<1>. DEFINE T == {i \in 0 .. k : f[i] # g[i]}
<1>. SUFFICES ASSUME T # {}  PROVE FALSE
  OBVIOUS
<1>1. PICK i \in T : \A y \in T : i <= y
  <2>1. T \in SUBSET Nat
    OBVIOUS
  <2>. QED  BY <2>1, Least
<1>2. i # 0
  BY <1>1 DEF Follows
<1>3. i - 1 \in 0 .. k /\ i - 1 \notin T
  BY <1>1, <1>2
<1>4. f[i - 1] = g[i - 1]
  BY <1>3
<1>5. i - 1 \in 0 .. n - 1 /\ i - 1 \in 0 .. m - 1 /\ (i - 1) + 1 = i
  BY <1>2, <1>3
<1>6. f[(i - 1) + 1] = h[f[i - 1]] /\ g[(i - 1) + 1] = h[g[i - 1]]
  BY <1>5 DEF Follows
<1>. QED  BY <1>1, <1>4, <1>5, <1>6

Orbit(S, h, x, F) ==
  F \in [Nat -> S] /\ F[0] = x /\ \A n \in Nat : F[n + 1] = h[F[n]]

\* A function can be followed for ever.
LEMMA Iterates ==
  ASSUME NEW S, NEW h \in [S -> S], NEW x \in S
  PROVE  \E F : Orbit(S, h, x, F)
<1>. DEFINE Is(n, f) == f \in [0 .. n -> S] /\ Follows(h, x, n, f)
            c(n) == CHOOSE f : Is(n, f)
            F == [n \in Nat |-> c(n)[n]]
<1>1. ASSUME NEW n \in Nat  PROVE Is(n, c(n))
  <2>1. \E f : Is(n, f)
    BY FollowExists
  <2>. HIDE DEF Is
  <2>. QED  BY <2>1
<1>. HIDE DEF c
<1>2. F \in [Nat -> S]
  <2>. SUFFICES ASSUME NEW n \in Nat  PROVE c(n)[n] \in S
    OBVIOUS
  <2>. QED  BY <1>1
<1>3. F[0] = x
  <2>1. c(0)[0] = x
    BY <1>1, 0 \in Nat DEF Follows
  <2>. QED  BY <2>1
<1>4. ASSUME NEW n \in Nat  PROVE F[n + 1] = h[F[n]]
  <2>1. n + 1 \in Nat /\ n \in 0 .. n /\ n <= n + 1 /\ n \in 0 .. (n + 1) - 1
    OBVIOUS
  <2>2. Follows(h, x, n, c(n)) /\ Follows(h, x, n + 1, c(n + 1))
    BY <1>1, <2>1
  <2>3. c(n)[n] = c(n + 1)[n]
    BY <2>1, <2>2, FollowUnique
  <2>4. c(n + 1)[n + 1] = h[c(n + 1)[n]]
    BY <2>1, <2>2 DEF Follows
  <2>. QED  BY <2>1, <2>3, <2>4
<1>. HIDE DEF F
<1>. QED  BY <1>2, <1>3, <1>4 DEF Orbit

Memory == [Addr \cup {header} -> Node]

Place == Addr \cup {header, NULL}

\* What the recursive definition of Steps computes.
LEMMA StepsAre ==
  ASSUME NEW mem \in Memory
  PROVE  /\ Steps(mem, header)[0] = header
         /\ \A n \in Nat :
              /\ Steps(mem, header)[n + 1] =
                   IF Steps(mem, header)[n] = NULL THEN NULL
                   ELSE mem[Steps(mem, header)[n]].next
              /\ Steps(mem, header)[n + 1] \in Pointer
<1>. DEFINE S == Place
            h == [a \in S |-> IF a = NULL THEN NULL ELSE mem[a].next]
            at == Steps(mem, header)
<1>1. h \in [S -> S] /\ header \in S /\ \A a \in S : h[a] \in Pointer
  BY AddrAssumption DEF Memory, Node, Pointer, Place
<1>2. PICK F \in [Nat -> S] : F[0] = header /\ \A n \in Nat : F[n + 1] = h[F[n]]
  <2>. HIDE DEF S, h
  <2>1. PICK F : Orbit(S, h, header, F)
    BY <1>1, Iterates
  <2>. QED  BY <2>1 DEF Orbit
<1>3. F = [n \in Nat |-> IF n = 0 THEN header
                         ELSE IF F[n - 1] = NULL THEN NULL ELSE mem[F[n - 1]].next]
  <2>. SUFFICES ASSUME NEW n \in Nat
                PROVE  F[n] = IF n = 0 THEN header
                              ELSE IF F[n - 1] = NULL THEN NULL ELSE mem[F[n - 1]].next
    OBVIOUS
  <2>1. CASE n # 0
    <3>1. n - 1 \in Nat /\ (n - 1) + 1 = n
      BY <2>1
    <3>2. F[n] = h[F[n - 1]] /\ F[n - 1] \in S
      BY <1>2, <3>1
    <3>. QED  BY <2>1, <3>2
  <2>. QED  BY <1>2, <2>1
<1>4. at = [n \in Nat |-> IF n = 0 THEN header
                          ELSE IF at[n - 1] = NULL THEN NULL ELSE mem[at[n - 1]].next]
  BY <1>3, Zenon DEF Steps
<1>. HIDE DEF at
<1>5. at[0] = header
  BY <1>4, 0 \in Nat
<1>6. ASSUME NEW n \in Nat
      PROVE  at[n + 1] = IF at[n] = NULL THEN NULL ELSE mem[at[n]].next
  <2>1. n + 1 \in Nat /\ n + 1 # 0 /\ (n + 1) - 1 = n
    OBVIOUS
  <2>. QED  BY <1>4, <2>1
<1>7. \A n \in Nat : at[n] \in S
  <2>. DEFINE T == {n \in Nat : at[n] \notin S}
  <2>. SUFFICES ASSUME T # {}  PROVE FALSE
    OBVIOUS
  <2>1. PICK n \in T : \A y \in T : n <= y
    BY Least
  <2>2. n # 0
    BY <1>1, <1>5, <2>1
  <2>3. n - 1 \in Nat /\ n - 1 \notin T /\ (n - 1) + 1 = n
    BY <2>1, <2>2
  <2>4. at[n] = h[at[n - 1]] /\ at[n - 1] \in S
    BY <1>6, <2>3
  <2>. HIDE DEF S, h
  <2>. QED  BY <1>1, <2>1, <2>4
<1>8. ASSUME NEW n \in Nat  PROVE at[n + 1] \in Pointer
  <2>1. at[n + 1] = h[at[n]] /\ at[n] \in S
    BY <1>6, <1>7
  <2>. HIDE DEF S, h
  <2>. QED  BY <1>1, <2>1
<1>. QED  BY <1>5, <1>6, <1>8 DEF at

\* NextAck always finds a number, and the nodes up to it continue start: a list
\* cannot have more nodes with different numbers than there is memory.
LEMMA NextAckIs ==
  ASSUME NEW mem \in Memory, NEW start \in Nat
  PROVE  /\ NextAck(mem, header, start) \in Nat /\ NextAck(mem, header, start) > start
         /\ \A k \in start + 1 .. NextAck(mem, header, start) - 1 :
              \E a \in Addr : mem[a].seq = k
<1>. DEFINE at == Steps(mem, header)
            Ends(n) == at[n + 1] = NULL \/ mem[at[n + 1]].seq # start + n + 1
            T == {n \in 0 .. Far - 1 : Ends(n)}
<1>1. \A n \in Nat : at[n + 1] \in Addr \cup {NULL}
  BY StepsAre DEF Pointer
<1>. HIDE DEF at
<1>2. Cardinality(Addr) \in Nat /\ Far = Cardinality(Addr) + 1 /\ Far \in Nat
  BY AddrAssumption, FS_CardinalityType DEF Far
<1>3. T # {}
  <2>. SUFFICES ASSUME T = {}  PROVE FALSE
    OBVIOUS
  <2>1. ASSUME NEW m \in 1 .. Far  PROVE at[m] \in Addr /\ mem[at[m]].seq = start + m
    <3>1. m - 1 \in 0 .. Far - 1 /\ (m - 1) + 1 = m /\ start + (m - 1) + 1 = start + m
      BY <1>2
    <3>2. ~Ends(m - 1)
      BY <3>1
    <3>3. at[(m - 1) + 1] \in Addr \cup {NULL}
      BY <1>1, <1>2, <3>1
    <3>. QED  BY <3>1, <3>2, <3>3
  <2>. DEFINE g == [m \in 1 .. Far |-> at[m]]
  <2>2. g \in [1 .. Far -> Addr]
    BY <2>1
  <2>3. IsFiniteSet(1 .. Far) /\ Cardinality(1 .. Far) = Far
    <3>1. /\ IsFiniteSet(1 .. Far)
          /\ Cardinality(1 .. Far) = IF 1 > Far THEN 0 ELSE Far - 1 + 1
      BY <1>2, FS_Interval, 1 \in Int, Far \in Int
    <3>. QED  BY <1>2, <3>1
  <2>4. PICK x \in 1 .. Far, y \in 1 .. Far : x # y /\ g[x] = g[y]
    <3>1. IsFiniteSet(Addr) /\ Cardinality(Addr) < Cardinality(1 .. Far)
      BY <1>2, <2>3, AddrAssumption
    <3>. HIDE DEF g
    <3>. QED  BY ONLY <2>2, <2>3, <3>1, FS_PigeonHole, Zenon
  <2>5. mem[at[x]].seq = start + x /\ mem[at[x]].seq = start + y
    BY <2>1, <2>4
  <2>. QED  BY <1>2, <2>4, <2>5
<1>4. PICK n \in T : \A y \in T : n <= y
  <2>1. T \in SUBSET Nat
    BY <1>2
  <2>. QED  BY <1>3, <2>1, Least
<1>5. \A m \in 1 .. n : at[m] # NULL /\ mem[at[m]].seq = start + m
  <2>. SUFFICES ASSUME NEW m \in 1 .. n
                PROVE  at[m] # NULL /\ mem[at[m]].seq = start + m
    OBVIOUS
  <2>1. m - 1 \in 0 .. Far - 1 /\ m - 1 \notin T /\ (m - 1) + 1 = m /\ start + (m - 1) + 1 = start + m
    BY <1>2, <1>4
  <2>2. ~Ends(m - 1)
    BY <2>1
  <2>. QED  BY <2>1, <2>2
<1>. DEFINE Good(ack) ==
       /\ \A m \in 1 .. ack - start - 1 : at[m] # NULL /\ mem[at[m]].seq = start + m
       /\ \/ at[(ack - start - 1) + 1] = NULL
          \/ mem[at[(ack - start - 1) + 1]].seq # ack
<1>6. \E ack \in start + 1 .. start + Far : Good(ack)
  <2>1. /\ start + n + 1 \in start + 1 .. start + Far
        /\ (start + n + 1) - start - 1 = n
    BY <1>2, <1>4
  <2>2. Good(start + n + 1)
    BY <1>4, <1>5, <2>1
  <2>. HIDE DEF Good
  <2>. QED  BY <2>1, <2>2
<1>7. NextAck(mem, header, start) = CHOOSE ack \in start + 1 .. start + Far : Good(ack)
  BY DEF NextAck, at
<1>8. PICK ack : ack = NextAck(mem, header, start)
  OBVIOUS
<1>9. ack \in start + 1 .. start + Far /\ Good(ack)
  <2>. HIDE DEF Good
  <2>. QED  BY <1>6, <1>7, <1>8
<1>10. ack \in Nat /\ ack > start
  BY <1>2, <1>9
<1>11. ASSUME NEW k \in start + 1 .. ack - 1  PROVE \E a \in Addr : mem[a].seq = k
  <2>1. k - start \in 1 .. ack - start - 1 /\ start + (k - start) = k
        /\ k - start - 1 \in Nat /\ (k - start - 1) + 1 = k - start
    BY <1>10
  <2>2. at[k - start] # NULL /\ mem[at[k - start]].seq = k
    BY <1>9, <2>1
  <2>3. at[k - start] \in Addr
    BY <1>1, <2>1, <2>2
  <2>. QED  BY <2>2, <2>3
<1>. QED  BY <1>8, <1>10, <1>11

----------------------------------------------------------------------------
(* The inductive invariant, whether or not the threads overlap *)

\* The payload that belongs to a sequence number; numbers from BigSeq on are
\* those of no packet.
Sound(seq, data) ==
  seq < BigSeq =>
    seq + 1 < BigSeq /\ data = IF seq \in 1 .. FileLen THEN seq ELSE Empty

\* Only the last packet has no time stamp, if the clock is not at 0.
Stamped(seq, ts) == 0 \notin Clock /\ seq \in 1 .. FileLen - 1 => ts = 1

Slots ==
  {s \in [seq : Nat, ts : {0, 1}, sendline : 0 .. Junk, ack : Int] :
     Sound(s.seq, s.sendline) /\ Stamped(s.seq, s.ts)}

Buffer ==
  [base : [0 .. SendWindow - 1 -> Slots], front : 0 .. SendWindow - 1,
   rear : 0 .. SendWindow - 1, MAX_QSIZE : {SendWindow}]

\* A header with the number of a packet is followed by its payload.
Paired(q) ==
  \A i \in 1 .. Len(q) : q[i].seq \in 1 .. BigSeq - 1 =>
    /\ q[i].type = "hdr" /\ Stamped(q[i].seq, q[i].ts)
    /\ i + 1 \in 1 .. Len(q)
    /\ q[i + 1].type = "data" /\ Sound(q[i].seq, q[i + 1].data)

AckMsg == [seq : Nat, win : Word]

NetInv == toCli \in Seq(Datagram) /\ Paired(toCli) /\ toSrv \in Seq(AckMsg)

ServerInv ==
  /\ spc \in {"top", "resend", "new", "wait", "fast", "timeout", "probe", "end", "exited"}
  /\ after \in {"top", "fast", "timeout"}
  /\ send_buffer \in Buffer
  /\ j \in Nat
  /\ recv_window \in Word
  /\ cwnd \in Nat /\ ssh \in Nat /\ congestion_avoid_count \in Nat
  /\ sequence_number \in Nat /\ head \in Nat
  /\ nrexmt \in 0 .. MaxNrexmt + 1
  /\ nrexmt > MaxNrexmt => spc = "exited"
  /\ blocked \in BOOLEAN
  /\ ackInit \in Int

\* What the main thread has received belongs together.
ReceivedInv ==
  /\ rseq \in Nat /\ rts \in {0, 1} /\ rdata \in 0 .. Junk
  /\ cpc \in {"link", "ack"} =>
       rseq # 0 /\ Sound(rseq, rdata) /\ Stamped(rseq, rts)

MemoryInv ==
  /\ heap \in Memory
  /\ free \subseteq Addr
  /\ \A a \in Addr : Sound(heap[a].seq, heap[a].data)

ClientInv ==
  /\ cpc \in {"recv", "link", "ack", "spin", "confirm", "finish", "done"}
  /\ ppc \in {"sleep", "test", "print", "count", "flag", "ended"}
  /\ place \in Addr \cup {header} /\ temp \in Pointer
  /\ printed \in Nat /\ out \in Seq(0 .. Junk)
  /\ data_flag \in BOOLEAN /\ process_flag \in BOOLEAN
  /\ ppc = "print" => First # NULL

TransferInv == NetInv /\ ServerInv /\ ReceivedInv /\ MemoryInv /\ ClientInv

----------------------------------------------------------------------------
(* The inductive invariant for threads that do not overlap *)

\* How many packets are printed, counted or not.
Shown == IF ppc = "count" THEN printed + 1 ELSE printed

\* The list is as print_out found it, until it is done with it.
Exclusive ==
  /\ Printing => cpc # "link"
  /\ ppc = "print" => heap[First].seq = printed + 1

\* Memory that is free holds nothing that is still to be printed.
FreeInv == \A a \in free : heap[a].seq <= Shown

PrintInv ==
  /\ Shown + 1 < BigSeq
  /\ Len(out) = Min2(Shown, FileLen)
  /\ \A i \in 1 .. Len(out) : out[i] = i

\* What an acknowledgement says that the client has.
Covered(ack) ==
  {k \in 1 .. FileLen : k < ack \/ (ack = 0 /\ 0 \notin Clock)}

AcksInv == \A i \in 1 .. Len(toSrv) : Covered(toSrv[i].seq) \subseteq Held

OrderInv == Exclusive /\ FreeInv /\ PrintInv /\ AcksInv /\ AckedIsHeld

----------------------------------------------------------------------------
(* Datagrams *)

LEMMA Numbers ==
  /\ FileLen \in Nat /\ FileLen > 0 /\ BigSeq \in Nat /\ BigSeq > FileLen + 1
  /\ Junk = FileLen + 1 /\ Empty = 0
  /\ SendWindow \in Nat /\ SendWindow > 0 /\ MaxNrexmt \in Nat
BY FileAssumption, ServerAssumption DEF Junk, Empty

LEMMA PairedTail ==
  ASSUME NEW q \in Seq(Datagram), q # <<>>, Paired(q)
  PROVE  Tail(q) \in Seq(Datagram) /\ Paired(Tail(q))
<1>1. Tail(q) \in Seq(Datagram) /\ Len(q) \in Nat /\ Len(Tail(q)) = Len(q) - 1
  OBVIOUS
<1>2. \A i \in 1 .. Len(q) - 1 : Tail(q)[i] = q[i + 1] /\ i + 1 \in 1 .. Len(q)
  BY <1>1
<1>3. ASSUME NEW i \in 1 .. Len(q) - 1, Tail(q)[i].seq \in 1 .. BigSeq - 1
      PROVE  /\ Tail(q)[i].type = "hdr" /\ Stamped(Tail(q)[i].seq, Tail(q)[i].ts)
             /\ i + 1 \in 1 .. Len(q) - 1
             /\ Tail(q)[i + 1].type = "data" /\ Sound(Tail(q)[i].seq, Tail(q)[i + 1].data)
  <2>1. /\ q[i + 1].type = "hdr" /\ Stamped(q[i + 1].seq, q[i + 1].ts)
        /\ (i + 1) + 1 \in 1 .. Len(q)
        /\ q[(i + 1) + 1].type = "data" /\ Sound(q[i + 1].seq, q[(i + 1) + 1].data)
    BY <1>2, <1>3 DEF Paired
  <2>2. i + 1 \in 1 .. Len(q) - 1
    BY <1>1, <2>1
  <2>. QED  BY <1>2, <2>1, <2>2
<1>. QED  BY <1>1, <1>3 DEF Paired

LEMMA PairedAppend ==
  ASSUME NEW q \in Seq(Datagram), Paired(q), NEW d \in Datagram, d.seq \notin 1 .. BigSeq - 1
  PROVE  Append(q, d) \in Seq(Datagram) /\ Paired(Append(q, d))
<1>1. /\ Append(q, d) \in Seq(Datagram) /\ Len(q) \in Nat
      /\ Len(Append(q, d)) = Len(q) + 1 /\ Append(q, d)[Len(q) + 1] = d
      /\ \A i \in 1 .. Len(q) : Append(q, d)[i] = q[i]
  OBVIOUS
<1>2. ASSUME NEW i \in 1 .. Len(q) + 1, Append(q, d)[i].seq \in 1 .. BigSeq - 1
      PROVE  i \in 1 .. Len(q)
  BY <1>1, <1>2
<1>. QED  BY <1>1, <1>2 DEF Paired

LEMMA PairedSend ==
  ASSUME NEW q \in Seq(Datagram), Paired(q), NEW seq \in Nat, NEW ts \in {0, 1},
         NEW data \in 0 .. Junk, Sound(seq, data), Stamped(seq, ts)
  PROVE  /\ q \o <<Hdr(seq, ts), Pay(data)>> \in Seq(Datagram)
         /\ Paired(q \o <<Hdr(seq, ts), Pay(data)>>)
<1>h. PICK h : h = Hdr(seq, ts)
  OBVIOUS
<1>d. PICK d : d = Pay(data)
  OBVIOUS
<1>1. h \in Datagram /\ h.type = "hdr" /\ h.seq = seq /\ h.ts = ts
  BY <1>h, Numbers DEF Hdr, Datagram
<1>2. d \in Datagram /\ d.type = "data" /\ d.seq = 0 /\ d.data = data
  BY <1>d, Numbers DEF Pay, Datagram
<1>3. PICK r : r = q \o <<h, d>>
  OBVIOUS
<1>4. /\ r \in Seq(Datagram) /\ Len(q) \in Nat /\ Len(r) = Len(q) + 2
      /\ r[Len(q) + 1] = h /\ r[Len(q) + 2] = d
      /\ \A i \in 1 .. Len(q) : r[i] = q[i]
  <2>1. <<h, d>> \in Seq(Datagram) /\ Len(<<h, d>>) = 2
    BY <1>1, <1>2
  <2>. QED  BY <1>3, <2>1
<1>5. ASSUME NEW i \in 1 .. Len(r), r[i].seq \in 1 .. BigSeq - 1
      PROVE  /\ r[i].type = "hdr" /\ Stamped(r[i].seq, r[i].ts)
             /\ i + 1 \in 1 .. Len(r)
             /\ r[i + 1].type = "data" /\ Sound(r[i].seq, r[i + 1].data)
  <2>1. CASE i \in 1 .. Len(q)
    BY <1>4, <1>5, <2>1 DEF Paired
  <2>2. CASE i = Len(q) + 1
    <3>1. i + 1 = Len(q) + 2 /\ i + 1 \in 1 .. Len(r)
      BY <1>4, <2>2
    <3>2. r[i] = h /\ r[i + 1] = d
      BY <1>4, <2>2, <3>1
    <3>. QED  BY <1>1, <1>2, <3>1, <3>2
  <2>3. CASE i = Len(q) + 2
    BY <1>2, <1>4, <1>5, <2>3
  <2>. QED  BY <1>4, <2>1, <2>2, <2>3
<1>6. Paired(r)
  BY <1>5 DEF Paired
<1>. QED  BY <1>h, <1>d, <1>3, <1>4, <1>6

----------------------------------------------------------------------------
(* The queue of the child *)

LEMMA EnCirQueueType ==
  ASSUME NEW Q \in Buffer, NEW s \in Slots
  PROVE  EnCirQueue(Q, s) \in Buffer
<1>1. (Q.rear + 1) % SendWindow \in 0 .. SendWindow - 1
  BY Numbers DEF Buffer
<1>2. Q.MAX_QSIZE = SendWindow /\ [Q.base EXCEPT ![Q.rear] = s] \in [0 .. SendWindow - 1 -> Slots]
  BY DEF Buffer
<1>. QED  BY <1>1, <1>2 DEF EnCirQueue, Buffer

LEMMA DeCirQueueType ==
  ASSUME NEW Q \in Buffer, NEW n \in Nat
  PROVE  DeCirQueue(Q, n) \in Buffer
<1>1. (Q.front + n) % SendWindow \in 0 .. SendWindow - 1
  BY Numbers DEF Buffer
<1>2. Q.MAX_QSIZE = SendWindow
  BY DEF Buffer
<1>. QED  BY <1>1, <1>2 DEF DeCirQueue, Buffer

LEMMA SlotType ==
  ASSUME NEW Q \in Buffer
  PROVE  Q.base[Q.front] \in Slots /\ FrontAck(Q) \in Int
<1>1. Q.base[Q.front] \in Slots
  BY DEF Buffer
<1>. QED  BY <1>1 DEF Slots, FrontAck

LEMMA SetAckType ==
  ASSUME NEW Q \in Buffer, NEW n \in Int
  PROVE  SetAck(Q, n) \in Buffer
<1>1. PICK s : s = [Q.base[Q.front] EXCEPT !.ack = n]
  OBVIOUS
<1>2. s \in Slots
  BY <1>1, SlotType DEF Slots
<1>3. [Q.base EXCEPT ![Q.front] = s] \in [0 .. SendWindow - 1 -> Slots]
  BY <1>2 DEF Buffer
<1>4. SetAck(Q, n) = [Q EXCEPT !.base = [Q.base EXCEPT ![Q.front] = s]]
  BY <1>1 DEF SetAck
<1>. QED  BY <1>3, <1>4 DEF Buffer

LEMMA SlotsAtType ==
  ASSUME send_buffer \in Buffer, NEW i \in Nat, NEW s \in SlotsAt(i)
  PROVE  s \in Slots
<1>1. CASE i < SendWindow
  BY <1>1, Numbers DEF SlotsAt, Buffer
<1>2. CASE ~(i < SendWindow)
  <2>1. PICK g \in GarbageSeq :
          s = Slot(g, IF g = 0 THEN 0 ELSE 1, IF g = 0 THEN Empty ELSE Junk, 0)
    BY <1>2 DEF SlotsAt
  <2>2. g = 0 \/ g = BigSeq
    BY ServerAssumption
  <2>. QED  BY <2>1, <2>2, Numbers DEF Slot, Slots, Sound, Stamped
<1>. QED  BY <1>1, <1>2

LEMMA NewSlotType ==
  ASSUME NEW seq \in Nat, seq > 0, seq + 1 < BigSeq, NEW a \in Int,
         NEW ts \in IF seq < FileLen THEN Clock ELSE {0}
  PROVE  Slot(seq, ts, IF seq <= FileLen THEN seq ELSE Empty, a) \in Slots
<1>1. ts \in {0, 1} /\ Stamped(seq, ts)
  BY ServerAssumption, Numbers DEF Stamped
<1>2. /\ (IF seq <= FileLen THEN seq ELSE Empty) \in 0 .. Junk
      /\ Sound(seq, IF seq <= FileLen THEN seq ELSE Empty)
  BY Numbers DEF Sound
<1>. QED  BY <1>1, <1>2 DEF Slot, Slots

\* A slot is sent.
LEMMA SendSlot ==
  ASSUME NetInv, NEW s \in Slots, SendPacket(s.seq, s.ts, s.sendline), UNCHANGED toSrv
  PROVE  NetInv'
<1>1. /\ s.seq \in Nat /\ s.ts \in {0, 1} /\ s.sendline \in 0 .. Junk
      /\ Sound(s.seq, s.sendline) /\ Stamped(s.seq, s.ts)
  BY DEF Slots
<1>. QED  BY <1>1, PairedSend DEF NetInv, SendPacket

LEMMA TakeAck ==
  ASSUME NetInv, toSrv # <<>>
  PROVE  Tail(toSrv) \in Seq(AckMsg) /\ Head(toSrv) \in AckMsg
BY DEF NetInv

----------------------------------------------------------------------------
(* The steps of the child *)

ServerOK == NetInv /\ ServerInv

LEMMA GrowType ==
  ASSUME ServerInv, Grow
  PROVE  cwnd' \in Nat /\ ssh' \in Nat /\ congestion_avoid_count' \in Nat
BY DEF ServerInv, Grow

LEMMA RoundType ==
  ASSUME ServerOK, Round
  PROVE  ServerOK'
<1>1. /\ spc' \in {"resend", "new", "wait"} /\ j' \in Nat /\ nrexmt' = 0
      /\ UNCHANGED <<after, send_buffer, recv_window, congVars, seqVars, blocked, ackInit, netVars>>
  BY DEF Round, SendNewData, ServerOK, ServerInv
<1>2. NetInv'
  BY <1>1 DEF netVars, ServerOK, NetInv
<1>. QED  BY <1>1, <1>2, Numbers DEF ServerOK, ServerInv, congVars, seqVars

LEMMA WindowClosedType ==
  ASSUME ServerOK, WindowClosed
  PROVE  ServerOK'
<1>1. NetInv'
  BY DEF WindowClosed, netVars, ServerOK, NetInv
<1>. QED  BY <1>1 DEF WindowClosed, WaitForWindow, ServerOK, ServerInv, loopVars, congVars, seqVars

LEMMA ResendType ==
  ASSUME ServerOK, Resend
  PROVE  ServerOK'
<1>1. PICK s \in SlotsAt(send_buffer.front + j) : SendPacket(s.seq, s.ts, s.sendline)
  BY DEF Resend
<1>2. send_buffer.front + j \in Nat /\ send_buffer \in Buffer
  BY Numbers DEF ServerOK, ServerInv, Buffer
<1>3. NetInv'
  BY <1>1, <1>2, SlotsAtType, SendSlot DEF Resend, ServerOK
<1>4. /\ spc' \in {"resend", "new", "wait"} /\ j' \in Nat /\ spc = "resend"
      /\ UNCHANGED <<after, send_buffer, recv_window, congVars, seqVars, nrexmt, blocked, ackInit>>
  BY DEF Resend, SendNewData, ServerOK, ServerInv
<1>. QED  BY <1>3, <1>4 DEF ServerOK, ServerInv, congVars, seqVars

LEMMA SendNewType ==
  ASSUME ServerOK, SendNew
  PROVE  ServerOK'
<1>1. PICK seq \in Nat : seq = sequence_number + 1 /\ seq > 0
  BY DEF ServerOK, ServerInv
<1>2. PICK data : data = IF seq <= FileLen THEN seq ELSE Empty
  OBVIOUS
<1>3. PICK ts \in IF seq < FileLen THEN Clock ELSE {0} :
        /\ send_buffer' = EnCirQueue(send_buffer, Slot(seq, ts, data, ackInit))
        /\ SendPacket(seq, ts, data)
  BY <1>1, <1>2 DEF SendNew
<1>4. seq + 1 < BigSeq /\ spc = "new" /\ UNCHANGED toSrv
  BY <1>1 DEF SendNew
<1>5. PICK s : s = Slot(seq, ts, data, ackInit)
  OBVIOUS
<1>6. s \in Slots
  BY <1>1, <1>2, <1>3, <1>4, <1>5, NewSlotType DEF ServerOK, ServerInv
<1>7. send_buffer' \in Buffer
  BY <1>3, <1>5, <1>6, EnCirQueueType DEF ServerOK, ServerInv
<1>8. s.seq = seq /\ s.ts = ts /\ s.sendline = data
  BY <1>5 DEF Slot
<1>9. NetInv'
  BY <1>3, <1>4, <1>6, <1>8, SendSlot DEF ServerOK
<1>10. /\ spc' \in {"new", "wait"} /\ j' \in Nat /\ sequence_number' \in Nat
       /\ UNCHANGED <<after, recv_window, congVars, head, nrexmt, blocked, ackInit>>
  BY <1>1 DEF SendNew, ServerOK, ServerInv
<1>. QED  BY <1>4, <1>7, <1>9, <1>10 DEF ServerOK, ServerInv, congVars

LEMMA RecvFinalAckType ==
  ASSUME ServerOK, RecvFinalAck
  PROVE  ServerOK'
<1>1. EndMsg \in Datagram /\ EndMsg.seq = 0
  BY Numbers DEF EndMsg, Datagram
<1>2. toCli' \in Seq(Datagram) /\ Paired(toCli') /\ toSrv' \in Seq(AckMsg)
  BY <1>1, PairedAppend, TakeAck DEF RecvFinalAck, ServerOK, NetInv
<1>3. NetInv'
  BY <1>2 DEF NetInv, Paired
<1>. QED  BY <1>3, GrowType DEF RecvFinalAck, ServerOK, ServerInv, seqVars

LEMMA AdvanceType ==
  ASSUME ServerOK, NEW m \in AckMsg
  PROVE  Advance(m) \in Buffer /\ Max2(head, m.seq) \in Nat
<1>1. (IF m.seq > head THEN m.seq - head ELSE 0) \in Nat /\ send_buffer \in Buffer
  BY DEF ServerOK, ServerInv, AckMsg
<1>. QED  BY <1>1, DeCirQueueType DEF Advance, Max2, ServerOK, ServerInv, AckMsg

LEMMA RecvAckType ==
  ASSUME ServerOK, RecvAck
  PROVE  ServerOK'
<1>1. PICK m : m = Head(toSrv)
  OBVIOUS
<1>2. PICK Q : Q = Advance(m)
  OBVIOUS
<1>3. m \in AckMsg /\ toSrv' \in Seq(AckMsg) /\ UNCHANGED toCli
  BY <1>1, TakeAck DEF RecvAck, ServerOK
<1>4. Q \in Buffer /\ FrontAck(Q) + 1 \in Int /\ Max2(head, m.seq) \in Nat
  BY <1>2, <1>3, AdvanceType, SlotType
<1>5. send_buffer' \in Buffer /\ head' \in Nat
  BY <1>1, <1>2, <1>4, SetAckType DEF RecvAck
<1>6. recv_window' \in Word
  BY <1>1, <1>3 DEF RecvAck, AckMsg
<1>7. /\ spc = "wait" /\ spc' \in {"top", "wait"}
      /\ UNCHANGED <<after, j, sequence_number, nrexmt, blocked, ackInit>>
  BY DEF RecvAck
<1>8. NetInv'
  BY <1>3 DEF NetInv, ServerOK
<1>. QED  BY <1>5, <1>6, <1>7, <1>8, GrowType DEF RecvAck, ServerOK, ServerInv

\* rtt_timeout() counts, and the child gives up or goes on to send.
Counts ==
  /\ nrexmt' = nrexmt + 1
  /\ \/ nrexmt' > MaxNrexmt /\ spc' = "exited" /\ UNCHANGED <<after, blocked>>
     \/ nrexmt' <= MaxNrexmt /\ WaitForWindow("fast")
     \/ nrexmt' <= MaxNrexmt /\ WaitForWindow("timeout")
     \/ nrexmt' <= MaxNrexmt /\ spc' \in {"fast", "timeout"} /\ UNCHANGED <<after, blocked>>

LEMMA CountsType ==
  ASSUME ServerInv, spc = "wait", Counts
  PROVE  /\ spc' \in {"fast", "timeout", "probe", "exited"}
         /\ after' \in {"top", "fast", "timeout"} /\ blocked' \in BOOLEAN
         /\ nrexmt' \in 0 .. MaxNrexmt + 1 /\ (nrexmt' > MaxNrexmt => spc' = "exited")
<1>1. nrexmt \in 0 .. MaxNrexmt
  BY Numbers DEF ServerInv
<1>2. nrexmt' \in 0 .. MaxNrexmt + 1
  BY <1>1, Numbers DEF Counts
<1>3. /\ spc' \in {"fast", "timeout", "probe", "exited"}
      /\ after' \in {"top", "fast", "timeout"} /\ blocked' \in BOOLEAN
  BY DEF Counts, WaitForWindow, ServerInv
<1>4. nrexmt' > MaxNrexmt => spc' = "exited"
  BY <1>2, Numbers DEF Counts
<1>. QED  BY <1>2, <1>3, <1>4

LEMMA RecvThirdAckType ==
  ASSUME ServerOK, RecvThirdAck
  PROVE  ServerOK'
<1>1. PICK m : m = Head(toSrv)
  OBVIOUS
<1>2. PICK Q : Q = Advance(m)
  OBVIOUS
<1>3. m \in AckMsg /\ toSrv' \in Seq(AckMsg) /\ UNCHANGED toCli
  BY <1>1, TakeAck DEF RecvThirdAck, ServerOK
<1>4. Q \in Buffer /\ Max2(head, m.seq) \in Nat
  BY <1>2, <1>3, AdvanceType
<1>5. send_buffer' \in Buffer /\ head' \in Nat
  BY <1>1, <1>2, <1>4, SetAckType DEF RecvThirdAck
<1>6. recv_window' \in Word
  BY <1>1, <1>3 DEF RecvThirdAck, AckMsg
<1>7. spc = "wait" /\ Counts /\ UNCHANGED <<j, sequence_number, ackInit>>
  BY DEF RecvThirdAck, Counts
<1>8. NetInv'
  BY <1>3 DEF NetInv, ServerOK
<1>. QED  BY <1>5, <1>6, <1>7, <1>8, GrowType, CountsType DEF RecvThirdAck, ServerOK, ServerInv

LEMMA TimeoutType ==
  ASSUME ServerOK, Timeout
  PROVE  ServerOK'
<1>1. spc = "wait" /\ Counts
  BY DEF Timeout, TimedOut, Counts
<1>2. /\ UNCHANGED <<send_buffer, j, recv_window, cwnd, ssh, congestion_avoid_count,
                     sequence_number, head, ackInit, toCli, toSrv>>
  BY DEF Timeout, loopVars, congVars, seqVars, netVars
<1>3. NetInv'
  BY <1>2 DEF NetInv, ServerOK
<1>. QED  BY <1>1, <1>2, <1>3, CountsType DEF ServerOK, ServerInv

LEMMA TimeoutInAckType ==
  ASSUME ServerOK, TimeoutInAck
  PROVE  ServerOK'
<1>1. PICK m : m = Head(toSrv)
  OBVIOUS
<1>2. m \in AckMsg /\ toSrv' \in Seq(AckMsg) /\ UNCHANGED toCli
  BY <1>1, TakeAck DEF TimeoutInAck, ServerOK
<1>3. PICK n \in 1 .. m.seq - head :
        send_buffer' = DeCirQueue(send_buffer, n) /\ head' = head + n - 1
  BY <1>1 DEF TimeoutInAck
<1>4. n \in Nat /\ head' \in Nat
  BY <1>2, <1>3 DEF ServerOK, ServerInv, AckMsg
<1>5. send_buffer' \in Buffer
  BY <1>3, <1>4, DeCirQueueType DEF ServerOK, ServerInv
<1>6. spc = "wait" /\ Counts /\ UNCHANGED <<j, recv_window, sequence_number, ackInit>>
  BY DEF TimeoutInAck, TimedOut, Counts
<1>7. NetInv'
  BY <1>2 DEF NetInv, ServerOK
<1>. QED  BY <1>4, <1>5, <1>6, <1>7, GrowType, CountsType DEF TimeoutInAck, ServerOK, ServerInv

LEMMA FrontSent ==
  ASSUME ServerOK, SendPacket(FrontSlot.seq, FrontSlot.ts, FrontSlot.sendline), UNCHANGED toSrv
  PROVE  NetInv'
<1>1. FrontSlot \in Slots
  BY SlotType DEF ServerOK, ServerInv, FrontSlot
<1>. QED  BY <1>1, SendSlot DEF ServerOK

LEMMA FastResendType ==
  ASSUME ServerOK, FastResend
  PROVE  ServerOK'
<1>1. NetInv'
  BY FrontSent DEF FastResend
<1>2. Max2(cwnd \div 2, 1) \in Nat
  BY DEF ServerOK, ServerInv, Max2
<1>3. /\ spc = "fast" /\ spc' \in {"wait", "new"} /\ j' \in Nat
      /\ cwnd' = Max2(cwnd \div 2, 1) /\ ssh' = cwnd'
      /\ UNCHANGED <<after, send_buffer, recv_window, congestion_avoid_count, seqVars, nrexmt,
                     blocked, ackInit>>
  BY DEF FastResend, SendNewData, ServerOK, ServerInv
<1>. QED  BY <1>1, <1>2, <1>3 DEF ServerOK, ServerInv, seqVars

LEMMA TimeoutResendType ==
  ASSUME ServerOK, TimeoutResend
  PROVE  ServerOK'
<1>1. NetInv'
  BY FrontSent DEF TimeoutResend
<1>2. Max2(cwnd \div 2, 1) \in Nat
  BY DEF ServerOK, ServerInv, Max2
<1>. QED  BY <1>1, <1>2 DEF TimeoutResend, ServerOK, ServerInv, seqVars

LEMMA ProbeType ==
  ASSUME ServerOK, Probe
  PROVE  ServerOK'
<1>1. Hdr(0, 0) \in Datagram /\ Hdr(0, 0).seq = 0
  BY Numbers DEF Hdr, Datagram
<1>2. toCli' \in Seq(Datagram) /\ Paired(toCli') /\ UNCHANGED toSrv
  BY <1>1, PairedAppend DEF Probe, ServerOK, NetInv
<1>3. NetInv'
  BY <1>2 DEF NetInv, Paired, ServerOK
<1>. QED  BY <1>3 DEF Probe, ServerOK, ServerInv, serverVars, loopVars, congVars, seqVars

LEMMA RecvWindowType ==
  ASSUME ServerOK, RecvWindow
  PROVE  ServerOK'
<1>1. Head(toSrv) \in AckMsg /\ toSrv' \in Seq(AckMsg) /\ UNCHANGED toCli
  BY TakeAck DEF RecvWindow, ServerOK
<1>2. recv_window' \in Word
  BY <1>1 DEF RecvWindow, AckMsg
<1>3. NetInv'
  BY <1>1 DEF NetInv, ServerOK
<1>. QED  BY <1>2, <1>3 DEF RecvWindow, ServerOK, ServerInv, loopVars, congVars, seqVars

LEMMA RefusedType ==
  ASSUME ServerOK, Refused
  PROVE  ServerOK'
<1>1. toCli' \in Seq(Datagram) /\ Paired(toCli') /\ UNCHANGED toSrv
  BY DEF Refused, Paired
<1>2. NetInv'
  BY <1>1 DEF NetInv, Paired, ServerOK
<1>. QED  BY <1>2 DEF Refused, ServerOK, ServerInv, loopVars, congVars, seqVars

----------------------------------------------------------------------------
(* The steps of the client *)

LEMMA HtonsType ==
  ASSUME NEW x \in Int
  PROVE  htons(x) \in Word
<1>1. x % 256 \in 0 .. 2 ^ 8 - 1 /\ (x \div 256) % 256 \in 0 .. 2 ^ 8 - 1
  OBVIOUS
<1>. QED  BY <1>1 DEF htons, Word

LEMMA AdvertisedType ==
  ASSUME IsList(heap, header)
  PROVE  Advertised \in Word
<1>1. LinkListLength(heap, header) \in 0 .. Far
  BY Zenon DEF IsList, LinkListLength, LinkListLengths
<1>2. LinkListLength(heap, header) \in Int /\ RecvWin \in Int
  BY <1>1, ClientAssumption
<1>3. htons(RecvWin) \in Int /\ htons(LinkListLength(heap, header)) \in Int
  BY <1>2, HtonsType DEF Word
<1>4. (htons(RecvWin) - htons(LinkListLength(heap, header))) % 65536 \in Int
  BY <1>3
<1>. QED  BY <1>4, HtonsType DEF Advertised

LEMMA ReadType ==
  ASSUME NEW d \in Datagram
  PROVE  SeqOf(d) \in Nat /\ TsOf(d) \in {0, 1} /\ DataOf(d) \in 0 .. Junk
BY Numbers DEF Datagram, SeqOf, TsOf, DataOf

\* A header that is read with what follows it.
LEMMA ReadPair ==
  ASSUME NEW q \in Seq(Datagram), Paired(q), Len(q) > 1, SeqOf(q[1]) # 0
  PROVE  Sound(SeqOf(q[1]), DataOf(q[2])) /\ Stamped(SeqOf(q[1]), TsOf(q[1]))
<1>1. q[1] \in Datagram /\ q[2] \in Datagram /\ 1 \in 1 .. Len(q)
  OBVIOUS
<1>2. CASE SeqOf(q[1]) < BigSeq
  <2>1. SeqOf(q[1]) = q[1].seq /\ q[1].seq \in 1 .. BigSeq - 1
    BY <1>1, <1>2, Numbers, ReadType DEF SeqOf, Datagram
  <2>2. /\ q[1].type = "hdr" /\ Stamped(q[1].seq, q[1].ts)
        /\ q[1 + 1].type = "data" /\ Sound(q[1].seq, q[1 + 1].data)
    BY <1>1, <2>1 DEF Paired
  <2>3. TsOf(q[1]) = q[1].ts /\ DataOf(q[2]) = q[2].data
    BY <2>2 DEF TsOf, DataOf
  <2>. QED  BY <2>1, <2>2, <2>3
<1>3. CASE ~(SeqOf(q[1]) < BigSeq)
  BY <1>1, <1>3, ReadType, Numbers DEF Sound, Stamped
<1>. QED  BY <1>2, <1>3

LEMMA ServerStays ==
  ASSUME ServerInv, UNCHANGED serverVars
  PROVE  ServerInv'
BY DEF ServerInv, serverVars, loopVars, congVars, seqVars

LEMMA RecvProbeType ==
  ASSUME TransferInv, RecvProbe, UNCHANGED serverVars
  PROVE  TransferInv'
<1>1. NetInv /\ toCli # <<>>
  BY DEF TransferInv, RecvProbe
<1>2. toCli' = Tail(toCli) /\ toCli' \in Seq(Datagram) /\ Paired(toCli')
  BY <1>1, PairedTail DEF RecvProbe, NetInv
<1>3. toSrv' \in Seq(AckMsg)
  <2>1. CASE toSrv' = toSrv
    BY <1>1, <2>1 DEF NetInv
  <2>2. CASE IsList(heap, header) /\ toSrv' = Append(toSrv, Ack(1, Advertised))
    <3>1. Ack(1, Advertised) \in AckMsg
      BY <2>2, AdvertisedType DEF Ack, AckMsg
    <3>. QED  BY <1>1, <2>2, <3>1 DEF NetInv
  <2>. QED  BY <2>1, <2>2 DEF RecvProbe
<1>4. NetInv'
  BY <1>2, <1>3 DEF NetInv, Paired
<1>5. /\ cpc' \in {"recv", "spin"} /\ rseq' = 0 /\ rts' \in {0, 1}
      /\ UNCHANGED <<rdata, placeVars, listVars, printVars, data_flag>>
  <2>1. Head(toCli) \in Datagram
    BY <1>1 DEF NetInv
  <2>. QED  BY <2>1, ReadType DEF RecvProbe
<1>6. ReceivedInv'
  BY <1>5 DEF TransferInv, ReceivedInv
<1>7. MemoryInv'
  BY <1>5 DEF TransferInv, MemoryInv, listVars
<1>8. ClientInv'
  BY <1>5 DEF TransferInv, ClientInv, First, placeVars, listVars, printVars
<1>. QED  BY <1>4, <1>6, <1>7, <1>8, ServerStays DEF TransferInv

LEMMA InsertType ==
  ASSUME TransferInv, NEW seq, Insert(seq)
  PROVE  cpc' \in {"link", "ack", "spin"} /\ place' \in Addr \cup {header} /\ temp' \in Pointer
<1>1. heap \in Memory /\ place \in Addr \cup {header} /\ temp \in Pointer
  BY DEF TransferInv, MemoryInv, ClientInv
<1>2. CASE cpc' \in {"ack", "spin"} /\ UNCHANGED placeVars
  BY <1>1, <1>2 DEF placeVars
<1>3. CASE \E a \in InsertPoints(heap, header, seq) :
             /\ place' = a /\ temp' = heap[a].next
             /\ cpc' = IF temp' # NULL /\ heap[temp'].seq = seq THEN "ack" ELSE "link"
  <2>1. PICK a \in InsertPoints(heap, header, seq) :
             /\ place' = a /\ temp' = heap[a].next /\ cpc' \in {"ack", "link"}
    BY <1>3
  <2>2. a \in Addr \cup {header}
    BY <1>1 DEF InsertPoints, Memory
  <2>3. heap[a].next \in Pointer
    BY <1>1, <2>2 DEF Memory, Node
  <2>. QED  BY <2>1, <2>2, <2>3
<1>. QED  BY <1>2, <1>3 DEF Insert

LEMMA RecvPacketType ==
  ASSUME TransferInv, RecvPacket, UNCHANGED serverVars
  PROVE  TransferInv'
<1>1. toCli \in Seq(Datagram) /\ Paired(toCli) /\ Len(toCli) > 1 /\ SeqOf(toCli[1]) # 0
  BY DEF TransferInv, NetInv, RecvPacket
<1>2. toCli' \in Seq(Datagram) /\ Paired(toCli')
  <2>1. Tail(toCli) \in Seq(Datagram) /\ Paired(Tail(toCli)) /\ Tail(toCli) # <<>>
    BY <1>1, PairedTail
  <2>. QED  BY <2>1, PairedTail DEF RecvPacket
<1>3. NetInv'
  BY <1>2 DEF NetInv, Paired, RecvPacket, TransferInv
<1>4. ReceivedInv'
  <2>1. toCli[1] \in Datagram /\ toCli[2] \in Datagram
    BY <1>1
  <2>2. rseq' \in Nat /\ rts' \in {0, 1} /\ rdata' \in 0 .. Junk
    BY <2>1, ReadType DEF RecvPacket
  <2>3. rseq' # 0 /\ Sound(rseq, rdata)' /\ Stamped(rseq, rts)'
    BY <1>1, ReadPair DEF RecvPacket, Sound, Stamped
  <2>. QED  BY <2>2, <2>3 DEF ReceivedInv
<1>5. /\ cpc' \in {"recv", "link", "ack", "spin"}
      /\ place' \in Addr \cup {header} /\ temp' \in Pointer
  <2>1. CASE UNCHANGED <<cpc, placeVars>>
    BY <2>1 DEF RecvPacket, placeVars, TransferInv, ClientInv
  <2>2. CASE Insert(SeqOf(toCli[1]))
    BY <2>2, InsertType
  <2>. QED  BY <2>1, <2>2 DEF RecvPacket
<1>6. UNCHANGED <<listVars, printVars, data_flag>>
  BY DEF RecvPacket
<1>7. MemoryInv'
  BY <1>6 DEF TransferInv, MemoryInv, listVars
<1>8. ClientInv'
  BY <1>5, <1>6 DEF TransferInv, ClientInv, First, listVars, printVars
<1>. QED  BY <1>3, <1>4, <1>7, <1>8, ServerStays DEF TransferInv

\* Memory with a new node at a, linked behind place.
LEMMA LinkMemory ==
  ASSUME TransferInv, NEW a \in free, NEW next \in Pointer,
         heap' = [[heap EXCEPT ![a] = [seq |-> rseq, data |-> rdata, next |-> next]]
                    EXCEPT ![place].next = a]
  PROVE  /\ heap' \in Memory
         /\ \A b \in Addr :
              /\ heap'[b].seq = IF b = a THEN rseq ELSE heap[b].seq
              /\ heap'[b].data = IF b = a THEN rdata ELSE heap[b].data
         /\ heap'[header].next = IF place = header THEN a ELSE heap[header].next
<1>1. /\ a \in Addr /\ place \in Addr \cup {header} /\ heap \in Memory
      /\ rseq \in Nat /\ rdata \in 0 .. Junk /\ a # header /\ a \in Pointer
  BY AddrAssumption DEF TransferInv, ClientInv, MemoryInv, ReceivedInv, Pointer
<1>2. PICK x : x = [seq |-> rseq, data |-> rdata, next |-> next]
  OBVIOUS
<1>3. x \in Node /\ x.seq = rseq /\ x.data = rdata
  BY <1>1, <1>2 DEF Node
<1>4. PICK mem : mem = [heap EXCEPT ![a] = x]
  OBVIOUS
<1>5. /\ mem \in Memory
      /\ \A b \in Addr \cup {header} : mem[b] = IF b = a THEN x ELSE heap[b]
  BY <1>1, <1>3, <1>4 DEF Memory
<1>6. PICK y : y = [mem[place] EXCEPT !.next = a]
  OBVIOUS
<1>7. /\ y \in Node /\ y.next = a /\ y.seq = mem[place].seq /\ y.data = mem[place].data
  BY <1>1, <1>5, <1>6 DEF Memory, Node
<1>8. heap' = [mem EXCEPT ![place] = y]
  BY <1>2, <1>4, <1>6
<1>9. /\ heap' \in Memory
      /\ \A b \in Addr \cup {header} : heap'[b] = IF b = place THEN y ELSE mem[b]
  BY <1>1, <1>5, <1>7, <1>8 DEF Memory
<1>10. ASSUME NEW b \in Addr
       PROVE  heap'[b].seq = mem[b].seq /\ heap'[b].data = mem[b].data
  BY <1>7, <1>9
<1>11. ASSUME NEW b \in Addr
       PROVE  /\ heap'[b].seq = IF b = a THEN rseq ELSE heap[b].seq
              /\ heap'[b].data = IF b = a THEN rdata ELSE heap[b].data
  BY <1>3, <1>5, <1>10
<1>12. heap'[header].next = IF place = header THEN a ELSE heap[header].next
  <2>1. mem[header] = heap[header]
    BY <1>1, <1>5
  <2>2. heap'[header] = IF header = place THEN y ELSE mem[header]
    BY <1>9
  <2>. QED  BY ONLY <1>7, <2>1, <2>2
<1>. QED  BY <1>9, <1>11, <1>12

LEMMA LinkType ==
  ASSUME TransferInv, Link, UNCHANGED serverVars
  PROVE  TransferInv'
<1>1. PICK a \in free :
        /\ heap' = [[heap EXCEPT ![a] = [seq |-> rseq, data |-> rdata,
                       next |-> IF temp # NULL \/ place = header THEN temp ELSE heap[a].next]]
                      EXCEPT ![place].next = a]
        /\ free' = free \ {a}
  BY DEF Link
<1>2. a \in Addr /\ a # NULL /\ heap \in Memory /\ temp \in Pointer
  BY AddrAssumption DEF TransferInv, MemoryInv, ClientInv
<1>3. PICK next : next = IF temp # NULL \/ place = header THEN temp ELSE heap[a].next
  OBVIOUS
<1>4. next \in Pointer
  BY <1>2, <1>3 DEF Memory, Node
<1>5. /\ heap' \in Memory
      /\ \A b \in Addr :
           /\ heap'[b].seq = IF b = a THEN rseq ELSE heap[b].seq
           /\ heap'[b].data = IF b = a THEN rdata ELSE heap[b].data
      /\ heap'[header].next = IF place = header THEN a ELSE heap[header].next
  BY <1>1, <1>3, <1>4, LinkMemory
<1>6. /\ cpc = "link" /\ cpc' = "ack"
      /\ UNCHANGED <<netVars, hdrVars, placeVars, printVars, data_flag>>
  BY DEF Link
<1>7. MemoryInv'
  <2>1. Sound(rseq, rdata)
    BY <1>6 DEF TransferInv, ReceivedInv
  <2>2. ASSUME NEW b \in Addr  PROVE Sound(heap'[b].seq, heap'[b].data)
    BY <1>5, <2>1 DEF TransferInv, MemoryInv
  <2>3. free' \subseteq Addr
    BY <1>1 DEF TransferInv, MemoryInv
  <2>. QED  BY <1>5, <2>2, <2>3 DEF MemoryInv, Sound
<1>8. NetInv' /\ ReceivedInv'
  BY <1>6 DEF TransferInv, NetInv, ReceivedInv, netVars, hdrVars
<1>9. ClientInv'
  BY <1>2, <1>5, <1>6 DEF TransferInv, ClientInv, First, placeVars, printVars
<1>. QED  BY <1>7, <1>8, <1>9, ServerStays DEF TransferInv

LEMMA SendAckType ==
  ASSUME TransferInv, SendAck, UNCHANGED serverVars
  PROVE  TransferInv'
<1>1. NextAck(heap, header, printed) \in Nat
  BY NextAckIs DEF TransferInv, MemoryInv, ClientInv
<1>2. toSrv' \in Seq(AckMsg)
  <2>1. toSrv \in Seq(AckMsg)
    BY DEF TransferInv, NetInv
  <2>2. CASE toSrv' = toSrv
    BY <2>1, <2>2
  <2>3. CASE /\ IsList(heap, header)
             /\ toSrv' = Append(toSrv, Ack(IF Final THEN 0 ELSE NextAck(heap, header, printed), Advertised))
    <3>1. Ack(IF Final THEN 0 ELSE NextAck(heap, header, printed), Advertised) \in AckMsg
      BY <1>1, <2>3, AdvertisedType DEF Ack, AckMsg
    <3>. QED  BY <2>1, <2>3, <3>1
  <2>. QED  BY <2>2, <2>3 DEF SendAck
<1>3. /\ cpc' \in {"recv", "confirm", "spin"} /\ data_flag' \in BOOLEAN
      /\ UNCHANGED <<toCli, hdrVars, placeVars, listVars, printVars>>
  <2>1. data_flag' \in BOOLEAN
    BY Zenon DEF SendAck
  <2>. QED  BY <2>1 DEF SendAck
<1>4. NetInv'
  BY <1>2, <1>3 DEF TransferInv, NetInv
<1>5. ReceivedInv'
  BY <1>3 DEF TransferInv, ReceivedInv, hdrVars
<1>6. MemoryInv'
  BY <1>3 DEF TransferInv, MemoryInv, listVars
<1>7. ClientInv'
  BY <1>3 DEF TransferInv, ClientInv, First, placeVars, listVars, printVars
<1>. QED  BY <1>4, <1>5, <1>6, <1>7, ServerStays DEF TransferInv

LEMMA EndType ==
  ASSUME TransferInv, Confirm \/ Finish, UNCHANGED serverVars
  PROVE  TransferInv'
<1>1. toCli' \in Seq(Datagram) /\ Paired(toCli')
  <2>1. toCli' = <<>> \/ (toCli # <<>> /\ toCli' = Tail(toCli))
    BY DEF Confirm, Finish
  <2>2. <<>> \in Seq(Datagram) /\ Paired(<<>>)
    BY DEF Paired
  <2>. QED  BY <2>1, <2>2, PairedTail DEF TransferInv, NetInv
<1>2. /\ cpc' \in {"finish", "done"}
      /\ UNCHANGED <<toSrv, hdrVars, placeVars, listVars, printVars, data_flag>>
  BY DEF Confirm, Finish
<1>3. NetInv'
  BY <1>1, <1>2 DEF TransferInv, NetInv, Paired
<1>4. ReceivedInv' /\ MemoryInv'
  BY <1>2 DEF TransferInv, ReceivedInv, MemoryInv, hdrVars, listVars
<1>5. ClientInv'
  BY <1>2 DEF TransferInv, ClientInv, First, placeVars, listVars, printVars
<1>. QED  BY <1>3, <1>4, <1>5, ServerStays DEF TransferInv

\* print_out where it does not change the list.
LEMMA LookType ==
  ASSUME TransferInv, Wake \/ TestFirst \/ CountPrinted \/ TestFlag, UNCHANGED serverVars
  PROVE  TransferInv'
<1>1. /\ UNCHANGED <<netVars, cpc, hdrVars, placeVars, listVars, out, data_flag>>
      /\ ppc' \in {"test", "print", "flag", "ended", "sleep"}
  BY DEF Wake, TestFirst, CountPrinted, TestFlag
<1>2. printed' \in Nat /\ process_flag' \in BOOLEAN
  <2>1. CASE UNCHANGED <<printed, process_flag>>
    BY <2>1 DEF TransferInv, ClientInv
  <2>2. CASE CountPrinted
    BY <2>2 DEF CountPrinted, TransferInv, ClientInv
  <2>3. CASE TestFlag
    BY <2>3, Zenon DEF TestFlag, TransferInv, ClientInv
  <2>. QED  BY <2>1, <2>2, <2>3 DEF Wake, TestFirst
<1>3. ppc' = "print" => First # NULL
  BY DEF Wake, TestFirst, CountPrinted, TestFlag
<1>4. NetInv' /\ ReceivedInv' /\ MemoryInv'
  BY <1>1 DEF TransferInv, NetInv, ReceivedInv, MemoryInv, netVars, hdrVars, listVars
<1>5. ClientInv'
  BY <1>1, <1>2, <1>3 DEF TransferInv, ClientInv, First, placeVars, listVars
<1>. QED  BY <1>4, <1>5, ServerStays DEF TransferInv

\* The first node is printed and given back.
LEMMA PrintMemory ==
  ASSUME TransferInv, PrintFirst
  PROVE  /\ First \in Addr
         /\ heap' \in Memory
         /\ \A b \in Addr : heap'[b] = heap[b]
         /\ free' = free \cup {First}
<1>1. First \in Addr /\ heap \in Memory /\ header \notin Addr
  BY AddrAssumption DEF TransferInv, ClientInv, MemoryInv, PrintFirst, First, Memory, Node, Pointer
<1>2. heap[First].next \in Pointer
  BY <1>1 DEF Memory, Node
<1>3. PICK y : y = [heap[header] EXCEPT !.next = heap[First].next]
  OBVIOUS
<1>4. y \in Node
  BY <1>1, <1>2, <1>3 DEF Memory, Node
<1>5. heap' = [heap EXCEPT ![header] = y]
  BY <1>3 DEF PrintFirst
<1>. QED  BY <1>1, <1>4, <1>5 DEF PrintFirst, Memory

LEMMA PrintFirstType ==
  ASSUME TransferInv, PrintFirst, UNCHANGED serverVars
  PROVE  TransferInv'
<1>1. /\ First \in Addr /\ heap' \in Memory /\ free' = free \cup {First}
      /\ \A b \in Addr : heap'[b] = heap[b]
  BY PrintMemory
<1>2. /\ ppc' = "count"
      /\ UNCHANGED <<netVars, cpc, hdrVars, placeVars, printed, process_flag, data_flag>>
  BY DEF PrintFirst
<1>3. MemoryInv'
  <2>1. \A b \in Addr : Sound(heap'[b].seq, heap'[b].data)
    BY <1>1 DEF TransferInv, MemoryInv
  <2>. QED  BY <1>1, <2>1 DEF TransferInv, MemoryInv, Sound
<1>4. out' \in Seq(0 .. Junk)
  <2>1. heap[First].data \in 0 .. Junk /\ out \in Seq(0 .. Junk)
    BY <1>1 DEF TransferInv, MemoryInv, ClientInv, Memory, Node
  <2>2. PICK S : S = 0 .. Junk
    OBVIOUS
  <2>3. PICK d : d = heap[First].data
    OBVIOUS
  <2>4. d \in S /\ out \in Seq(S) /\ (out' = out \/ out' = Append(out, d))
    BY <2>1, <2>2, <2>3 DEF PrintFirst
  <2>5. out' \in Seq(S)
    BY ONLY <2>4
  <2>. QED  BY <2>2, <2>5
<1>5. NetInv' /\ ReceivedInv'
  BY <1>2 DEF TransferInv, NetInv, ReceivedInv, netVars, hdrVars
<1>6. ClientInv'
  BY <1>2, <1>4 DEF TransferInv, ClientInv, placeVars
<1>. QED  BY <1>3, <1>5, <1>6, ServerStays DEF TransferInv

----------------------------------------------------------------------------
(* Types *)

LEMMA TransferInit ==
  ASSUME Init
  PROVE  TransferInv
<1>1. NetInv
  <2>1. PICK n \in 0 .. StalePorts : toCli = [i \in 1 .. n |-> PortMsg]
    BY DEF Init
  <2>2. n \in Nat
    BY TransferAssumption
  <2>3. PICK d : d = PortMsg
    OBVIOUS
  <2>4. d \in Datagram /\ d.seq \notin 1 .. BigSeq - 1
    BY <2>3, Numbers DEF PortMsg, Datagram
  <2>5. toCli \in Seq(Datagram) /\ Len(toCli) = n /\ \A i \in 1 .. n : toCli[i] = d
    BY <2>1, <2>2, <2>3, <2>4
  <2>6. Paired(toCli)
    BY <2>4, <2>5 DEF Paired
  <2>. QED  BY <2>5, <2>6 DEF NetInv, Init
<1>2. ServerInv
  <2>1. Slot(0, 0, Empty, 0) \in Slots
    BY Numbers DEF Slot, Slots, Sound, Stamped
  <2>2. PICK s \in Slots : s = Slot(0, 0, Empty, 0)
    BY <2>1
  <2>3. InitCirQueue(SendWindow, s) \in Buffer
    BY Numbers DEF InitCirQueue, Buffer
  <2>4. recv_window \in Word
    BY ClientAssumption DEF Init, Word
  <2>5. ackInit \in Int
    BY ServerAssumption DEF Init, ServerInit
  <2>6. send_buffer \in Buffer
    BY <2>2, <2>3 DEF Init, ServerInit
  <2>7. /\ spc = "top" /\ after = "top" /\ j = 0 /\ nrexmt = 0
        /\ sequence_number = 0 /\ head = 1 /\ cwnd = 1 /\ congestion_avoid_count = 0
    BY DEF Init, ServerInit
  <2>8. ssh \in Nat
    BY DEF Init, ServerInit
  <2>9. blocked \in BOOLEAN
    <3>1. blocked = FALSE
      BY DEF Init, ServerInit
    <3>. QED  BY ONLY <3>1, Zenon
  <2>. QED  BY <2>4, <2>5, <2>6, <2>7, <2>8, <2>9, Numbers DEF ServerInv
<1>3. heap \in Memory /\ \A a \in Addr : heap[a].seq = 0 /\ heap[a].data = Empty
  <2>1. [seq |-> 0, data |-> Empty, next |-> NULL] \in Node
    BY Numbers DEF Node, Pointer
  <2>2. PICK x \in Node : x = [seq |-> 0, data |-> Empty, next |-> NULL]
    BY <2>1
  <2>3. heap = [a \in Addr \cup {header} |-> x] /\ x.seq = 0 /\ x.data = Empty
    BY <2>2 DEF Init, ClientInit
  <2>. QED  BY <2>3 DEF Memory
<1>4. MemoryInv
  BY <1>3, Numbers DEF MemoryInv, Sound, Init, ClientInit
<1>5. ReceivedInv
  BY Numbers DEF ReceivedInv, Init, ClientInit
<1>6. ClientInv
  <2>1. data_flag \in BOOLEAN /\ process_flag \in BOOLEAN
    BY Zenon DEF Init, ClientInit
  <2>. QED  BY <2>1 DEF ClientInv, Init, ClientInit, Pointer
<1>. QED  BY <1>1, <1>2, <1>4, <1>5, <1>6 DEF TransferInv

\* A step of the child leaves the client alone.
LEMMA ServerTransfer ==
  ASSUME TransferInv, ServerOK', UNCHANGED clientVars
  PROVE  TransferInv'
<1>1. UNCHANGED <<cpc, rseq, rts, rdata, place, temp, heap, free, ppc, out, printed,
                  process_flag, data_flag>>
  BY DEF clientVars, hdrVars, placeVars, listVars, printVars
<1>2. ReceivedInv' /\ MemoryInv'
  BY <1>1 DEF TransferInv, ReceivedInv, MemoryInv
<1>3. ClientInv'
  BY <1>1 DEF TransferInv, ClientInv, First
<1>. QED  BY <1>2, <1>3 DEF TransferInv, ServerOK

LEMMA TransferStep ==
  ASSUME TransferInv, [Next]_vars
  PROVE  TransferInv'
<1>. USE DEF ServerStep, TimerStep, ReceiverStep, PrinterStep
<1>0. ServerOK
  BY DEF TransferInv, ServerOK
<1>1. CASE ServerStep
  <2>1. UNCHANGED clientVars
    BY <1>1 DEF Refused
  <2>2. ServerOK'
    BY <1>0, <1>1, RoundType, WindowClosedType, ResendType, SendNewType, RecvAckType,
       RecvFinalAckType, RecvThirdAckType, RecvWindowType, FastResendType, TimeoutResendType,
       RefusedType
  <2>. QED  BY <2>1, <2>2, ServerTransfer
<1>2. CASE TimerStep
  <2>1. UNCHANGED clientVars /\ ServerOK'
    BY <1>0, <1>2, TimeoutType, TimeoutInAckType, ProbeType
  <2>. QED  BY <2>1, ServerTransfer
<1>3. CASE ReceiverStep
  BY <1>3, RecvProbeType, RecvPacketType, LinkType, SendAckType, EndType
<1>4. CASE PrinterStep
  BY <1>4, LookType, PrintFirstType
<1>5. CASE UNCHANGED vars
  <2>1. UNCHANGED <<serverVars, clientVars, netVars>>
    BY <1>5 DEF vars
  <2>2. ServerOK'
    BY <1>0, <2>1, ServerStays DEF ServerOK, NetInv, netVars
  <2>. QED  BY <2>1, <2>2, ServerTransfer
<1>. QED  BY <1>1, <1>2, <1>3, <1>4, <1>5 DEF Next

\* Every variable keeps its type, with and without overlapping threads: no
\* time-out, lost acknowledgement or payload taken for a header drives front
\* or rear out of the array, the window out of 16 bits or a pointer out of the
\* memory of the list.
THEOREM FileTypeCorrect == Spec => []FileTypeOK
<1>1. Spec => []TransferInv
  BY TransferInit, TransferStep, PTL DEF Spec
<1>2. ASSUME TransferInv  PROVE FileTypeOK
  <2>1. /\ send_buffer.front \in 0 .. SendWindow - 1 /\ send_buffer.rear \in 0 .. SendWindow - 1
        /\ send_buffer.base \in [0 .. SendWindow - 1 -> Slots]
    BY <1>2 DEF TransferInv, ServerInv, Buffer
  <2>2. PICK S : S = [seq : Nat, ts : {0, 1}, sendline : 0 .. Junk, ack : Int]
    OBVIOUS
  <2>3. Slots \subseteq S
    BY <2>2 DEF Slots
  <2>4. send_buffer.base \in [0 .. SendWindow - 1 -> S]
    BY <2>1, <2>3
  <2>. QED  BY <1>2, <2>1, <2>2, <2>4 DEF FileTypeOK, TransferInv, NetInv, AckMsg, ServerInv,
                ReceivedInv, MemoryInv, Memory, ClientInv
<1>. QED  BY <1>1, <1>2, PTL

----------------------------------------------------------------------------
(* What the client holds, if its threads do not overlap *)

LEMMA ShownType ==
  ASSUME ClientInv
  PROVE  Shown \in Nat
BY DEF ClientInv, Shown

HeldSet == {k \in 1 .. FileLen : k <= Shown \/ \E a \in Addr \ free : heap[a].seq = k}

LEMMA HeldIs == ClientInv => Held = HeldSet
<1>. SUFFICES ASSUME ClientInv  PROVE Held = HeldSet
  OBVIOUS
<1>1. printed \in Nat
  BY DEF ClientInv
<1>2. ASSUME NEW k \in 1 .. FileLen
      PROVE  (k <= printed \/ (ppc = "count" /\ k = printed + 1)) <=> k <= Shown
  <2>1. k \in Nat
    BY Numbers
  <2>. QED  BY <1>1, <2>1 DEF Shown
<1>. QED  BY <1>2 DEF Held, Live, HeldSet

LEMMA HeldIsNext == ClientInv' => Held' = HeldSet'
<1>1. (ClientInv => Held = HeldSet)'
  BY HeldIs, PTL
<1>. QED  BY <1>1

LEMMA HeldStays ==
  ASSUME ClientInv, ClientInv', Shown' = Shown, UNCHANGED <<heap, free>>
  PROVE  Held' = Held
<1>1. HeldSet' = HeldSet
  BY DEF HeldSet
<1>. QED  BY <1>1, HeldIs, HeldIsNext

\* Acknowledgements and head speak of what is held: a larger set keeps them
\* true, and so does a new acknowledgement of nothing else.
LEMMA AcksStay ==
  ASSUME TransferInv, OrderInv, Held \subseteq Held', UNCHANGED head,
         \/ toSrv' = toSrv
         \/ \E m \in AckMsg : toSrv' = Append(toSrv, m) /\ Covered(m.seq) \subseteq Held
  PROVE  AcksInv' /\ AckedIsHeld'
<1>1. AckedIsHeld'
  BY DEF OrderInv, AckedIsHeld
<1>2. toSrv \in Seq(AckMsg) /\ AcksInv
  BY DEF TransferInv, NetInv, OrderInv
<1>3. CASE toSrv' = toSrv
  BY <1>1, <1>2, <1>3 DEF AcksInv, Covered
<1>4. ASSUME NEW m \in AckMsg, toSrv' = Append(toSrv, m), Covered(m.seq) \subseteq Held
      PROVE  AcksInv'
  <2>1. /\ Len(toSrv) \in Nat /\ Len(toSrv') = Len(toSrv) + 1 /\ toSrv'[Len(toSrv) + 1] = m
        /\ \A i \in 1 .. Len(toSrv) : toSrv'[i] = toSrv[i]
    BY <1>2, <1>4
  <2>2. ASSUME NEW i \in 1 .. Len(toSrv')  PROVE Covered(toSrv'[i].seq) \subseteq Held'
    <3>1. CASE i \in 1 .. Len(toSrv)
      BY <1>2, <2>1, <3>1 DEF AcksInv
    <3>2. CASE i = Len(toSrv) + 1
      BY <1>4, <2>1, <3>2
    <3>. QED  BY <2>1, <3>1, <3>2
  <2>. QED  BY <2>2 DEF AcksInv, Covered
<1>. QED  BY <1>1, <1>3, <1>4

\* A step of the client that leaves the list and what is printed alone.
LEMMA QuietOrder ==
  ASSUME TransferInv, TransferInv', OrderInv, Exclusive', Shown' = Shown,
         UNCHANGED <<heap, free, out, head>>,
         \/ toSrv' = toSrv
         \/ \E m \in AckMsg : toSrv' = Append(toSrv, m) /\ Covered(m.seq) \subseteq Held
  PROVE  OrderInv' /\ Held' = Held
<1>1. Held' = Held
  BY HeldStays DEF TransferInv
<1>2. AcksInv' /\ AckedIsHeld'
  BY <1>1, AcksStay
<1>3. FreeInv'
  BY DEF OrderInv, FreeInv
<1>4. PrintInv'
  BY DEF OrderInv, PrintInv
<1>. QED  BY <1>1, <1>2, <1>3, <1>4 DEF OrderInv

----------------------------------------------------------------------------
(* The steps of the child leave the client alone; they drop what is covered *)

Keeps == UNCHANGED <<toSrv, head>>

Drops ==
  /\ toSrv # <<>> /\ toSrv' = Tail(toSrv)
  /\ head' \in Nat /\ (head' <= head \/ head' <= Head(toSrv).seq)

LEMMA ServerOrder ==
  ASSUME TransferInv, TransferInv', OrderInv, UNCHANGED clientVars, Keeps \/ Drops
  PROVE  OrderInv' /\ Held' = Held /\ UNCHANGED out
<1>1. UNCHANGED <<cpc, heap, free, ppc, out, printed>>
  BY DEF clientVars, listVars, printVars
<1>2. Shown' = Shown /\ Held' = Held
  <2>1. Shown' = Shown
    BY <1>1 DEF Shown
  <2>. QED  BY <1>1, <2>1, HeldStays DEF TransferInv
<1>3. Exclusive' /\ FreeInv' /\ PrintInv'
  BY <1>1, <1>2 DEF OrderInv, Exclusive, Printing, First, FreeInv, PrintInv
<1>4. CASE Keeps
  <2>1. AcksInv' /\ AckedIsHeld'
    BY <1>2, <1>4, AcksStay DEF Keeps
  <2>. QED  BY <1>1, <1>2, <1>3, <2>1 DEF OrderInv
<1>5. CASE Drops
  <2>1. /\ toSrv \in Seq(AckMsg) /\ toSrv # <<>> /\ toSrv' = Tail(toSrv) /\ head \in Nat
        /\ head' \in Nat
    BY <1>5 DEF TransferInv, NetInv, ServerInv, Drops
  <2>2. /\ Len(toSrv) \in Nat /\ Len(toSrv') = Len(toSrv) - 1 /\ 1 \in 1 .. Len(toSrv)
        /\ Head(toSrv) = toSrv[1] /\ toSrv[1] \in AckMsg
        /\ \A i \in 1 .. Len(toSrv) - 1 : toSrv'[i] = toSrv[i + 1]
    BY ONLY <2>1
  <2>3. /\ Len(toSrv) \in Nat /\ Len(toSrv') = Len(toSrv) - 1 /\ 1 \in 1 .. Len(toSrv)
        /\ Head(toSrv) = toSrv[1] /\ toSrv[1].seq \in Nat
        /\ \A i \in 1 .. Len(toSrv') : i + 1 \in 1 .. Len(toSrv) /\ toSrv'[i] = toSrv[i + 1]
    BY ONLY <2>2 DEF AckMsg
  <2>4. AcksInv'
    BY <1>2, <2>3 DEF OrderInv, AcksInv, Covered
  <2>5. ASSUME NEW k \in 1 .. FileLen, k < head'  PROVE k \in Held
    <3>1. k < head \/ k < toSrv[1].seq
      BY <1>5, <2>1, <2>3, <2>5, Numbers DEF Drops
    <3>2. CASE k < head
      BY <3>2 DEF OrderInv, AckedIsHeld
    <3>3. CASE k < toSrv[1].seq
      BY <2>3, <3>3 DEF OrderInv, AcksInv, Covered
    <3>. QED  BY <3>1, <3>2, <3>3
  <2>6. AckedIsHeld'
    BY <1>2, <2>5 DEF AckedIsHeld
  <2>. QED  BY <1>1, <1>2, <1>3, <2>4, <2>6 DEF OrderInv
<1>. QED  BY <1>4, <1>5

LEMMA KeepingSteps ==
  ASSUME TransferInv,
         \/ Round \/ WindowClosed \/ Resend \/ SendNew \/ FastResend \/ TimeoutResend
         \/ Refused \/ Timeout \/ Probe
  PROVE  Keeps /\ spc # "end" /\ spc' # "end"
<1>1. CASE Round
  BY <1>1 DEF Round, SendNewData, Keeps, seqVars, netVars
<1>2. CASE WindowClosed
  BY <1>2 DEF WindowClosed, WaitForWindow, Keeps, seqVars, netVars
<1>3. CASE Resend
  BY <1>3 DEF Resend, SendNewData, Keeps, seqVars
<1>4. CASE SendNew
  BY <1>4 DEF SendNew, Keeps
<1>5. CASE FastResend
  BY <1>5 DEF FastResend, SendNewData, Keeps, seqVars
<1>6. CASE TimeoutResend
  BY <1>6 DEF TimeoutResend, Keeps, seqVars
<1>7. CASE Refused
  BY <1>7 DEF Refused, Running, Keeps, seqVars
<1>8. CASE Timeout
  BY <1>8 DEF Timeout, TimedOut, WaitForWindow, Keeps, seqVars, netVars
<1>9. CASE Probe
  BY <1>9 DEF Probe, Keeps, serverVars, seqVars
<1>. QED  BY <1>1, <1>2, <1>3, <1>4, <1>5, <1>6, <1>7, <1>8, <1>9

LEMMA DroppingSteps ==
  ASSUME TransferInv, RecvAck \/ RecvThirdAck \/ RecvWindow \/ TimeoutInAck
  PROVE  Drops /\ spc # "end" /\ spc' # "end"
<1>1. head \in Nat /\ NetInv
  BY DEF TransferInv, ServerInv
<1>2. toSrv # <<>> /\ toSrv' = Tail(toSrv)
  BY DEF RecvAck, RecvThirdAck, RecvWindow, TimeoutInAck
<1>3. PICK m \in AckMsg : m = Head(toSrv)
  BY <1>1, <1>2, TakeAck
<1>4. m.seq \in Nat
  BY <1>3 DEF AckMsg
<1>5. CASE RecvAck
  <2>1. head' = Max2(head, m.seq) /\ spc = "wait" /\ spc' \in {"top", "wait"}
    BY <1>3, <1>5 DEF RecvAck
  <2>. QED  BY <1>1, <1>2, <1>3, <1>4, <2>1 DEF Drops, Max2
<1>6. CASE RecvThirdAck
  <2>1. head' = Max2(head, m.seq) /\ spc = "wait" /\ spc' \in {"exited", "probe", "fast"}
    BY <1>3, <1>6 DEF RecvThirdAck, WaitForWindow
  <2>. QED  BY <1>1, <1>2, <1>3, <1>4, <2>1 DEF Drops, Max2
<1>7. CASE RecvWindow
  <2>1. head' = head /\ spc = "probe" /\ spc' \in {after, "probe"}
    BY <1>7 DEF RecvWindow, seqVars
  <2>. QED  BY <1>1, <1>2, <2>1 DEF Drops, TransferInv, ServerInv
<1>8. CASE TimeoutInAck
  <2>1. PICK n \in 1 .. m.seq - head : head' = head + n - 1
    BY <1>3, <1>8 DEF TimeoutInAck
  <2>2. head' \in Nat /\ head' <= m.seq
    BY <1>1, <1>4, <2>1
  <2>3. spc = "wait" /\ spc' \in {"exited", "probe", "timeout"}
    BY <1>8 DEF TimeoutInAck, TimedOut, WaitForWindow
  <2>. QED  BY <1>2, <1>3, <2>2, <2>3 DEF Drops
<1>. QED  BY <1>5, <1>6, <1>7, <1>8

\* The acknowledgement of the end comes when the client holds the whole file, if
\* the clock is not at 0.
LEMMA FinalStep ==
  ASSUME TransferInv, OrderInv, RecvFinalAck
  PROVE  /\ Drops /\ spc # "end" /\ spc' = "end"
         /\ 0 \notin Clock => Held = 1 .. FileLen
<1>1. Drops /\ spc # "end" /\ spc' = "end"
  BY DEF RecvFinalAck, seqVars, Drops, TransferInv, ServerInv
<1>2. 1 \in 1 .. Len(toSrv) /\ toSrv[1] = Head(toSrv)
  BY DEF RecvFinalAck, TransferInv, NetInv
<1>3. toSrv[1].seq = 0 /\ Covered(toSrv[1].seq) \subseteq Held
  BY <1>2 DEF RecvFinalAck, OrderInv, AcksInv
<1>4. Held \subseteq 1 .. FileLen
  BY DEF Held
<1>5. 0 \notin Clock => 1 .. FileLen \subseteq Covered(toSrv[1].seq)
  BY <1>3 DEF Covered
<1>. QED  BY <1>1, <1>3, <1>4, <1>5

----------------------------------------------------------------------------
(* The steps of the client's threads *)

LEMMA RecvProbeOrder ==
  ASSUME TransferInv, TransferInv', OrderInv, RecvProbe, UNCHANGED serverVars
  PROVE  OrderInv' /\ Held' = Held /\ UNCHANGED out
<1>1. /\ cpc' \in {"recv", "spin"} /\ UNCHANGED <<listVars, printVars, head>>
  BY DEF RecvProbe, serverVars, seqVars
<1>2. UNCHANGED <<heap, free, ppc, out, printed>>
  BY <1>1 DEF listVars, printVars
<1>3. Exclusive' /\ Shown' = Shown
  BY <1>1, <1>2 DEF OrderInv, Exclusive, Printing, First, Shown
<1>4. \/ toSrv' = toSrv
      \/ \E m \in AckMsg : toSrv' = Append(toSrv, m) /\ Covered(m.seq) \subseteq Held
  <2>1. CASE toSrv' = toSrv
    BY <2>1
  <2>2. CASE IsList(heap, header) /\ toSrv' = Append(toSrv, Ack(1, Advertised))
    <3>1. PICK m : m = Ack(1, Advertised)
      OBVIOUS
    <3>2. m \in AckMsg /\ m.seq = 1
      BY <2>2, <3>1, AdvertisedType DEF Ack, AckMsg
    <3>3. Covered(1) = {}
      BY Numbers DEF Covered
    <3>. QED  BY <2>2, <3>1, <3>2, <3>3
  <2>. QED  BY <2>1, <2>2 DEF RecvProbe
<1>. QED  BY <1>1, <1>2, <1>3, <1>4, QuietOrder

LEMMA RecvPacketOrder ==
  ASSUME ~Overlap, TransferInv, TransferInv', OrderInv, RecvPacket, UNCHANGED serverVars
  PROVE  OrderInv' /\ Held' = Held /\ UNCHANGED out
<1>1. UNCHANGED <<listVars, printVars, toSrv, head>>
  BY DEF RecvPacket, serverVars, seqVars
<1>2. UNCHANGED <<heap, free, ppc, out, printed>>
  BY <1>1 DEF listVars, printVars
<1>3. cpc' = "link" => ~Printing
  BY DEF RecvPacket, MayUseList
<1>4. Exclusive' /\ Shown' = Shown
  BY <1>2, <1>3 DEF OrderInv, Exclusive, Printing, First, Shown
<1>. QED  BY <1>1, <1>2, <1>4, QuietOrder

\* What NextAck counts is in memory that is not free.
LEMMA NextAckHeld ==
  ASSUME TransferInv, OrderInv, ~Printing, NEW k \in 1 .. FileLen,
         k < NextAck(heap, header, printed)
  PROVE  k \in Held
<1>1. heap \in Memory /\ printed \in Nat /\ ClientInv /\ k \in Nat
  BY Numbers DEF TransferInv, MemoryInv, ClientInv
<1>2. Shown = printed
  BY DEF Printing, Shown
<1>3. CASE k <= printed
  BY <1>1, <1>2, <1>3, HeldIs DEF HeldSet
<1>4. CASE k > printed
  <2>1. PICK ack \in Nat :
          /\ ack = NextAck(heap, header, printed)
          /\ \A i \in printed + 1 .. ack - 1 : \E a \in Addr : heap[a].seq = i
    BY <1>1, NextAckIs
  <2>2. k \in printed + 1 .. ack - 1
    BY <1>1, <1>4, <2>1
  <2>3. PICK a \in Addr : heap[a].seq = k
    BY <2>1, <2>2
  <2>4. a \notin free
    BY <1>1, <1>2, <1>4, <2>3 DEF OrderInv, FreeInv
  <2>. QED  BY <1>1, <2>3, <2>4, HeldIs DEF HeldSet
<1>. QED  BY <1>1, <1>3, <1>4

\* Only the last packet says that it is the last, if the clock is not at 0.
LEMMA FinalHeld ==
  ASSUME TransferInv, OrderInv, ~Printing, cpc = "ack", Final, 0 \notin Clock,
         NEW k \in 1 .. FileLen
  PROVE  k \in Held
<1>1. rseq \in Nat /\ rseq # 0 /\ Stamped(rseq, rts)
  BY DEF TransferInv, ReceivedInv
<1>2. rseq >= FileLen
  BY <1>1, Numbers DEF Stamped, Final
<1>3. k < NextAck(heap, header, printed)
  BY <1>1, <1>2, Numbers DEF Final
<1>. QED  BY <1>3, NextAckHeld

LEMMA SendAckOrder ==
  ASSUME ~Overlap, TransferInv, TransferInv', OrderInv, SendAck, UNCHANGED serverVars
  PROVE  OrderInv' /\ Held' = Held /\ UNCHANGED out
<1>1. /\ cpc = "ack" /\ cpc' \in {"recv", "confirm", "spin"} /\ ~Printing
      /\ UNCHANGED <<listVars, printVars, head>>
  BY DEF SendAck, MayUseList, serverVars, seqVars
<1>2. UNCHANGED <<heap, free, ppc, out, printed>>
  BY <1>1 DEF listVars, printVars
<1>3. Exclusive' /\ Shown' = Shown
  BY <1>1, <1>2 DEF OrderInv, Exclusive, Printing, First, Shown
<1>4. \/ toSrv' = toSrv
      \/ \E m \in AckMsg : toSrv' = Append(toSrv, m) /\ Covered(m.seq) \subseteq Held
  <2>1. PICK n : n = IF Final THEN 0 ELSE NextAck(heap, header, printed)
    OBVIOUS
  <2>2. NextAck(heap, header, printed) \in Nat /\ NextAck(heap, header, printed) > printed
        /\ printed \in Nat
    BY NextAckIs DEF TransferInv, MemoryInv, ClientInv
  <2>3. n \in Nat
    BY <2>1, <2>2
  <2>4. ASSUME NEW k \in Covered(n)  PROVE k \in Held
    <3>1. k \in 1 .. FileLen /\ (k < n \/ (n = 0 /\ 0 \notin Clock))
      BY DEF Covered
    <3>2. CASE Final
      <4>1. n = 0 /\ k \in Nat /\ k > 0
        BY <2>1, <3>1, <3>2, Numbers
      <4>2. 0 \notin Clock
        BY <3>1, <4>1
      <4>. QED  BY <1>1, <3>1, <3>2, <4>2, FinalHeld
    <3>3. CASE ~Final
      <4>1. n = NextAck(heap, header, printed)
        BY <2>1, <3>3
      <4>2. k < n
        BY <2>2, <3>1, <4>1
      <4>. QED  BY <1>1, <3>1, <4>1, <4>2, NextAckHeld
    <3>. QED  BY <3>2, <3>3
  <2>5. CASE toSrv' = toSrv
    BY <2>5
  <2>6. CASE IsList(heap, header) /\ toSrv' = Append(toSrv, Ack(n, Advertised))
    <3>1. PICK m : m = Ack(n, Advertised)
      OBVIOUS
    <3>2. m \in AckMsg /\ m.seq = n
      BY <2>3, <2>6, <3>1, AdvertisedType DEF Ack, AckMsg
    <3>. QED  BY <2>4, <2>6, <3>1, <3>2
  <2>. QED  BY <2>1, <2>5, <2>6 DEF SendAck
<1>. QED  BY <1>1, <1>2, <1>3, <1>4, QuietOrder

LEMMA EndOrder ==
  ASSUME TransferInv, TransferInv', OrderInv, Confirm \/ Finish, UNCHANGED serverVars
  PROVE  OrderInv' /\ Held' = Held /\ UNCHANGED out
<1>1. /\ cpc' \in {"finish", "done"} /\ UNCHANGED <<toSrv, listVars, printVars, head>>
  BY DEF Confirm, Finish, serverVars, seqVars
<1>2. UNCHANGED <<heap, free, ppc, out, printed>>
  BY <1>1 DEF listVars, printVars
<1>3. Exclusive' /\ Shown' = Shown
  BY <1>1, <1>2 DEF OrderInv, Exclusive, Printing, First, Shown
<1>. QED  BY <1>1, <1>2, <1>3, QuietOrder

\* print_out looks at the list, or counts what it has printed.
LEMMA LookOrder ==
  ASSUME ~Overlap, TransferInv, TransferInv', OrderInv,
         Wake \/ TestFirst \/ CountPrinted \/ TestFlag, UNCHANGED serverVars
  PROVE  OrderInv' /\ Held' = Held /\ UNCHANGED out
<1>1. UNCHANGED <<cpc, toSrv, heap, free, out, head>>
  BY DEF Wake, TestFirst, CountPrinted, TestFlag, netVars, listVars, serverVars, seqVars
<1>2. Shown' = Shown
  BY DEF Wake, TestFirst, CountPrinted, TestFlag, Shown
<1>3. Exclusive'
  <2>1. CASE TestFirst
    <3>1. /\ ppc' = "print" => heap[First].seq = printed + 1
          /\ ppc' # "count" /\ cpc # "link" /\ UNCHANGED printed
      BY <2>1 DEF TestFirst
    <3>. QED  BY <1>1, <3>1 DEF Exclusive, Printing, First
  <2>2. CASE ~TestFirst
    <3>1. ppc' \notin {"print", "count"}
      BY <2>2 DEF Wake, CountPrinted, TestFlag
    <3>. QED  BY <3>1 DEF Exclusive, Printing
  <2>. QED  BY <2>1, <2>2
<1>. QED  BY <1>1, <1>2, <1>3, QuietOrder

\* A new node holds what has just been received, and no other is lost: the memory
\* it takes held nothing that is still to be printed.
LEMMA LinkOrder ==
  ASSUME TransferInv, TransferInv', OrderInv, Link, UNCHANGED serverVars
  PROVE  /\ OrderInv' /\ UNCHANGED out
         /\ Held' = Held \/ (rseq \in 1 .. FileLen /\ Held' = Held \cup {rseq})
<1>1. PICK a \in free :
        /\ heap' = [[heap EXCEPT ![a] = [seq |-> rseq, data |-> rdata,
                       next |-> IF temp # NULL \/ place = header THEN temp ELSE heap[a].next]]
                      EXCEPT ![place].next = a]
        /\ free' = free \ {a}
  BY DEF Link
<1>2. a \in Addr /\ heap \in Memory /\ temp \in Pointer /\ free \subseteq Addr
  BY DEF TransferInv, MemoryInv, ClientInv
<1>3. PICK next : next = IF temp # NULL \/ place = header THEN temp ELSE heap[a].next
  OBVIOUS
<1>4. next \in Pointer
  BY <1>2, <1>3 DEF Memory, Node
<1>5. \A b \in Addr : heap'[b].seq = IF b = a THEN rseq ELSE heap[b].seq
  BY <1>1, <1>3, <1>4, LinkMemory
<1>6. /\ cpc = "link" /\ cpc' = "ack" /\ UNCHANGED <<toSrv, ppc, out, printed, head>>
  BY DEF Link, netVars, printVars, serverVars, seqVars
<1>7. ~Printing /\ Shown = printed /\ Shown' = Shown /\ Exclusive'
  BY <1>6 DEF OrderInv, Exclusive, Printing, Shown
<1>8. FreeInv' /\ PrintInv'
  <2>1. \A b \in free' : b \in free /\ heap'[b].seq = heap[b].seq
    BY <1>1, <1>2, <1>5
  <2>. QED  BY <1>6, <1>7, <2>1 DEF OrderInv, FreeInv, PrintInv
<1>9. HeldSet' = HeldSet \cup ({rseq} \cap (1 .. FileLen))
  <2>1. ASSUME NEW k \in 1 .. FileLen
        PROVE  (\E b \in Addr \ free' : heap'[b].seq = k)
                 <=> ((\E b \in Addr \ free : heap[b].seq = k) \/ k = rseq)
    <3>1. ASSUME NEW b \in Addr \ free', heap'[b].seq = k
          PROVE  (\E c \in Addr \ free : heap[c].seq = k) \/ k = rseq
      BY <1>1, <1>5, <3>1
    <3>2. ASSUME NEW b \in Addr \ free, heap[b].seq = k
          PROVE  \E c \in Addr \ free' : heap'[c].seq = k
      BY <1>1, <1>5, <3>2
    <3>3. ASSUME k = rseq  PROVE \E c \in Addr \ free' : heap'[c].seq = k
      BY <1>1, <1>2, <1>5, <3>3
    <3>. QED  BY <3>1, <3>2, <3>3
  <2>. QED  BY <1>7, <2>1 DEF HeldSet
<1>10. Held' = Held \/ (rseq \in 1 .. FileLen /\ Held' = Held \cup {rseq})
  <2>1. Held = HeldSet /\ Held' = HeldSet'
    BY HeldIs, HeldIsNext DEF TransferInv
  <2>. QED  BY <1>9, <2>1
<1>11. AcksInv' /\ AckedIsHeld'
  <2>1. Held \subseteq Held'
    BY <1>10
  <2>. QED  BY <1>6, <2>1, AcksStay
<1>. QED  BY <1>6, <1>7, <1>8, <1>10, <1>11 DEF OrderInv

\* The first node is the next packet of the file, and stays held while it is
\* printed and counted.
LEMMA PrintFirstOrder ==
  ASSUME TransferInv, TransferInv', OrderInv, PrintFirst, UNCHANGED serverVars
  PROVE  /\ OrderInv' /\ Held' = Held
         /\ \/ UNCHANGED out
            \/ Len(out) + 1 \in Held /\ out' = Append(out, Len(out) + 1)
<1>1. /\ First \in Addr /\ heap' \in Memory /\ free' = free \cup {First}
      /\ \A b \in Addr : heap'[b] = heap[b]
  BY PrintMemory
<1>2. ppc = "print" /\ ppc' = "count" /\ UNCHANGED <<cpc, toSrv, printed, head>>
  BY DEF PrintFirst, netVars, serverVars, seqVars
<1>3. Shown = printed /\ Shown' = Shown + 1 /\ Shown \in Nat /\ Shown + 1 < BigSeq
  BY <1>2 DEF Shown, OrderInv, PrintInv, TransferInv, ClientInv
<1>4. /\ heap[First].seq = Shown + 1 /\ First \notin free /\ free \subseteq Addr
      /\ Sound(heap[First].seq, heap[First].data) /\ cpc # "link"
  <2>1. heap[First].seq = Shown + 1 /\ cpc # "link"
    BY <1>2, <1>3 DEF OrderInv, Exclusive, Printing
  <2>2. First \notin free
    BY <1>3, <2>1 DEF OrderInv, FreeInv
  <2>. QED  BY <1>1, <2>1, <2>2 DEF TransferInv, MemoryInv
<1>5. /\ Shown + 2 < BigSeq
      /\ heap[First].data = IF Shown + 1 \in 1 .. FileLen THEN Shown + 1 ELSE Empty
  BY <1>3, <1>4, Numbers DEF Sound
<1>6. HeldSet' = HeldSet
  <2>1. ASSUME NEW k \in 1 .. FileLen
        PROVE  (k <= Shown + 1 \/ \E b \in Addr \ free' : heap'[b].seq = k)
                 <=> (k <= Shown \/ \E b \in Addr \ free : heap[b].seq = k)
    <3>1. k \in Nat
      BY Numbers
    <3>2. ASSUME NEW b \in Addr \ free', heap'[b].seq = k
          PROVE  \E c \in Addr \ free : heap[c].seq = k
      BY <1>1, <3>2
    <3>3. ASSUME k = Shown + 1  PROVE \E c \in Addr \ free : heap[c].seq = k
      BY <1>1, <1>4, <3>3
    <3>4. ASSUME NEW b \in Addr \ free, heap[b].seq = k
          PROVE  k <= Shown + 1 \/ \E c \in Addr \ free' : heap'[c].seq = k
      <4>1. CASE b = First
        BY <1>3, <1>4, <3>1, <3>4, <4>1
      <4>2. CASE b # First
        BY <1>1, <3>4, <4>2
      <4>. QED  BY <4>1, <4>2
    <3>. QED  BY <1>3, <3>1, <3>2, <3>3, <3>4
  <2>. QED  BY <1>3, <2>1 DEF HeldSet
<1>7. Held' = Held /\ Held = HeldSet
  BY <1>6, HeldIs, HeldIsNext DEF TransferInv
<1>8. AcksInv' /\ AckedIsHeld'
  BY <1>2, <1>7, AcksStay
<1>9. Exclusive'
  BY <1>2, <1>4 DEF Exclusive, Printing
<1>10. FreeInv'
  <2>1. ASSUME NEW b \in free'  PROVE heap'[b].seq <= Shown'
    <3>1. CASE b = First
      BY <1>1, <1>3, <1>4, <3>1
    <3>2. CASE b # First
      <4>1. b \in free /\ heap'[b] = heap[b] /\ heap[b].seq \in Nat
        BY <1>1, <1>4, <3>2 DEF TransferInv, MemoryInv, Memory, Node
      <4>2. heap[b].seq <= Shown
        BY <4>1 DEF OrderInv, FreeInv
      <4>. QED  BY <1>3, <4>1, <4>2
    <3>. QED  BY <3>1, <3>2
  <2>. QED  BY <2>1 DEF FreeInv
<1>11. /\ Len(out) \in Nat /\ Len(out) = Min2(Shown, FileLen)
       /\ \A i \in 1 .. Len(out) : out[i] = i
  BY DEF OrderInv, PrintInv, TransferInv, ClientInv
<1>12. CASE Shown + 1 <= FileLen
  <2>1. Len(out) = Shown /\ out' = Append(out, Len(out) + 1) /\ Len(out) + 1 \in 1 .. FileLen
    BY <1>3, <1>5, <1>11, <1>12, Numbers DEF PrintFirst, Min2
  <2>2. PICK S : S = 0 .. Junk
    OBVIOUS
  <2>3. out \in Seq(S)
    BY <2>2 DEF TransferInv, ClientInv
  <2>4. /\ Len(out') = Len(out) + 1 /\ out'[Len(out) + 1] = Len(out) + 1
        /\ \A i \in 1 .. Len(out) : out'[i] = out[i]
    BY ONLY <2>1, <2>3
  <2>5. \A i \in 1 .. Len(out') : out'[i] = i
    BY <1>11, <2>4
  <2>6. Len(out') = Min2(Shown', FileLen)
    BY <1>3, <1>11, <1>12, <2>1, <2>4, Numbers DEF Min2
  <2>7. PrintInv'
    BY <1>3, <1>5, <2>5, <2>6 DEF PrintInv, Min2
  <2>8. Len(out) + 1 \in Held
    BY <1>1, <1>4, <1>7, <2>1 DEF HeldSet
  <2>. QED  BY <1>7, <1>8, <1>9, <1>10, <2>1, <2>7, <2>8 DEF OrderInv
<1>13. CASE ~(Shown + 1 <= FileLen)
  <2>1. UNCHANGED out
    BY <1>3, <1>5, <1>13, Numbers DEF PrintFirst
  <2>2. Min2(Shown', FileLen) = Min2(Shown, FileLen)
    BY <1>3, <1>13, Numbers DEF Min2
  <2>3. PrintInv'
    BY <1>3, <1>5, <1>11, <2>1, <2>2 DEF PrintInv, Min2
  <2>. QED  BY <1>7, <1>8, <1>9, <1>10, <2>1, <2>3 DEF OrderInv
<1>. QED  BY <1>12, <1>13

----------------------------------------------------------------------------
(* Order and delivery *)

LEMMA OrderInit ==
  ASSUME Init
  PROVE  OrderInv /\ Held = {}
<1>1. TransferInv
  BY TransferInit
<1>2. /\ ppc = "sleep" /\ printed = 0 /\ free = Addr /\ cpc = "recv" /\ out = <<>>
      /\ toSrv = <<>> /\ head = 1
      /\ heap = [a \in Addr \cup {header} |-> [seq |-> 0, data |-> Empty, next |-> NULL]]
  BY DEF Init, ServerInit, ClientInit
<1>3. Shown = 0 /\ \A a \in Addr : heap[a].seq = 0
  BY <1>2 DEF Shown
<1>4. Held = {}
  BY <1>1, <1>2, <1>3, HeldIs, Numbers DEF HeldSet, TransferInv
<1>5. Exclusive /\ FreeInv
  BY <1>2, <1>3 DEF Exclusive, Printing, FreeInv
<1>6. PrintInv
  BY <1>2, <1>3, Numbers DEF PrintInv, Min2
<1>7. AcksInv /\ AckedIsHeld
  BY <1>2, Numbers DEF AcksInv, AckedIsHeld
<1>. QED  BY <1>4, <1>5, <1>6, <1>7 DEF OrderInv

\* What a step of the transfer is to the packets that are held and delivered.
Idle(closes) == Held' = Held /\ UNCHANGED out /\ ((spc' = "end") <=> (spc = "end" \/ closes))

Effect ==
  \/ Idle(FALSE)
  \/ Idle(TRUE) /\ (0 \notin Clock => Held = 1 .. FileLen)
  \/ /\ \E k \in 1 .. FileLen : Held' = Held \cup {k}
     /\ UNCHANGED <<out, spc>>
  \/ /\ Len(out) + 1 \in Held /\ out' = Append(out, Len(out) + 1)
     /\ Held' = Held /\ UNCHANGED spc

LEMMA OrderStep ==
  ASSUME ~Overlap, TransferInv, TransferInv', OrderInv, [Next]_vars
  PROVE  OrderInv' /\ Effect
<1>. USE DEF ServerStep, TimerStep, ReceiverStep, PrinterStep
<1>1. CASE ServerStep \/ TimerStep
  <2>1. UNCHANGED clientVars
    BY <1>1 DEF Refused
  <2>2. CASE RecvFinalAck
    <3>1. /\ Drops /\ spc # "end" /\ spc' = "end"
          /\ 0 \notin Clock => Held = 1 .. FileLen
      BY <2>2, FinalStep
    <3>2. OrderInv' /\ Held' = Held /\ UNCHANGED out
      BY <2>1, <3>1, ServerOrder
    <3>. QED  BY <3>1, <3>2 DEF Effect, Idle
  <2>3. CASE ~RecvFinalAck
    <3>1. (Keeps \/ Drops) /\ spc # "end" /\ spc' # "end"
      BY <1>1, <2>3, KeepingSteps, DroppingSteps
    <3>2. OrderInv' /\ Held' = Held /\ UNCHANGED out
      BY <2>1, <3>1, ServerOrder
    <3>. QED  BY <3>1, <3>2 DEF Effect, Idle
  <2>. QED  BY <2>2, <2>3
<1>2. CASE ReceiverStep \/ PrinterStep
  <2>1. UNCHANGED serverVars /\ UNCHANGED spc
    BY <1>2 DEF serverVars
  <2>2. CASE Link
    <3>1. /\ OrderInv' /\ UNCHANGED out
          /\ Held' = Held \/ (rseq \in 1 .. FileLen /\ Held' = Held \cup {rseq})
      BY <2>1, <2>2, LinkOrder
    <3>. QED  BY <2>1, <3>1 DEF Effect, Idle
  <2>3. CASE PrintFirst
    <3>1. /\ OrderInv' /\ Held' = Held
          /\ \/ UNCHANGED out
             \/ Len(out) + 1 \in Held /\ out' = Append(out, Len(out) + 1)
      BY <2>1, <2>3, PrintFirstOrder
    <3>. QED  BY <2>1, <3>1 DEF Effect, Idle
  <2>4. CASE ~Link /\ ~PrintFirst
    <3>1. OrderInv' /\ Held' = Held /\ UNCHANGED out
      BY <1>2, <2>1, <2>4, RecvProbeOrder, RecvPacketOrder, SendAckOrder, EndOrder, LookOrder
    <3>. QED  BY <2>1, <3>1 DEF Effect, Idle
  <2>. QED  BY <2>2, <2>3, <2>4
<1>3. CASE UNCHANGED vars
  <2>1. UNCHANGED <<spc, clientVars>> /\ Keeps
    BY <1>3 DEF vars, serverVars, seqVars, netVars, Keeps
  <2>2. OrderInv' /\ Held' = Held /\ UNCHANGED out
    BY <2>1, ServerOrder
  <2>. QED  BY <2>1, <2>2 DEF Effect, Idle
<1>. QED  BY <1>1, <1>2, <1>3 DEF Next

LEMMA OrderAlways ==
  ASSUME ~Overlap
  PROVE  Spec => [](TransferInv /\ OrderInv)
<1>1. Init => TransferInv /\ OrderInv
  BY TransferInit, OrderInit
<1>2. TransferInv /\ OrderInv /\ [Next]_vars => (TransferInv /\ OrderInv)'
  BY TransferStep, OrderStep
<1>. QED  BY <1>1, <1>2, PTL DEF Spec

\* If the threads of the client do not overlap in their use of the list, what is
\* printed is the file as far as it goes, each packet once, whatever is lost,
\* sent again or read behind the queue of the child.
THEOREM PrintedInOrder ==
  ASSUME ~Overlap
  PROVE  Spec => []PrintsInOrder
<1>1. ASSUME TransferInv, OrderInv  PROVE PrintsInOrder
  <2>1. PICK S : S = 0 .. Junk
    OBVIOUS
  <2>2. out \in Seq(S) /\ \A i \in 1 .. Len(out) : out[i] = i
    BY <1>1, <2>1 DEF TransferInv, ClientInv, OrderInv, PrintInv
  <2>3. out = [i \in 1 .. Len(out) |-> out[i]]
    BY ONLY <2>2
  <2>. QED  BY <2>2, <2>3 DEF PrintsInOrder
<1>. QED  BY <1>1, OrderAlways, PTL

\* The child drops a packet from its queue only when the client holds it, also
\* when SIGALRM strikes in the middle of an acknowledgement.
THEOREM DroppedIsHeld ==
  ASSUME ~Overlap
  PROVE  Spec => []AckedIsHeld
<1>1. ASSUME TransferInv, OrderInv  PROVE AckedIsHeld
  BY <1>1 DEF OrderInv
<1>. QED  BY <1>1, OrderAlways, PTL

\* The transfer implements reliable delivery, if the threads do not overlap and
\* rtt_ts() does not return the 0 that marks the end of the file.
THEOREM TransferDelivers ==
  ASSUME ~Overlap, 0 \notin Clock
  PROVE  Spec => DeliverySpec
<1>1. ASSUME Init  PROVE D!Init
  <2>1. Held = {}
    BY <1>1, OrderInit
  <2>2. out = <<>> /\ spc = "top"
    BY <1>1 DEF Init, ServerInit, ClientInit
  <2>3. (spc = "end") = FALSE
    BY ONLY <2>2
  <2>. QED  BY ONLY <2>1, <2>2, <2>3 DEF D!Init
<1>2. TransferInv /\ TransferInv' /\ OrderInv /\ [Next]_vars => [D!Next]_(D!vars)
  <2>. SUFFICES ASSUME Effect  PROVE [D!Next]_(D!vars)
    BY OrderStep
  <2>1. CASE Idle(FALSE)
    BY <2>1 DEF Idle, D!vars
  <2>2. CASE Idle(TRUE) /\ Held = 1 .. FileLen
    BY <2>2 DEF Idle, D!Next, D!Close
  <2>3. CASE \E k \in 1 .. FileLen : Held' = Held \cup {k} /\ UNCHANGED <<out, spc>>
    BY <2>3 DEF D!Next, D!Receive
  <2>4. CASE /\ Len(out) + 1 \in Held /\ out' = Append(out, Len(out) + 1)
             /\ Held' = Held /\ UNCHANGED spc
    BY <2>4 DEF D!Next, D!Deliver
  <2>. QED  BY <2>1, <2>2, <2>3, <2>4 DEF Effect
<1>. QED  BY <1>1, <1>2, OrderAlways, PTL DEF Spec, DeliverySpec, D!Spec
=============================================================================
