--------------------------- MODULE EchoTime_proofs ---------------------------
(***************************************************************************)
(* What the clients, their children, the server and its threads keep of    *)
(* each other in module EchoTime, for any number of users, sessions and    *)
(* lines and any size of buffers.                                          *)
(***************************************************************************)
EXTENDS EchoTime, SequenceTheorems, TLAPS

Item == (Nat \X Nat) \cup {"time"}

Message == {"", "killed", "no window", "not ready", "echoed", "time", "prematurely",
            "terminated", "no more", "forwarded"}

KidRec ==
  [pc : {"connect", "select", "tell", "look", "send", "gone"}, ready : BOOLEAN,
   echo_flag : BOOLEAN, msg : Message, line : Nat]

ThreadRec(n) ==
  [pc : {"start", "read", "write", "done"}, service : Service, fd : 1 .. n, buf : Seq(Item)]

CliEnds == {"none", "open", "shut", "closed", "resetting", "reset"}

SrvEnds == {"none", "open", "closed", "reset"}

Types ==
  /\ parent \in [User -> {"prompt", "select", "gone"}]
  /\ stdinEof \in [User -> BOOLEAN] /\ sigchld \in [User -> BOOLEAN]
  /\ session \in Seq([of : User, service : Service])
  /\ kid \in [Session -> KidRec] /\ pipe \in [Session -> Seq(Message)]
  /\ shown \in [Session -> Seq(Item)]
  /\ c2s \in [Session -> Seq(Item)] /\ s2c \in [Session -> Seq(Item)]
  /\ cliEnd \in [Session -> CliEnds] /\ srvEnd \in [Session -> SrvEnds]
  /\ main \subseteq Service /\ backlog \in [Service -> Seq(Session)]
  /\ thread \in Seq(ThreadRec(Len(session)))
  /\ server \in {"up", "killed", "died"}

CapOK(k) == Len(pipe[k]) <= PipeCap /\ Len(c2s[k]) <= SockCap /\ Len(s2c[k]) <= SockCap

Caps == \A k \in Session : CapOK(k)

Threads == 1 .. Len(thread)

Live(k) == cliEnd[k] \in {"open", "shut"}

\* A child and the two ends of its connection.
KidOK(k) ==
  /\ kid[k].pc = "connect" =>
       /\ cliEnd[k] = "none" /\ srvEnd[k] # "open" /\ kid[k].line = 0
       /\ shown[k] = <<>> /\ c2s[k] = <<>> /\ s2c[k] = <<>>
  /\ Live(k) <=> (kid[k].pc \notin {"connect", "gone"} /\ cliEnd[k] # "none")
  /\ kid[k].pc \in {"select", "look", "send"} => cliEnd[k] # "none"
  /\ kid[k].pc = "tell" /\ Leaves(kid[k].msg) => srvEnd[k] # "open"
  /\ kid[k].msg = "killed" => kid[k].pc = "gone"
  /\ kid[k].pc = "tell" /\ kid[k].msg # "not ready" => cliEnd[k] # "none"
  /\ cliEnd[k] \in {"closed", "resetting", "reset"} => srvEnd[k] # "open" \/ kid[k].msg = "killed"

KidsOK == \A k \in Session : KidOK(k)

\* A thread and the connection it serves, which is no other thread's.
ThreadsOK ==
  /\ \A t \in Threads :
       /\ thread[t].service = session[thread[t].fd].service
       /\ cliEnd[thread[t].fd] # "none"
       /\ thread[t].pc # "done" => srvEnd[thread[t].fd] = "open"
       /\ thread[t].pc \in {"start", "read"} => thread[t].buf = <<>>
       /\ thread[t].pc = "write" => thread[t].buf # <<>>
  /\ \A t, u \in Threads : thread[t].fd = thread[u].fd => t = u

\* A connection that waits is open at the server's end, waits once and for its
\* own service, and has no thread yet.
BacklogOK ==
  \A s \in Service : \A i \in 1 .. Len(backlog[s]) :
    /\ session[backlog[s][i]].service = s
    /\ cliEnd[backlog[s][i]] # "none" /\ srvEnd[backlog[s][i]] = "open"
    /\ \A t \in Threads : thread[t].fd # backlog[s][i]
    /\ \A j \in 1 .. Len(backlog[s]) : backlog[s][j] = backlog[s][i] => j = i

\* Lines of session k from number n + 1 on.
LinesFrom(s, k, n) == \A i \in 1 .. Len(s) : s[i] = <<k, n + i>>

\* The lines that the child has sent.
Sent(k) == IF kid[k].pc = "send" THEN kid[k].line - 1 ELSE kid[k].line

Served(k, t) ==
  LET n == Len(shown[k]) + Len(s2c[k])
  IN  /\ LinesFrom(thread[t].buf, k, n)
      /\ LinesFrom(c2s[k], k, n + Len(thread[t].buf))
      /\ Sent(k) = n + Len(thread[t].buf) + Len(c2s[k])

Unserved(k) ==
  /\ shown[k] = <<>> /\ s2c[k] = <<>> /\ LinesFrom(c2s[k], k, 0)
  /\ Sent(k) = Len(c2s[k])

\* A line of an echo session is in one place: shown, on its way back, in the thread's
\* buffer, on its way to the server, or in the hands of the child.
InOrder(k) ==
  /\ LinesFrom(shown[k], k, 0)
  /\ session[k].service = "echo" => LinesFrom(s2c[k], k, Len(shown[k]))
  /\ session[k].service = "echo" /\ Live(k) /\ srvEnd[k] = "open" =>
       /\ \A t \in Threads : thread[t].fd = k => Served(k, t)
       /\ (\A t \in Threads : thread[t].fd # k) => Unserved(k)

OrderOK == \A k \in Session : InOrder(k)

SomeKilled == \E k \in Session : kid[k].msg = "killed"

\* What the server found is still there unless a child was killed.
DeathOK ==
  /\ \A s \in main : backlog[s] = <<>> => SomeKilled
  /\ server = "died" => SomeKilled

CurrentOK == \A u \in User : Current(u) = 0 \/ Current(u) \in Session

----------------------------------------------------------------------------
(* What the provers need to know of the operators *)

LEMMA ItemIs == "time" \in Item /\ \A k, n \in Nat : <<k, n>> \in Item
BY DEF Item

LEMMA SessionIs ==
  ASSUME Types
  PROVE  /\ Len(session) \in Nat /\ Session = 1 .. Len(session)
         /\ \A k \in Session : k \in Nat /\ session[k] \in [of : User, service : Service]
<1>1. session \in Seq([of : User, service : Service])
  BY DEF Types
<1>2. Len(session) \in Nat /\ Session = 1 .. Len(session)
  BY <1>1 DEF Session
<1>3. \A k \in 1 .. Len(session) : session[k] \in [of : User, service : Service]
  BY <1>1, ElementOfSeq
<1>. QED  BY <1>2, <1>3

Upto(f, n, S) == f \in [1 .. n -> S]

Grows(g, f, n, e) == g[n + 1] = e /\ \A i \in 1 .. n : g[i] = f[i]

LEMMA AppendIs ==
  ASSUME NEW n \in Nat, NEW S, NEW f, Upto(f, n, S), NEW e \in S
  PROVE  Upto(Append(f, e), n + 1, S) /\ Grows(Append(f, e), f, n, e)
<1>1. f \in Seq(S) /\ Len(f) = n
  BY DEF Upto
<1>. DEFINE g == Append(f, e)
<1>2. /\ g \in Seq(S) /\ Len(g) = n + 1 /\ g[n + 1] = e
      /\ \A i \in 1 .. n : g[i] = f[i]
  BY <1>1, AppendProperties
<1>. HIDE DEF g
<1>3. g \in [1 .. Len(g) -> S]
  BY <1>2, LenProperties
<1>4. g \in [1 .. n + 1 -> S]
  BY <1>2, <1>3
<1>. QED  BY <1>2, <1>4 DEF g, Upto, Grows

LEMMA CutIs ==
  ASSUME NEW S, NEW q \in Seq(S), NEW n \in 1 .. Len(q)
  PROVE  /\ SubSeq(q, 1, n) \in Seq(S) /\ Len(SubSeq(q, 1, n)) = n
         /\ \A i \in 1 .. n : SubSeq(q, 1, n)[i] = q[i]
         /\ SubSeq(q, n + 1, Len(q)) \in Seq(S)
         /\ Len(SubSeq(q, n + 1, Len(q))) = Len(q) - n
         /\ \A i \in 1 .. Len(q) - n : SubSeq(q, n + 1, Len(q))[i] = q[n + i]
<1>1. n \in Int /\ Len(q) \in Nat /\ n <= Len(q) /\ 1 <= n
  OBVIOUS
<1>2. \A i \in 1 .. Len(q) : q[i] \in S
  BY ElementOfSeq
<1>3. /\ SubSeq(q, 1, n) \in Seq(S) /\ Len(SubSeq(q, 1, n)) = IF 1 <= n THEN n - 1 + 1 ELSE 0
      /\ \A i \in 1 .. n - 1 + 1 : SubSeq(q, 1, n)[i] = q[1 + i - 1]
  <2>1. \A i \in 1 .. n : q[i] \in S
    BY <1>1, <1>2
  <2>. QED  BY <1>1, <2>1, SubSeqProperties
<1>4. /\ SubSeq(q, n + 1, Len(q)) \in Seq(S)
      /\ Len(SubSeq(q, n + 1, Len(q))) = IF n + 1 <= Len(q) THEN Len(q) - (n + 1) + 1 ELSE 0
      /\ \A i \in 1 .. Len(q) - (n + 1) + 1 : SubSeq(q, n + 1, Len(q))[i] = q[n + 1 + i - 1]
  <2>1. \A i \in n + 1 .. Len(q) : q[i] \in S
    BY <1>1, <1>2
  <2>2. n + 1 \in Int /\ Len(q) \in Int
    BY <1>1
  <2>. QED  BY <2>1, <2>2, SubSeqProperties
<1>5. /\ SubSeq(q, 1, n) \in Seq(S) /\ Len(SubSeq(q, 1, n)) = n
      /\ \A i \in 1 .. n : SubSeq(q, 1, n)[i] = q[i]
  BY <1>1, <1>3
<1>6. /\ Len(SubSeq(q, n + 1, Len(q))) = Len(q) - n
      /\ \A i \in 1 .. Len(q) - n : SubSeq(q, n + 1, Len(q))[i] = q[n + i]
  BY <1>1, <1>4
<1>. QED  BY <1>4, <1>5, <1>6

LEMMA PutIs ==
  ASSUME NEW S, NEW q \in Seq(S), NEW e \in S
  PROVE  /\ Append(q, e) \in Seq(S) /\ Len(Append(q, e)) = Len(q) + 1 /\ Len(q) \in Nat
         /\ \A i \in 1 .. Len(q) + 1 : Append(q, e)[i] = IF i <= Len(q) THEN q[i] ELSE e
BY AppendProperties

LEMMA TailIs ==
  ASSUME NEW S, NEW q \in Seq(S), q # <<>>
  PROVE  /\ Head(q) \in S /\ Head(q) = q[1] /\ Len(q) \in Nat /\ 1 \in 1 .. Len(q)
         /\ Tail(q) \in Seq(S) /\ Len(Tail(q)) = Len(q) - 1
         /\ \A i \in 1 .. Len(q) - 1 : Tail(q)[i] = q[i + 1]
<1>1. Len(q) \in Nat /\ Len(q) # 0
  BY EmptySeq
<1>. QED  BY <1>1, HeadTailProperties

LEMMA SayIs ==
  ASSUME Types, NEW k \in Session, NEW m \in Message
  PROVE  /\ Say(k, m) \in [Session -> KidRec]
         /\ Say(k, m)[k].pc = "tell" /\ Say(k, m)[k].msg = m /\ Say(k, m)[k].line = kid[k].line
         /\ \A j \in Session : j # k => Say(k, m)[j] = kid[j]
BY DEF Say, Types, KidRec

LEMMA EndedIs ==
  ASSUME Types, NEW k \in Session
  PROVE  /\ Ended(k) \in [Session -> KidRec]
         /\ Ended(k)[k].pc = "gone" /\ Ended(k)[k].msg = "" /\ Ended(k)[k].line = kid[k].line
         /\ \A j \in Session : j # k => Ended(k)[j] = kid[j]
BY DEF Ended, Types, KidRec, Message

EndWith(k, m) == [Ended(k) EXCEPT ![k].msg = m]

LEMMA EndWithIs ==
  ASSUME Types, NEW k \in Session, NEW m \in Message
  PROVE  /\ EndWith(k, m) \in [Session -> KidRec]
         /\ EndWith(k, m)[k].pc = "gone" /\ EndWith(k, m)[k].msg = m
         /\ EndWith(k, m)[k].line = kid[k].line
         /\ \A j \in Session : j # k => EndWith(k, m)[j] = kid[j]
<1>. DEFINE g == Ended(k)
<1>1. /\ g \in [Session -> KidRec] /\ g[k].pc = "gone" /\ g[k].line = kid[k].line
      /\ \A j \in Session : j # k => g[j] = kid[j]
  BY EndedIs
<1>2. EndWith(k, m) = [g EXCEPT ![k].msg = m]
  BY DEF EndWith
<1>. HIDE DEF g
<1>. QED  BY <1>1, <1>2 DEF KidRec

LEMMA ThreadIs ==
  ASSUME Types, NEW t \in Threads
  PROVE  /\ thread[t] \in ThreadRec(Len(session)) /\ t \in 1 .. Len(thread)
         /\ thread[t].fd \in Session /\ thread[t].buf \in Seq(Item)
<1>1. thread[t] \in ThreadRec(Len(session))
  BY ElementOfSeq DEF Types, Threads
<1>. QED  BY <1>1 DEF ThreadRec, Session, Threads

LEMMA CloseClientIs ==
  ASSUME Types, NEW k \in Session, CloseClient(k)
  PROVE  /\ cliEnd' \in [Session -> CliEnds] /\ s2c' \in [Session -> Seq(Item)]
         /\ s2c'[k] = <<>>
         /\ cliEnd'[k] \in {"none", "closed", "resetting"}
         /\ (cliEnd'[k] = "none") <=> (cliEnd[k] = "none")
         /\ \A j \in Session : j # k => cliEnd'[j] = cliEnd[j] /\ s2c'[j] = s2c[j]
<1>. DEFINE e == IF cliEnd[k] = "none" THEN "none" ELSE IF s2c[k] # <<>> THEN "resetting" ELSE "closed"
<1>1. e \in {"none", "closed", "resetting"} /\ ((e = "none") <=> (cliEnd[k] = "none"))
  OBVIOUS
<1>2. cliEnd' = [cliEnd EXCEPT ![k] = e] /\ s2c' = [s2c EXCEPT ![k] = <<>>]
  BY DEF CloseClient
<1>. HIDE DEF e
<1>. QED  BY <1>1, <1>2 DEF Types, CliEnds

LEMMA ThreadEdit ==
  ASSUME Types, NEW t \in Threads, NEW r \in ThreadRec(Len(session)),
         thread' = [thread EXCEPT ![t] = r]
  PROVE  /\ thread' \in Seq(ThreadRec(Len(session))) /\ Threads' = Threads
         /\ thread'[t] = r /\ \A u \in Threads : u # t => thread'[u] = thread[u]
<1>1. t \in 1 .. Len(thread) /\ thread \in Seq(ThreadRec(Len(session)))
  BY DEF Threads, Types
<1>. QED  BY <1>1, ExceptSeq DEF Threads


----------------------------------------------------------------------------
(* Types *)

LEMMA TypesKept ==
  ASSUME Types, session' = session,
         parent' \in [User -> {"prompt", "select", "gone"}],
         stdinEof' \in [User -> BOOLEAN], sigchld' \in [User -> BOOLEAN],
         kid' \in [Session -> KidRec], pipe' \in [Session -> Seq(Message)],
         shown' \in [Session -> Seq(Item)],
         c2s' \in [Session -> Seq(Item)], s2c' \in [Session -> Seq(Item)],
         cliEnd' \in [Session -> CliEnds], srvEnd' \in [Session -> SrvEnds],
         main' \subseteq Service, backlog' \in [Service -> Seq(Session)],
         thread' \in Seq(ThreadRec(Len(session))), server' \in {"up", "killed", "died"}
  PROVE  Types'
BY DEF Types, Session

LEMMA UserTypes ==
  ASSUME Types, NEW u \in User,
         ReadPipe(u) \/ PipeEof(u) \/ CatchChld(u) \/ Quit(u) \/ CloseStdin(u)
  PROVE  Types' /\ session' = session
<1>1. session' = session
  BY DEF ReadPipe, PipeEof, CatchChld, Quit, CloseStdin
<1>2. parent' \in [User -> {"prompt", "select", "gone"}]
  BY DEF ReadPipe, PipeEof, CatchChld, Quit, CloseStdin, Types, userVars
<1>3. stdinEof' \in [User -> BOOLEAN] /\ sigchld' \in [User -> BOOLEAN]
  BY DEF ReadPipe, PipeEof, CatchChld, Quit, CloseStdin, Types, userVars
<1>4. pipe' \in [Session -> Seq(Message)]
  <2>1. pipe' = pipe \/ \E k : pipe' = [pipe EXCEPT ![k] = <<>>]
    BY DEF ReadPipe, PipeEof, CatchChld, Quit, CloseStdin, kidVars
  <2>2. pipe \in [Session -> Seq(Message)] /\ <<>> \in Seq(Message)
    BY DEF Types
  <2>. QED  BY <2>1, <2>2
<1>5. UNCHANGED <<kid, shown, tcpVars, serverVars>>
  BY DEF ReadPipe, PipeEof, CatchChld, Quit, CloseStdin, kidVars
<1>. QED  BY <1>1, <1>2, <1>3, <1>4, <1>5, TypesKept DEF tcpVars, serverVars, Types

LEMMA AbortIs ==
  ASSUME Types, NEW k \in Session, Abort(k)
  PROVE  /\ CloseClient(k)
         /\ \/ backlog' = backlog
            \/ \E s \in Service : \E i \in 1 .. Len(backlog[s]) :
                 /\ backlog[s][i] = k
                 /\ \A r \in Service : r # s => backlog'[r] = backlog[r]
                 /\ Len(backlog'[s]) = Len(backlog[s]) - 1
                 /\ \A j \in 1 .. Len(backlog[s]) - 1 :
                      backlog'[s][j] = IF j < i THEN backlog[s][j] ELSE backlog[s][j + 1]
         /\ backlog' \in [Service -> Seq(Session)]
<1>1. CloseClient(k) /\ backlog \in [Service -> Seq(Session)]
  BY DEF Abort, Types
<1>2. CASE backlog' = backlog
  BY <1>1, <1>2
<1>3. CASE backlog' # backlog
  <2>1. PICK s \in Service : \E i \in 1 .. Len(backlog[s]) :
          backlog[s][i] = k /\ backlog' = [backlog EXCEPT ![s] = RemoveAt(backlog[s], i)]
    BY <1>3 DEF Abort
  <2>. DEFINE q == backlog[s]
  <2>2. PICK i \in 1 .. Len(q) : q[i] = k /\ backlog' = [backlog EXCEPT ![s] = RemoveAt(q, i)]
    BY <2>1
  <2>3. q \in Seq(Session) /\ Len(q) \in Nat /\ \A j \in 1 .. Len(q) : q[j] \in Session
    BY <1>1, ElementOfSeq
  <2>. DEFINE a == SubSeq(q, 1, i - 1)
              b == SubSeq(q, i + 1, Len(q))
  <2>4. RemoveAt(q, i) = a \o b
    BY DEF RemoveAt
  <2>. HIDE DEF q
  <2>5. a \in Seq(Session) /\ Len(a) = i - 1 /\ \A j \in 1 .. i - 1 : a[j] = q[j]
    <3>1. i - 1 \in Int /\ \A j \in 1 .. i - 1 : q[j] \in Session
      BY <2>3
    <3>2. /\ a \in Seq(Session) /\ Len(a) = IF 1 <= i - 1 THEN (i - 1) - 1 + 1 ELSE 0
          /\ \A j \in 1 .. (i - 1) - 1 + 1 : a[j] = q[1 + j - 1]
      BY <3>1, SubSeqProperties
    <3>. QED  BY <2>3, <3>1, <3>2
  <2>6. /\ b \in Seq(Session) /\ Len(b) = Len(q) - i
        /\ \A j \in 1 .. Len(q) - i : b[j] = q[i + j]
    BY <2>3, CutIs
  <2>. HIDE DEF a, b
  <2>7. /\ a \o b \in Seq(Session) /\ Len(a \o b) = Len(q) - 1
        /\ \A j \in 1 .. Len(q) - 1 : (a \o b)[j] = IF j < i THEN q[j] ELSE q[j + 1]
    <3>1. /\ a \o b \in Seq(Session) /\ Len(a \o b) = Len(a) + Len(b)
          /\ \A j \in 1 .. Len(a) + Len(b) :
               (a \o b)[j] = IF j <= Len(a) THEN a[j] ELSE b[j - Len(a)]
      BY <2>5, <2>6, ConcatProperties
    <3>2. Len(a) + Len(b) = Len(q) - 1
      BY <2>3, <2>5, <2>6
    <3>3. ASSUME NEW j \in 1 .. Len(q) - 1
          PROVE  (a \o b)[j] = IF j < i THEN q[j] ELSE q[j + 1]
      <4>1. (a \o b)[j] = IF j <= i - 1 THEN a[j] ELSE b[j - (i - 1)]
        BY <2>5, <3>1, <3>2
      <4>2. CASE j < i
        BY <2>3, <2>5, <4>1, <4>2
      <4>3. CASE ~ (j < i)
        <5>1. j - (i - 1) \in 1 .. Len(q) - i /\ i + (j - (i - 1)) = j + 1
          BY <2>3, <4>3
        <5>2. b[j - (i - 1)] = q[j + 1]
          BY <2>6, <5>1
        <5>. QED  BY <2>3, <4>1, <4>3, <5>2
      <4>. QED  BY <4>2, <4>3
    <3>. QED  BY <3>1, <3>2, <3>3
  <2>8. backlog' = [backlog EXCEPT ![s] = a \o b]
    BY <2>2, <2>4
  <2>9. /\ backlog'[s] = a \o b /\ \A r \in Service : r # s => backlog'[r] = backlog[r]
        /\ backlog' \in [Service -> Seq(Session)]
    BY <1>1, <2>7, <2>8
  <2>. QED  BY <1>1, <2>2, <2>7, <2>9 DEF q
<1>. QED  BY <1>2, <1>3

\* A step that leaves all sessions but k alone.
Aside(k) ==
  /\ session' = session
  /\ \A j \in Session : j # k =>
       /\ kid'[j] = kid[j] /\ pipe'[j] = pipe[j] /\ shown'[j] = shown[j]
       /\ c2s'[j] = c2s[j] /\ s2c'[j] = s2c[j]
       /\ cliEnd'[j] = cliEnd[j] /\ srvEnd'[j] = srvEnd[j]

LEMMA KillTypes ==
  ASSUME Types, NEW k \in Session, Kill(k)
  PROVE  /\ Types' /\ Aside(k)
         /\ kid'[k].pc = "gone" /\ kid'[k].msg = "killed" /\ kid'[k].line = kid[k].line
<1>1. kid' = EndWith(k, "killed") /\ Abort(k) /\ session' = session
      /\ UNCHANGED <<userVars, xterm, pipe, shown, c2s, srvEnd, main, thread, server>>
  BY DEF Kill, EndWith
<1>2. /\ kid' \in [Session -> KidRec]
      /\ kid'[k].pc = "gone" /\ kid'[k].msg = "killed" /\ kid'[k].line = kid[k].line
      /\ \A j \in Session : j # k => kid'[j] = kid[j]
  <2>1. "killed" \in Message
    BY DEF Message
  <2>. QED  BY <1>1, <2>1, EndWithIs
<1>3. CloseClient(k) /\ backlog' \in [Service -> Seq(Session)]
  BY <1>1, AbortIs
<1>4. /\ cliEnd' \in [Session -> CliEnds] /\ s2c' \in [Session -> Seq(Item)]
      /\ \A j \in Session : j # k => cliEnd'[j] = cliEnd[j] /\ s2c'[j] = s2c[j]
  BY <1>3, CloseClientIs
<1>5. Types'
  BY <1>1, <1>2, <1>3, <1>4, TypesKept DEF Types, userVars
<1>6. Aside(k)
  BY <1>1, <1>2, <1>4 DEF Aside
<1>. QED  BY <1>2, <1>5, <1>6

LEMMA WindowTypes ==
  ASSUME Types, NEW k \in Session, CloseWindow(k) \/ ExecFails(k)
  PROVE  /\ Types' /\ Aside(k)
         /\ \/ kid' = kid
            \/ /\ kid[k].pc = "connect" /\ kid'[k].pc = "gone" /\ kid'[k].msg = "no window"
         /\ UNCHANGED <<parent, pipe, shown, tcpVars, serverVars>>
<1>1. sigchld' \in [User -> BOOLEAN]
  BY SessionIs DEF CloseWindow, ExecFails, Types
<1>2. UNCHANGED <<parent, stdinEof, session, pipe, shown, tcpVars, serverVars>>
  BY DEF CloseWindow, ExecFails
<1>3. CASE kid' = kid
  BY <1>1, <1>2, <1>3, TypesKept DEF Aside, tcpVars, serverVars, Types
<1>4. CASE ExecFails(k)
  <2>1. kid[k] \in KidRec /\ kid[k].pc = "connect" /\ kid' = EndWith(k, "no window")
    BY <1>4 DEF Types, ExecFails, EndWith
  <2>2. /\ kid' \in [Session -> KidRec]
        /\ kid'[k].pc = "gone" /\ kid'[k].msg = "no window"
        /\ \A j \in Session : j # k => kid'[j] = kid[j]
    <3>1. "no window" \in Message
      BY DEF Message
    <3>. QED  BY <2>1, <3>1, EndWithIs
  <2>3. Types'
    BY <1>1, <1>2, <2>2, TypesKept DEF tcpVars, serverVars, Types
  <2>4. Aside(k)
    BY <1>2, <2>2 DEF Aside, tcpVars
  <2>. QED  BY <1>2, <2>1, <2>2, <2>3, <2>4
<1>. QED  BY <1>3, <1>4 DEF CloseWindow

LEMMA ConnectTypes ==
  ASSUME Types, NEW k \in Session, Connect(k)
  PROVE  /\ Types' /\ Aside(k)
         /\ UNCHANGED <<userVars, session, xterm, pipe, shown, c2s, s2c, main, thread, server>>
         /\ \/ /\ kid'[k].pc = "select" /\ cliEnd'[k] = "open" /\ srvEnd'[k] = "open"
               /\ backlog' = [backlog EXCEPT ![session[k].service] = Append(@, k)]
            \/ /\ kid'[k].pc = "tell" /\ kid'[k].msg = "not ready"
               /\ UNCHANGED <<backlog, cliEnd, srvEnd>>
         /\ kid'[k].line = kid[k].line /\ (kid'[k].msg = "killed" => kid[k].msg = "killed")
<1>0. /\ UNCHANGED <<userVars, session, xterm, pipe, shown, c2s, s2c, main, thread, server>>
      /\ kid \in [Session -> KidRec] /\ session[k].service \in Service
  BY SessionIs DEF Connect, Types
<1>1. CASE server = "up"
  <2>1. /\ kid' = [kid EXCEPT ![k].pc = "select"]
        /\ backlog' = [backlog EXCEPT ![session[k].service] = Append(@, k)]
        /\ cliEnd' = [cliEnd EXCEPT ![k] = "open"] /\ srvEnd' = [srvEnd EXCEPT ![k] = "open"]
    BY <1>1 DEF Connect
  <2>2. /\ kid' \in [Session -> KidRec] /\ kid'[k].pc = "select" /\ kid'[k].line = kid[k].line
        /\ kid'[k].msg = kid[k].msg /\ \A j \in Session : j # k => kid'[j] = kid[j]
    BY <1>0, <2>1 DEF KidRec
  <2>3. /\ cliEnd' \in [Session -> CliEnds] /\ cliEnd'[k] = "open"
        /\ srvEnd' \in [Session -> SrvEnds] /\ srvEnd'[k] = "open"
        /\ \A j \in Session : j # k => cliEnd'[j] = cliEnd[j] /\ srvEnd'[j] = srvEnd[j]
    BY <2>1 DEF Types, CliEnds, SrvEnds
  <2>4. backlog' \in [Service -> Seq(Session)]
    <3>1. backlog[session[k].service] \in Seq(Session) /\ backlog \in [Service -> Seq(Session)]
      BY <1>0 DEF Types
    <3>2. Append(backlog[session[k].service], k) \in Seq(Session)
      BY <3>1, AppendProperties
    <3>. QED  BY <2>1, <3>1, <3>2
  <2>5. Types'
    BY <1>0, <2>2, <2>3, <2>4, TypesKept DEF Types, userVars
  <2>6. Aside(k)
    BY <1>0, <2>2, <2>3 DEF Aside
  <2>. QED  BY <1>0, <2>1, <2>2, <2>3, <2>5, <2>6
<1>2. CASE server # "up"
  <2>1. kid' = Say(k, "not ready") /\ UNCHANGED <<backlog, cliEnd, srvEnd>>
    BY <1>2 DEF Connect
  <2>2. /\ kid' \in [Session -> KidRec] /\ kid'[k].pc = "tell" /\ kid'[k].line = kid[k].line
        /\ kid'[k].msg = "not ready" /\ \A j \in Session : j # k => kid'[j] = kid[j]
    <3>1. "not ready" \in Message
      BY DEF Message
    <3>. QED  BY <2>1, <3>1, SayIs
  <2>3. Types'
    BY <1>0, <2>1, <2>2, TypesKept DEF Types, userVars
  <2>4. Aside(k)
    BY <1>0, <2>1, <2>2 DEF Aside
  <2>. QED  BY <1>0, <2>1, <2>2, <2>3, <2>4
<1>. QED  BY <1>1, <1>2

SayReady(k, m, r) == [Say(k, m) EXCEPT ![k].ready = r]

LEMMA SayReadyIs ==
  ASSUME Types, NEW k \in Session, NEW m \in Message, NEW r \in BOOLEAN
  PROVE  /\ SayReady(k, m, r) \in [Session -> KidRec]
         /\ SayReady(k, m, r)[k].pc = "tell" /\ SayReady(k, m, r)[k].msg = m
         /\ SayReady(k, m, r)[k].line = kid[k].line
         /\ \A j \in Session : j # k => SayReady(k, m, r)[j] = kid[j]
<1>. DEFINE g == Say(k, m)
<1>1. /\ g \in [Session -> KidRec] /\ g[k].pc = "tell" /\ g[k].msg = m /\ g[k].line = kid[k].line
      /\ \A j \in Session : j # k => g[j] = kid[j]
  BY SayIs
<1>2. SayReady(k, m, r) = [g EXCEPT ![k].ready = r]
  BY DEF SayReady
<1>. HIDE DEF g
<1>. QED  BY <1>1, <1>2 DEF KidRec

\* What a child does when its socket is ready.
Reads(k) ==
  /\ kid'[k].pc = "tell" /\ ~ Leaves(kid'[k].msg) /\ kid'[k].msg # "killed"
  /\ kid'[k].line = kid[k].line /\ cliEnd' = cliEnd
  /\ \E n \in 1 .. Len(s2c[k]) :
       /\ s2c'[k] = SubSeq(s2c[k], n + 1, Len(s2c[k]))
       /\ shown'[k] = IF session[k].service = "echo"
                      THEN shown[k] \o SubSeq(s2c[k], 1, n) ELSE shown[k]

MeetsEnd(k) ==
  /\ srvEnd[k] # "open" /\ kid'[k].pc = "tell" /\ kid'[k].msg # "killed"
  /\ UNCHANGED <<shown, s2c, cliEnd>>

MeetsReset(k) ==
  /\ srvEnd[k] # "open" /\ kid'[k].pc = "gone" /\ kid'[k].msg # "killed"
  /\ CloseClient(k) /\ UNCHANGED shown

LEMMA FromServerTypes ==
  ASSUME Types, NEW k \in Session, FromServer(k)
  PROVE  /\ Types' /\ Aside(k) /\ (Reads(k) \/ MeetsEnd(k) \/ MeetsReset(k))
         /\ UNCHANGED <<userVars, session, xterm, pipe, c2s, srvEnd, serverVars>>
<1>. DEFINE echo == session[k].service = "echo"
<1>0. /\ UNCHANGED <<userVars, session, xterm, pipe, c2s, srvEnd, serverVars>>
      /\ kid[k].pc = "select" /\ SockReadable(k)
      /\ s2c[k] \in Seq(Item) /\ shown[k] \in Seq(Item)
  BY DEF FromServer, Types
<1>1. CASE \E n \in 1 .. Len(s2c[k]) :
              /\ shown' = [shown EXCEPT ![k] = IF echo THEN @ \o SubSeq(s2c[k], 1, n) ELSE @]
              /\ s2c' = [s2c EXCEPT ![k] = SubSeq(@, n + 1, Len(@))]
              /\ \E r \in BOOLEAN :
                   kid' = [Say(k, IF echo THEN "echoed" ELSE "time") EXCEPT ![k].ready = r]
              /\ UNCHANGED cliEnd
  <2>1. PICK n \in 1 .. Len(s2c[k]) :
              /\ shown' = [shown EXCEPT ![k] = IF echo THEN @ \o SubSeq(s2c[k], 1, n) ELSE @]
              /\ s2c' = [s2c EXCEPT ![k] = SubSeq(@, n + 1, Len(@))]
              /\ \E r \in BOOLEAN :
                   kid' = [Say(k, IF echo THEN "echoed" ELSE "time") EXCEPT ![k].ready = r]
              /\ UNCHANGED cliEnd
    BY <1>1
  <2>. DEFINE m == IF echo THEN "echoed" ELSE "time"
              a == SubSeq(s2c[k], 1, n)
              b == SubSeq(s2c[k], n + 1, Len(s2c[k]))
  <2>2. PICK r \in BOOLEAN : kid' = SayReady(k, m, r)
    BY <2>1 DEF SayReady
  <2>3. m \in Message /\ ~ Leaves(m) /\ m # "killed"
    BY DEF Message, Leaves
  <2>4. a \in Seq(Item) /\ b \in Seq(Item)
    BY <1>0, CutIs
  <2>5. shown[k] \o a \in Seq(Item)
    BY <1>0, <2>4, ConcatProperties
  <2>6. /\ shown' = [shown EXCEPT ![k] = IF echo THEN shown[k] \o a ELSE shown[k]]
        /\ s2c' = [s2c EXCEPT ![k] = b]
    BY <2>1
  <2>7. Reads(k) /\ Aside(k) /\ kid' \in [Session -> KidRec]
    <3>. HIDE DEF m
    <3>1. /\ kid' \in [Session -> KidRec] /\ kid'[k].pc = "tell" /\ kid'[k].msg = m
          /\ kid'[k].line = kid[k].line /\ \A j \in Session : j # k => kid'[j] = kid[j]
      BY <2>2, <2>3, SayReadyIs
    <3>2. s2c'[k] = b /\ shown'[k] = (IF echo THEN shown[k] \o a ELSE shown[k])
          /\ \A j \in Session : j # k => s2c'[j] = s2c[j] /\ shown'[j] = shown[j]
      BY <2>6 DEF Types
    <3>3. Reads(k)
      BY <2>1, <2>3, <3>1, <3>2 DEF Reads
    <3>4. Aside(k)
      BY <1>0, <2>1, <3>1, <3>2 DEF Aside
    <3>. QED  BY <3>1, <3>3, <3>4
  <2>8. shown' \in [Session -> Seq(Item)] /\ s2c' \in [Session -> Seq(Item)]
    <3>. HIDE DEF a, b, echo
    <3>. QED  BY <1>0, <2>4, <2>5, <2>6 DEF Types
  <2>9. Types'
    BY <1>0, <2>1, <2>7, <2>8, TypesKept DEF Types, userVars, serverVars
  <2>. QED  BY <1>0, <2>7, <2>9
<1>2. CASE /\ s2c[k] = <<>>
           /\ kid' = Say(k, IF echo /\ ~ kid[k].echo_flag THEN "prematurely" ELSE "terminated")
           /\ UNCHANGED <<shown, s2c, cliEnd>>
  <2>. DEFINE m == IF echo /\ ~ kid[k].echo_flag THEN "prematurely" ELSE "terminated"
  <2>1. m \in Message /\ m # "killed" /\ kid' = Say(k, m)
    BY <1>2 DEF Message
  <2>. HIDE DEF m
  <2>2. /\ kid' \in [Session -> KidRec] /\ kid'[k].pc = "tell" /\ kid'[k].msg = m
        /\ \A j \in Session : j # k => kid'[j] = kid[j]
    BY <2>1, SayIs
  <2>3. srvEnd[k] # "open"
    BY <1>0, <1>2 DEF SockReadable
  <2>4. MeetsEnd(k) /\ Aside(k)
    BY <1>0, <1>2, <2>1, <2>2, <2>3 DEF MeetsEnd, Aside
  <2>5. Types'
    BY <1>0, <1>2, <2>2, TypesKept DEF Types, userVars, serverVars
  <2>. QED  BY <1>0, <2>4, <2>5
<1>3. CASE s2c[k] = <<>> /\ kid' = Ended(k) /\ CloseClient(k) /\ UNCHANGED shown
  <2>1. /\ kid' \in [Session -> KidRec] /\ kid'[k].pc = "gone" /\ kid'[k].msg = ""
        /\ \A j \in Session : j # k => kid'[j] = kid[j]
    BY <1>3, EndedIs
  <2>2. /\ cliEnd' \in [Session -> CliEnds] /\ s2c' \in [Session -> Seq(Item)]
        /\ \A j \in Session : j # k => cliEnd'[j] = cliEnd[j] /\ s2c'[j] = s2c[j]
    BY <1>3, CloseClientIs
  <2>3. MeetsReset(k)
    BY <1>0, <1>3, <2>1 DEF MeetsReset, SockReadable
  <2>4. Aside(k)
    BY <1>0, <1>3, <2>1, <2>2 DEF Aside
  <2>5. Types'
    BY <1>0, <1>3, <2>1, <2>2, TypesKept DEF Types, userVars, serverVars
  <2>. QED  BY <1>0, <2>3, <2>4, <2>5
<1>4. \/ \E n \in 1 .. Len(s2c[k]) :
              /\ shown' = [shown EXCEPT ![k] = IF echo THEN @ \o SubSeq(s2c[k], 1, n) ELSE @]
              /\ s2c' = [s2c EXCEPT ![k] = SubSeq(@, n + 1, Len(@))]
              /\ \E r \in BOOLEAN :
                   kid' = [Say(k, IF echo THEN "echoed" ELSE "time") EXCEPT ![k].ready = r]
              /\ UNCHANGED cliEnd
      \/ /\ s2c[k] = <<>>
         /\ kid' = Say(k, IF echo /\ ~ kid[k].echo_flag THEN "prematurely" ELSE "terminated")
         /\ UNCHANGED <<shown, s2c, cliEnd>>
      \/ s2c[k] = <<>> /\ kid' = Ended(k) /\ CloseClient(k) /\ UNCHANGED shown
  BY DEF FromServer
<1>. QED  BY <1>1, <1>2, <1>3, <1>4

\* What a child does with a line, or with the end of its input.
TakesLine(k) == kid'[k].pc = "send" /\ kid'[k].line = kid[k].line + 1 /\ kid'[k].msg = kid[k].msg

SaysNoMore(k) == kid'[k].pc = "tell" /\ kid'[k].line = kid[k].line /\ kid'[k].msg = "no more"

LEMMA FromUserTypes ==
  ASSUME Types, NEW k \in Session, FromUser(k)
  PROVE  /\ Types' /\ Aside(k) /\ (TakesLine(k) \/ SaysNoMore(k))
         /\ kid[k].pc \in {"look", "select"}
         /\ UNCHANGED <<userVars, session, xterm, pipe, shown, tcpVars, serverVars>>
<1>0. /\ UNCHANGED <<userVars, session, xterm, pipe, shown, tcpVars, serverVars>>
      /\ kid \in [Session -> KidRec] /\ kid[k].pc \in {"look", "select"}
  BY DEF FromUser, Types
<1>1. /\ kid' \in [Session -> KidRec] /\ (TakesLine(k) \/ SaysNoMore(k))
      /\ \A j \in Session : j # k => kid'[j] = kid[j]
  <2>1. CASE kid' = [kid EXCEPT ![k].pc = "send", ![k].line = @ + 1, ![k].ready = FALSE]
    BY <1>0, <2>1 DEF KidRec, TakesLine
  <2>2. CASE kid' = [Say(k, "no more") EXCEPT ![k].echo_flag = TRUE, ![k].ready = FALSE]
    <3>. DEFINE g == Say(k, "no more")
    <3>1. /\ g \in [Session -> KidRec] /\ g[k].pc = "tell" /\ g[k].msg = "no more"
          /\ g[k].line = kid[k].line /\ \A j \in Session : j # k => g[j] = kid[j]
      <4>1. "no more" \in Message
        BY DEF Message
      <4>. QED  BY <4>1, SayIs
    <3>2. kid' = [g EXCEPT ![k].echo_flag = TRUE, ![k].ready = FALSE]
      BY <2>2
    <3>. HIDE DEF g
    <3>. QED  BY <3>1, <3>2 DEF KidRec, SaysNoMore
  <2>. QED  BY <2>1, <2>2 DEF FromUser
<1>2. Types'
  BY <1>0, <1>1, TypesKept DEF Types, userVars, tcpVars, serverVars
<1>. QED  BY <1>0, <1>1, <1>2 DEF Aside, tcpVars

\* What becomes of a line that a child sends.
LineGoes(k) ==
  /\ srvEnd[k] = "open" /\ Len(c2s[k]) < SockCap
  /\ c2s'[k] = Append(c2s[k], <<k, kid[k].line>>)
  /\ kid'[k].pc = "tell" /\ kid'[k].msg = "forwarded" /\ kid'[k].line = kid[k].line
  /\ UNCHANGED <<s2c, cliEnd, srvEnd>>

LineIsLost(k) ==
  /\ srvEnd[k] = "closed" /\ srvEnd'[k] = "reset"
  /\ kid'[k].pc = "tell" /\ kid'[k].msg = "forwarded"
  /\ UNCHANGED <<c2s, s2c, cliEnd>>

LineMeetsReset(k) ==
  /\ srvEnd[k] = "reset" /\ kid'[k].pc = "gone" /\ kid'[k].msg = ""
  /\ CloseClient(k) /\ UNCHANGED <<c2s, srvEnd>>

LEMMA SendTypes ==
  ASSUME Types, NEW k \in Session, Send(k)
  PROVE  /\ Types' /\ Aside(k) /\ (LineGoes(k) \/ LineIsLost(k) \/ LineMeetsReset(k))
         /\ kid[k].pc = "send"
         /\ UNCHANGED <<userVars, session, xterm, pipe, shown, serverVars>>
<1>0. /\ UNCHANGED <<userVars, session, xterm, pipe, shown, serverVars>>
      /\ kid[k] \in KidRec /\ kid[k].pc = "send" /\ c2s[k] \in Seq(Item) /\ "forwarded" \in Message
  BY DEF Send, Types, Message
<1>1. CASE /\ srvEnd[k] = "open" /\ Len(c2s[k]) < SockCap
           /\ c2s' = [c2s EXCEPT ![k] = Append(@, <<k, kid[k].line>>)]
           /\ kid' = Say(k, "forwarded")
           /\ UNCHANGED <<s2c, cliEnd, srvEnd>>
  <2>1. <<k, kid[k].line>> \in Item
    BY <1>0, SessionIs, ItemIs DEF KidRec
  <2>2. Append(c2s[k], <<k, kid[k].line>>) \in Seq(Item)
    BY <1>0, <2>1, AppendProperties
  <2>3. /\ c2s' \in [Session -> Seq(Item)] /\ c2s'[k] = Append(c2s[k], <<k, kid[k].line>>)
        /\ \A j \in Session : j # k => c2s'[j] = c2s[j]
    BY <1>1, <2>2 DEF Types
  <2>4. /\ kid' \in [Session -> KidRec] /\ kid'[k].pc = "tell" /\ kid'[k].msg = "forwarded"
        /\ kid'[k].line = kid[k].line /\ \A j \in Session : j # k => kid'[j] = kid[j]
    BY <1>0, <1>1, SayIs
  <2>5. Types'
    BY <1>0, <1>1, <2>3, <2>4, TypesKept DEF Types, userVars, serverVars
  <2>6. LineGoes(k) /\ Aside(k)
    BY <1>0, <1>1, <2>3, <2>4 DEF LineGoes, Aside
  <2>. QED  BY <1>0, <2>5, <2>6
<1>2. CASE /\ srvEnd[k] = "closed"
           /\ srvEnd' = [srvEnd EXCEPT ![k] = "reset"]
           /\ kid' = Say(k, "forwarded")
           /\ UNCHANGED <<c2s, s2c, cliEnd>>
  <2>1. /\ srvEnd' \in [Session -> SrvEnds] /\ srvEnd'[k] = "reset"
        /\ \A j \in Session : j # k => srvEnd'[j] = srvEnd[j]
    BY <1>2 DEF Types, SrvEnds
  <2>2. /\ kid' \in [Session -> KidRec] /\ kid'[k].pc = "tell" /\ kid'[k].msg = "forwarded"
        /\ kid'[k].line = kid[k].line /\ \A j \in Session : j # k => kid'[j] = kid[j]
    BY <1>0, <1>2, SayIs
  <2>3. Types'
    BY <1>0, <1>2, <2>1, <2>2, TypesKept DEF Types, userVars, serverVars
  <2>4. LineIsLost(k) /\ Aside(k)
    BY <1>0, <1>2, <2>1, <2>2 DEF LineIsLost, Aside
  <2>. QED  BY <1>0, <2>3, <2>4
<1>3. CASE srvEnd[k] = "reset" /\ kid' = Ended(k) /\ CloseClient(k) /\ UNCHANGED <<c2s, srvEnd>>
  <2>1. /\ kid' \in [Session -> KidRec] /\ kid'[k].pc = "gone" /\ kid'[k].msg = ""
        /\ \A j \in Session : j # k => kid'[j] = kid[j]
    BY <1>3, EndedIs
  <2>2. /\ cliEnd' \in [Session -> CliEnds] /\ s2c' \in [Session -> Seq(Item)]
        /\ \A j \in Session : j # k => cliEnd'[j] = cliEnd[j] /\ s2c'[j] = s2c[j]
    BY <1>3, CloseClientIs
  <2>3. Types'
    BY <1>0, <1>3, <2>1, <2>2, TypesKept DEF Types, userVars, serverVars
  <2>4. LineMeetsReset(k) /\ Aside(k)
    BY <1>0, <1>3, <2>1, <2>2 DEF LineMeetsReset, Aside
  <2>. QED  BY <1>0, <2>3, <2>4
<1>. QED  BY <1>1, <1>2, <1>3 DEF Send

\* What follows a report.
GoesOn(k) ==
  /\ ~ Leaves(kid[k].msg) /\ kid'[k].pc \in {"look", "select"} /\ kid'[k].msg = ""
  /\ kid'[k].line = kid[k].line /\ UNCHANGED s2c
  /\ \/ UNCHANGED cliEnd
     \/ kid[k].msg = "no more" /\ cliEnd'[k] = "shut"

Goes(k) ==
  /\ kid'[k].pc = "gone" /\ CloseClient(k)
  /\ kid'[k].msg = "killed" \/ Leaves(kid[k].msg)

LEMMA TellTypes ==
  ASSUME Types, NEW k \in Session, Tell(k)
  PROVE  /\ Types' /\ Aside(k) /\ (GoesOn(k) \/ Goes(k)) /\ kid[k].pc = "tell"
         /\ UNCHANGED <<userVars, session, xterm, shown, c2s, srvEnd, serverVars>>
         /\ pipe'[k] = pipe[k] \/ Len(pipe'[k]) <= PipeCap
<1>. DEFINE m    == kid[k].msg
            dies == parent[session[k].of] = "gone"
<1>0. /\ UNCHANGED <<userVars, session, xterm, shown, c2s, srvEnd, serverVars>>
      /\ kid[k].pc = "tell" /\ kid \in [Session -> KidRec] /\ pipe[k] \in Seq(Message)
      /\ m \in Message
  BY DEF Tell, Types, KidRec
<1>1. /\ pipe' \in [Session -> Seq(Message)]
      /\ pipe'[k] = pipe[k] \/ Len(pipe'[k]) <= PipeCap
      /\ \A j \in Session : j # k => pipe'[j] = pipe[j]
  <2>1. CASE pipe' = pipe
    BY <2>1 DEF Types
  <2>2. CASE Len(pipe[k]) < PipeCap /\ pipe' = [pipe EXCEPT ![k] = Append(@, m)]
    <3>1. /\ Append(pipe[k], m) \in Seq(Message) /\ Len(Append(pipe[k], m)) = Len(pipe[k]) + 1
          /\ Len(pipe[k]) \in Nat
      BY <1>0, PutIs
    <3>2. pipe'[k] = Append(pipe[k], m) /\ pipe' \in [Session -> Seq(Message)]
          /\ \A j \in Session : j # k => pipe'[j] = pipe[j]
      BY <2>2, <3>1 DEF Types
    <3>. QED  BY <2>2, <3>1, <3>2, EchoAssumption
  <2>. QED  BY <2>1, <2>2 DEF Tell
<1>2. CASE /\ dies \/ Leaves(m)
           /\ kid' = [Ended(k) EXCEPT ![k].msg = IF dies THEN "killed" ELSE ""]
           /\ CloseClient(k)
  <2>. DEFINE e == IF dies THEN "killed" ELSE ""
  <2>1. kid' = EndWith(k, e) /\ e \in Message /\ (e = "killed" \/ Leaves(m))
    BY <1>2 DEF EndWith, Message
  <2>. HIDE DEF e
  <2>2. /\ kid' \in [Session -> KidRec] /\ kid'[k].pc = "gone" /\ kid'[k].msg = e
        /\ \A j \in Session : j # k => kid'[j] = kid[j]
    BY <2>1, EndWithIs
  <2>3. /\ cliEnd' \in [Session -> CliEnds] /\ s2c' \in [Session -> Seq(Item)]
        /\ \A j \in Session : j # k => cliEnd'[j] = cliEnd[j] /\ s2c'[j] = s2c[j]
    BY <1>2, CloseClientIs
  <2>4. Types'
    BY <1>0, <1>1, <2>2, <2>3, TypesKept DEF Types, userVars, serverVars
  <2>5. Goes(k)
    BY <1>2, <2>1, <2>2 DEF Goes
  <2>6. Aside(k)
    BY <1>0, <1>1, <2>2, <2>3 DEF Aside
  <2>. QED  BY <1>0, <1>1, <2>4, <2>5, <2>6
<1>3. CASE /\ ~ Leaves(m)
           /\ kid' = [kid EXCEPT ![k] =
                 [@ EXCEPT !.pc = IF kid[k].ready THEN "look" ELSE "select",
                           !.msg = "", !.ready = FALSE]]
           /\ cliEnd' = IF m = "no more" THEN [cliEnd EXCEPT ![k] = "shut"] ELSE cliEnd
           /\ UNCHANGED s2c
  <2>1. /\ kid' \in [Session -> KidRec] /\ kid'[k].pc \in {"look", "select"}
        /\ kid'[k].msg = "" /\ kid'[k].line = kid[k].line
        /\ \A j \in Session : j # k => kid'[j] = kid[j]
    BY <1>0, <1>3 DEF KidRec, Message
  <2>2. /\ cliEnd' \in [Session -> CliEnds]
        /\ cliEnd' = cliEnd \/ (m = "no more" /\ cliEnd'[k] = "shut")
        /\ \A j \in Session : j # k => cliEnd'[j] = cliEnd[j]
    BY <1>3 DEF Types, CliEnds
  <2>3. Types'
    BY <1>0, <1>1, <1>3, <2>1, <2>2, TypesKept DEF Types, userVars, serverVars
  <2>4. GoesOn(k)
    BY <1>3, <2>1, <2>2 DEF GoesOn
  <2>5. Aside(k)
    BY <1>0, <1>1, <1>3, <2>1, <2>2 DEF Aside
  <2>. QED  BY <1>0, <1>1, <2>3, <2>4, <2>5
<1>. QED  BY <1>2, <1>3 DEF Tell

\* The server's threads and connections when it has ended.
Over ==
  /\ Threads' = Threads /\ main' = {} /\ \A s \in Service : backlog'[s] = <<>>
  /\ \A t \in Threads : /\ thread'[t].pc = "done" /\ thread'[t].fd = thread[t].fd
                        /\ thread'[t].service = thread[t].service /\ thread'[t].buf = <<>>
  /\ \A k \in Session : srvEnd'[k] # "open" /\ c2s'[k] = <<>>

LEMMA ServerEndsIs ==
  ASSUME Types, NEW how \in {"killed", "died"}, ServerEnds(how),
         UNCHANGED <<userVars, session, kidVars, s2c, cliEnd>>
  PROVE  Types' /\ Over
<1>1. \A k \in Session : c2s'[k] = <<>> /\ srvEnd'[k] \in SrvEnds /\ srvEnd'[k] # "open"
  BY DEF ServerEnds, Types, SrvEnds
<1>2. c2s' \in [Session -> Seq(Item)] /\ srvEnd' \in [Session -> SrvEnds]
  <2>1. c2s' = [k \in Session |-> c2s'[k]] /\ srvEnd' = [k \in Session |-> srvEnd'[k]]
    BY DEF ServerEnds
  <2>2. \A k \in Session : c2s'[k] \in Seq(Item) /\ srvEnd'[k] \in SrvEnds
    BY <1>1, EmptySeq
  <2>. QED  BY <2>1, <2>2
<1>3. main' = {} /\ server' = how /\ backlog' = [s \in Service |-> <<>>]
  BY DEF ServerEnds
<1>. DEFINE n == Len(thread)
<1>4. n \in Nat /\ \A t \in 1 .. n : thread[t] \in ThreadRec(Len(session))
  BY ElementOfSeq DEF Types
<1>5. thread' = [t \in 1 .. n |-> [thread[t] EXCEPT !.pc = "done", !.buf = <<>>]]
  BY DEF ServerEnds
<1>. HIDE DEF n
<1>6. \A t \in 1 .. n : /\ thread'[t] \in ThreadRec(Len(session))
                        /\ thread'[t].pc = "done" /\ thread'[t].fd = thread[t].fd
                        /\ thread'[t].service = thread[t].service /\ thread'[t].buf = <<>>
  <2>. TAKE t \in 1 .. n
  <2>1. thread'[t] = [thread[t] EXCEPT !.pc = "done", !.buf = <<>>]
    BY <1>5
  <2>2. thread[t] \in ThreadRec(Len(session))
    BY <1>4
  <2>3. <<>> \in Seq(Item)
    BY EmptySeq
  <2>. QED  BY <2>1, <2>2, <2>3 DEF ThreadRec
<1>7. thread' \in Seq(ThreadRec(Len(session))) /\ Len(thread') = n
  <2>1. thread' \in [1 .. n -> ThreadRec(Len(session))]
    BY <1>5, <1>6
  <2>. QED  BY <1>4, <2>1
<1>8. backlog' \in [Service -> Seq(Session)] /\ \A s \in Service : backlog'[s] = <<>>
  BY <1>3
<1>9. Types'
  BY <1>2, <1>3, <1>7, <1>8, TypesKept DEF Types, userVars, kidVars
<1>10. Over
  BY <1>1, <1>3, <1>6, <1>7, <1>8 DEF Over, Threads, n
<1>. QED  BY <1>9, <1>10

LEMMA SelectTypes ==
  ASSUME Types, Select
  PROVE  /\ Types' /\ \A s \in main' : backlog[s] # <<>>
         /\ UNCHANGED <<userVars, session, kidVars, tcpVars, backlog, thread, server>>
<1>1. /\ UNCHANGED <<userVars, session, kidVars, tcpVars, backlog, thread, server>>
      /\ main' = {s \in Service : backlog[s] # <<>>}
  BY DEF Select
<1>2. Types'
  BY <1>1, TypesKept DEF Types, userVars, kidVars, tcpVars
<1>. QED  BY <1>1, <1>2

\* A connection is accepted.
Accepts(s) ==
  /\ backlog[s] # <<>> /\ Head(backlog[s]) = backlog[s][1] /\ Head(backlog[s]) \in Session
  /\ Len(backlog'[s]) = Len(backlog[s]) - 1
  /\ \A i \in 1 .. Len(backlog[s]) - 1 : backlog'[s][i] = backlog[s][i + 1]
  /\ \A r \in Service : r # s => backlog'[r] = backlog[r]
  /\ Threads' = Threads \cup {Len(thread) + 1}
  /\ \A t \in Threads : thread'[t] = thread[t]
  /\ thread'[Len(thread) + 1] = [pc |-> "start", service |-> s, fd |-> Head(backlog[s]), buf |-> <<>>]
  /\ main' = main \ {s} /\ UNCHANGED <<server, c2s, srvEnd>>

LEMMA AcceptTypes ==
  ASSUME Types, NEW s \in Service, Accept(s)
  PROVE  /\ Types' /\ (Accepts(s) \/ (backlog[s] = <<>> /\ Over)) /\ s \in main
         /\ UNCHANGED <<userVars, session, kidVars, s2c, cliEnd>>
<1>0. /\ UNCHANGED <<userVars, session, kidVars, s2c, cliEnd>> /\ s \in main
      /\ backlog[s] \in Seq(Session) /\ backlog \in [Service -> Seq(Session)]
      /\ thread \in Seq(ThreadRec(Len(session))) /\ Len(thread) \in Nat
  BY DEF Accept, Types
<1>1. CASE backlog[s] = <<>>
  <2>1. ServerEnds("died")
    BY <1>1 DEF Accept
  <2>. QED  BY <1>0, <1>1, <2>1, ServerEndsIs
<1>2. CASE backlog[s] # <<>>
  <2>. DEFINE q == backlog[s]
              r == [pc |-> "start", service |-> s, fd |-> Head(q), buf |-> <<>>]
  <2>1. /\ backlog' = [backlog EXCEPT ![s] = Tail(q)] /\ thread' = Append(thread, r)
        /\ main' = main \ {s} /\ UNCHANGED <<server, c2s, srvEnd>>
    BY <1>2 DEF Accept, NewThread
  <2>2. /\ Head(q) \in Session /\ Head(q) = q[1]
        /\ Tail(q) \in Seq(Session) /\ Len(Tail(q)) = Len(q) - 1
        /\ \A i \in 1 .. Len(q) - 1 : Tail(q)[i] = q[i + 1]
    BY <1>0, <1>2, TailIs
  <2>3. backlog' \in [Service -> Seq(Session)] /\ backlog'[s] = Tail(q)
        /\ \A p \in Service : p # s => backlog'[p] = backlog[p]
    BY <1>0, <2>1, <2>2
  <2>4. r \in ThreadRec(Len(session))
    BY <2>2 DEF ThreadRec, Session
  <2>. HIDE DEF r
  <2>5. /\ thread' \in Seq(ThreadRec(Len(session))) /\ Len(thread') = Len(thread) + 1
        /\ thread'[Len(thread) + 1] = r /\ \A t \in 1 .. Len(thread) : thread'[t] = thread[t]
    BY <1>0, <2>1, <2>4, AppendProperties
  <2>6. Threads' = Threads \cup {Len(thread) + 1}
    BY <1>0, <2>5 DEF Threads
  <2>7. Types'
    BY <1>0, <2>1, <2>3, <2>5, TypesKept DEF Types, userVars, kidVars
  <2>8. Accepts(s)
    BY <1>2, <2>1, <2>2, <2>3, <2>5, <2>6 DEF Accepts, Threads, r
  <2>. QED  BY <1>0, <2>7, <2>8
<1>. QED  BY <1>1, <1>2

\* One thread changes, and serves the same connection as before.
OneThread(t) ==
  /\ Threads' = Threads /\ \A u \in Threads : u # t => thread'[u] = thread[u]
  /\ thread'[t].fd = thread[t].fd /\ thread'[t].service = thread[t].service

LEMMA StartThreadTypes ==
  ASSUME Types, NEW t \in Threads, StartThread(t)
  PROVE  /\ Types' /\ OneThread(t)
         /\ thread[t].pc = "start" /\ thread'[t].pc = "read" /\ thread'[t].buf = thread[t].buf
         /\ UNCHANGED <<userVars, session, kidVars, tcpVars, main, backlog, server>>
<1>. DEFINE r == [thread[t] EXCEPT !.pc = "read"]
<1>1. thread[t] \in ThreadRec(Len(session))
  BY ThreadIs
<1>2. /\ r \in ThreadRec(Len(session)) /\ r.fd = thread[t].fd /\ r.service = thread[t].service
      /\ r.pc = "read" /\ r.buf = thread[t].buf
  BY <1>1 DEF ThreadRec
<1>3. thread' = [thread EXCEPT ![t] = r]
  BY <1>1 DEF StartThread, Arg, ThreadRec
<1>4. /\ UNCHANGED <<userVars, session, kidVars, tcpVars, main, backlog, server>>
      /\ thread[t].pc = "start"
  BY DEF StartThread
<1>. HIDE DEF r
<1>5. /\ thread' \in Seq(ThreadRec(Len(session))) /\ Threads' = Threads
      /\ thread'[t] = r /\ \A u \in Threads : u # t => thread'[u] = thread[u]
  BY <1>2, <1>3, ThreadEdit
<1>6. Types'
  BY <1>4, <1>5, TypesKept DEF Types, userVars, kidVars, tcpVars
<1>. QED  BY <1>2, <1>4, <1>5, <1>6 DEF OneThread

\* A thread leaves its connection.
Hangs(t) ==
  /\ thread'[t].pc = "done" /\ srvEnd'[thread[t].fd] = "closed" /\ UNCHANGED c2s
  /\ \A j \in Session : j # thread[t].fd => srvEnd'[j] = srvEnd[j]

\* A thread takes lines off its connection.
Fetches(t) ==
  LET k == thread[t].fd
  IN  /\ thread'[t].pc = "write" /\ UNCHANGED srvEnd
      /\ \A j \in Session : j # k => c2s'[j] = c2s[j]
      /\ \E n \in 1 .. Len(c2s[k]) : /\ thread'[t].buf = SubSeq(c2s[k], 1, n)
                                     /\ c2s'[k] = SubSeq(c2s[k], n + 1, Len(c2s[k]))

LEMMA HangUp ==
  ASSUME Types, NEW t \in Threads,
         thread' = [thread EXCEPT ![t].pc = "done"],
         srvEnd' = [srvEnd EXCEPT ![thread[t].fd] = "closed"], UNCHANGED c2s
  PROVE  /\ thread' \in Seq(ThreadRec(Len(session))) /\ srvEnd' \in [Session -> SrvEnds]
         /\ OneThread(t) /\ Hangs(t)
<1>. DEFINE r == [thread[t] EXCEPT !.pc = "done"]
<1>1. thread[t] \in ThreadRec(Len(session)) /\ thread[t].fd \in Session
  BY ThreadIs
<1>2. /\ r \in ThreadRec(Len(session)) /\ r.fd = thread[t].fd /\ r.service = thread[t].service
      /\ r.pc = "done"
  BY <1>1 DEF ThreadRec
<1>3. thread' = [thread EXCEPT ![t] = r]
  OBVIOUS
<1>. HIDE DEF r
<1>4. /\ thread' \in Seq(ThreadRec(Len(session))) /\ Threads' = Threads
      /\ thread'[t] = r /\ \A u \in Threads : u # t => thread'[u] = thread[u]
  BY <1>2, <1>3, ThreadEdit
<1>5. /\ srvEnd' \in [Session -> SrvEnds] /\ srvEnd'[thread[t].fd] = "closed"
      /\ \A j \in Session : j # thread[t].fd => srvEnd'[j] = srvEnd[j]
  BY <1>1 DEF Types, SrvEnds
<1>. QED  BY <1>2, <1>4, <1>5 DEF OneThread, Hangs

LEMMA EchoReadTypes ==
  ASSUME Types, NEW t \in Threads, EchoRead(t)
  PROVE  /\ Types' /\ OneThread(t) /\ (Hangs(t) \/ Fetches(t))
         /\ thread[t].pc = "read" /\ thread[t].service = "echo"
         /\ UNCHANGED <<userVars, session, kidVars, s2c, cliEnd, main, backlog, server>>
<1>. DEFINE k == thread[t].fd
<1>0. /\ UNCHANGED <<userVars, session, kidVars, s2c, cliEnd, main, backlog, server>>
      /\ thread[t].pc = "read" /\ thread[t].service = "echo"
  BY DEF EchoRead
<1>1. thread[t] \in ThreadRec(Len(session)) /\ k \in Session
  BY ThreadIs
<1>2. CASE \E n \in 1 .. Len(c2s[k]) :
             /\ thread' = [thread EXCEPT ![t].pc = "write", ![t].buf = SubSeq(c2s[k], 1, n)]
             /\ c2s' = [c2s EXCEPT ![k] = SubSeq(@, n + 1, Len(@))]
             /\ UNCHANGED srvEnd
  <2>1. PICK n \in 1 .. Len(c2s[k]) :
             /\ thread' = [thread EXCEPT ![t].pc = "write", ![t].buf = SubSeq(c2s[k], 1, n)]
             /\ c2s' = [c2s EXCEPT ![k] = SubSeq(@, n + 1, Len(@))]
             /\ UNCHANGED srvEnd
    BY <1>2
  <2>. DEFINE a == SubSeq(c2s[k], 1, n)
              b == SubSeq(c2s[k], n + 1, Len(c2s[k]))
              r == [thread[t] EXCEPT !.pc = "write", !.buf = a]
  <2>2. a \in Seq(Item) /\ b \in Seq(Item)
    <3>1. c2s[k] \in Seq(Item)
      BY <1>1 DEF Types
    <3>. QED  BY <3>1, CutIs
  <2>3. c2s' = [c2s EXCEPT ![k] = b] /\ thread' = [thread EXCEPT ![t] = r]
    BY <2>1
  <2>. HIDE DEF a, b
  <2>4. /\ r \in ThreadRec(Len(session)) /\ r.fd = k /\ r.service = thread[t].service
        /\ r.pc = "write" /\ r.buf = a
    BY <1>1, <2>2 DEF ThreadRec
  <2>. HIDE DEF r
  <2>5. /\ thread' \in Seq(ThreadRec(Len(session))) /\ Threads' = Threads
        /\ thread'[t] = r /\ \A u \in Threads : u # t => thread'[u] = thread[u]
    BY <2>3, <2>4, ThreadEdit
  <2>6. /\ c2s' \in [Session -> Seq(Item)] /\ c2s'[k] = b
        /\ \A j \in Session : j # k => c2s'[j] = c2s[j]
    BY <1>1, <2>2, <2>3 DEF Types
  <2>7. Types'
    BY <1>0, <2>1, <2>5, <2>6, TypesKept DEF Types, userVars, kidVars
  <2>8. Fetches(t)
    BY <2>1, <2>4, <2>5, <2>6 DEF Fetches, a, b
  <2>. QED  BY <1>0, <2>4, <2>5, <2>7, <2>8 DEF OneThread
<1>3. CASE /\ thread' = [thread EXCEPT ![t].pc = "done"]
           /\ srvEnd' = [srvEnd EXCEPT ![k] = "closed"]
           /\ UNCHANGED c2s
  <2>1. /\ thread' \in Seq(ThreadRec(Len(session))) /\ srvEnd' \in [Session -> SrvEnds]
        /\ OneThread(t) /\ Hangs(t)
    BY <1>3, HangUp
  <2>2. Types'
    BY <1>0, <1>3, <2>1, TypesKept DEF Types, userVars, kidVars
  <2>. QED  BY <1>0, <2>1, <2>2
<1>. QED  BY <1>2, <1>3 DEF EchoRead

LEMMA TimeReadTypes ==
  ASSUME Types, NEW t \in Threads, TimeRead(t)
  PROVE  /\ Types' /\ OneThread(t)
         /\ \/ Hangs(t)
            \/ thread'[t].pc = "write" /\ thread'[t].buf # <<>> /\ UNCHANGED <<srvEnd, c2s>>
         /\ thread[t].pc = "read" /\ thread[t].service = "time"
         /\ UNCHANGED <<userVars, session, kidVars, s2c, cliEnd, main, backlog, server, c2s>>
<1>0. /\ UNCHANGED <<userVars, session, kidVars, s2c, cliEnd, main, backlog, server, c2s>>
      /\ thread[t].pc = "read" /\ thread[t].service = "time"
  BY DEF TimeRead
<1>1. thread[t] \in ThreadRec(Len(session))
  BY ThreadIs
<1>2. CASE thread' = [thread EXCEPT ![t].pc = "write", ![t].buf = <<"time">>] /\ UNCHANGED srvEnd
  <2>. DEFINE e == <<"time">>
              r == [thread[t] EXCEPT !.pc = "write", !.buf = e]
  <2>1. e \in Seq(Item) /\ e # <<>>
    BY ItemIs
  <2>2. thread' = [thread EXCEPT ![t] = r]
    BY <1>2
  <2>. HIDE DEF e
  <2>3. /\ r \in ThreadRec(Len(session)) /\ r.fd = thread[t].fd /\ r.service = thread[t].service
        /\ r.pc = "write" /\ r.buf = e
    BY <1>1, <2>1 DEF ThreadRec
  <2>. HIDE DEF r
  <2>4. /\ thread' \in Seq(ThreadRec(Len(session))) /\ Threads' = Threads
        /\ thread'[t] = r /\ \A u \in Threads : u # t => thread'[u] = thread[u]
    BY <2>2, <2>3, ThreadEdit
  <2>5. Types'
    BY <1>0, <1>2, <2>4, TypesKept DEF Types, userVars, kidVars
  <2>. QED  BY <1>0, <1>2, <2>1, <2>3, <2>4, <2>5 DEF OneThread
<1>3. CASE /\ thread' = [thread EXCEPT ![t].pc = "done"]
           /\ srvEnd' = [srvEnd EXCEPT ![thread[t].fd] = "closed"]
  <2>1. /\ thread' \in Seq(ThreadRec(Len(session))) /\ srvEnd' \in [Session -> SrvEnds]
        /\ OneThread(t) /\ Hangs(t)
    BY <1>0, <1>3, HangUp
  <2>2. Types'
    BY <1>0, <1>3, <2>1, TypesKept DEF Types, userVars, kidVars
  <2>. QED  BY <1>0, <2>1, <2>2
<1>. QED  BY <1>2, <1>3 DEF TimeRead

\* A thread writes a line; nobody may be there to read it.
Answers(t) ==
  LET k == thread[t].fd
  IN  /\ Live(k) /\ Len(s2c[k]) < SockCap
      /\ s2c'[k] = Append(s2c[k], Head(thread[t].buf))
      /\ \A j \in Session : j # k => s2c'[j] = s2c[j]
      /\ UNCHANGED cliEnd

AnswersNobody(t) ==
  LET k == thread[t].fd
  IN  /\ cliEnd[k] \in {"closed", "resetting"} /\ cliEnd'[k] = "resetting"
      /\ \A j \in Session : j # k => cliEnd'[j] = cliEnd[j]
      /\ UNCHANGED s2c

LEMMA WriteTypes ==
  ASSUME Types, ThreadsOK, NEW t \in Threads, Write(t)
  PROVE  /\ Types' /\ thread[t].pc = "write"
         /\ \/ /\ OneThread(t) /\ (Answers(t) \/ AnswersNobody(t))
               /\ thread'[t].buf = Tail(thread[t].buf)
               /\ thread'[t].pc = IF thread'[t].buf = <<>> THEN "read" ELSE "write"
               /\ UNCHANGED <<c2s, srvEnd, main, backlog, server>>
            \/ /\ cliEnd[thread[t].fd] = "reset" /\ Over /\ UNCHANGED <<s2c, cliEnd>>
         /\ UNCHANGED <<userVars, session, kidVars>>
<1>. DEFINE k    == thread[t].fd
            rest == Tail(thread[t].buf)
            r    == [thread[t] EXCEPT !.pc = IF rest = <<>> THEN "read" ELSE "write", !.buf = rest]
<1>0. /\ UNCHANGED <<userVars, session, kidVars>> /\ thread[t].pc = "write"
  BY DEF Write
<1>1. /\ thread[t] \in ThreadRec(Len(session)) /\ k \in Session
      /\ thread[t].buf \in Seq(Item) /\ thread[t].buf # <<>>
  BY <1>0, ThreadIs DEF ThreadsOK
<1>2. Head(thread[t].buf) \in Item /\ rest \in Seq(Item)
  BY <1>1, TailIs
<1>3. CASE cliEnd[k] = "reset"
  <2>1. ServerEnds("died") /\ UNCHANGED <<s2c, cliEnd>>
    BY <1>3 DEF Write
  <2>. QED  BY <1>0, <1>3, <2>1, ServerEndsIs
<1>4. CASE cliEnd[k] # "reset"
  <2>1. /\ thread' = [thread EXCEPT ![t] = r]
        /\ UNCHANGED <<c2s, srvEnd, main, backlog, server>>
        /\ \/ /\ cliEnd[k] \in {"open", "shut"} /\ Len(s2c[k]) < SockCap
              /\ s2c' = [s2c EXCEPT ![k] = Append(s2c[k], Head(thread[t].buf))]
              /\ UNCHANGED cliEnd
           \/ /\ cliEnd[k] \in {"closed", "resetting"}
              /\ cliEnd' = [cliEnd EXCEPT ![k] = "resetting"]
              /\ UNCHANGED s2c
    BY <1>4 DEF Write
  <2>2. /\ r \in ThreadRec(Len(session)) /\ r.fd = k /\ r.service = thread[t].service
        /\ r.pc = (IF r.buf = <<>> THEN "read" ELSE "write") /\ r.buf = rest
    <3>. HIDE DEF rest
    <3>. QED  BY <1>1, <1>2 DEF ThreadRec
  <2>. HIDE DEF r
  <2>3. /\ thread' \in Seq(ThreadRec(Len(session))) /\ Threads' = Threads
        /\ thread'[t] = r /\ \A u \in Threads : u # t => thread'[u] = thread[u]
    BY <2>1, <2>2, ThreadEdit
  <2>4. CASE /\ cliEnd[k] \in {"open", "shut"} /\ Len(s2c[k]) < SockCap
             /\ s2c' = [s2c EXCEPT ![k] = Append(s2c[k], Head(thread[t].buf))]
             /\ UNCHANGED cliEnd
    <3>1. Append(s2c[k], Head(thread[t].buf)) \in Seq(Item)
      <4>1. s2c[k] \in Seq(Item)
        BY <1>1 DEF Types
      <4>. QED  BY <1>2, <4>1, AppendProperties
    <3>2. /\ s2c' \in [Session -> Seq(Item)] /\ s2c'[k] = Append(s2c[k], Head(thread[t].buf))
          /\ \A j \in Session : j # k => s2c'[j] = s2c[j]
      BY <1>1, <2>4, <3>1 DEF Types
    <3>3. Types'
      BY <1>0, <2>1, <2>3, <2>4, <3>2, TypesKept DEF Types, userVars, kidVars
    <3>4. Answers(t)
      BY <2>4, <3>2 DEF Answers, Live
    <3>. QED  BY <1>0, <2>1, <2>2, <2>3, <3>3, <3>4 DEF OneThread
  <2>5. CASE /\ cliEnd[k] \in {"closed", "resetting"}
             /\ cliEnd' = [cliEnd EXCEPT ![k] = "resetting"]
             /\ UNCHANGED s2c
    <3>1. /\ cliEnd' \in [Session -> CliEnds] /\ cliEnd'[k] = "resetting"
          /\ \A j \in Session : j # k => cliEnd'[j] = cliEnd[j]
      BY <1>1, <2>5 DEF Types, CliEnds
    <3>2. Types'
      BY <1>0, <2>1, <2>3, <2>5, <3>1, TypesKept DEF Types, userVars, kidVars
    <3>3. AnswersNobody(t)
      BY <2>5, <3>1 DEF AnswersNobody
    <3>. QED  BY <1>0, <2>1, <2>2, <2>3, <3>2, <3>3 DEF OneThread
  <2>. QED  BY <2>1, <2>4, <2>5
<1>. QED  BY <1>3, <1>4

LEMMA ResetTypes ==
  ASSUME Types, NEW k \in Session, ResetArrives(k)
  PROVE  /\ Types' /\ Aside(k) /\ cliEnd[k] = "resetting" /\ cliEnd'[k] = "reset"
         /\ UNCHANGED <<userVars, session, kidVars, c2s, s2c, srvEnd, serverVars>>
<1>1. /\ UNCHANGED <<userVars, session, kidVars, c2s, s2c, srvEnd, serverVars>>
      /\ cliEnd[k] = "resetting" /\ cliEnd' = [cliEnd EXCEPT ![k] = "reset"]
  BY DEF ResetArrives
<1>2. /\ cliEnd' \in [Session -> CliEnds] /\ cliEnd'[k] = "reset"
      /\ \A j \in Session : j # k => cliEnd'[j] = cliEnd[j]
  BY <1>1 DEF Types, CliEnds
<1>3. Types'
  BY <1>1, <1>2, TypesKept DEF Types, userVars, kidVars, serverVars
<1>. QED  BY <1>1, <1>2, <1>3 DEF Aside, kidVars

\* A session is begun, and the others stay as they are.
NewSession(u, n) ==
  /\ Session' = Session \cup {n} /\ n \notin Session /\ n \in Nat
  /\ session'[n].of = u
  /\ kid'[n].pc = "connect" /\ kid'[n].msg = "" /\ kid'[n].line = 0
  /\ pipe'[n] = <<>> /\ shown'[n] = <<>> /\ c2s'[n] = <<>> /\ s2c'[n] = <<>>
  /\ cliEnd'[n] = "none" /\ srvEnd'[n] = "none"
  /\ \A j \in Session :
       /\ session'[j] = session[j] /\ kid'[j] = kid[j] /\ pipe'[j] = pipe[j]
       /\ shown'[j] = shown[j] /\ c2s'[j] = c2s[j] /\ s2c'[j] = s2c[j]
       /\ cliEnd'[j] = cliEnd[j] /\ srvEnd'[j] = srvEnd[j]
  /\ xterm' = xterm \cup {n} /\ parent' = [parent EXCEPT ![u] = "select"]
  /\ UNCHANGED <<stdinEof, sigchld, serverVars>>

LEMMA BeginTypes ==
  ASSUME Types, NEW u \in User, NEW service \in Service, Begin(u, service)
  PROVE  Types' /\ NewSession(u, Len(session) + 1)
<1>. DEFINE n == Len(session)
            r == [of |-> u, service |-> service]
            S == [of : User, service : Service]
            c == [pc |-> "connect", ready |-> FALSE, echo_flag |-> FALSE, msg |-> "", line |-> 0]
<1>1. n \in Nat /\ Session = 1 .. n /\ session \in Seq(S)
  BY SessionIs DEF Types
<1>2. /\ session' = Append(session, r) /\ kid' = Append(kid, c)
      /\ pipe' = Append(pipe, <<>>) /\ shown' = Append(shown, <<>>)
      /\ c2s' = Append(c2s, <<>>) /\ s2c' = Append(s2c, <<>>)
      /\ cliEnd' = Append(cliEnd, "none") /\ srvEnd' = Append(srvEnd, "none")
      /\ xterm' = xterm \cup {n + 1} /\ parent' = [parent EXCEPT ![u] = "select"]
      /\ UNCHANGED <<stdinEof, sigchld, serverVars>>
  BY DEF Begin
<1>3. r \in S /\ r.of = u
  OBVIOUS
<1>4. c \in KidRec /\ c.pc = "connect" /\ c.msg = "" /\ c.line = 0
  BY DEF KidRec, Message
<1>. HIDE DEF r, c, S
<1>5. /\ session' \in Seq(S) /\ Len(session') = n + 1 /\ session'[n + 1] = r
      /\ \A j \in 1 .. n : session'[j] = session[j]
  BY <1>1, <1>2, <1>3, AppendProperties
<1>. HIDE DEF n
<1>6. Upto(kid', n + 1, KidRec) /\ Grows(kid', kid, n, c)
  <2>1. Upto(kid, n, KidRec) /\ c \in KidRec
    BY <1>1, <1>4, EmptySeq DEF Types, Upto
  <2>. QED  BY <1>1, <1>2, <2>1, AppendIs
<1>7. Upto(pipe', n + 1, Seq(Message)) /\ Grows(pipe', pipe, n, <<>>)
  <2>1. Upto(pipe, n, Seq(Message)) /\ <<>> \in Seq(Message)
    BY <1>1, <1>4, EmptySeq DEF Types, Upto
  <2>. QED  BY <1>1, <1>2, <2>1, AppendIs
<1>8. Upto(shown', n + 1, Seq(Item)) /\ Grows(shown', shown, n, <<>>)
  <2>1. Upto(shown, n, Seq(Item)) /\ <<>> \in Seq(Item)
    BY <1>1, <1>4, EmptySeq DEF Types, Upto
  <2>. QED  BY <1>1, <1>2, <2>1, AppendIs
<1>9. Upto(c2s', n + 1, Seq(Item)) /\ Grows(c2s', c2s, n, <<>>)
  <2>1. Upto(c2s, n, Seq(Item)) /\ <<>> \in Seq(Item)
    BY <1>1, <1>4, EmptySeq DEF Types, Upto
  <2>. QED  BY <1>1, <1>2, <2>1, AppendIs
<1>17. Upto(s2c', n + 1, Seq(Item)) /\ Grows(s2c', s2c, n, <<>>)
  <2>1. Upto(s2c, n, Seq(Item)) /\ <<>> \in Seq(Item)
    BY <1>1, <1>4, EmptySeq DEF Types, Upto
  <2>. QED  BY <1>1, <1>2, <2>1, AppendIs
<1>10. Upto(cliEnd', n + 1, CliEnds) /\ Grows(cliEnd', cliEnd, n, "none")
  <2>1. Upto(cliEnd, n, CliEnds) /\ "none" \in CliEnds
    BY <1>1, <1>4, EmptySeq DEF Types, Upto, CliEnds
  <2>. QED  BY <1>1, <1>2, <2>1, AppendIs
<1>11. Upto(srvEnd', n + 1, SrvEnds) /\ Grows(srvEnd', srvEnd, n, "none")
  <2>1. Upto(srvEnd, n, SrvEnds) /\ "none" \in SrvEnds
    BY <1>1, <1>4, EmptySeq DEF Types, Upto, SrvEnds
  <2>. QED  BY <1>1, <1>2, <2>1, AppendIs
<1>12. Session' = 1 .. n + 1
  BY <1>5 DEF Session
<1>13. NewSession(u, n + 1)
  <2>1. Session' = Session \cup {n + 1} /\ n + 1 \notin Session /\ n + 1 \in Nat
    BY <1>1, <1>12
  <2>2. /\ session'[n + 1].of = u
        /\ kid'[n + 1].pc = "connect" /\ kid'[n + 1].msg = "" /\ kid'[n + 1].line = 0
        /\ pipe'[n + 1] = <<>> /\ shown'[n + 1] = <<>> /\ c2s'[n + 1] = <<>> /\ s2c'[n + 1] = <<>>
        /\ cliEnd'[n + 1] = "none" /\ srvEnd'[n + 1] = "none"
    BY <1>3, <1>4, <1>5, <1>6, <1>7, <1>8, <1>9, <1>10, <1>11, <1>17 DEF Grows
  <2>3. \A j \in Session :
          /\ session'[j] = session[j] /\ kid'[j] = kid[j] /\ pipe'[j] = pipe[j]
          /\ shown'[j] = shown[j] /\ c2s'[j] = c2s[j] /\ s2c'[j] = s2c[j]
          /\ cliEnd'[j] = cliEnd[j] /\ srvEnd'[j] = srvEnd[j]
    BY <1>1, <1>5, <1>6, <1>7, <1>8, <1>9, <1>10, <1>11, <1>17 DEF Grows
  <2>. QED  BY <1>2, <2>1, <2>2, <2>3 DEF NewSession
<1>14. backlog \in [Service -> Seq(1 .. n + 1)]
  <2>1. 1 .. n \subseteq 1 .. n + 1 /\ backlog \in [Service -> Seq(1 .. n)]
    BY <1>1 DEF Types
  <2>2. \A s \in Service : backlog[s] \in Seq(1 .. n + 1)
    BY <2>1, SeqMonotonic
  <2>. QED  BY <2>1, <2>2
<1>15. thread \in Seq(ThreadRec(n + 1))
  <2>1. ThreadRec(n) \subseteq ThreadRec(n + 1)
    BY <1>1 DEF ThreadRec
  <2>2. thread \in Seq(ThreadRec(n))
    BY DEF Types, n
  <2>. QED  BY <2>1, <2>2, SeqMonotonic
<1>16. Types'
  BY <1>2, <1>5, <1>6, <1>7, <1>8, <1>9, <1>10, <1>11, <1>12, <1>14, <1>15, <1>17
     DEF Types, serverVars, S, Upto
<1>. QED  BY <1>13, <1>16 DEF n

LEMMA ChooseIs ==
  ASSUME NEW u \in User, Choose(u), Types, CurrentOK
  PROVE  parent[u] = "prompt" /\ \E service \in Service : Begin(u, service)
<1>1. CASE stdinEof[u]
  <2>1. Current(u) \in Session /\ Begin(u, session[Current(u)].service)
    BY <1>1 DEF Choose, CurrentOK
  <2>. QED  BY <2>1, SessionIs DEF Choose
<1>2. CASE ~ stdinEof[u]
  BY <1>2, EchoAssumption DEF Choose, Service
<1>. QED  BY <1>1, <1>2

\* The last session of a user.
LEMMA CurrentOfNew ==
  ASSUME Types, NEW u \in User, NEW n, NewSession(u, n), n = Len(session) + 1
  PROVE  Current(u)' = n /\ \A v \in User : v # u => Current(v)' = Current(v)
<1>. DEFINE I(v) == {i \in 1 .. Len(session) : session[i].of = v}
            J(v) == {i \in 1 .. Len(session') : session'[i].of = v}
<1>1. /\ \A v : Current(v) = IF I(v) # {} THEN Max(I(v)) ELSE 0
      /\ \A v : Current(v)' = IF J(v) # {} THEN Max(J(v)) ELSE 0
  BY DEF Current, SelectLastInSeq
<1>2. Session = 1 .. Len(session) /\ Session' = 1 .. Len(session') /\ Len(session) \in Nat
  BY SessionIs DEF Session
<1>3. J(u) = I(u) \cup {n}
  BY <1>2 DEF NewSession
<1>4. ASSUME NEW v \in User, v # u  PROVE J(v) = I(v)
  <2>1. 1 .. Len(session') = (1 .. Len(session)) \cup {n}
    BY <1>2 DEF NewSession
  <2>2. \A i \in 1 .. Len(session) : session'[i] = session[i]
    BY <1>2 DEF NewSession
  <2>3. session'[n].of # v
    BY <1>4 DEF NewSession
  <2>. QED  BY <1>2, <2>1, <2>2, <2>3
<1>5. Max(J(u)) = n
  <2>1. n \in J(u) /\ \A y \in J(u) : n >= y
    BY <1>2, <1>3
  <2>2. J(u) \subseteq Nat
    BY <1>2, <1>3
  <2>3. \A x \in J(u) : (\A y \in J(u) : x >= y) => x = n
    BY <2>1, <2>2
  <2>. HIDE DEF J
  <2>. QED  BY <2>1, <2>3 DEF Max
<1>. HIDE DEF I, J
<1>6. Current(u)' = n
  BY <1>1, <1>3, <1>5
<1>. QED  BY <1>1, <1>4, <1>6

LEMMA InitTypes == Init => Types /\ CurrentOK
<1>. SUFFICES ASSUME Init PROVE Types /\ CurrentOK
  OBVIOUS
<1>1. Session = {} /\ session = <<>> /\ Len(session) = 0 /\ 1 .. 0 = {}
  BY DEF Init, Session
<1>2. /\ session \in Seq([of : User, service : Service]) /\ thread \in Seq(ThreadRec(Len(session)))
      /\ backlog \in [Service -> Seq(Session)]
  BY EmptySeq DEF Init
<1>3. \A S : <<>> \in [{} -> S]
  BY <1>1
<1>4. Types
  BY <1>1, <1>2, <1>3 DEF Init, Types
<1>5. \A u \in User : Current(u) = 0
  <2>1. {j \in 1 .. Len(session) : TRUE} = {}
    BY <1>1
  <2>. QED  BY <1>1 DEF Current, SelectLastInSeq
<1>. QED  BY <1>4, <1>5 DEF CurrentOK

LEMMA UpsetTypes ==
  ASSUME Types, Upset
  PROVE  Types' /\ session' = session
<1>1. ASSUME NEW u \in User, Quit(u) \/ CloseStdin(u)
      PROVE  Types' /\ session' = session
  BY <1>1, UserTypes
<1>2. ASSUME NEW k \in Session, Kill(k) \/ CloseWindow(k) \/ ExecFails(k)
      PROVE  Types' /\ session' = session
  BY <1>2, KillTypes, WindowTypes DEF Aside
<1>3. ASSUME ServerKilled PROVE Types' /\ session' = session
  BY <1>3, ServerEndsIs DEF ServerKilled
<1>. QED  BY <1>1, <1>2, <1>3 DEF Upset

\* Every step keeps the types; it begins a session or keeps those there are.
LEMMA StepTypes ==
  ASSUME Types, ThreadsOK, CurrentOK, Next
  PROVE  /\ Types'
         /\ session' = session \/ \E u \in User : NewSession(u, Len(session) + 1)
<1>1. ASSUME NEW u \in User, Choose(u)
      PROVE  Types' /\ \E v \in User : NewSession(v, Len(session) + 1)
  BY <1>1, ChooseIs, BeginTypes
<1>2. ASSUME NEW u \in User, ParentStep(u)
      PROVE  Types' /\ session' = session
  BY <1>2, UserTypes DEF ParentStep
<1>3. ASSUME NEW k \in Session, KidStep(k)
      PROVE  Types' /\ session' = session
  BY <1>3, ConnectTypes, FromServerTypes, FromUserTypes, SendTypes, TellTypes, KillTypes, WindowTypes
     DEF KidStep, Aside
<1>4. ASSUME NEW k \in Session, ResetArrives(k)
      PROVE  Types' /\ session' = session
  BY <1>4, ResetTypes
<1>5. ASSUME MainStep  PROVE Types' /\ session' = session
  BY <1>5, SelectTypes, AcceptTypes DEF MainStep
<1>6. ASSUME NEW t \in Threads, ThreadStep(t)
      PROVE  Types' /\ session' = session
  BY <1>6, StartThreadTypes, EchoReadTypes, TimeReadTypes, WriteTypes DEF ThreadStep
<1>. QED  BY <1>1, <1>2, <1>3, <1>4, <1>5, <1>6, UpsetTypes DEF Next, Step, Threads

LEMMA CurrentSame ==
  ASSUME session' = session
  PROVE  \A u \in User : Current(u)' = Current(u)
BY DEF Current, SelectLastInSeq

LEMMA StepCurrent ==
  ASSUME Types, ThreadsOK, CurrentOK, Next
  PROVE  CurrentOK'
<1>1. CASE session' = session
  BY <1>1, CurrentSame DEF CurrentOK, Session
<1>2. ASSUME NEW u \in User, NewSession(u, Len(session) + 1)
      PROVE  CurrentOK'
  BY <1>2, CurrentOfNew DEF CurrentOK, NewSession
<1>. QED  BY <1>1, <1>2, StepTypes

----------------------------------------------------------------------------
(* Children, threads and the ends of connections *)

Ends == KidsOK /\ ThreadsOK /\ BacklogOK

LEMMA KidKept ==
  ASSUME NEW j \in Session, KidOK(j), kid'[j] = kid[j], cliEnd'[j] = cliEnd[j],
         srvEnd'[j] = srvEnd[j] \/ srvEnd'[j] # "open",
         kid[j].pc = "connect" => shown'[j] = <<>> /\ c2s'[j] = <<>> /\ s2c'[j] = <<>>
  PROVE  KidOK(j)'
<1>1. Live(j)' = Live(j)
  BY DEF Live
<1>2. (kid[j].pc = "connect" =>
         /\ cliEnd[j] = "none" /\ srvEnd[j] # "open" /\ kid[j].line = 0
         /\ shown[j] = <<>> /\ c2s[j] = <<>> /\ s2c[j] = <<>>)'
  BY DEF KidOK
<1>3. (Live(j) <=> (kid[j].pc \notin {"connect", "gone"} /\ cliEnd[j] # "none"))'
  BY <1>1 DEF KidOK
<1>4. (kid[j].pc \in {"select", "look", "send"} => cliEnd[j] # "none")'
  BY DEF KidOK
<1>5. (kid[j].pc = "tell" /\ Leaves(kid[j].msg) => srvEnd[j] # "open")'
  BY DEF KidOK, Leaves
<1>6. (kid[j].msg = "killed" => kid[j].pc = "gone")'
  BY DEF KidOK
<1>7. (kid[j].pc = "tell" /\ kid[j].msg # "not ready" => cliEnd[j] # "none")'
  BY DEF KidOK
<1>8. (cliEnd[j] \in {"closed", "resetting", "reset"} => srvEnd[j] # "open" \/ kid[j].msg = "killed")'
  BY DEF KidOK
<1>. QED  BY <1>2, <1>3, <1>4, <1>5, <1>6, <1>7, <1>8 DEF KidOK

\* The same lines in the same places, or no connection that could carry them.
LEMMA OrderKept ==
  ASSUME NEW j \in Session, InOrder(j), session'[j] = session[j], shown'[j] = shown[j],
         s2c'[j] = s2c[j],
         Live(j)' /\ srvEnd'[j] = "open" =>
           /\ Live(j) /\ srvEnd[j] = "open" /\ c2s'[j] = c2s[j]
           /\ Sent(j)' = Sent(j)
           /\ \A t \in Threads' : thread'[t].fd = j =>
                t \in Threads /\ thread[t].fd = j /\ thread'[t].buf = thread[t].buf
           /\ (\A t \in Threads' : thread'[t].fd # j) => \A t \in Threads : thread[t].fd # j
  PROVE  InOrder(j)'
<1>1. LinesFrom(shown[j], j, 0)'
  BY DEF InOrder, LinesFrom
<1>2. (session[j].service = "echo" => LinesFrom(s2c[j], j, Len(shown[j])))'
  BY DEF InOrder, LinesFrom
<1>3. ASSUME (session[j].service = "echo")', Live(j)', srvEnd'[j] = "open"
      PROVE  /\ (\A t \in Threads : thread[t].fd = j => Served(j, t))'
             /\ ((\A t \in Threads : thread[t].fd # j) => Unserved(j))'
  <2>1. Sent(j)' = Sent(j)
    BY <1>3
  <2>2. ASSUME NEW t \in Threads', thread'[t].fd = j  PROVE Served(j, t)'
    <3>1. t \in Threads /\ thread[t].fd = j /\ thread'[t].buf = thread[t].buf /\ Served(j, t)
      BY <1>3, <2>2 DEF InOrder
    <3>. QED  BY <1>3, <2>1, <3>1 DEF Served, LinesFrom
  <2>3. ASSUME \A t \in Threads' : thread'[t].fd # j  PROVE Unserved(j)'
    <3>1. Unserved(j)
      BY <1>3, <2>3 DEF InOrder
    <3>. QED  BY <1>3, <2>1, <3>1 DEF Unserved, LinesFrom
  <2>. QED  BY <2>2, <2>3
<1>. QED  BY <1>1, <1>2, <1>3 DEF InOrder

\* A connection that one of its ends has left.
LEMMA OrderOver ==
  ASSUME NEW j \in Session, InOrder(j), session'[j] = session[j], shown'[j] = shown[j],
         s2c'[j] = s2c[j] \/ s2c'[j] = <<>>, ~ (Live(j)' /\ srvEnd'[j] = "open")
  PROVE  InOrder(j)'
<1>1. LinesFrom(shown[j], j, 0)'
  BY DEF InOrder, LinesFrom
<1>2. (session[j].service = "echo" => LinesFrom(s2c[j], j, Len(shown[j])))'
  <2>1. CASE s2c'[j] = s2c[j]
    BY <2>1 DEF InOrder, LinesFrom
  <2>2. CASE s2c'[j] = <<>>
    <3>1. 1 .. Len(s2c'[j]) = {}
      BY <2>2
    <3>. QED  BY <3>1 DEF LinesFrom
  <2>. QED  BY <2>1, <2>2
<1>. QED  BY <1>1, <1>2 DEF InOrder

\* A step of session k alone, while the server does nothing.
LEMMA SessionKept ==
  ASSUME Types, Ends, OrderOK, NEW k \in Session, Aside(k), thread' = thread,
         KidOK(k)', InOrder(k)',
         cliEnd[k] # "none" => cliEnd'[k] # "none",
         srvEnd[k] = "open" => srvEnd'[k] = "open"
  PROVE  KidsOK' /\ ThreadsOK' /\ OrderOK' /\ (backlog' = backlog => BacklogOK')
<1>1. Session' = Session /\ Threads' = Threads /\ session' = session
  BY DEF Aside, Session, Threads
<1>2. ASSUME NEW j \in Session, j # k  PROVE KidOK(j)' /\ InOrder(j)'
  <2>1. KidOK(j) /\ InOrder(j)
    BY DEF Ends, KidsOK, OrderOK
  <2>2. /\ kid'[j] = kid[j] /\ pipe'[j] = pipe[j] /\ shown'[j] = shown[j]
        /\ c2s'[j] = c2s[j] /\ s2c'[j] = s2c[j]
        /\ cliEnd'[j] = cliEnd[j] /\ srvEnd'[j] = srvEnd[j]
    BY <1>2 DEF Aside
  <2>3. kid[j].pc = "connect" => shown'[j] = <<>> /\ c2s'[j] = <<>> /\ s2c'[j] = <<>>
    BY <2>1, <2>2 DEF KidOK
  <2>4. KidOK(j)'
    BY <2>1, <2>2, <2>3, KidKept
  <2>5. Live(j)' = Live(j) /\ Sent(j)' = Sent(j)
    BY <2>2 DEF Live, Sent
  <2>6. InOrder(j)'
    BY <1>1, <2>1, <2>2, <2>5, OrderKept
  <2>. QED  BY <2>4, <2>6
<1>3. KidsOK' /\ OrderOK'
  BY <1>1, <1>2 DEF KidsOK, OrderOK
<1>4. \A j \in Session : /\ cliEnd[j] # "none" => cliEnd'[j] # "none"
                         /\ srvEnd[j] = "open" => srvEnd'[j] = "open"
  BY DEF Aside
<1>5. \A t \in Threads : thread[t].fd \in Session
  BY ThreadIs
<1>6. ThreadsOK'
  BY <1>1, <1>4, <1>5 DEF Ends, ThreadsOK
<1>7. ASSUME backlog' = backlog  PROVE BacklogOK'
  <2>1. \A s \in Service : \A i \in 1 .. Len(backlog[s]) : backlog[s][i] \in Session
    BY ElementOfSeq DEF Types
  <2>. QED  BY <1>1, <1>4, <1>7, <2>1 DEF Ends, BacklogOK
<1>. QED  BY <1>3, <1>6, <1>7

LEMMA NoLines == \A k, n : LinesFrom(<<>>, k, n)
<1>1. 1 .. Len(<<>>) = {}
  OBVIOUS
<1>. QED  BY <1>1 DEF LinesFrom

LEMMA NoServerYet ==
  ASSUME Ends, NEW k \in Session, cliEnd[k] = "none"
  PROVE  /\ \A t \in Threads : thread[t].fd # k
         /\ \A s \in Service : \A i \in 1 .. Len(backlog[s]) : backlog[s][i] # k
BY DEF Ends, ThreadsOK, BacklogOK

LEMMA ConnectKeeps ==
  ASSUME Types, Ends, OrderOK, NEW k \in Session, Connect(k)
  PROVE  Ends' /\ OrderOK'
<1>1. /\ Types' /\ Aside(k)
      /\ UNCHANGED <<userVars, session, xterm, pipe, shown, c2s, s2c, main, thread, server>>
      /\ \/ /\ kid'[k].pc = "select" /\ cliEnd'[k] = "open" /\ srvEnd'[k] = "open"
            /\ backlog' = [backlog EXCEPT ![session[k].service] = Append(@, k)]
         \/ /\ kid'[k].pc = "tell" /\ kid'[k].msg = "not ready"
            /\ UNCHANGED <<backlog, cliEnd, srvEnd>>
      /\ kid'[k].line = kid[k].line /\ (kid'[k].msg = "killed" => kid[k].msg = "killed")
  BY ConnectTypes
<1>2. /\ kid[k].pc = "connect" /\ KidOK(k) /\ InOrder(k)
      /\ cliEnd[k] = "none" /\ srvEnd[k] # "open" /\ kid[k].line = 0 /\ kid[k].msg # "killed"
      /\ shown[k] = <<>> /\ c2s[k] = <<>> /\ s2c[k] = <<>>
  BY DEF Connect, Ends, KidsOK, OrderOK, KidOK
<1>3. /\ \A t \in Threads : thread[t].fd # k
      /\ \A s \in Service : \A i \in 1 .. Len(backlog[s]) : backlog[s][i] # k
  BY <1>2, NoServerYet
<1>4. CASE kid'[k].pc = "tell"
  <2>1. kid'[k].msg = "not ready" /\ UNCHANGED <<backlog, cliEnd, srvEnd, thread>>
    BY <1>1, <1>4
  <2>2. KidOK(k)'
    BY <1>2, <1>4, <2>1 DEF KidOK, Live
  <2>3. ~ (Live(k)' /\ srvEnd'[k] = "open")
    BY <1>2, <2>1 DEF Live
  <2>4. InOrder(k)'
    BY <1>1, <1>2, <2>3, OrderOver
  <2>. QED  BY <1>1, <2>1, <2>2, <2>4, SessionKept DEF Ends
<1>5. CASE kid'[k].pc = "select"
  <2>1. /\ cliEnd'[k] = "open" /\ srvEnd'[k] = "open" /\ kid'[k].msg # "killed" /\ kid'[k].line = 0
        /\ backlog' = [backlog EXCEPT ![session[k].service] = Append(@, k)]
        /\ shown'[k] = <<>> /\ c2s'[k] = <<>> /\ s2c'[k] = <<>> /\ thread' = thread
    BY <1>1, <1>2, <1>5
  <2>2. KidOK(k)'
    BY <1>5, <2>1 DEF KidOK, Live
  <2>3. InOrder(k)'
    <3>1. Threads' = Threads
      BY <2>1 DEF Threads
    <3>2. Sent(k)' = 0 /\ Len(c2s'[k]) = 0
      BY <1>5, <2>1 DEF Sent
    <3>3. Unserved(k)'
      BY <2>1, <3>2, NoLines DEF Unserved
    <3>. QED  BY <1>3, <2>1, <3>1, <3>3, NoLines DEF InOrder
  <2>4. KidsOK' /\ ThreadsOK' /\ OrderOK'
    BY <1>1, <1>2, <2>1, <2>2, <2>3, SessionKept
  <2>5. BacklogOK'
    <3>. DEFINE s == session[k].service
    <3>1. s \in Service /\ backlog[s] \in Seq(Session) /\ backlog \in [Service -> Seq(Session)]
      BY SessionIs DEF Types
    <3>2. /\ backlog'[s] = Append(backlog[s], k)
          /\ \A r \in Service : r # s => backlog'[r] = backlog[r]
      BY <2>1, <3>1
    <3>3. /\ Len(backlog'[s]) = Len(backlog[s]) + 1 /\ Len(backlog[s]) \in Nat
          /\ \A i \in 1 .. Len(backlog[s]) + 1 :
               backlog'[s][i] = IF i <= Len(backlog[s]) THEN backlog[s][i] ELSE k
      BY <3>1, <3>2, PutIs
    <3>. HIDE DEF s
    <3>4. ASSUME NEW r \in Service, NEW i \in 1 .. Len(backlog'[r])
          PROVE  \/ i \in 1 .. Len(backlog[r]) /\ backlog'[r][i] = backlog[r][i]
                 \/ r = s /\ i = Len(backlog[s]) + 1 /\ backlog'[r][i] = k
      <4>1. CASE r # s
        BY <3>2, <4>1
      <4>2. CASE r = s
        <5>1. i \in 1 .. Len(backlog[s]) + 1
          BY <3>3, <4>2
        <5>. QED  BY <3>3, <4>2, <5>1
      <4>. QED  BY <4>1, <4>2
    <3>5. \A r \in Service : \A i \in 1 .. Len(backlog[r]) :
            backlog[r][i] \in Session /\ backlog[r][i] # k
      BY <1>3, ElementOfSeq DEF Types
    <3>6. \A j \in Session : j # k => cliEnd'[j] = cliEnd[j] /\ srvEnd'[j] = srvEnd[j]
      BY <1>1 DEF Aside
    <3>7. thread' = thread /\ Threads' = Threads /\ session' = session
      BY <1>1, <2>1 DEF Threads
    <3>8. ASSUME NEW r \in Service, NEW i \in 1 .. Len(backlog'[r])
          PROVE  /\ session'[backlog'[r][i]].service = r
                 /\ cliEnd'[backlog'[r][i]] # "none" /\ srvEnd'[backlog'[r][i]] = "open"
                 /\ \A t \in Threads' : thread'[t].fd # backlog'[r][i]
                 /\ \A j \in 1 .. Len(backlog'[r]) : backlog'[r][j] = backlog'[r][i] => j = i
      <4>1. CASE i \in 1 .. Len(backlog[r]) /\ backlog'[r][i] = backlog[r][i]
        <5>1. /\ session[backlog[r][i]].service = r
              /\ cliEnd[backlog[r][i]] # "none" /\ srvEnd[backlog[r][i]] = "open"
              /\ \A t \in Threads : thread[t].fd # backlog[r][i]
              /\ \A j \in 1 .. Len(backlog[r]) : backlog[r][j] = backlog[r][i] => j = i
          BY <4>1 DEF Ends, BacklogOK
        <5>. QED  BY <3>4, <3>5, <3>6, <3>7, <4>1, <5>1
      <4>2. CASE r = s /\ i = Len(backlog[s]) + 1 /\ backlog'[r][i] = k
        BY <1>3, <2>1, <3>4, <3>5, <3>7, <4>2 DEF s
      <4>. QED  BY <3>4, <4>1, <4>2
    <3>. QED  BY <3>8 DEF BacklogOK
  <2>. QED  BY <2>4, <2>5 DEF Ends
<1>. QED  BY <1>1, <1>4, <1>5

\* One connection leaves the queue, and the others are left alone.
LEMMA BacklogCut ==
  ASSUME Types, Ends, session' = session, NEW s \in Service, NEW x \in 1 .. Len(backlog[s]),
         Len(backlog'[s]) = Len(backlog[s]) - 1,
         \A j \in 1 .. Len(backlog[s]) - 1 :
           backlog'[s][j] = IF j < x THEN backlog[s][j] ELSE backlog[s][j + 1],
         \A r \in Service : r # s => backlog'[r] = backlog[r],
         \A b \in Session : b # backlog[s][x] =>
           /\ cliEnd'[b] = cliEnd[b] /\ srvEnd'[b] = srvEnd[b]
           /\ (\A t \in Threads : thread[t].fd # b) => \A t \in Threads' : thread'[t].fd # b
  PROVE  BacklogOK'
<1>. DEFINE Was(r, j) == IF r = s /\ ~ (j < x) THEN j + 1 ELSE j
<1>1. Len(backlog[s]) \in Nat /\ x \in Nat
  <2>1. backlog[s] \in Seq(Session)
    BY DEF Types
  <2>. QED  BY <2>1
<1>2. ASSUME NEW r \in Service, NEW j \in 1 .. Len(backlog'[r])
      PROVE  /\ Was(r, j) \in 1 .. Len(backlog[r]) /\ backlog'[r][j] = backlog[r][Was(r, j)]
             /\ r = s => Was(r, j) # x
  <2>1. CASE r # s
    BY <2>1
  <2>2. CASE r = s
    <3>1. j \in 1 .. Len(backlog[s]) - 1
      BY <2>2
    <3>2. backlog'[r][j] = IF j < x THEN backlog[s][j] ELSE backlog[s][j + 1]
      BY <2>2, <3>1
    <3>. QED  BY <1>1, <2>2, <3>1, <3>2
  <2>. QED  BY <2>1, <2>2
<1>3. ASSUME NEW r \in Service, NEW i \in 1 .. Len(backlog'[r]), NEW j \in 1 .. Len(backlog'[r]),
             Was(r, i) = Was(r, j)
      PROVE  j = i
  <2>1. i \in Int /\ j \in Int
    OBVIOUS
  <2>. QED  BY <1>1, <1>3, <2>1
<1>. HIDE DEF Was
<1>4. ASSUME NEW r \in Service, NEW i \in 1 .. Len(backlog'[r])
      PROVE  /\ session'[backlog'[r][i]].service = r
             /\ cliEnd'[backlog'[r][i]] # "none" /\ srvEnd'[backlog'[r][i]] = "open"
             /\ \A t \in Threads' : thread'[t].fd # backlog'[r][i]
             /\ \A j \in 1 .. Len(backlog'[r]) : backlog'[r][j] = backlog'[r][i] => j = i
  <2>. DEFINE w == Was(r, i)
              b == backlog[r][w]
  <2>1. w \in 1 .. Len(backlog[r]) /\ backlog'[r][i] = b /\ (r = s => w # x)
    BY <1>2
  <2>. HIDE DEF w
  <2>2. /\ session[b].service = r /\ cliEnd[b] # "none" /\ srvEnd[b] = "open"
        /\ \A t \in Threads : thread[t].fd # b
        /\ \A j \in 1 .. Len(backlog[r]) : backlog[r][j] = b => j = w
    BY <2>1 DEF Ends, BacklogOK
  <2>3. b \in Session
    <3>1. backlog[r] \in Seq(Session)
      BY DEF Types
    <3>. QED  BY <2>1, <3>1, ElementOfSeq
  <2>4. b # backlog[s][x]
    <3>1. session[backlog[s][x]].service = s
      BY DEF Ends, BacklogOK
    <3>2. CASE r = s
      BY <2>1, <2>2, <3>2
    <3>. QED  BY <2>2, <3>1, <3>2
  <2>. HIDE DEF b
  <2>5. /\ cliEnd'[b] = cliEnd[b] /\ srvEnd'[b] = srvEnd[b]
        /\ \A t \in Threads' : thread'[t].fd # b
    BY <2>2, <2>3, <2>4
  <2>6. ASSUME NEW j \in 1 .. Len(backlog'[r]), backlog'[r][j] = backlog'[r][i]
        PROVE  j = i
    <3>1. Was(r, j) \in 1 .. Len(backlog[r]) /\ backlog[r][Was(r, j)] = b
      BY <1>2, <2>1, <2>6
    <3>2. Was(r, j) = Was(r, i)
      BY <2>2, <3>1 DEF w
    <3>. QED  BY <1>3, <3>2
  <2>. QED  BY <2>1, <2>2, <2>5, <2>6
<1>. QED  BY <1>4 DEF BacklogOK

LEMMA KillKeeps ==
  ASSUME Types, Ends, OrderOK, NEW k \in Session, Kill(k)
  PROVE  Ends' /\ OrderOK'
<1>1. /\ Types' /\ Aside(k)
      /\ kid'[k].pc = "gone" /\ kid'[k].msg = "killed" /\ kid'[k].line = kid[k].line
  BY KillTypes
<1>2. /\ UNCHANGED <<shown, c2s, srvEnd, thread>> /\ session' = session /\ Abort(k)
  BY DEF Kill
<1>3. /\ CloseClient(k)
      /\ \/ backlog' = backlog
         \/ \E s \in Service : \E i \in 1 .. Len(backlog[s]) :
              /\ backlog[s][i] = k
              /\ \A r \in Service : r # s => backlog'[r] = backlog[r]
              /\ Len(backlog'[s]) = Len(backlog[s]) - 1
              /\ \A j \in 1 .. Len(backlog[s]) - 1 :
                   backlog'[s][j] = IF j < i THEN backlog[s][j] ELSE backlog[s][j + 1]
  BY <1>2, AbortIs
<1>4. /\ s2c'[k] = <<>> /\ cliEnd'[k] \in {"none", "closed", "resetting"}
      /\ (cliEnd'[k] = "none") <=> (cliEnd[k] = "none")
  BY <1>3, CloseClientIs
<1>5. KidOK(k)'
  BY <1>1, <1>4 DEF KidOK, Live
<1>6. InOrder(k)'
  <2>1. InOrder(k) /\ ~ Live(k)'
    BY <1>4 DEF OrderOK, Live
  <2>. QED  BY <1>2, <1>4, <2>1, OrderOver
<1>7. KidsOK' /\ ThreadsOK' /\ OrderOK' /\ (backlog' = backlog => BacklogOK')
  BY <1>1, <1>2, <1>4, <1>5, <1>6, SessionKept
<1>8. ASSUME NEW s \in Service, NEW i \in 1 .. Len(backlog[s]),
             backlog[s][i] = k,
             \A r \in Service : r # s => backlog'[r] = backlog[r],
             Len(backlog'[s]) = Len(backlog[s]) - 1,
             \A j \in 1 .. Len(backlog[s]) - 1 :
                backlog'[s][j] = IF j < i THEN backlog[s][j] ELSE backlog[s][j + 1]
      PROVE  BacklogOK'
  <2>1. \A b \in Session : b # k =>
           /\ cliEnd'[b] = cliEnd[b] /\ srvEnd'[b] = srvEnd[b]
           /\ (\A t \in Threads : thread[t].fd # b) => \A t \in Threads' : thread'[t].fd # b
    BY <1>1, <1>2 DEF Aside, Threads
  <2>. QED  BY <1>2, <1>8, <2>1, BacklogCut
<1>. QED  BY <1>3, <1>7, <1>8 DEF Ends

LEMMA LinesCut ==
  ASSUME NEW k, NEW m \in Nat, NEW q \in Seq(Item), LinesFrom(q, k, m), NEW n \in 1 .. Len(q)
  PROVE  /\ LinesFrom(SubSeq(q, 1, n), k, m) /\ Len(SubSeq(q, 1, n)) = n
         /\ LinesFrom(SubSeq(q, n + 1, Len(q)), k, m + n)
         /\ Len(SubSeq(q, n + 1, Len(q))) = Len(q) - n
<1>. DEFINE a == SubSeq(q, 1, n)
            b == SubSeq(q, n + 1, Len(q))
<1>1. /\ Len(a) = n /\ \A i \in 1 .. n : a[i] = q[i]
      /\ Len(b) = Len(q) - n /\ \A i \in 1 .. Len(q) - n : b[i] = q[n + i]
  BY CutIs
<1>. HIDE DEF a, b
<1>2. LinesFrom(a, k, m)
  BY <1>1 DEF LinesFrom
<1>3. LinesFrom(b, k, m + n)
  <2>1. ASSUME NEW i \in 1 .. Len(b)  PROVE b[i] = <<k, (m + n) + i>>
    <3>1. n + i \in 1 .. Len(q) /\ b[i] = q[n + i]
      BY <1>1
    <3>2. q[n + i] = <<k, m + (n + i)>>
      BY <3>1 DEF LinesFrom
    <3>3. m + (n + i) = (m + n) + i
      OBVIOUS
    <3>. QED  BY <3>1, <3>2, <3>3
  <2>. QED  BY <2>1 DEF LinesFrom
<1>. QED  BY <1>1, <1>2, <1>3 DEF a, b

LEMMA LinesJoin ==
  ASSUME NEW k, NEW m \in Nat, NEW p \in Seq(Item), NEW q \in Seq(Item),
         LinesFrom(p, k, m), LinesFrom(q, k, m + Len(p))
  PROVE  LinesFrom(p \o q, k, m) /\ Len(p \o q) = Len(p) + Len(q)
<1>1. /\ Len(p \o q) = Len(p) + Len(q) /\ Len(p) \in Nat /\ Len(q) \in Nat
      /\ \A i \in 1 .. Len(p) + Len(q) :
           (p \o q)[i] = IF i <= Len(p) THEN p[i] ELSE q[i - Len(p)]
  BY ConcatProperties
<1>2. ASSUME NEW i \in 1 .. Len(p \o q)  PROVE (p \o q)[i] = <<k, m + i>>
  <2>1. (p \o q)[i] = IF i <= Len(p) THEN p[i] ELSE q[i - Len(p)]
    BY <1>1
  <2>2. CASE i <= Len(p)
    <3>1. i \in 1 .. Len(p)
      BY <1>1, <2>2
    <3>. QED  BY <2>1, <2>2, <3>1 DEF LinesFrom
  <2>3. CASE ~ (i <= Len(p))
    <3>1. i - Len(p) \in 1 .. Len(q) /\ (m + Len(p)) + (i - Len(p)) = m + i
      BY <1>1, <2>3
    <3>2. q[i - Len(p)] = <<k, (m + Len(p)) + (i - Len(p))>>
      BY <3>1 DEF LinesFrom
    <3>. QED  BY <2>1, <2>3, <3>1, <3>2
  <2>. QED  BY <2>2, <2>3
<1>. QED  BY <1>1, <1>2 DEF LinesFrom

LEMMA LinesPut ==
  ASSUME NEW k \in Nat, NEW m \in Nat, NEW q \in Seq(Item), NEW n \in Nat, n = m + Len(q) + 1,
         LinesFrom(q, k, m)
  PROVE  LinesFrom(Append(q, <<k, n>>), k, m) /\ Len(Append(q, <<k, n>>)) = Len(q) + 1
<1>. DEFINE e == <<k, n>>
<1>1. e \in Item
  BY ItemIs
<1>2. e = <<k, m + (Len(q) + 1)>>
  OBVIOUS
<1>. HIDE DEF e
<1>3. /\ Len(Append(q, e)) = Len(q) + 1 /\ Len(q) \in Nat
      /\ \A i \in 1 .. Len(q) + 1 : Append(q, e)[i] = IF i <= Len(q) THEN q[i] ELSE e
  BY <1>1, PutIs
<1>4. ASSUME NEW i \in 1 .. Len(q) + 1  PROVE Append(q, e)[i] = <<k, m + i>>
  <2>1. CASE i <= Len(q)
    <3>1. i \in 1 .. Len(q)
      BY <1>3, <2>1
    <3>. QED  BY <1>3, <2>1, <3>1 DEF LinesFrom
  <2>2. CASE i = Len(q) + 1
    BY <1>2, <1>3, <2>2
  <2>. QED  BY <1>3, <2>1, <2>2
<1>. QED  BY <1>3, <1>4 DEF LinesFrom, e

LEMMA DataIs ==
  ASSUME Types, NEW k \in Session
  PROVE  /\ k \in Nat /\ kid[k].line \in Nat /\ kid[k] \in KidRec
         /\ shown[k] \in Seq(Item) /\ c2s[k] \in Seq(Item) /\ s2c[k] \in Seq(Item)
         /\ Len(shown[k]) \in Nat /\ Len(c2s[k]) \in Nat /\ Len(s2c[k]) \in Nat
<1>1. k \in Nat /\ kid[k] \in KidRec
  BY SessionIs DEF Types
<1>2. kid[k].line \in Nat
  BY <1>1 DEF KidRec
<1>3. shown[k] \in Seq(Item) /\ c2s[k] \in Seq(Item) /\ s2c[k] \in Seq(Item)
  BY DEF Types
<1>. QED  BY <1>1, <1>2, <1>3

LEMMA ReadsKeeps ==
  ASSUME Types, NEW k \in Session, KidOK(k), InOrder(k), kid[k].pc = "select", Reads(k),
         UNCHANGED <<session, c2s, srvEnd, thread>>
  PROVE  KidOK(k)' /\ InOrder(k)'
<1>1. /\ kid'[k].pc = "tell" /\ ~ Leaves(kid'[k].msg) /\ kid'[k].msg # "killed"
      /\ kid'[k].line = kid[k].line /\ cliEnd' = cliEnd
  BY DEF Reads
<1>2. PICK n \in 1 .. Len(s2c[k]) :
        /\ s2c'[k] = SubSeq(s2c[k], n + 1, Len(s2c[k]))
        /\ shown'[k] = IF session[k].service = "echo"
                       THEN shown[k] \o SubSeq(s2c[k], 1, n) ELSE shown[k]
  BY DEF Reads
<1>3. Live(k)' = Live(k) /\ cliEnd[k] # "none" /\ Live(k)
  BY <1>1 DEF Live, KidOK
<1>4. KidOK(k)'
  <2>1. ~ Leaves(kid[k].msg)'
    BY <1>1 DEF Leaves
  <2>. QED  BY <1>1, <1>3, <2>1 DEF KidOK
<1>5. ASSUME session[k].service # "echo"  PROVE InOrder(k)'
  BY <1>2, <1>5 DEF InOrder, LinesFrom
<1>6. ASSUME session[k].service = "echo"  PROVE InOrder(k)'
  <2>. DEFINE a == SubSeq(s2c[k], 1, n)
              m == Len(shown[k])
  <2>1. /\ k \in Nat /\ kid[k].line \in Nat /\ m \in Nat
        /\ shown[k] \in Seq(Item) /\ c2s[k] \in Seq(Item) /\ s2c[k] \in Seq(Item)
        /\ Len(c2s[k]) \in Nat /\ Len(s2c[k]) \in Nat
    BY DataIs
  <2>2. LinesFrom(shown[k], k, 0) /\ LinesFrom(s2c[k], k, m)
    BY <1>6 DEF InOrder
  <2>3. LinesFrom(a, k, m) /\ Len(a) = n /\ LinesFrom(s2c'[k], k, m + n) /\ Len(s2c'[k]) = Len(s2c[k]) - n
    <3>. DEFINE q == s2c[k]
    <3>1. q \in Seq(Item) /\ m \in Nat /\ LinesFrom(q, k, m) /\ n \in 1 .. Len(q)
      BY <2>1, <2>2
    <3>. HIDE DEF q, m
    <3>2. /\ LinesFrom(SubSeq(q, 1, n), k, m) /\ Len(SubSeq(q, 1, n)) = n
          /\ LinesFrom(SubSeq(q, n + 1, Len(q)), k, m + n)
          /\ Len(SubSeq(q, n + 1, Len(q))) = Len(q) - n
      BY <3>1, LinesCut
    <3>. QED  BY <1>2, <3>2 DEF q
  <2>4. a \in Seq(Item) /\ shown'[k] = shown[k] \o a
    BY <1>2, <1>6, <2>1, CutIs
  <2>. HIDE DEF a, m
  <2>5. LinesFrom(shown'[k], k, 0) /\ Len(shown'[k]) = m + n
    <3>1. LinesFrom(a, k, 0 + Len(shown[k])) /\ 0 \in Nat
      BY <2>1, <2>3 DEF m
    <3>2. LinesFrom(shown[k] \o a, k, 0) /\ Len(shown[k] \o a) = Len(shown[k]) + Len(a)
      BY <2>1, <2>2, <2>4, <3>1, LinesJoin
    <3>. QED  BY <2>3, <2>4, <3>2 DEF m
  <2>6. Len(shown'[k]) + Len(s2c'[k]) = Len(shown[k]) + Len(s2c[k])
    <3>. DEFINE l == Len(s2c[k])
    <3>1. n \in Int /\ m \in Int /\ l \in Int
      BY <2>1
    <3>2. Len(shown'[k]) = m + n /\ Len(s2c'[k]) = l - n
      BY <2>3, <2>5
    <3>. HIDE DEF l
    <3>3. (m + n) + (l - n) = m + l
      BY <3>1
    <3>. QED  BY <3>2, <3>3 DEF l, m
  <2>7. Sent(k)' = Sent(k) /\ Threads' = Threads
    BY <1>1 DEF Sent, Threads
  <2>8. ASSUME srvEnd'[k] = "open"
        PROVE  /\ (\A t \in Threads : thread[t].fd = k => Served(k, t))'
               /\ ((\A t \in Threads : thread[t].fd # k) => Unserved(k))'
    <3>1. /\ \A t \in Threads : thread[t].fd = k => Served(k, t)
          /\ (\A t \in Threads : thread[t].fd # k) => Unserved(k)
      BY <1>3, <1>6, <2>8 DEF InOrder
    <3>2. ASSUME NEW t \in Threads, thread[t].fd = k  PROVE Served(k, t)'
      <4>1. Served(k, t)
        BY <3>1, <3>2
      <4>. QED  BY <1>1, <2>6, <2>7, <4>1 DEF Served, LinesFrom
    <3>3. ~ Unserved(k)
      <4>1. s2c[k] # <<>>
        BY <2>1
      <4>. QED  BY <4>1 DEF Unserved
    <3>. QED  BY <2>7, <3>1, <3>2, <3>3
  <2>9. LinesFrom(s2c[k], k, Len(shown[k]))'
    BY <2>3, <2>5 DEF LinesFrom
  <2>10. LinesFrom(shown[k], k, 0)'
    BY <2>5 DEF LinesFrom
  <2>. QED  BY <1>6, <2>8, <2>9, <2>10 DEF InOrder
<1>. QED  BY <1>4, <1>5, <1>6

LEMMA FromServerKeeps ==
  ASSUME Types, Ends, OrderOK, NEW k \in Session, FromServer(k)
  PROVE  Ends' /\ OrderOK'
<1>1. /\ Types' /\ Aside(k) /\ (Reads(k) \/ MeetsEnd(k) \/ MeetsReset(k))
      /\ UNCHANGED <<userVars, session, xterm, pipe, c2s, srvEnd, serverVars>>
  BY FromServerTypes
<1>2. /\ UNCHANGED <<session, c2s, srvEnd, thread, backlog>>
      /\ kid[k].pc = "select" /\ KidOK(k) /\ InOrder(k) /\ cliEnd[k] # "none" /\ Live(k)
  <2>1. kid[k].pc = "select" /\ KidOK(k) /\ InOrder(k)
    BY DEF FromServer, Ends, KidsOK, OrderOK
  <2>2. cliEnd[k] # "none" /\ Live(k)
    BY <2>1 DEF KidOK
  <2>. QED  BY <1>1, <2>1, <2>2 DEF serverVars
<1>3. SUFFICES KidOK(k)' /\ InOrder(k)' /\ (cliEnd[k] # "none" => cliEnd'[k] # "none")
  BY <1>1, <1>2, SessionKept DEF Ends
<1>4. CASE Reads(k)
  <2>1. cliEnd'[k] # "none"
    BY <1>2, <1>4 DEF Reads
  <2>. QED  BY <1>2, <1>4, <2>1, ReadsKeeps
<1>5. CASE MeetsEnd(k)
  <2>1. /\ srvEnd'[k] # "open" /\ kid'[k].pc = "tell" /\ kid'[k].msg # "killed"
        /\ UNCHANGED <<shown, s2c, cliEnd>>
    BY <1>2, <1>5 DEF MeetsEnd
  <2>2. KidOK(k)'
    BY <1>2, <2>1 DEF KidOK, Live
  <2>3. InOrder(k)'
    BY <1>2, <2>1, OrderOver
  <2>. QED  BY <1>2, <2>1, <2>2, <2>3
<1>6. CASE MeetsReset(k)
  <2>1. /\ srvEnd'[k] # "open" /\ kid'[k].pc = "gone" /\ kid'[k].msg # "killed"
        /\ CloseClient(k) /\ UNCHANGED shown
    BY <1>2, <1>6 DEF MeetsReset
  <2>2. s2c'[k] = <<>> /\ cliEnd'[k] \in {"closed", "resetting"}
    BY <1>2, <2>1, CloseClientIs
  <2>3. KidOK(k)'
    BY <2>1, <2>2 DEF KidOK, Live
  <2>4. InOrder(k)'
    BY <1>2, <2>1, <2>2, OrderOver
  <2>. QED  BY <2>2, <2>3, <2>4
<1>. QED  BY <1>1, <1>4, <1>5, <1>6

LEMMA FromUserKeeps ==
  ASSUME Types, Ends, OrderOK, NEW k \in Session, FromUser(k)
  PROVE  Ends' /\ OrderOK'
<1>1. /\ Types' /\ Aside(k) /\ (TakesLine(k) \/ SaysNoMore(k))
      /\ kid[k].pc \in {"look", "select"}
      /\ UNCHANGED <<session, shown, c2s, s2c, cliEnd, srvEnd, thread, backlog>>
  BY FromUserTypes DEF tcpVars, serverVars
<1>2. KidOK(k) /\ InOrder(k) /\ cliEnd[k] # "none" /\ Live(k) /\ kid[k].msg # "killed"
  <2>1. KidOK(k) /\ InOrder(k)
    BY DEF Ends, KidsOK, OrderOK
  <2>. QED  BY <1>1, <2>1 DEF KidOK
<1>3. /\ kid'[k].msg # "killed" /\ kid'[k].pc \in {"send", "tell"}
      /\ kid'[k].pc = "tell" => kid'[k].msg = "no more"
  BY <1>1, <1>2 DEF TakesLine, SaysNoMore
<1>4. KidOK(k)'
  BY <1>1, <1>2, <1>3 DEF KidOK, Live, Leaves
<1>5. Sent(k)' = Sent(k)
  <2>1. kid[k].line \in Nat /\ Sent(k) = kid[k].line
    BY <1>1, DataIs DEF Sent
  <2>2. CASE TakesLine(k)
    BY <2>1, <2>2 DEF TakesLine, Sent
  <2>3. CASE SaysNoMore(k)
    BY <2>1, <2>3 DEF SaysNoMore, Sent
  <2>. QED  BY <1>1, <2>2, <2>3
<1>6. InOrder(k)'
  <2>1. Threads' = Threads
    BY <1>1 DEF Threads
  <2>. QED  BY <1>1, <1>2, <1>5, <2>1, OrderKept
<1>. QED  BY <1>1, <1>2, <1>4, <1>6, SessionKept DEF Ends

LEMMA SendKeeps ==
  ASSUME Types, Ends, OrderOK, NEW k \in Session, Send(k)
  PROVE  Ends' /\ OrderOK'
<1>1. /\ Types' /\ Aside(k) /\ (LineGoes(k) \/ LineIsLost(k) \/ LineMeetsReset(k))
      /\ kid[k].pc = "send" /\ UNCHANGED <<session, shown, thread, backlog>>
  BY SendTypes DEF serverVars
<1>2. KidOK(k) /\ InOrder(k) /\ cliEnd[k] # "none" /\ Live(k) /\ kid[k].msg # "killed"
  <2>1. KidOK(k) /\ InOrder(k)
    BY DEF Ends, KidsOK, OrderOK
  <2>. QED  BY <1>1, <2>1 DEF KidOK
<1>3. SUFFICES /\ KidOK(k)' /\ InOrder(k)' /\ cliEnd'[k] # "none"
               /\ srvEnd[k] = "open" => srvEnd'[k] = "open"
  BY <1>1, SessionKept DEF Ends
<1>4. CASE LineGoes(k)
  <2>1. /\ srvEnd[k] = "open" /\ c2s'[k] = Append(c2s[k], <<k, kid[k].line>>)
        /\ kid'[k].pc = "tell" /\ kid'[k].msg = "forwarded" /\ kid'[k].line = kid[k].line
        /\ UNCHANGED <<s2c, cliEnd, srvEnd>>
    BY <1>4 DEF LineGoes
  <2>2. KidOK(k)'
    BY <1>2, <2>1 DEF KidOK, Live, Leaves
  <2>3. /\ k \in Nat /\ kid[k].line \in Nat /\ c2s[k] \in Seq(Item)
        /\ Len(c2s[k]) \in Nat /\ Len(s2c[k]) \in Nat /\ Len(shown[k]) \in Nat
    BY DataIs
  <2>4. Sent(k) = kid[k].line - 1 /\ Sent(k)' = kid[k].line /\ Threads' = Threads
    BY <1>1, <2>1 DEF Sent, Threads
  <2>5. ASSUME NEW m \in Nat, LinesFrom(c2s[k], k, m), Sent(k) = m + Len(c2s[k])
        PROVE  LinesFrom(c2s'[k], k, m) /\ Sent(k)' = m + Len(c2s'[k])
    <3>1. kid[k].line = m + Len(c2s[k]) + 1
      BY <2>3, <2>4, <2>5
    <3>2. LinesFrom(c2s'[k], k, m) /\ Len(c2s'[k]) = Len(c2s[k]) + 1
      <4>. DEFINE q == c2s[k]
                  l == kid[k].line
      <4>1. q \in Seq(Item) /\ l \in Nat /\ l = m + Len(q) + 1 /\ LinesFrom(q, k, m)
        BY <2>3, <2>5, <3>1
      <4>. HIDE DEF q, l
      <4>2. LinesFrom(Append(q, <<k, l>>), k, m) /\ Len(Append(q, <<k, l>>)) = Len(q) + 1
        BY <2>3, <4>1, LinesPut
      <4>. QED  BY <2>1, <4>2 DEF q, l
    <3>. QED  BY <2>3, <2>4, <3>1, <3>2
  <2>6. ASSUME NEW t \in Threads, thread[t].fd = k, Served(k, t)
        PROVE  Served(k, t)'
    <3>. DEFINE n == Len(shown[k]) + Len(s2c[k])
                m == n + Len(thread[t].buf)
    <3>1. /\ LinesFrom(thread[t].buf, k, n) /\ LinesFrom(c2s[k], k, m)
          /\ Sent(k) = m + Len(c2s[k])
      BY <2>6 DEF Served
    <3>2. m \in Nat
      <4>1. Len(thread[t].buf) \in Nat
        BY ThreadIs
      <4>2. \A x, y, z \in Nat : x + y + z \in Nat
        OBVIOUS
      <4>. QED  BY <2>3, <4>1, <4>2
    <3>3. LinesFrom(c2s'[k], k, m) /\ Sent(k)' = m + Len(c2s'[k])
      BY <2>5, <3>1, <3>2
    <3>4. /\ LinesFrom(thread[t].buf, k, n)' /\ LinesFrom(c2s[k], k, m)'
          /\ (Sent(k) = m + Len(c2s[k]))'
      BY <1>1, <2>1, <3>1, <3>3 DEF LinesFrom
    <3>. QED  BY <3>4 DEF Served
  <2>7. ASSUME Unserved(k)  PROVE Unserved(k)'
    <3>1. shown[k] = <<>> /\ s2c[k] = <<>> /\ LinesFrom(c2s[k], k, 0) /\ Sent(k) = 0 + Len(c2s[k])
      BY <2>3, <2>7 DEF Unserved
    <3>2. LinesFrom(c2s'[k], k, 0) /\ Sent(k)' = 0 + Len(c2s'[k])
      BY <2>5, <3>1
    <3>3. Len(c2s'[k]) \in Nat
      <4>1. c2s'[k] \in Seq(Item)
        BY <1>1 DEF Session, Types
      <4>. QED  BY <4>1
    <3>. QED  BY <1>1, <2>1, <3>1, <3>2, <3>3 DEF Unserved, LinesFrom
  <2>8. InOrder(k)'
    <3>1. /\ LinesFrom(shown[k], k, 0)'
          /\ (session[k].service = "echo" => LinesFrom(s2c[k], k, Len(shown[k])))'
      BY <1>1, <1>2, <2>1 DEF InOrder, LinesFrom
    <3>2. ASSUME session'[k].service = "echo"
          PROVE  /\ (\A t \in Threads : thread[t].fd = k => Served(k, t))'
                 /\ ((\A t \in Threads : thread[t].fd # k) => Unserved(k))'
      <4>1. /\ \A t \in Threads : thread[t].fd = k => Served(k, t)
            /\ (\A t \in Threads : thread[t].fd # k) => Unserved(k)
        BY <1>1, <1>2, <2>1, <3>2 DEF InOrder
      <4>. QED  BY <1>1, <2>4, <2>6, <2>7, <4>1
    <3>. QED  BY <3>1, <3>2 DEF InOrder
  <2>. QED  BY <1>2, <2>1, <2>2, <2>8
<1>5. CASE LineIsLost(k)
  <2>1. /\ srvEnd[k] = "closed" /\ srvEnd'[k] = "reset"
        /\ kid'[k].pc = "tell" /\ kid'[k].msg = "forwarded" /\ UNCHANGED <<s2c, cliEnd>>
    BY <1>5 DEF LineIsLost
  <2>2. KidOK(k)'
    BY <1>2, <2>1 DEF KidOK, Live
  <2>3. InOrder(k)'
    BY <1>1, <1>2, <2>1, OrderOver
  <2>. QED  BY <1>2, <2>1, <2>2, <2>3
<1>6. CASE LineMeetsReset(k)
  <2>1. /\ srvEnd[k] = "reset" /\ kid'[k].pc = "gone" /\ kid'[k].msg = ""
        /\ CloseClient(k) /\ UNCHANGED <<c2s, srvEnd>>
    BY <1>6 DEF LineMeetsReset
  <2>2. s2c'[k] = <<>> /\ cliEnd'[k] \in {"closed", "resetting"}
    BY <1>2, <2>1, CloseClientIs
  <2>3. KidOK(k)'
    BY <2>1, <2>2 DEF KidOK, Live
  <2>4. InOrder(k)'
    BY <1>1, <1>2, <2>1, <2>2, OrderOver
  <2>. QED  BY <2>1, <2>2, <2>3, <2>4
<1>. QED  BY <1>1, <1>4, <1>5, <1>6

LEMMA TellKeeps ==
  ASSUME Types, Ends, OrderOK, NEW k \in Session, Tell(k)
  PROVE  Ends' /\ OrderOK'
<1>1. /\ Types' /\ Aside(k) /\ (GoesOn(k) \/ Goes(k)) /\ kid[k].pc = "tell"
      /\ UNCHANGED <<session, shown, c2s, srvEnd, thread, backlog>>
  BY TellTypes DEF serverVars
<1>2. KidOK(k) /\ InOrder(k)
  BY DEF Ends, KidsOK, OrderOK
<1>3. SUFFICES KidOK(k)' /\ InOrder(k)' /\ (cliEnd[k] # "none" => cliEnd'[k] # "none")
  BY <1>1, SessionKept DEF Ends
<1>4. CASE GoesOn(k)
  <2>1. /\ ~ Leaves(kid[k].msg) /\ kid'[k].pc \in {"look", "select"} /\ kid'[k].msg = ""
        /\ kid'[k].line = kid[k].line /\ s2c' = s2c
        /\ cliEnd'[k] = cliEnd[k] \/ cliEnd'[k] = "shut"
    BY <1>4 DEF GoesOn
  <2>2. cliEnd[k] # "none" /\ Live(k)
    BY <1>1, <1>2, <2>1 DEF KidOK, Leaves
  <2>3. Live(k)' /\ cliEnd'[k] # "none" /\ cliEnd'[k] \notin {"closed", "resetting", "reset"}
    BY <2>1, <2>2 DEF Live
  <2>4. KidOK(k)'
    BY <2>1, <2>3 DEF KidOK
  <2>5. Sent(k)' = Sent(k) /\ Threads' = Threads
    BY <1>1, <2>1 DEF Sent, Threads
  <2>6. InOrder(k)'
    BY <1>1, <1>2, <2>1, <2>2, <2>5, OrderKept
  <2>. QED  BY <2>3, <2>4, <2>6
<1>5. CASE Goes(k)
  <2>1. kid'[k].pc = "gone" /\ CloseClient(k) /\ (kid'[k].msg = "killed" \/ Leaves(kid[k].msg))
    BY <1>5 DEF Goes
  <2>2. /\ s2c'[k] = <<>> /\ cliEnd'[k] \in {"none", "closed", "resetting"}
        /\ (cliEnd'[k] = "none") <=> (cliEnd[k] = "none")
    BY <2>1, CloseClientIs
  <2>3. srvEnd'[k] # "open" \/ kid'[k].msg = "killed"
    BY <1>1, <1>2, <2>1 DEF KidOK
  <2>4. KidOK(k)'
    BY <2>1, <2>2, <2>3 DEF KidOK, Live
  <2>5. ~ Live(k)'
    BY <2>2 DEF Live
  <2>6. InOrder(k)'
    BY <1>1, <1>2, <2>2, <2>5, OrderOver
  <2>. QED  BY <2>2, <2>4, <2>6
<1>. QED  BY <1>1, <1>4, <1>5

LEMMA WindowKeeps ==
  ASSUME Types, Ends, OrderOK, NEW k \in Session, CloseWindow(k) \/ ExecFails(k)
  PROVE  Ends' /\ OrderOK'
<1>1. /\ Types' /\ Aside(k)
      /\ kid' = kid \/ (kid[k].pc = "connect" /\ kid'[k].pc = "gone" /\ kid'[k].msg = "no window")
      /\ UNCHANGED <<session, shown, c2s, s2c, cliEnd, srvEnd, thread, backlog>>
  <2>1. session' = session
    BY DEF CloseWindow, ExecFails
  <2>. QED  BY <2>1, WindowTypes DEF tcpVars, serverVars
<1>2. KidOK(k) /\ InOrder(k)
  BY DEF Ends, KidsOK, OrderOK
<1>3. KidOK(k)' /\ InOrder(k)'
  <2>1. CASE kid' = kid
    <3>1. kid[k].pc = "connect" => shown'[k] = <<>> /\ c2s'[k] = <<>> /\ s2c'[k] = <<>>
      BY <1>1, <1>2 DEF KidOK
    <3>2. KidOK(k)'
      BY <1>1, <1>2, <2>1, <3>1, KidKept
    <3>3. Live(k)' = Live(k) /\ Sent(k)' = Sent(k) /\ Threads' = Threads
      BY <1>1, <2>1 DEF Live, Sent, Threads
    <3>. QED  BY <1>1, <1>2, <3>2, <3>3, OrderKept
  <2>2. CASE kid[k].pc = "connect" /\ kid'[k].pc = "gone" /\ kid'[k].msg = "no window"
    <3>1. cliEnd'[k] = "none"
      BY <1>1, <1>2, <2>2 DEF KidOK
    <3>2. ~ Live(k)'
      BY <3>1 DEF Live
    <3>3. KidOK(k)'
      BY <2>2, <3>1 DEF KidOK, Live
    <3>. QED  BY <1>1, <1>2, <3>2, <3>3, OrderOver
  <2>. QED  BY <1>1, <2>1, <2>2
<1>. QED  BY <1>1, <1>3, SessionKept DEF Ends

LEMMA ResetKeeps ==
  ASSUME Types, Ends, OrderOK, NEW k \in Session, ResetArrives(k)
  PROVE  Ends' /\ OrderOK'
<1>1. /\ Types' /\ Aside(k) /\ cliEnd[k] = "resetting" /\ cliEnd'[k] = "reset"
      /\ UNCHANGED <<session, kid, shown, c2s, s2c, srvEnd, thread, backlog>>
  BY ResetTypes DEF kidVars, serverVars
<1>2. KidOK(k) /\ InOrder(k)
  BY DEF Ends, KidsOK, OrderOK
<1>3. kid[k].pc = "gone" /\ (srvEnd[k] # "open" \/ kid[k].msg = "killed")
  <2>1. ~ Live(k)
    BY <1>1 DEF Live
  <2>. QED  BY <1>1, <1>2, <2>1 DEF KidOK
<1>4. KidOK(k)'
  BY <1>1, <1>3 DEF KidOK, Live
<1>5. InOrder(k)'
  <2>1. ~ Live(k)'
    BY <1>1 DEF Live
  <2>. QED  BY <1>1, <1>2, <2>1, OrderOver
<1>. QED  BY <1>1, <1>4, <1>5, SessionKept DEF Ends

LEMMA QuietKeeps ==
  ASSUME Types, Ends, OrderOK,
         UNCHANGED <<session, kid, shown, c2s, s2c, cliEnd, srvEnd, thread, backlog>>
  PROVE  Ends' /\ OrderOK'
<1>1. Session' = Session /\ Threads' = Threads
  BY DEF Session, Threads
<1>2. ASSUME NEW j \in Session  PROVE KidOK(j)' /\ InOrder(j)'
  <2>1. KidOK(j) /\ InOrder(j)
    BY DEF Ends, KidsOK, OrderOK
  <2>2. kid[j].pc = "connect" => shown'[j] = <<>> /\ c2s'[j] = <<>> /\ s2c'[j] = <<>>
    BY <2>1 DEF KidOK
  <2>3. KidOK(j)'
    BY <2>1, <2>2, KidKept
  <2>4. Live(j)' = Live(j) /\ Sent(j)' = Sent(j)
    BY DEF Live, Sent
  <2>. QED  BY <1>1, <2>1, <2>3, <2>4, OrderKept
<1>3. ThreadsOK' /\ BacklogOK'
  BY <1>1 DEF Ends, ThreadsOK, BacklogOK
<1>. QED  BY <1>1, <1>2, <1>3 DEF Ends, KidsOK, OrderOK

\* A step of thread t, which touches its own connection only.
LEMMA ThreadKept ==
  ASSUME Types, Ends, OrderOK, NEW t \in Threads, NEW k \in Session, k = thread[t].fd, OneThread(t),
         UNCHANGED <<session, kid, shown, backlog>>,
         \A j \in Session : j # k => /\ c2s'[j] = c2s[j] /\ s2c'[j] = s2c[j]
                                     /\ cliEnd'[j] = cliEnd[j] /\ srvEnd'[j] = srvEnd[j],
         KidOK(k)', InOrder(k)', cliEnd'[k] # "none",
         thread'[t].pc # "done" => srvEnd'[k] = "open",
         thread'[t].pc \in {"start", "read"} => thread'[t].buf = <<>>,
         thread'[t].pc = "write" => thread'[t].buf # <<>>
  PROVE  Ends' /\ OrderOK'
<1>1. /\ Threads' = Threads /\ \A u \in Threads : u # t => thread'[u] = thread[u]
      /\ thread'[t].fd = k /\ thread'[t].service = thread[t].service
  BY DEF OneThread
<1>2. Session' = Session
  BY DEF Session
<1>3. \A u \in Threads : thread[u].fd \in Session /\ thread'[u].fd = thread[u].fd
  BY <1>1, ThreadIs
<1>4. \A u \in Threads : u # t => thread[u].fd # k
  BY DEF Ends, ThreadsOK
<1>5. ASSUME NEW j \in Session, j # k  PROVE KidOK(j)' /\ InOrder(j)'
  <2>1. KidOK(j) /\ InOrder(j)
    BY DEF Ends, KidsOK, OrderOK
  <2>2. c2s'[j] = c2s[j] /\ s2c'[j] = s2c[j] /\ cliEnd'[j] = cliEnd[j] /\ srvEnd'[j] = srvEnd[j]
    BY <1>5
  <2>3. kid[j].pc = "connect" => shown'[j] = <<>> /\ c2s'[j] = <<>> /\ s2c'[j] = <<>>
    BY <2>1, <2>2 DEF KidOK
  <2>4. KidOK(j)'
    BY <2>1, <2>2, <2>3, KidKept
  <2>5. Live(j)' = Live(j) /\ Sent(j)' = Sent(j)
    BY <2>2 DEF Live, Sent
  <2>6. \A u \in Threads : thread'[u].fd = j => thread[u].fd = j /\ thread'[u].buf = thread[u].buf
    BY <1>1, <1>5
  <2>7. (\A u \in Threads : thread'[u].fd # j) => \A u \in Threads : thread[u].fd # j
    BY <1>3
  <2>. QED  BY <1>1, <2>1, <2>2, <2>4, <2>5, <2>6, <2>7, OrderKept
<1>6. KidsOK' /\ OrderOK'
  BY <1>2, <1>5 DEF KidsOK, OrderOK
<1>7. ThreadsOK'
  <2>1. ASSUME NEW u \in Threads
        PROVE  /\ thread'[u].service = session'[thread'[u].fd].service
               /\ cliEnd'[thread'[u].fd] # "none"
               /\ thread'[u].pc # "done" => srvEnd'[thread'[u].fd] = "open"
               /\ thread'[u].pc \in {"start", "read"} => thread'[u].buf = <<>>
               /\ thread'[u].pc = "write" => thread'[u].buf # <<>>
    <3>1. /\ thread[u].service = session[thread[u].fd].service
          /\ cliEnd[thread[u].fd] # "none"
          /\ thread[u].pc # "done" => srvEnd[thread[u].fd] = "open"
          /\ thread[u].pc \in {"start", "read"} => thread[u].buf = <<>>
          /\ thread[u].pc = "write" => thread[u].buf # <<>>
      BY DEF Ends, ThreadsOK
    <3>2. CASE u = t
      BY <1>1, <3>1, <3>2
    <3>3. CASE u # t
      <4>1. thread[u].fd \in Session /\ thread[u].fd # k /\ thread'[u] = thread[u]
        BY <1>1, <1>3, <1>4, <3>3
      <4>2. cliEnd'[thread[u].fd] = cliEnd[thread[u].fd] /\ srvEnd'[thread[u].fd] = srvEnd[thread[u].fd]
        BY <4>1
      <4>. QED  BY <3>1, <4>1, <4>2
    <3>. QED  BY <3>2, <3>3
  <2>2. \A u, v \in Threads : thread'[u].fd = thread'[v].fd => u = v
    BY <1>3 DEF Ends, ThreadsOK
  <2>. QED  BY <1>1, <2>1, <2>2 DEF ThreadsOK
<1>8. BacklogOK'
  <2>1. \A s \in Service : \A i \in 1 .. Len(backlog[s]) : backlog[s][i] \in Session
    BY ElementOfSeq DEF Types
  <2>2. \A s \in Service : \A i \in 1 .. Len(backlog[s]) : backlog[s][i] # k
    BY DEF Ends, BacklogOK
  <2>. QED  BY <1>1, <1>3, <2>1, <2>2 DEF Ends, BacklogOK
<1>. QED  BY <1>6, <1>7, <1>8 DEF Ends

\* What a thread that is at work knows of its connection.
LEMMA AtWork ==
  ASSUME Types, Ends, OrderOK, NEW t \in Threads, NEW k, k = thread[t].fd
  PROVE  /\ k \in Session /\ k \in Nat /\ KidOK(k) /\ InOrder(k)
         /\ session[k].service = thread[t].service /\ cliEnd[k] # "none"
         /\ kid[k].pc # "connect"
         /\ thread[t].pc # "done" => srvEnd[k] = "open"
         /\ thread[t].pc \in {"start", "read"} => thread[t].buf = <<>>
         /\ thread[t].pc = "write" => thread[t].buf # <<>>
         /\ \A u \in Threads : thread[u].fd = k => u = t
         /\ thread[t].buf \in Seq(Item)
<1>1. k \in Session /\ thread[t].buf \in Seq(Item)
  BY ThreadIs
<1>2. k \in Nat /\ KidOK(k) /\ InOrder(k)
  BY <1>1, DataIs DEF Ends, KidsOK, OrderOK
<1>3. /\ session[k].service = thread[t].service /\ cliEnd[k] # "none"
      /\ thread[t].pc # "done" => srvEnd[k] = "open"
      /\ thread[t].pc \in {"start", "read"} => thread[t].buf = <<>>
      /\ thread[t].pc = "write" => thread[t].buf # <<>>
      /\ \A u \in Threads : thread[u].fd = k => u = t
  BY DEF Ends, ThreadsOK
<1>4. kid[k].pc # "connect"
  BY <1>2, <1>3 DEF KidOK
<1>. QED  BY <1>1, <1>2, <1>3, <1>4

LEMMA StartThreadKeeps ==
  ASSUME Types, Ends, OrderOK, NEW t \in Threads, StartThread(t)
  PROVE  Ends' /\ OrderOK'
<1>0. PICK k \in Session : k = thread[t].fd
  BY ThreadIs
<1>1. /\ OneThread(t) /\ thread[t].pc = "start" /\ thread'[t].pc = "read"
      /\ thread'[t].buf = thread[t].buf
      /\ UNCHANGED <<session, kid, shown, c2s, s2c, cliEnd, srvEnd, backlog>>
  BY StartThreadTypes DEF kidVars, tcpVars
<1>2. /\ k \in Session /\ KidOK(k) /\ InOrder(k) /\ cliEnd[k] # "none" /\ kid[k].pc # "connect"
      /\ srvEnd[k] = "open" /\ thread[t].buf = <<>>
  BY <1>0, <1>1, AtWork
<1>3. KidOK(k)'
  BY <1>1, <1>2, KidKept
<1>4. InOrder(k)'
  <2>1. Live(k)' = Live(k) /\ Sent(k)' = Sent(k)
    BY <1>1 DEF Live, Sent
  <2>2. Threads' = Threads /\ \A u \in Threads : thread'[u].fd = thread[u].fd /\ thread'[u].buf = thread[u].buf
    BY <1>1 DEF OneThread
  <2>. QED  BY <1>1, <1>2, <2>1, <2>2, OrderKept
<1>. QED  BY <1>0, <1>1, <1>2, <1>3, <1>4, ThreadKept

LEMMA HangsKeeps ==
  ASSUME Types, Ends, OrderOK, NEW t \in Threads, OneThread(t), Hangs(t), thread[t].pc = "read",
         UNCHANGED <<session, kid, shown, s2c, cliEnd, backlog>>
  PROVE  Ends' /\ OrderOK'
<1>0. PICK k \in Session : k = thread[t].fd
  BY ThreadIs
<1>1. /\ thread'[t].pc = "done" /\ srvEnd'[k] = "closed" /\ UNCHANGED c2s
      /\ \A j \in Session : j # k => srvEnd'[j] = srvEnd[j]
  BY <1>0 DEF Hangs
<1>2. /\ k \in Session /\ KidOK(k) /\ InOrder(k) /\ cliEnd[k] # "none" /\ kid[k].pc # "connect"
  BY <1>0, <1>1, AtWork
<1>3. KidOK(k)'
  BY <1>1, <1>2, KidKept
<1>4. InOrder(k)'
  BY <1>1, <1>2, OrderOver
<1>. QED  BY <1>0, <1>1, <1>2, <1>3, <1>4, ThreadKept

LEMMA FetchesKeeps ==
  ASSUME Types, Ends, OrderOK, NEW t \in Threads, OneThread(t), Fetches(t), thread[t].pc = "read",
         UNCHANGED <<session, kid, shown, s2c, cliEnd, backlog>>
  PROVE  Ends' /\ OrderOK'
<1>0. PICK k \in Session : k = thread[t].fd
  BY ThreadIs
<1>1. /\ thread'[t].pc = "write" /\ srvEnd' = srvEnd
      /\ \A j \in Session : j # k => c2s'[j] = c2s[j]
  BY <1>0 DEF Fetches
<1>2. PICK x \in 1 .. Len(c2s[k]) : /\ thread'[t].buf = SubSeq(c2s[k], 1, x)
                                    /\ c2s'[k] = SubSeq(c2s[k], x + 1, Len(c2s[k]))
  BY <1>0 DEF Fetches
<1>3. /\ KidOK(k) /\ InOrder(k) /\ cliEnd[k] # "none" /\ kid[k].pc # "connect"
      /\ srvEnd[k] = "open" /\ thread[t].buf = <<>> /\ \A u \in Threads : thread[u].fd = k => u = t
  BY <1>0, AtWork
<1>4. KidOK(k)'
  BY <1>1, <1>3, KidKept
<1>5. c2s[k] \in Seq(Item) /\ Len(c2s[k]) \in Nat /\ Len(shown[k]) \in Nat /\ Len(s2c[k]) \in Nat
  BY DataIs
<1>6. thread'[t].buf # <<>>
  <2>1. Len(thread'[t].buf) = x
    BY <1>2, <1>5, CutIs
  <2>. QED  BY <2>1
<1>7. ASSUME session[k].service = "echo", Live(k)  PROVE Served(k, t)'
  <2>. DEFINE q == c2s[k]
              m == Len(shown[k]) + Len(s2c[k])
  <2>1. Served(k, t)
    BY <1>0, <1>3, <1>7 DEF InOrder
  <2>2. m \in Nat
    <3>1. \A a, b \in Nat : a + b \in Nat
      OBVIOUS
    <3>. QED  BY <1>5, <3>1
  <2>3. LinesFrom(q, k, m) /\ Sent(k) = m + Len(q) /\ q \in Seq(Item) /\ x \in 1 .. Len(q)
    <3>1. Len(thread[t].buf) = 0 /\ m + 0 = m
      BY <1>3, <2>2
    <3>. QED  BY <1>5, <2>1, <3>1 DEF Served
  <2>. HIDE DEF q, m
  <2>4. /\ LinesFrom(SubSeq(q, 1, x), k, m) /\ Len(SubSeq(q, 1, x)) = x
        /\ LinesFrom(SubSeq(q, x + 1, Len(q)), k, m + x)
        /\ Len(SubSeq(q, x + 1, Len(q))) = Len(q) - x
    BY <2>2, <2>3, LinesCut
  <2>5. /\ LinesFrom(thread'[t].buf, k, m) /\ Len(thread'[t].buf) = x
        /\ LinesFrom(c2s'[k], k, m + x) /\ Len(c2s'[k]) = Len(q) - x
    BY <1>2, <2>4 DEF q
  <2>6. Sent(k)' = m + x + (Len(q) - x)
    <3>1. Sent(k)' = Sent(k)
      BY DEF Sent
    <3>2. \A a, b, c \in Int : a + c = a + b + (c - b)
      OBVIOUS
    <3>3. m \in Int /\ x \in Int /\ Len(q) \in Int
      BY <2>2, <2>3
    <3>. QED  BY <2>3, <3>1, <3>2, <3>3
  <2>7. (Len(shown[k]) + Len(s2c[k]))' = m
    BY DEF m
  <2>8. /\ LinesFrom(thread[t].buf, k, Len(shown[k]) + Len(s2c[k]))'
        /\ LinesFrom(c2s[k], k, Len(shown[k]) + Len(s2c[k]) + Len(thread[t].buf))'
    BY <2>5, <2>7 DEF LinesFrom
  <2>9. (Sent(k) = Len(shown[k]) + Len(s2c[k]) + Len(thread[t].buf) + Len(c2s[k]))'
    BY <2>5, <2>6, <2>7
  <2>. QED  BY <2>8, <2>9 DEF Served
<1>8. InOrder(k)'
  <2>1. Threads' = Threads /\ thread'[t].fd = k /\ \A u \in Threads : thread'[u].fd = k => u = t
    BY <1>0, <1>3 DEF OneThread
  <2>2. Live(k)' = Live(k)
    BY DEF Live
  <2>3. /\ LinesFrom(shown[k], k, 0)'
        /\ (session[k].service = "echo" => LinesFrom(s2c[k], k, Len(shown[k])))'
    BY <1>3 DEF InOrder, LinesFrom
  <2>4. ASSUME session'[k].service = "echo", Live(k)'
        PROVE  /\ (\A u \in Threads : thread[u].fd = k => Served(k, u))'
               /\ ((\A u \in Threads : thread[u].fd # k) => Unserved(k))'
    BY <1>7, <2>1, <2>2, <2>4
  <2>. QED  BY <2>3, <2>4 DEF InOrder
<1>. QED  BY <1>0, <1>1, <1>3, <1>4, <1>6, <1>8, ThreadKept

LEMMA ReadKeeps ==
  ASSUME Types, Ends, OrderOK, NEW t \in Threads, EchoRead(t) \/ TimeRead(t)
  PROVE  Ends' /\ OrderOK'
<1>0. PICK k \in Session : k = thread[t].fd
  BY ThreadIs
<1>1. CASE EchoRead(t)
  <2>1. /\ OneThread(t) /\ (Hangs(t) \/ Fetches(t)) /\ thread[t].pc = "read"
        /\ UNCHANGED <<session, kid, shown, s2c, cliEnd, backlog>>
    BY <1>1, EchoReadTypes DEF kidVars
  <2>. QED  BY <2>1, HangsKeeps, FetchesKeeps
<1>2. CASE TimeRead(t)
  <2>1. /\ OneThread(t) /\ thread[t].pc = "read" /\ thread[t].service = "time"
        /\ \/ Hangs(t)
           \/ thread'[t].pc = "write" /\ thread'[t].buf # <<>> /\ UNCHANGED <<srvEnd, c2s>>
        /\ UNCHANGED <<session, kid, shown, s2c, cliEnd, backlog>>
    BY <1>2, TimeReadTypes DEF kidVars
  <2>2. CASE Hangs(t)
    BY <2>1, <2>2, HangsKeeps
  <2>3. CASE thread'[t].pc = "write" /\ thread'[t].buf # <<>> /\ UNCHANGED <<srvEnd, c2s>>
    <3>1. /\ KidOK(k) /\ InOrder(k) /\ cliEnd[k] # "none" /\ kid[k].pc # "connect"
          /\ srvEnd[k] = "open" /\ session[k].service = "time"
      BY <1>0, <2>1, AtWork
    <3>2. KidOK(k)'
      BY <2>1, <2>3, <3>1, KidKept
    <3>3. InOrder(k)'
      BY <2>1, <3>1 DEF InOrder, LinesFrom
    <3>. QED  BY <1>0, <2>1, <2>3, <3>1, <3>2, <3>3, ThreadKept
  <2>. QED  BY <2>1, <2>2, <2>3
<1>. QED  BY <1>1, <1>2

\* The server's end ends every connection.
LEMMA OverKeeps ==
  ASSUME Types, Ends, OrderOK, Over, UNCHANGED <<session, kid, shown, s2c, cliEnd>>
  PROVE  Ends' /\ OrderOK'
<1>1. Session' = Session /\ Threads' = Threads
  BY DEF Session, Over
<1>2. ASSUME NEW j \in Session  PROVE KidOK(j)' /\ InOrder(j)'
  <2>1. KidOK(j) /\ InOrder(j) /\ srvEnd'[j] # "open" /\ c2s'[j] = <<>>
    BY DEF Ends, KidsOK, OrderOK, Over
  <2>2. kid[j].pc = "connect" => shown'[j] = <<>> /\ c2s'[j] = <<>> /\ s2c'[j] = <<>>
    BY <2>1 DEF KidOK
  <2>3. KidOK(j)'
    BY <2>1, <2>2, KidKept
  <2>. QED  BY <2>1, <2>3, OrderOver
<1>3. ThreadsOK'
  BY <1>1 DEF Ends, ThreadsOK, Over
<1>4. BacklogOK'
  <2>1. \A s \in Service : 1 .. Len(backlog'[s]) = {}
    BY DEF Over
  <2>. QED  BY <2>1 DEF BacklogOK
<1>. QED  BY <1>1, <1>2, <1>3, <1>4 DEF Ends, KidsOK, OrderOK

LEMMA AnswersKeeps ==
  ASSUME Types, Ends, OrderOK, NEW t \in Threads, thread[t].pc = "write", OneThread(t), Answers(t),
         thread'[t].buf = Tail(thread[t].buf),
         thread'[t].pc = IF thread'[t].buf = <<>> THEN "read" ELSE "write",
         UNCHANGED <<session, kid, shown, c2s, srvEnd, backlog>>
  PROVE  Ends' /\ OrderOK'
<1>0. PICK k \in Session : k = thread[t].fd
  BY ThreadIs
<1>1. /\ Live(k) /\ s2c'[k] = Append(s2c[k], Head(thread[t].buf))
      /\ \A j \in Session : j # k => s2c'[j] = s2c[j]
      /\ cliEnd' = cliEnd
  BY <1>0 DEF Answers
<1>2. /\ KidOK(k) /\ InOrder(k) /\ cliEnd[k] # "none" /\ kid[k].pc # "connect" /\ k \in Nat
      /\ srvEnd[k] = "open" /\ thread[t].buf # <<>> /\ \A u \in Threads : thread[u].fd = k => u = t
      /\ thread[t].buf \in Seq(Item)
  BY <1>0, AtWork
<1>3. KidOK(k)'
  BY <1>1, <1>2, KidKept
<1>4. c2s[k] \in Seq(Item) /\ Len(c2s[k]) \in Nat /\ Len(shown[k]) \in Nat /\ s2c[k] \in Seq(Item)
  BY DataIs
<1>5. ASSUME session[k].service = "echo"
      PROVE  Served(k, t)' /\ LinesFrom(s2c[k], k, Len(shown[k]))'
  <2>. DEFINE p == thread[t].buf
              q == s2c[k]
              m == Len(shown[k])
              l == Len(q)
              n == m + l
              b == Len(p)
              c == Len(c2s[k])
  <2>1. Served(k, t) /\ LinesFrom(q, k, m)
    BY <1>0, <1>1, <1>2, <1>5 DEF InOrder
  <2>2. LinesFrom(p, k, n) /\ LinesFrom(c2s[k], k, n + b) /\ Sent(k) = n + b + c
    BY <2>1 DEF Served
  <2>3. /\ p \in Seq(Item) /\ p # <<>> /\ q \in Seq(Item) /\ m \in Nat /\ l \in Nat /\ l = Len(q)
        /\ c \in Nat /\ thread'[t].buf = Tail(p) /\ s2c'[k] = Append(q, Head(p))
        /\ LinesFrom(c2s'[k], k, n + b) /\ b = Len(p)
    <3>1. p \in Seq(Item) /\ p # <<>> /\ q \in Seq(Item) /\ m \in Nat /\ c \in Nat
      BY <1>2, <1>4
    <3>2. l \in Nat /\ l = Len(q) /\ b = Len(p)
      BY <3>1
    <3>3. thread'[t].buf = Tail(p) /\ s2c'[k] = Append(q, Head(p)) /\ c2s' = c2s
      BY <1>1
    <3>. HIDE DEF p, q, m, l, n, b, c
    <3>. QED  BY <2>2, <3>1, <3>2, <3>3
  <2>4. Sent(k)' = n + b + c /\ Len(c2s'[k]) = c /\ Len(shown'[k]) = m
    BY <2>2 DEF Sent
  <2>. HIDE DEF p, q, m, l, b, c
  <2>5. /\ Head(p) = p[1] /\ b \in Nat /\ 1 \in 1 .. b /\ Len(Tail(p)) = b - 1
        /\ \A i \in 1 .. b - 1 : Tail(p)[i] = p[i + 1]
    BY <2>3, TailIs
  <2>6. Head(p) = <<k, m + l + 1>>
    BY <2>2, <2>3, <2>5 DEF LinesFrom
  <2>7. LinesFrom(s2c'[k], k, m) /\ Len(s2c'[k]) = l + 1
    <3>. DEFINE w == m + l + 1
    <3>1. w \in Nat /\ w = m + Len(q) + 1 /\ LinesFrom(q, k, m)
      BY <2>1, <2>3
    <3>. HIDE DEF w
    <3>2. LinesFrom(Append(q, <<k, w>>), k, m) /\ Len(Append(q, <<k, w>>)) = Len(q) + 1
      BY <1>2, <2>3, <3>1, LinesPut
    <3>. QED  BY <2>3, <2>6, <3>2 DEF w
  <2>8. LinesFrom(Tail(p), k, n + 1)
    <3>1. ASSUME NEW i \in 1 .. b - 1  PROVE Tail(p)[i] = <<k, (n + 1) + i>>
      <4>1. i + 1 \in 1 .. Len(p) /\ n + (i + 1) = (n + 1) + i
        BY <2>3, <2>5
      <4>2. p[i + 1] = <<k, n + (i + 1)>>
        BY <2>2, <4>1 DEF LinesFrom
      <4>. QED  BY <2>5, <4>1, <4>2
    <3>. QED  BY <2>5, <3>1 DEF LinesFrom
  <2>9. /\ n + 1 = m + (l + 1) /\ (n + 1) + (b - 1) = n + b
        /\ n + b + c = (n + 1) + (b - 1) + c
    <3>1. \A x, y, z, w \in Int : /\ (x + y) + 1 = x + (y + 1) /\ ((x + y) + 1) + (z - 1) = (x + y) + z
                                 /\ (x + y) + z + w = ((x + y) + 1) + (z - 1) + w
      OBVIOUS
    <3>2. m \in Int /\ l \in Int /\ b \in Int /\ c \in Int
      BY <2>3, <2>5
    <3>. QED  BY <3>1, <3>2
  <2>10. /\ LinesFrom(thread'[t].buf, k, m + (l + 1)) /\ Len(thread'[t].buf) = b - 1
         /\ LinesFrom(c2s'[k], k, m + (l + 1) + (b - 1))
         /\ Sent(k)' = m + (l + 1) + (b - 1) + c
    BY <2>3, <2>4, <2>5, <2>8, <2>9
  <2>. HIDE DEF n
  <2>11. Served(k, t)'
    <3>1. (Len(shown[k]) + Len(s2c[k]))' = m + (l + 1)
      BY <2>4, <2>7
    <3>2. /\ LinesFrom(thread[t].buf, k, Len(shown[k]) + Len(s2c[k]))'
          /\ LinesFrom(c2s[k], k, Len(shown[k]) + Len(s2c[k]) + Len(thread[t].buf))'
      BY <2>10, <3>1 DEF LinesFrom
    <3>3. (Sent(k) = Len(shown[k]) + Len(s2c[k]) + Len(thread[t].buf) + Len(c2s[k]))'
      BY <2>4, <2>10, <3>1
    <3>. QED  BY <3>2, <3>3 DEF Served
  <2>12. LinesFrom(s2c[k], k, Len(shown[k]))'
    BY <2>4, <2>7 DEF LinesFrom
  <2>. QED  BY <2>11, <2>12
<1>6. InOrder(k)'
  <2>1. Threads' = Threads /\ thread'[t].fd = k /\ \A u \in Threads : thread'[u].fd = k => u = t
    BY <1>0, <1>2 DEF OneThread
  <2>2. LinesFrom(shown[k], k, 0)'
    BY <1>2 DEF InOrder, LinesFrom
  <2>3. ASSUME session'[k].service = "echo"
        PROVE  /\ (\A u \in Threads : thread[u].fd = k => Served(k, u))'
               /\ ((\A u \in Threads : thread[u].fd # k) => Unserved(k))'
               /\ LinesFrom(s2c[k], k, Len(shown[k]))'
    BY <1>5, <2>1, <2>3
  <2>. QED  BY <2>2, <2>3 DEF InOrder
<1>. QED  BY <1>0, <1>1, <1>2, <1>3, <1>6, ThreadKept

LEMMA WriteKeeps ==
  ASSUME Types, Ends, OrderOK, NEW t \in Threads, Write(t)
  PROVE  Ends' /\ OrderOK'
<1>0. PICK k \in Session : k = thread[t].fd
  BY ThreadIs
<1>1. /\ thread[t].pc = "write"
      /\ \/ /\ OneThread(t) /\ (Answers(t) \/ AnswersNobody(t))
            /\ thread'[t].buf = Tail(thread[t].buf)
            /\ thread'[t].pc = IF thread'[t].buf = <<>> THEN "read" ELSE "write"
            /\ UNCHANGED <<c2s, srvEnd, main, backlog, server>>
         \/ /\ cliEnd[thread[t].fd] = "reset" /\ Over /\ UNCHANGED <<s2c, cliEnd>>
      /\ UNCHANGED <<session, kid, shown>>
  BY WriteTypes DEF kidVars, Ends
<1>2. CASE Over /\ UNCHANGED <<s2c, cliEnd>>
  BY <1>1, <1>2, OverKeeps
<1>3. CASE /\ OneThread(t) /\ AnswersNobody(t)
           /\ thread'[t].pc = IF thread'[t].buf = <<>> THEN "read" ELSE "write"
           /\ UNCHANGED <<c2s, srvEnd, backlog>>
  <2>1. /\ cliEnd[k] \in {"closed", "resetting"} /\ cliEnd'[k] = "resetting"
        /\ \A j \in Session : j # k => cliEnd'[j] = cliEnd[j]
        /\ s2c' = s2c
    BY <1>0, <1>3 DEF AnswersNobody
  <2>2. /\ KidOK(k) /\ InOrder(k) /\ cliEnd[k] # "none" /\ srvEnd[k] = "open"
    BY <1>0, <1>1, AtWork
  <2>3. kid[k].pc = "gone" /\ kid[k].msg = "killed"
    <3>1. ~ Live(k)
      BY <2>1 DEF Live
    <3>. QED  BY <2>1, <2>2, <3>1 DEF KidOK
  <2>4. KidOK(k)'
    BY <1>1, <2>1, <2>3 DEF KidOK, Live
  <2>5. ~ Live(k)'
    BY <2>1 DEF Live
  <2>6. InOrder(k)'
    BY <1>1, <2>1, <2>2, <2>5, OrderOver
  <2>. QED  BY <1>0, <1>1, <1>3, <2>1, <2>2, <2>4, <2>6, ThreadKept
<1>. QED  BY <1>1, <1>2, <1>3, AnswersKeeps

LEMMA AcceptKeeps ==
  ASSUME Types, Ends, OrderOK, NEW s \in Service, Accept(s)
  PROVE  Ends' /\ OrderOK'
<1>1. /\ Accepts(s) \/ Over
      /\ UNCHANGED <<session, kid, shown, s2c, cliEnd>>
  BY AcceptTypes DEF kidVars
<1>2. ASSUME Accepts(s)  PROVE Ends' /\ OrderOK'
  <2>11. PICK N \in Nat : N = Len(thread) + 1
    <3>1. Len(thread) \in Nat
      BY DEF Types
    <3>. QED  BY <3>1
  <2>0. PICK h \in Session : h = backlog[s][1] /\ h = Head(backlog[s])
    BY <1>2 DEF Accepts
  <2>1. /\ backlog[s] # <<>> /\ Len(backlog'[s]) = Len(backlog[s]) - 1
        /\ \A i \in 1 .. Len(backlog[s]) - 1 : backlog'[s][i] = backlog[s][i + 1]
        /\ \A r \in Service : r # s => backlog'[r] = backlog[r]
        /\ Threads' = Threads \cup {N} /\ \A t \in Threads : thread'[t] = thread[t]
        /\ thread'[N] = [pc |-> "start", service |-> s, fd |-> h, buf |-> <<>>]
        /\ UNCHANGED <<c2s, srvEnd>>
    BY <1>2, <2>0, <2>11 DEF Accepts
  <2>2. /\ thread'[N].pc = "start" /\ thread'[N].service = s /\ thread'[N].fd = h
        /\ thread'[N].buf = <<>>
    BY <2>1
  <2>3. N \notin Threads
    BY <2>11 DEF Threads
  <2>4. 1 \in 1 .. Len(backlog[s]) /\ Len(backlog[s]) \in Nat
    <3>1. backlog[s] \in Seq(Session)
      BY DEF Types
    <3>. QED  BY <2>1, <3>1, TailIs
  <2>5. /\ session[h].service = s /\ cliEnd[h] # "none" /\ srvEnd[h] = "open"
        /\ \A t \in Threads : thread[t].fd # h
    BY <2>0, <2>4 DEF Ends, BacklogOK
  <2>6. Session' = Session
    BY <1>1 DEF Session
  <2>7. BacklogOK'
    <3>3. PICK x \in 1 .. Len(backlog[s]) : x = 1
      BY <2>4
    <3>1. \A j \in 1 .. Len(backlog[s]) - 1 :
            backlog'[s][j] = IF j < x THEN backlog[s][j] ELSE backlog[s][j + 1]
      BY <2>1, <2>4, <3>3
    <3>2. \A b \in Session : b # backlog[s][x] =>
            /\ cliEnd'[b] = cliEnd[b] /\ srvEnd'[b] = srvEnd[b]
            /\ (\A t \in Threads : thread[t].fd # b) => \A t \in Threads' : thread'[t].fd # b
      BY <1>1, <2>0, <2>1, <2>2, <3>3
    <3>. QED  BY <1>1, <2>1, <3>1, <3>2, BacklogCut
  <2>8. ThreadsOK'
    <3>1. \A t \in Threads :
            /\ thread'[t].service = session'[thread'[t].fd].service
            /\ cliEnd'[thread'[t].fd] # "none"
            /\ thread'[t].pc # "done" => srvEnd'[thread'[t].fd] = "open"
            /\ thread'[t].pc \in {"start", "read"} => thread'[t].buf = <<>>
            /\ thread'[t].pc = "write" => thread'[t].buf # <<>>
      BY <1>1, <2>1 DEF Ends, ThreadsOK
    <3>2. /\ thread'[N].service = session'[thread'[N].fd].service
          /\ cliEnd'[thread'[N].fd] # "none" /\ srvEnd'[thread'[N].fd] = "open"
      BY <1>1, <2>1, <2>2, <2>5
    <3>3. \A t, u \in Threads' : thread'[t].fd = thread'[u].fd => t = u
      <4>1. \A t, u \in Threads : thread'[t].fd = thread'[u].fd => t = u
        BY <2>1 DEF Ends, ThreadsOK
      <4>2. \A t \in Threads : thread'[t].fd # thread'[N].fd
        BY <2>1, <2>2, <2>5
      <4>. QED  BY <2>1, <4>1, <4>2
    <3>. QED  BY <2>1, <2>2, <3>1, <3>2, <3>3 DEF ThreadsOK
  <2>9. ASSUME NEW j \in Session  PROVE KidOK(j)'
    <3>1. KidOK(j)
      BY DEF Ends, KidsOK
    <3>2. kid[j].pc = "connect" => shown'[j] = <<>> /\ c2s'[j] = <<>> /\ s2c'[j] = <<>>
      BY <1>1, <2>1, <3>1 DEF KidOK
    <3>. QED  BY <1>1, <2>1, <3>1, <3>2, KidKept
  <2>10. ASSUME NEW j \in Session  PROVE InOrder(j)'
    <3>1. InOrder(j)
      BY DEF OrderOK
    <3>2. Live(j)' = Live(j) /\ Sent(j)' = Sent(j)
      BY <1>1 DEF Live, Sent
    <3>3. CASE j # h
      <4>1. \A t \in Threads' : thread'[t].fd = j =>
               t \in Threads /\ thread[t].fd = j /\ thread'[t].buf = thread[t].buf
        BY <2>1, <2>2, <3>3
      <4>2. (\A t \in Threads' : thread'[t].fd # j) => \A t \in Threads : thread[t].fd # j
        BY <2>1
      <4>. QED  BY <1>1, <2>1, <3>1, <3>2, <4>1, <4>2, OrderKept
    <3>4. CASE j = h
      <4>1. /\ LinesFrom(shown[j], j, 0)'
            /\ (session[j].service = "echo" => LinesFrom(s2c[j], j, Len(shown[j])))'
        BY <1>1, <3>1 DEF InOrder, LinesFrom
      <4>2. ASSUME session[j].service = "echo", Live(j)  PROVE Served(j, N)'
        <5>1. Unserved(j)
          BY <2>5, <3>1, <3>4, <4>2 DEF InOrder
        <5>2. Len(shown'[j]) = 0 /\ Len(s2c'[j]) = 0 /\ Len(thread'[N].buf) = 0
          BY <1>1, <2>2, <5>1 DEF Unserved
        <5>3. LinesFrom(c2s'[j], j, 0) /\ Sent(j)' = Len(c2s'[j])
          BY <2>1, <3>2, <5>1 DEF Unserved
        <5>4. Len(c2s'[j]) \in Nat
          BY <2>1, DataIs
        <5>5. /\ LinesFrom(thread[N].buf, j, Len(shown[j]) + Len(s2c[j]))'
              /\ LinesFrom(c2s[j], j, Len(shown[j]) + Len(s2c[j]) + Len(thread[N].buf))'
          <6>1. 1 .. Len(thread'[N].buf) = {} /\ 0 + 0 + 0 = 0
            BY <5>2
          <6>. QED  BY <5>2, <5>3, <6>1 DEF LinesFrom
        <5>6. (Sent(j) = Len(shown[j]) + Len(s2c[j]) + Len(thread[N].buf) + Len(c2s[j]))'
          BY <5>2, <5>3, <5>4
        <5>. QED  BY <5>5, <5>6 DEF Served
      <4>3. ASSUME session'[j].service = "echo", Live(j)'
            PROVE  /\ (\A t \in Threads : thread[t].fd = j => Served(j, t))'
                   /\ ((\A t \in Threads : thread[t].fd # j) => Unserved(j))'
        <5>1. Served(j, N)'
          BY <1>1, <3>2, <4>2, <4>3
        <5>2. \A t \in Threads' : thread'[t].fd = j => t = N
          BY <2>1, <2>2, <2>5, <3>4
        <5>3. N \in Threads' /\ thread'[N].fd = j
          BY <2>1, <2>2, <3>4
        <5>. QED  BY <5>1, <5>2, <5>3
      <4>. QED  BY <4>1, <4>3 DEF InOrder
    <3>. QED  BY <3>3, <3>4
  <2>. QED  BY <2>6, <2>7, <2>8, <2>9, <2>10 DEF Ends, KidsOK, OrderOK
<1>. QED  BY <1>1, <1>2, OverKeeps

LEMMA BeginKeeps ==
  ASSUME Types, Ends, OrderOK, NEW u \in User, NEW n, NewSession(u, n)
  PROVE  Ends' /\ OrderOK'
<1>1. /\ Session' = Session \cup {n} /\ n \notin Session
      /\ kid'[n].pc = "connect" /\ kid'[n].msg = "" /\ kid'[n].line = 0
      /\ shown'[n] = <<>> /\ c2s'[n] = <<>> /\ s2c'[n] = <<>>
      /\ cliEnd'[n] = "none" /\ srvEnd'[n] = "none"
      /\ thread' = thread /\ backlog' = backlog
  BY DEF NewSession, serverVars
<1>2. \A j \in Session :
        /\ session'[j] = session[j] /\ kid'[j] = kid[j]
        /\ shown'[j] = shown[j] /\ c2s'[j] = c2s[j] /\ s2c'[j] = s2c[j]
        /\ cliEnd'[j] = cliEnd[j] /\ srvEnd'[j] = srvEnd[j]
  BY DEF NewSession
<1>3. Threads' = Threads
  BY <1>1 DEF Threads
<1>4. KidOK(n)' /\ InOrder(n)'
  <2>1. ~ Live(n)'
    BY <1>1 DEF Live
  <2>2. KidOK(n)'
    BY <1>1, <2>1 DEF KidOK
  <2>3. LinesFrom(shown[n], n, 0)' /\ LinesFrom(s2c[n], n, Len(shown[n]))'
    <3>2. 1 .. Len(<<>>) = {}
      OBVIOUS
    <3>1. 1 .. Len(shown'[n]) = {} /\ 1 .. Len(s2c'[n]) = {}
      BY <1>1, <3>2
    <3>. QED  BY <3>1 DEF LinesFrom
  <2>. QED  BY <2>1, <2>2, <2>3 DEF InOrder
<1>5. ASSUME NEW j \in Session  PROVE KidOK(j)' /\ InOrder(j)'
  <2>1. KidOK(j) /\ InOrder(j)
    BY DEF Ends, KidsOK, OrderOK
  <2>2. /\ session'[j] = session[j] /\ kid'[j] = kid[j]
        /\ shown'[j] = shown[j] /\ c2s'[j] = c2s[j] /\ s2c'[j] = s2c[j]
        /\ cliEnd'[j] = cliEnd[j] /\ srvEnd'[j] = srvEnd[j]
    BY <1>2
  <2>3. kid[j].pc = "connect" => shown'[j] = <<>> /\ c2s'[j] = <<>> /\ s2c'[j] = <<>>
    BY <2>1, <2>2 DEF KidOK
  <2>4. KidOK(j)'
    BY <2>1, <2>2, <2>3, KidKept
  <2>5. Live(j)' = Live(j) /\ Sent(j)' = Sent(j)
    BY <2>2 DEF Live, Sent
  <2>. QED  BY <1>1, <1>3, <2>1, <2>2, <2>4, <2>5, OrderKept
<1>6. ThreadsOK'
  <2>1. \A t \in Threads : thread[t].fd \in Session
    BY ThreadIs
  <2>2. \A t \in Threads : /\ session'[thread[t].fd] = session[thread[t].fd]
                           /\ cliEnd'[thread[t].fd] = cliEnd[thread[t].fd]
                           /\ srvEnd'[thread[t].fd] = srvEnd[thread[t].fd]
    BY <1>2, <2>1
  <2>. QED  BY <1>1, <1>3, <2>2 DEF Ends, ThreadsOK
<1>7. BacklogOK'
  <2>1. \A s \in Service : \A i \in 1 .. Len(backlog[s]) : backlog[s][i] \in Session
    BY ElementOfSeq DEF Types
  <2>2. \A s \in Service : \A i \in 1 .. Len(backlog[s]) :
           /\ session'[backlog[s][i]] = session[backlog[s][i]]
           /\ cliEnd'[backlog[s][i]] = cliEnd[backlog[s][i]]
           /\ srvEnd'[backlog[s][i]] = srvEnd[backlog[s][i]]
    BY <1>2, <2>1
  <2>3. ASSUME NEW s \in Service, NEW i \in 1 .. Len(backlog[s])
        PROVE  /\ session'[backlog[s][i]].service = s
               /\ cliEnd'[backlog[s][i]] # "none" /\ srvEnd'[backlog[s][i]] = "open"
               /\ \A t \in Threads : thread[t].fd # backlog[s][i]
               /\ \A j \in 1 .. Len(backlog[s]) : backlog[s][j] = backlog[s][i] => j = i
    BY <2>2 DEF Ends, BacklogOK
  <2>4. ASSUME NEW s \in Service, NEW i \in 1 .. Len(backlog'[s])
        PROVE  /\ session'[backlog'[s][i]].service = s
               /\ cliEnd'[backlog'[s][i]] # "none" /\ srvEnd'[backlog'[s][i]] = "open"
               /\ \A t \in Threads' : thread'[t].fd # backlog'[s][i]
               /\ \A j \in 1 .. Len(backlog'[s]) : backlog'[s][j] = backlog'[s][i] => j = i
    <3>1. backlog' = backlog /\ thread' = thread /\ i \in 1 .. Len(backlog[s])
      BY <1>1
    <3>2. /\ session'[backlog[s][i]].service = s
          /\ cliEnd'[backlog[s][i]] # "none" /\ srvEnd'[backlog[s][i]] = "open"
          /\ \A t \in Threads : thread[t].fd # backlog[s][i]
          /\ \A j \in 1 .. Len(backlog[s]) : backlog[s][j] = backlog[s][i] => j = i
      BY <2>3, <3>1
    <3>. QED  BY <1>3, <3>1, <3>2
  <2>. QED  BY <2>4 DEF BacklogOK
<1>. QED  BY <1>1, <1>4, <1>5, <1>6, <1>7 DEF Ends, KidsOK, OrderOK

\* Every step keeps children, threads and queues in agreement and the lines in order.
LEMMA StepEnds ==
  ASSUME Types, CurrentOK, Ends, OrderOK, Next
  PROVE  Ends' /\ OrderOK'
<1>1. ASSUME NEW u \in User, Choose(u)  PROVE Ends' /\ OrderOK'
  <2>1. PICK service \in Service : Begin(u, service)
    BY <1>1, ChooseIs
  <2>. QED  BY <2>1, BeginTypes, BeginKeeps
<1>2. ASSUME NEW u \in User, ParentStep(u) \/ Quit(u) \/ CloseStdin(u)  PROVE Ends' /\ OrderOK'
  <2>1. UNCHANGED <<session, kid, shown, c2s, s2c, cliEnd, srvEnd, thread, backlog>>
    BY <1>2 DEF ParentStep, ReadPipe, PipeEof, CatchChld, Quit, CloseStdin, kidVars, tcpVars, serverVars
  <2>. QED  BY <2>1, QuietKeeps
<1>3. ASSUME NEW k \in Session, KidStep(k) \/ Kill(k) \/ CloseWindow(k) \/ ExecFails(k)
      PROVE  Ends' /\ OrderOK'
  BY <1>3, ConnectKeeps, FromServerKeeps, FromUserKeeps, SendKeeps, TellKeeps, KillKeeps, WindowKeeps
     DEF KidStep
<1>4. ASSUME MainStep  PROVE Ends' /\ OrderOK'
  <2>1. ASSUME Select  PROVE UNCHANGED <<session, kid, shown, c2s, s2c, cliEnd, srvEnd, thread, backlog>>
    BY <2>1 DEF Select, kidVars, tcpVars
  <2>. QED  BY <1>4, <2>1, QuietKeeps, AcceptKeeps DEF MainStep
<1>5. ASSUME NEW t \in Threads, ThreadStep(t)  PROVE Ends' /\ OrderOK'
  BY <1>5, StartThreadKeeps, ReadKeeps, WriteKeeps DEF ThreadStep
<1>6. ASSUME ServerKilled  PROVE Ends' /\ OrderOK'
  <2>1. Over /\ UNCHANGED <<session, kid, shown, s2c, cliEnd>>
    BY <1>6, ServerEndsIs DEF ServerKilled, kidVars
  <2>. QED  BY <2>1, OverKeeps
<1>. QED  BY <1>1, <1>2, <1>3, <1>4, <1>5, <1>6, ResetKeeps DEF Next, Step, Upset, Threads

----------------------------------------------------------------------------
(* Buffers *)

LEMMA AsideCaps ==
  ASSUME Caps, NEW k \in Session, Aside(k), CapOK(k)'
  PROVE  Caps'
<1>1. Session' = Session
  BY DEF Aside, Session
<1>2. ASSUME NEW j \in Session, j # k  PROVE CapOK(j)'
  <2>1. pipe'[j] = pipe[j] /\ c2s'[j] = c2s[j] /\ s2c'[j] = s2c[j] /\ CapOK(j)
    BY <1>2 DEF Aside, Caps
  <2>. QED  BY <2>1 DEF CapOK
<1>. QED  BY <1>1, <1>2 DEF Caps

LEMMA NoneFits == Len(<<>>) <= SockCap /\ Len(<<>>) <= PipeCap
BY EchoAssumption

LEMMA KidCaps ==
  ASSUME Types, Ends, OrderOK, Caps, NEW k \in Session,
         \/ Connect(k) \/ FromServer(k) \/ FromUser(k) \/ Send(k) \/ Tell(k)
         \/ Kill(k) \/ CloseWindow(k) \/ ExecFails(k)
  PROVE  Caps'
<1>0. /\ CapOK(k) /\ c2s[k] \in Seq(Item) /\ s2c[k] \in Seq(Item) /\ k \in Nat
      /\ Len(c2s[k]) \in Nat /\ Len(s2c[k]) \in Nat /\ kid[k].line \in Nat
      /\ SockCap \in Nat /\ PipeCap \in Nat
  BY DataIs, EchoAssumption DEF Caps
<1>1. CASE Connect(k) \/ FromUser(k) \/ CloseWindow(k) \/ ExecFails(k)
  <2>1. Aside(k) /\ UNCHANGED <<pipe, c2s, s2c>>
    BY <1>1, ConnectTypes, FromUserTypes, WindowTypes DEF tcpVars
  <2>2. CapOK(k)'
    BY <1>0, <2>1 DEF CapOK
  <2>. QED  BY <2>1, <2>2, AsideCaps
<1>2. ASSUME CloseClient(k), Aside(k), c2s' = c2s, pipe'[k] = pipe[k] \/ Len(pipe'[k]) <= PipeCap
      PROVE  Caps'
  <2>1. s2c'[k] = <<>>
    BY <1>2, CloseClientIs
  <2>2. CapOK(k)'
    BY <1>0, <1>2, <2>1, NoneFits DEF CapOK
  <2>. QED  BY <1>2, <2>2, AsideCaps
<1>3. CASE Kill(k)
  <2>1. Aside(k) /\ CloseClient(k) /\ UNCHANGED <<c2s, pipe>>
    BY <1>3, KillTypes DEF Kill, Abort
  <2>. QED  BY <1>2, <2>1
<1>4. CASE FromServer(k)
  <2>1. /\ Aside(k) /\ (Reads(k) \/ MeetsEnd(k) \/ MeetsReset(k)) /\ UNCHANGED <<pipe, c2s>>
    BY <1>4, FromServerTypes
  <2>2. CASE MeetsReset(k)
    BY <1>2, <2>1, <2>2 DEF MeetsReset
  <2>3. CASE MeetsEnd(k)
    <3>1. s2c' = s2c
      BY <2>3 DEF MeetsEnd
    <3>2. CapOK(k)'
      BY <1>0, <2>1, <3>1 DEF CapOK
    <3>. QED  BY <2>1, <3>2, AsideCaps
  <2>4. CASE Reads(k)
    <3>1. PICK n \in 1 .. Len(s2c[k]) : s2c'[k] = SubSeq(s2c[k], n + 1, Len(s2c[k]))
      BY <2>4 DEF Reads
    <3>2. Len(s2c'[k]) = Len(s2c[k]) - n
      BY <1>0, <3>1, CutIs
    <3>3. Len(s2c'[k]) <= SockCap
      <4>1. \A a, b, c \in Int : a <= c /\ 1 <= b => a - b <= c
        OBVIOUS
      <4>2. Len(s2c[k]) <= SockCap /\ 1 <= n /\ n \in Int /\ Len(s2c[k]) \in Int /\ SockCap \in Int
        BY <1>0 DEF CapOK
      <4>. QED  BY <3>2, <4>1, <4>2
    <3>4. CapOK(k)'
      BY <1>0, <2>1, <3>3 DEF CapOK
    <3>. QED  BY <2>1, <3>4, AsideCaps
  <2>. QED  BY <2>1, <2>2, <2>3, <2>4
<1>5. CASE Send(k)
  <2>1. /\ Aside(k) /\ (LineGoes(k) \/ LineIsLost(k) \/ LineMeetsReset(k)) /\ UNCHANGED pipe
    BY <1>5, SendTypes
  <2>2. CASE LineMeetsReset(k)
    BY <1>2, <2>1, <2>2 DEF LineMeetsReset
  <2>3. CASE LineIsLost(k)
    <3>1. c2s' = c2s /\ s2c' = s2c
      BY <2>3 DEF LineIsLost
    <3>2. CapOK(k)'
      BY <1>0, <2>1, <3>1 DEF CapOK
    <3>. QED  BY <2>1, <3>2, AsideCaps
  <2>4. CASE LineGoes(k)
    <3>. DEFINE e == <<k, kid[k].line>>
    <3>1. Len(c2s[k]) < SockCap /\ c2s'[k] = Append(c2s[k], e) /\ s2c' = s2c
      BY <2>4 DEF LineGoes
    <3>2. e \in Item
      BY <1>0, ItemIs
    <3>. HIDE DEF e
    <3>3. Len(c2s'[k]) = Len(c2s[k]) + 1
      BY <1>0, <3>1, <3>2, PutIs
    <3>4. CapOK(k)'
      BY <1>0, <2>1, <3>1, <3>3 DEF CapOK
    <3>. QED  BY <2>1, <3>4, AsideCaps
  <2>. QED  BY <2>1, <2>2, <2>3, <2>4
<1>6. CASE Tell(k)
  <2>1. /\ Aside(k) /\ (GoesOn(k) \/ Goes(k)) /\ c2s' = c2s
        /\ pipe'[k] = pipe[k] \/ Len(pipe'[k]) <= PipeCap
    BY <1>6, TellTypes
  <2>2. CASE Goes(k)
    BY <1>2, <2>1, <2>2 DEF Goes
  <2>3. CASE GoesOn(k)
    <3>1. s2c' = s2c
      BY <2>3 DEF GoesOn
    <3>2. CapOK(k)'
      BY <1>0, <2>1, <3>1 DEF CapOK
    <3>. QED  BY <2>1, <3>2, AsideCaps
  <2>. QED  BY <2>1, <2>2, <2>3
<1>. QED  BY <1>1, <1>3, <1>4, <1>5, <1>6

LEMMA ThreadCaps ==
  ASSUME Types, Ends, OrderOK, Caps, NEW t \in Threads, ThreadStep(t)
  PROVE  Caps'
<1>0. PICK k \in Session : k = thread[t].fd
  BY ThreadIs
<1>1. /\ CapOK(k) /\ c2s[k] \in Seq(Item) /\ s2c[k] \in Seq(Item) /\ SockCap \in Nat
      /\ Len(c2s[k]) \in Nat /\ Len(s2c[k]) \in Nat /\ thread[t].buf \in Seq(Item)
  BY DataIs, ThreadIs, EchoAssumption DEF Caps
<1>2. ASSUME UNCHANGED <<session, pipe>>,
             \A j \in Session : j # k => c2s'[j] = c2s[j] /\ s2c'[j] = s2c[j],
             c2s'[k] = c2s[k] \/ Len(c2s'[k]) <= SockCap,
             s2c'[k] = s2c[k] \/ Len(s2c'[k]) <= SockCap
      PROVE  Caps'
  <2>1. \A j \in Session : CapOK(j)'
    BY <1>2 DEF Caps, CapOK
  <2>. QED  BY <1>2, <2>1 DEF Caps, Session
<1>3. CASE StartThread(t)
  BY <1>2, <1>3 DEF StartThread, kidVars, tcpVars
<1>4. CASE EchoRead(t) \/ TimeRead(t)
  <2>1. /\ UNCHANGED <<session, pipe, s2c>>
        /\ Hangs(t) \/ Fetches(t) \/ UNCHANGED c2s
    BY <1>4, EchoReadTypes, TimeReadTypes DEF kidVars
  <2>2. CASE UNCHANGED c2s
    BY <1>2, <2>1, <2>2
  <2>3. CASE Fetches(t)
    <3>1. PICK n \in 1 .. Len(c2s[k]) : c2s'[k] = SubSeq(c2s[k], n + 1, Len(c2s[k]))
      BY <1>0, <2>3 DEF Fetches
    <3>2. Len(c2s'[k]) = Len(c2s[k]) - n
      BY <1>1, <3>1, CutIs
    <3>3. Len(c2s'[k]) <= SockCap
      <4>1. \A a, b, c \in Int : a <= c /\ 1 <= b => a - b <= c
        OBVIOUS
      <4>2. Len(c2s[k]) <= SockCap /\ 1 <= n /\ n \in Int /\ Len(c2s[k]) \in Int /\ SockCap \in Int
        BY <1>1 DEF CapOK
      <4>. QED  BY <3>2, <4>1, <4>2
    <3>4. \A j \in Session : j # k => c2s'[j] = c2s[j]
      BY <1>0, <2>3 DEF Fetches
    <3>. QED  BY <1>2, <2>1, <3>3, <3>4
  <2>. QED  BY <2>1, <2>2, <2>3 DEF Hangs
<1>5. CASE Write(t)
  <2>1. /\ UNCHANGED <<session, pipe>> /\ thread[t].pc = "write"
        /\ \/ (Answers(t) \/ AnswersNobody(t)) /\ UNCHANGED c2s
           \/ Over /\ UNCHANGED s2c
    BY <1>5, WriteTypes DEF kidVars, Ends
  <2>2. CASE AnswersNobody(t) /\ UNCHANGED c2s
    BY <1>2, <2>1, <2>2 DEF AnswersNobody
  <2>3. CASE Over /\ UNCHANGED s2c
    <3>1. ASSUME NEW j \in Session  PROVE CapOK(j)'
      <4>1. CapOK(j) /\ c2s'[j] = <<>>
        BY <2>3 DEF Over, Caps
      <4>. QED  BY <2>1, <2>3, <4>1, NoneFits DEF CapOK
    <3>. QED  BY <2>1, <3>1 DEF Caps, Session
  <2>4. CASE Answers(t) /\ UNCHANGED c2s
    <3>1. /\ Len(s2c[k]) < SockCap /\ s2c'[k] = Append(s2c[k], Head(thread[t].buf))
          /\ \A j \in Session : j # k => s2c'[j] = s2c[j]
      BY <1>0, <2>4 DEF Answers
    <3>2. Head(thread[t].buf) \in Item
      BY <1>0, <1>1, <2>1, AtWork, TailIs
    <3>3. Len(s2c'[k]) = Len(s2c[k]) + 1
      BY <1>1, <3>1, <3>2, PutIs
    <3>4. Len(s2c'[k]) <= SockCap
      BY <1>1, <3>1, <3>3
    <3>. QED  BY <1>2, <2>1, <2>4, <3>1, <3>4
  <2>. QED  BY <2>1, <2>2, <2>3, <2>4
<1>. QED  BY <1>3, <1>4, <1>5 DEF ThreadStep

LEMMA StepCaps ==
  ASSUME Types, CurrentOK, Ends, OrderOK, Caps, Next
  PROVE  Caps'
<1>1. ASSUME NEW u \in User, Choose(u)  PROVE Caps'
  <2>1. NewSession(u, Len(session) + 1)
    BY <1>1, ChooseIs, BeginTypes
  <2>2. PICK n : NewSession(u, n)
    BY <2>1
  <2>3. CapOK(n)'
    <3>1. pipe'[n] = <<>> /\ c2s'[n] = <<>> /\ s2c'[n] = <<>>
      BY <2>2 DEF NewSession
    <3>. QED  BY <3>1, NoneFits DEF CapOK
  <2>4. ASSUME NEW j \in Session  PROVE CapOK(j)'
    <3>1. CapOK(j) /\ pipe'[j] = pipe[j] /\ c2s'[j] = c2s[j] /\ s2c'[j] = s2c[j]
      BY <2>2 DEF NewSession, Caps
    <3>. QED  BY <3>1 DEF CapOK
  <2>5. Session' = Session \cup {n}
    BY <2>2 DEF NewSession
  <2>. QED  BY <2>3, <2>4, <2>5 DEF Caps
<1>2. ASSUME UNCHANGED <<session, c2s, s2c>>,
             \A j \in Session : pipe'[j] = pipe[j] \/ pipe'[j] = <<>>
      PROVE  Caps'
  <2>1. ASSUME NEW j \in Session  PROVE CapOK(j)'
    BY <1>2, NoneFits DEF CapOK, Caps
  <2>. QED  BY <1>2, <2>1 DEF Caps, Session
<1>3. ASSUME NEW u \in User, ParentStep(u) \/ Quit(u) \/ CloseStdin(u)  PROVE Caps'
  <2>1. UNCHANGED <<session, c2s, s2c>>
    BY <1>3 DEF ParentStep, ReadPipe, PipeEof, CatchChld, Quit, CloseStdin, tcpVars
  <2>2. pipe' = pipe \/ \E k : pipe' = [pipe EXCEPT ![k] = <<>>]
    BY <1>3 DEF ParentStep, ReadPipe, PipeEof, CatchChld, Quit, CloseStdin, kidVars
  <2>3. pipe \in [Session -> Seq(Message)]
    BY DEF Types
  <2>. QED  BY <1>2, <2>1, <2>2, <2>3
<1>4. ASSUME NEW k \in Session, ResetArrives(k)  PROVE Caps'
  BY <1>2, <1>4 DEF ResetArrives, kidVars
<1>5. ASSUME Over, UNCHANGED <<session, pipe, s2c>>  PROVE Caps'
  <2>1. ASSUME NEW j \in Session  PROVE CapOK(j)'
    <3>1. CapOK(j) /\ c2s'[j] = <<>>
      BY <1>5 DEF Over, Caps
    <3>. QED  BY <1>5, <3>1, NoneFits DEF CapOK
  <2>. QED  BY <1>5, <2>1 DEF Caps, Session
<1>6. ASSUME MainStep  PROVE Caps'
  <2>1. CASE Select
    BY <1>2, <2>1 DEF Select, kidVars, tcpVars
  <2>2. ASSUME NEW s \in Service, Accept(s)  PROVE Caps'
    <3>1. (Accepts(s) \/ Over) /\ UNCHANGED <<session, pipe, s2c>>
      BY <2>2, AcceptTypes DEF kidVars
    <3>. QED  BY <1>2, <1>5, <3>1 DEF Accepts
  <2>. QED  BY <1>6, <2>1, <2>2 DEF MainStep
<1>7. ASSUME ServerKilled  PROVE Caps'
  <2>1. Over /\ UNCHANGED <<session, pipe, s2c>>
    BY <1>7, ServerEndsIs DEF ServerKilled, kidVars
  <2>. QED  BY <1>5, <2>1
<1>8. ASSUME NEW k \in Session, KidStep(k)  PROVE Caps'
  BY <1>8, KidCaps DEF KidStep
<1>. QED  BY <1>1, <1>3, <1>4, <1>6, <1>7, <1>8, KidCaps, ThreadCaps DEF Next, Step, Upset, Threads

----------------------------------------------------------------------------
(* What has gone stays gone *)

\* A child that has gone does and says nothing more.
Rests(k) ==
  kid[k].pc = "gone" =>
    /\ kid'[k].pc = "gone" /\ kid'[k].msg = kid[k].msg
    /\ pipe'[k] = pipe[k] \/ pipe'[k] = <<>>

LEMMA AsideRests ==
  ASSUME NEW k \in Session, Aside(k), Rests(k)
  PROVE  \A j \in Session : Rests(j)
BY DEF Aside, Rests

LEMMA GoneStays ==
  ASSUME Types, CurrentOK, Ends, Next
  PROVE  /\ \A k \in Session : Rests(k)
         /\ Session \subseteq Session' /\ xterm' \cap Session \subseteq xterm
         /\ \A u \in User : parent'[u] = "prompt" => parent[u] = "prompt" \/ PipeEof(u)
<1>. DEFINE G == /\ \A k \in Session : Rests(k)
                 /\ Session \subseteq Session' /\ xterm' \cap Session \subseteq xterm
                 /\ \A u \in User : parent'[u] = "prompt" => parent[u] = "prompt" \/ PipeEof(u)
<1>0. parent \in [User -> {"prompt", "select", "gone"}] /\ pipe \in [Session -> Seq(Message)]
  BY DEF Types
<1>1. ASSUME NEW u \in User, Choose(u)  PROVE G
  <2>1. PICK n : NewSession(u, n)
    BY <1>1, ChooseIs, BeginTypes
  <2>2. \A k \in Session : Rests(k)
    BY <2>1 DEF NewSession, Rests
  <2>3. Session \subseteq Session' /\ xterm' \cap Session \subseteq xterm
    BY <2>1 DEF NewSession
  <2>4. parent' = [parent EXCEPT ![u] = "select"]
    BY <2>1 DEF NewSession
  <2>. QED  BY <1>0, <2>2, <2>3, <2>4
<1>2. ASSUME session' = session, kid' = kid, pipe' = pipe, xterm' \subseteq xterm,
             \A u \in User : parent'[u] = "prompt" => parent[u] = "prompt" \/ PipeEof(u)
      PROVE  G
  <2>1. Session' = Session
    BY <1>2 DEF Session
  <2>2. \A k \in Session : Rests(k)
    BY <1>2 DEF Rests
  <2>. QED  BY <1>2, <2>1, <2>2
<1>3. ASSUME NEW u \in User, ParentStep(u) \/ Quit(u) \/ CloseStdin(u)  PROVE G
  <2>1. CASE ReadPipe(u)
    <3>1. /\ session' = session /\ kid' = kid /\ xterm' = xterm /\ parent' = parent
          /\ pipe' = [pipe EXCEPT ![Current(u)] = <<>>]
      BY <2>1 DEF ReadPipe, userVars
    <3>2. \A k \in Session : Rests(k)
      BY <1>0, <3>1 DEF Rests
    <3>3. Session' = Session
      BY <3>1 DEF Session
    <3>. QED  BY <3>1, <3>2, <3>3
  <2>2. CASE PipeEof(u)
    <3>1. /\ UNCHANGED <<session, kid, pipe, xterm>> /\ parent' = [parent EXCEPT ![u] = "prompt"]
      BY <2>2 DEF PipeEof, kidVars
    <3>2. \A v \in User : parent'[v] = "prompt" => parent[v] = "prompt" \/ PipeEof(v)
      BY <1>0, <2>2, <3>1
    <3>. QED  BY <1>2, <3>1, <3>2
  <2>3. CASE CatchChld(u) \/ Quit(u) \/ CloseStdin(u)
    <3>1. /\ UNCHANGED <<session, kid, pipe, xterm>>
          /\ parent' = parent \/ parent' = [parent EXCEPT ![u] = "gone"]
      BY <2>3 DEF CatchChld, Quit, CloseStdin, kidVars
    <3>2. \A v \in User : parent'[v] = "prompt" => parent[v] = "prompt"
      BY <1>0, <3>1
    <3>. QED  BY <1>2, <3>1, <3>2
  <2>. QED  BY <1>3, <2>1, <2>2, <2>3 DEF ParentStep
<1>4. ASSUME NEW k \in Session,
             \/ Connect(k) \/ FromServer(k) \/ FromUser(k) \/ Send(k) \/ Tell(k)
             \/ Kill(k) \/ CloseWindow(k) \/ ExecFails(k)
      PROVE  G
  <2>1. Aside(k)
    BY <1>4, ConnectTypes, FromServerTypes, FromUserTypes, SendTypes, TellTypes, KillTypes, WindowTypes
  <2>2. parent' = parent
    BY <1>4 DEF Connect, FromServer, FromUser, Send, Tell, Kill, CloseWindow, ExecFails, userVars
  <2>3. xterm' \subseteq xterm
    BY <1>4 DEF Connect, FromServer, FromUser, Send, Tell, Kill, CloseWindow, ExecFails
  <2>4. kid[k].pc # "gone" \/ (kid' = kid /\ pipe' = pipe)
    BY <1>4 DEF Connect, FromServer, FromUser, Send, Tell, Kill, CloseWindow, ExecFails
  <2>5. Rests(k)
    BY <2>4 DEF Rests
  <2>6. Session' = Session
    BY <2>1 DEF Aside, Session
  <2>. QED  BY <2>1, <2>2, <2>3, <2>5, <2>6, AsideRests
<1>5. ASSUME NEW k \in Session, ResetArrives(k)  PROVE G
  BY <1>2, <1>5 DEF ResetArrives, kidVars, userVars
<1>6. ASSUME MainStep  PROVE G
  <2>1. UNCHANGED <<session, kidVars, userVars>>
    BY <1>6 DEF MainStep, Select, Accept
  <2>. QED  BY <1>2, <2>1 DEF kidVars, userVars
<1>7. ASSUME NEW t \in Threads, ThreadStep(t)  PROVE G
  <2>1. UNCHANGED <<session, kidVars, userVars>>
    BY <1>7 DEF ThreadStep, StartThread, EchoRead, TimeRead, Write
  <2>. QED  BY <1>2, <2>1 DEF kidVars, userVars
<1>8. ASSUME ServerKilled  PROVE G
  BY <1>2, <1>8 DEF ServerKilled, kidVars, userVars
<1>9. G
  <2>. HIDE DEF G
  <2>1. ASSUME NEW k \in Session, KidStep(k)  PROVE G
    BY <1>4, <2>1 DEF KidStep
  <2>. QED  BY <1>1, <1>3, <1>4, <1>5, <1>6, <1>7, <1>8, <2>1 DEF Next, Step, Upset, Threads
<1>. QED  BY <1>9

LEMMA StepPrompt ==
  ASSUME Types, CurrentOK, Ends, PromptMeansOver, Next
  PROVE  PromptMeansOver'
<1>1. /\ \A k \in Session : Rests(k)
      /\ Session \subseteq Session' /\ xterm' \cap Session \subseteq xterm
      /\ \A u \in User : parent'[u] = "prompt" => parent[u] = "prompt" \/ PipeEof(u)
  BY GoneStays
<1>2. ASSUME NEW u \in User, parent'[u] = "prompt", Current(u)' # 0, Current(u)' = Current(u)
      PROVE  Gone(Current(u))' /\ pipe'[Current(u)'] = <<>>
  <2>1. PICK k \in Session : k = Current(u) /\ k = Current(u)'
    BY <1>2 DEF CurrentOK
  <2>2. Gone(k) /\ pipe[k] = <<>>
    <3>1. CASE parent[u] = "prompt"
      BY <1>2, <2>1, <3>1 DEF PromptMeansOver
    <3>2. CASE PipeEof(u)
      BY <2>1, <3>2 DEF PipeEof
    <3>. QED  BY <1>1, <1>2, <3>1, <3>2
  <2>3. kid'[k].pc = "gone" /\ k \notin xterm' /\ pipe'[k] = <<>>
    BY <1>1, <2>2 DEF Rests, Gone
  <2>. QED  BY <2>1, <2>3 DEF Gone
<1>3. ASSUME NEW u \in User, parent'[u] = "prompt", Current(u)' # 0
      PROVE  Gone(Current(u))' /\ pipe'[Current(u)'] = <<>>
  <2>1. CASE session' = session
    <3>1. Current(u)' = Current(u)
      BY <2>1, CurrentSame
    <3>. QED  BY <1>2, <1>3, <3>1
  <2>2. ASSUME NEW v \in User, NewSession(v, Len(session) + 1)
        PROVE  Gone(Current(u))' /\ pipe'[Current(u)'] = <<>>
    <3>1. parent'[v] = "select"
      BY <2>2 DEF NewSession, Types
    <3>2. Current(u)' = Current(u)
      BY <1>3, <2>2, <3>1, CurrentOfNew
    <3>. QED  BY <1>2, <1>3, <3>2
  <2>. QED  BY <2>1, <2>2, StepTypes DEF Ends
<1>. QED  BY <1>3 DEF PromptMeansOver

LEMMA KilledStays ==
  ASSUME Types, CurrentOK, Ends, Next, SomeKilled
  PROVE  SomeKilled'
<1>1. PICK k \in Session : kid[k].msg = "killed"
  BY DEF SomeKilled
<1>2. kid[k].pc = "gone"
  BY <1>1 DEF Ends, KidsOK, KidOK
<1>3. Rests(k) /\ k \in Session'
  BY GoneStays
<1>. QED  BY <1>1, <1>2, <1>3 DEF Rests, SomeKilled

\* The server's death: an accept() of what is no longer there, or a write() after a reset,
\* both of which take a child that was killed.
LEMMA StepDeath ==
  ASSUME Types, CurrentOK, Ends, OrderOK, DeathOK, Next
  PROVE  DeathOK'
<1>1. SomeKilled => SomeKilled'
  BY KilledStays
<1>2. ASSUME SomeKilled'  PROVE DeathOK'
  BY <1>2 DEF DeathOK
<1>3. ASSUME main' = main, backlog' = backlog, server' = server  PROVE DeathOK'
  BY <1>1, <1>3 DEF DeathOK
<1>4. ASSUME NEW u \in User, Choose(u)  PROVE DeathOK'
  <2>1. PICK n : NewSession(u, n)
    BY <1>4, ChooseIs, BeginTypes
  <2>. QED  BY <1>3, <2>1 DEF NewSession, serverVars
<1>5. ASSUME NEW u \in User, ParentStep(u) \/ Quit(u) \/ CloseStdin(u)  PROVE DeathOK'
  BY <1>3, <1>5 DEF ParentStep, ReadPipe, PipeEof, CatchChld, Quit, CloseStdin, serverVars
<1>6. ASSUME NEW k \in Session,
             \/ FromServer(k) \/ FromUser(k) \/ Send(k) \/ Tell(k)
             \/ CloseWindow(k) \/ ExecFails(k) \/ ResetArrives(k)
      PROVE  DeathOK'
  <2>1. UNCHANGED serverVars
    BY <1>6 DEF FromServer, FromUser, Send, Tell, CloseWindow, ExecFails, ResetArrives
  <2>. QED  BY <1>3, <2>1 DEF serverVars
<1>7. ASSUME NEW k \in Session, Kill(k)  PROVE DeathOK'
  <2>1. kid'[k].msg = "killed" /\ session' = session
    BY <1>7, KillTypes DEF Aside
  <2>2. SomeKilled'
    BY <2>1 DEF SomeKilled, Session
  <2>. QED  BY <1>2, <2>2
<1>8. ASSUME NEW k \in Session, Connect(k)  PROVE DeathOK'
  <2>1. /\ main' = main /\ server' = server
        /\ \/ backlog' = [backlog EXCEPT ![session[k].service] = Append(@, k)]
           \/ backlog' = backlog
    BY <1>8 DEF Connect
  <2>2. \A s \in Service : backlog'[s] = <<>> => backlog[s] = <<>>
    <3>1. CASE backlog' = [backlog EXCEPT ![session[k].service] = Append(@, k)]
      <4>1. \A s \in Service : backlog[s] \in Seq(Session) /\ backlog \in [Service -> Seq(Session)]
        BY DEF Types
      <4>2. \A s \in Service : Append(backlog[s], k) # <<>>
        BY <4>1, AppendProperties
      <4>. QED  BY <3>1, <4>1, <4>2
    <3>. QED  BY <2>1, <3>1
  <2>3. main \subseteq Service
    BY DEF Types
  <2>. QED  BY <1>1, <2>1, <2>2, <2>3 DEF DeathOK
<1>9. ASSUME Select  PROVE DeathOK'
  BY <1>1, <1>9 DEF Select, DeathOK
<1>10. ASSUME NEW s \in Service, Accept(s)  PROVE DeathOK'
  <2>1. s \in main /\ (Accepts(s) \/ (backlog[s] = <<>> /\ Over))
    BY <1>10, AcceptTypes
  <2>2. CASE Accepts(s)
    <3>1. main' = main \ {s} /\ server' = server /\ \A r \in Service : r # s => backlog'[r] = backlog[r]
      BY <2>2 DEF Accepts
    <3>2. main \subseteq Service
      BY DEF Types
    <3>. QED  BY <1>1, <3>1, <3>2 DEF DeathOK
  <2>3. CASE backlog[s] = <<>>
    BY <1>1, <1>2, <2>1, <2>3 DEF DeathOK
  <2>. QED  BY <2>1, <2>2, <2>3
<1>11. ASSUME NEW t \in Threads, ThreadStep(t)  PROVE DeathOK'
  <2>1. CASE StartThread(t) \/ EchoRead(t) \/ TimeRead(t)
    BY <1>3, <2>1 DEF StartThread, EchoRead, TimeRead
  <2>2. CASE Write(t)
    <3>1. /\ thread[t].pc = "write"
          /\ UNCHANGED <<main, backlog, server>> \/ cliEnd[thread[t].fd] = "reset"
      BY <2>2, WriteTypes DEF Ends
    <3>2. CASE cliEnd[thread[t].fd] = "reset"
      <4>1. PICK k \in Session : k = thread[t].fd
        BY ThreadIs
      <4>2. KidOK(k) /\ srvEnd[k] = "open"
        BY <3>1, <4>1, AtWork
      <4>3. kid[k].msg = "killed"
        BY <3>2, <4>1, <4>2 DEF KidOK
      <4>. QED  BY <1>1, <1>2, <4>3 DEF SomeKilled
    <3>. QED  BY <1>3, <3>1, <3>2
  <2>. QED  BY <1>11, <2>1, <2>2 DEF ThreadStep
<1>12. ASSUME ServerKilled  PROVE DeathOK'
  BY <1>12 DEF ServerKilled, ServerEnds, DeathOK
<1>13. ASSUME NEW k \in Session, KidStep(k)  PROVE DeathOK'
  BY <1>6, <1>7, <1>8, <1>13 DEF KidStep
<1>. QED  BY <1>4, <1>5, <1>6, <1>7, <1>9, <1>10, <1>11, <1>12, <1>13
          DEF Next, Step, Upset, MainStep, Threads

----------------------------------------------------------------------------
(* The inductive invariant and what follows from it *)

EchoInv ==
  Types /\ CurrentOK /\ Ends /\ OrderOK /\ Caps /\ DeathOK /\ PromptMeansOver

LEMMA InitInv == Init => EchoInv
<1>. SUFFICES ASSUME Init PROVE EchoInv
  OBVIOUS
<1>1. Types /\ CurrentOK
  BY InitTypes
<1>2. Session = {} /\ Threads = {} /\ Len(<<>>) = 0 /\ 1 .. 0 = {}
  BY DEF Init, Session, Threads
<1>3. KidsOK /\ OrderOK /\ Caps /\ ThreadsOK
  BY <1>2 DEF KidsOK, OrderOK, Caps, ThreadsOK
<1>4. BacklogOK
  <2>1. \A s \in Service : 1 .. Len(backlog[s]) = {}
    BY <1>2 DEF Init
  <2>. QED  BY <2>1 DEF BacklogOK
<1>5. DeathOK
  BY DEF Init, DeathOK
<1>6. PromptMeansOver
  BY <1>1, <1>2 DEF PromptMeansOver, CurrentOK
<1>. QED  BY <1>1, <1>3, <1>4, <1>5, <1>6 DEF EchoInv, Ends

LEMMA StepInv == EchoInv /\ [Next]_vars => EchoInv'
<1>. SUFFICES ASSUME EchoInv, [Next]_vars PROVE EchoInv'
  OBVIOUS
<1>1. CASE Next
  BY <1>1, StepTypes, StepCurrent, StepEnds, StepCaps, StepDeath, StepPrompt DEF EchoInv, Ends
<1>2. CASE UNCHANGED vars
  <2>1. /\ UNCHANGED <<parent, stdinEof, sigchld, session, xterm, kid, pipe, shown>>
        /\ UNCHANGED <<c2s, s2c, cliEnd, srvEnd, main, backlog, thread, server>>
    BY <1>2 DEF vars, sysVars, userVars, kidVars, tcpVars, serverVars
  <2>2. Types'
    BY <2>1 DEF EchoInv, Types, Session
  <2>3. CurrentOK'
    BY <2>1, CurrentSame DEF EchoInv, CurrentOK, Session
  <2>4. Ends' /\ OrderOK'
    BY <2>1, QuietKeeps DEF EchoInv
  <2>5. Caps' /\ DeathOK'
    BY <2>1 DEF EchoInv, Caps, CapOK, DeathOK, SomeKilled, Session
  <2>6. PromptMeansOver'
    <3>1. \A u \in User : Current(u)' = Current(u)
      BY <2>1, CurrentSame
    <3>. QED  BY <2>1, <3>1 DEF EchoInv, PromptMeansOver, Gone
  <2>. QED  BY <2>2, <2>3, <2>4, <2>5, <2>6 DEF EchoInv
<1>. QED  BY <1>1, <1>2

LEMMA EchoInvHolds == Spec => []EchoInv
BY InitInv, StepInv, PTL DEF Spec

\* Whatever users, children, threads and the kernel do, no buffer or pipe holds more than
\* it can and every thread of the server is handed a connection of its own.
THEOREM EchoTypeCorrect == Spec => []EchoTypeOK
<1>1. EchoInv => EchoTypeOK
  <2>. SUFFICES ASSUME EchoInv PROVE EchoTypeOK
    OBVIOUS
  <2>1. Types /\ Caps
    BY DEF EchoInv
  <2>2. \A t \in 1 .. Len(thread) : thread[t].fd \in Session
    BY <2>1, ThreadIs DEF Threads
  <2>. QED  BY <2>1, <2>2 DEF EchoTypeOK, Types, Caps, CapOK, CliEnds, SrvEnds
<1>. QED  BY <1>1, EchoInvHolds, PTL

\* For any number of sessions, lines and sizes of the pieces in which read() returns data:
\* the lines that str_cli shows are those typed in its window, in their order.
THEOREM LinesComeInOrder == Spec => []EchoedInOrder
<1>1. EchoInv => EchoedInOrder
  <2>. SUFFICES ASSUME EchoInv, NEW k \in Session
                PROVE  shown[k] = [n \in 1 .. Len(shown[k]) |-> <<k, n>>]
    BY DEF EchoedInOrder
  <2>1. shown[k] \in Seq(Item) /\ LinesFrom(shown[k], k, 0)
    BY DataIs DEF EchoInv, OrderOK, InOrder
  <2>. DEFINE s == shown[k]
  <2>2. s \in [1 .. Len(s) -> Item] /\ Len(s) \in Nat
    BY <2>1, LenProperties
  <2>3. \A n \in 1 .. Len(s) : s[n] = <<k, n>>
    <3>1. \A n \in 1 .. Len(s) : 0 + n = n /\ s[n] = <<k, 0 + n>>
      BY <2>1 DEF LinesFrom
    <3>. QED  BY <3>1
  <2>. HIDE DEF s
  <2>4. s = [n \in 1 .. Len(s) |-> <<k, n>>]
    BY <2>2, <2>3
  <2>. QED  BY <2>4 DEF s
<1>. QED  BY <1>1, EchoInvHolds, PTL

\* The server ends by itself, in Accept() of a connection that is no longer there or in
\* Write() to one that was reset, only if some child was killed by a signal.
THEOREM ServerDiesOfAKill == Spec => []DiesOfAKill
<1>1. EchoInv => DiesOfAKill
  BY DEF EchoInv, DeathOK, SomeKilled, DiesOfAKill
<1>. QED  BY <1>1, EchoInvHolds, PTL

\* A client returns to its prompt only after the child and the window of its last session
\* have gone, and the pipe between them is empty.
THEOREM PromptOnlyWhenOver == Spec => []PromptMeansOver
<1>1. EchoInv => PromptMeansOver
  BY DEF EchoInv
<1>. QED  BY <1>1, EchoInvHolds, PTL
=============================================================================
