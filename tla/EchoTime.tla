------------------------------ MODULE EchoTime ------------------------------
(***************************************************************************)
(* Assignment 1: the server (tcpechotimesrv.c) with its threads, and users *)
(* each of whom runs the client (tcpechotimecli.c), which opens a window   *)
(* (xterm) in which echo_cli.c or time_cli.c talks to the server and       *)
(* reports to the client's process through a pipe.                         *)
(*                                                                         *)
(* Sessions are numbered as they are begun; session k has one window, one  *)
(* child, one pipe and at most one connection, and k names each of them.   *)
(* What TCP, pipes and signals do is taken from how the code uses them.    *)
(***************************************************************************)
EXTENDS Integers, Sequences, SequencesExt

CONSTANTS
  User,        \* those who run a client
  Wants,       \* the services a user may ask for
  MaxSession,  \* bound: sessions of all users
  MaxLine,     \* bound: lines a user types in a window
  MaxUpset,    \* bound: what users and chance upset
  SockCap,     \* what a socket's buffer holds, in lines
  PipeCap,     \* what a pipe holds, in messages
  DropAborted  \* may the kernel take an aborted connection off the queue?

ASSUME EchoAssumption ==
  /\ Wants \in [User -> SUBSET {"echo", "time"}]
  /\ MaxSession \in Nat /\ MaxLine \in [User -> Nat] /\ MaxUpset \in Nat
  /\ SockCap \in Nat \ {0} /\ PipeCap \in Nat \ {0} /\ DropAborted \in BOOLEAN

Service == {"echo", "time"}

VARIABLES
  parent,    \* what a user's client does: at the prompt, in its loop, or gone
  stdinEof,  \* its standard input is at its end
  sigchld,   \* SIGCHLD is to be delivered to it
  session,   \* the sessions so far: whose, which service
  xterm,     \* the sessions whose window is there
  kid,       \* their children
  pipe,      \* messages in the pipes
  shown,     \* lines the windows have shown
  c2s, s2c,  \* data on its way to the server, and from it
  cliEnd,    \* the client's end of the connection, as the server sees it
  srvEnd,    \* the server's end of it
  main,      \* the server's main thread: what select() found
  backlog,   \* connections that wait for accept()
  thread,    \* the threads, in the order of their creation
  upsets,    \* what has been upset so far
  server     \* "up", "killed" by its user, or "died"

userVars == <<parent, stdinEof, sigchld>>
kidVars == <<xterm, kid, pipe, shown>>
tcpVars == <<c2s, s2c, cliEnd, srvEnd>>
serverVars == <<main, backlog, thread, server>>
sysVars == <<userVars, session, kidVars, tcpVars, serverVars>>
vars == <<sysVars, upsets>>

Init ==
  /\ parent = [u \in User |-> "prompt"]
  /\ stdinEof = [u \in User |-> FALSE] /\ sigchld = [u \in User |-> FALSE]
  /\ session = <<>> /\ xterm = {} /\ kid = <<>> /\ pipe = <<>> /\ shown = <<>>
  /\ c2s = <<>> /\ s2c = <<>> /\ cliEnd = <<>> /\ srvEnd = <<>>
  /\ main = {} /\ backlog = [s \in Service |-> <<>>]
  /\ thread = <<>> /\ server = "up" /\ upsets = 0

Session == 1 .. Len(session)

(* The last session of u, which is the one that its client's loop serves. *)
Current(u) == SelectLastInSeq(session, LAMBDA s : s.of = u)

-----------------------------------------------------------------------------
(* The client (tcpechotimecli.c). *)

Begin(u, service) ==
  /\ Len(session) < MaxSession
  /\ parent' = [parent EXCEPT ![u] = "select"]
  /\ session' = Append(session, [of |-> u, service |-> service])
  /\ xterm' = xterm \cup {Len(session) + 1}
  /\ kid' = Append(kid, [pc |-> "connect", ready |-> FALSE, echo_flag |-> FALSE, msg |-> "",
                         line |-> 0])
  /\ pipe' = Append(pipe, <<>>) /\ shown' = Append(shown, <<>>)
  /\ c2s' = Append(c2s, <<>>) /\ s2c' = Append(s2c, <<>>)
  /\ cliEnd' = Append(cliEnd, "none") /\ srvEnd' = Append(srvEnd, "none")
  /\ UNCHANGED <<stdinEof, sigchld, serverVars>>

(* The user names a service.  At the end of the input scanf() leaves the    *)
(* last answer in choice, which is taken once more.                         *)
Choose(u) ==
  /\ parent[u] = "prompt"
  /\ IF stdinEof[u] THEN Current(u) # 0 /\ Begin(u, session[Current(u)].service)
                    ELSE \E service \in Wants[u] : Begin(u, service)

Quit(u) ==
  /\ parent[u] = "prompt" /\ ~ stdinEof[u]
  /\ parent' = [parent EXCEPT ![u] = "gone"]
  /\ UNCHANGED <<stdinEof, sigchld, session, kidVars, tcpVars, serverVars>>

CloseStdin(u) ==
  /\ parent[u] # "gone" /\ ~ stdinEof[u]
  /\ stdinEof' = [stdinEof EXCEPT ![u] = TRUE]
  /\ UNCHANGED <<parent, sigchld, session, kidVars, tcpVars, serverVars>>

Gone(k) == kid[k].pc = "gone" /\ k \notin xterm

PipeReadable(k) == pipe[k] # <<>> \/ Gone(k)

(* In the loop standard input comes first, and at its end the pipe is never *)
(* looked at.  One read() takes all that the child has reported.            *)
ReadPipe(u) ==
  LET k == Current(u)
  IN  /\ parent[u] = "select" /\ ~ stdinEof[u] /\ pipe[k] # <<>>
      /\ pipe' = [pipe EXCEPT ![k] = <<>>]
      /\ UNCHANGED <<userVars, session, xterm, kid, shown, tcpVars, serverVars>>

(* Mutant: the client keeps its own writing end of the pipe open. *)
PipeEofNever(u) == FALSE

(* Mutant: the loop also ends when the window has gone. *)
PipeEofEarly(u) ==
  LET k == Current(u)
  IN  /\ parent[u] = "select" /\ ~ stdinEof[u] /\ k \notin xterm
      /\ parent' = [parent EXCEPT ![u] = "prompt"]
      /\ UNCHANGED <<stdinEof, sigchld, session, kidVars, tcpVars, serverVars>>

PipeEof(u) ==
  LET k == Current(u)
  IN  /\ parent[u] = "select" /\ ~ stdinEof[u] /\ pipe[k] = <<>> /\ Gone(k)
      /\ parent' = [parent EXCEPT ![u] = "prompt"]
      /\ UNCHANGED <<stdinEof, sigchld, session, kidVars, tcpVars, serverVars>>

(* sig_chld runs; a select() that has found nothing returns EINTR, which is *)
(* the end of the client.                                                   *)
CatchChld(u) ==
  /\ parent[u] # "gone" /\ sigchld[u]
  /\ sigchld' = [sigchld EXCEPT ![u] = FALSE]
  /\ \/ UNCHANGED parent
     \/ /\ parent[u] = "select" /\ ~ stdinEof[u] /\ ~ PipeReadable(Current(u))
        /\ parent' = [parent EXCEPT ![u] = "gone"]
  /\ UNCHANGED <<stdinEof, session, kidVars, tcpVars, serverVars>>

-----------------------------------------------------------------------------
(* The window and the child in it. *)

(* A process that ends with data unread resets its connection. *)
CloseClient(k) ==
  /\ cliEnd' = [cliEnd EXCEPT ![k] =
                  IF @ = "none" THEN "none" ELSE IF s2c[k] # <<>> THEN "resetting" ELSE "closed"]
  /\ s2c' = [s2c EXCEPT ![k] = <<>>]

(* Whether an aborted connection stays in the queue is the kernel's choice. *)
Abort(k) ==
  /\ CloseClient(k)
  /\ \/ UNCHANGED backlog
     \/ /\ DropAborted
        /\ \E s \in Service : \E i \in 1 .. Len(backlog[s]) :
             /\ backlog[s][i] = k
             /\ backlog' = [backlog EXCEPT ![s] = RemoveAt(@, i)]

Ended(k) == [kid EXCEPT ![k] = [@ EXCEPT !.pc = "gone", !.ready = FALSE, !.msg = ""]]

(* ^C, or SIGHUP once the window has gone. *)
Kill(k) ==
  /\ kid[k].pc # "gone"
  /\ kid' = [Ended(k) EXCEPT ![k].msg = "killed"]
  /\ Abort(k)
  /\ UNCHANGED <<userVars, session, xterm, pipe, shown, c2s, srvEnd, main, thread, server>>

(* The user closes the window, or xterm ends after its program. *)
CloseWindow(k) ==
  /\ k \in xterm
  /\ xterm' = xterm \ {k}
  /\ sigchld' = [sigchld EXCEPT ![session[k].of] = TRUE]
  /\ UNCHANGED <<parent, stdinEof, session, kid, pipe, shown, tcpVars, serverVars>>

(* execlp() fails. *)
ExecFails(k) ==
  /\ k \in xterm /\ kid[k].pc = "connect"
  /\ xterm' = xterm \ {k}
  /\ kid' = [Ended(k) EXCEPT ![k].msg = "no window"]
  /\ sigchld' = [sigchld EXCEPT ![session[k].of] = TRUE]
  /\ UNCHANGED <<parent, stdinEof, session, pipe, shown, tcpVars, serverVars>>

Say(k, m) == [kid EXCEPT ![k].pc = "tell", ![k].msg = m]

Connect(k) ==
  /\ kid[k].pc = "connect"
  /\ \/ /\ server = "up"
        /\ kid' = [kid EXCEPT ![k].pc = "select"]
        /\ backlog' = [backlog EXCEPT ![session[k].service] = Append(@, k)]
        /\ cliEnd' = [cliEnd EXCEPT ![k] = "open"] /\ srvEnd' = [srvEnd EXCEPT ![k] = "open"]
     \/ /\ server # "up"
        /\ kid' = Say(k, "not ready")
        /\ UNCHANGED <<backlog, cliEnd, srvEnd>>
  /\ UNCHANGED <<userVars, session, xterm, pipe, shown, c2s, s2c, main, thread, server>>

SockReadable(k) == s2c[k] # <<>> \/ srvEnd[k] # "open"

(* The socket is ready, and in echo_cli the user's input may be too: it is  *)
(* looked at later, whatever has changed by then.  Data, or the end of it,  *)
(* or a connection that was reset: Read() ends the child, time_cli.c tells  *)
(* before it ends.                                                          *)
FromServer(k) ==
  LET echo == session[k].service = "echo"
  IN  /\ kid[k].pc = "select" /\ SockReadable(k)
      /\ \/ \E n \in 1 .. Len(s2c[k]) :
              /\ shown' = [shown EXCEPT ![k] = IF echo THEN @ \o SubSeq(s2c[k], 1, n) ELSE @]
              /\ s2c' = [s2c EXCEPT ![k] = SubSeq(@, n + 1, Len(@))]
              /\ \E r \in BOOLEAN :
                   /\ r => echo /\ ~ kid[k].echo_flag
                   /\ kid' = [Say(k, IF echo THEN "echoed" ELSE "time") EXCEPT ![k].ready = r]
              /\ UNCHANGED cliEnd
         \/ /\ s2c[k] = <<>> /\ (srvEnd[k] = "closed" \/ ~ echo)
            /\ kid' = Say(k, IF echo /\ ~ kid[k].echo_flag THEN "prematurely" ELSE "terminated")
            /\ UNCHANGED <<shown, s2c, cliEnd>>
         \/ /\ s2c[k] = <<>> /\ srvEnd[k] = "reset" /\ echo
            /\ kid' = Ended(k)
            /\ CloseClient(k)
            /\ UNCHANGED shown
      /\ UNCHANGED <<userVars, session, xterm, pipe, c2s, srvEnd, serverVars>>

(* A line, or the end of the input; pc is "look" when the socket was ready  *)
(* too and is done with.                                                    *)
FromUser(k) ==
  /\ \/ kid[k].pc = "look"
     \/ kid[k].pc = "select" /\ session[k].service = "echo" /\ ~ kid[k].echo_flag
  /\ \/ /\ kid[k].line < MaxLine[session[k].of]
        /\ kid' = [kid EXCEPT ![k].pc = "send", ![k].line = @ + 1, ![k].ready = FALSE]
     \/ kid' = [Say(k, "no more") EXCEPT ![k].echo_flag = TRUE, ![k].ready = FALSE]
  /\ UNCHANGED <<userVars, session, xterm, pipe, shown, tcpVars, serverVars>>

(* Write() to the server: it blocks while the buffer is full, makes a       *)
(* closed end reset the connection, and ends the child when it has.         *)
Send(k) ==
  /\ kid[k].pc = "send"
  /\ \/ /\ srvEnd[k] = "open" /\ Len(c2s[k]) < SockCap
        /\ c2s' = [c2s EXCEPT ![k] = Append(@, <<k, kid[k].line>>)]
        /\ kid' = Say(k, "forwarded")
        /\ UNCHANGED <<s2c, cliEnd, srvEnd>>
     \/ /\ srvEnd[k] = "closed"
        /\ srvEnd' = [srvEnd EXCEPT ![k] = "reset"]
        /\ kid' = Say(k, "forwarded")
        /\ UNCHANGED <<c2s, s2c, cliEnd>>
     \/ /\ srvEnd[k] = "reset"
        /\ kid' = Ended(k)
        /\ CloseClient(k)
        /\ UNCHANGED <<c2s, srvEnd>>
  /\ UNCHANGED <<userVars, session, xterm, pipe, shown, serverVars>>

(* Mutant: the child ends with its input. *)
LeaveAtOnce(m) == m \in {"no more", "terminated", "prematurely", "not ready"}

(* After these the child returns or exits. *)
Leaves(m) == m \in {"terminated", "prematurely", "not ready"}

(* Write() to the pipe: it blocks while the pipe is full, and SIGPIPE ends  *)
(* the child when nobody reads it.  What follows depends on what was told.  *)
Tell(k) ==
  LET m    == kid[k].msg
      dies == parent[session[k].of] = "gone"
  IN  /\ kid[k].pc = "tell" /\ (dies \/ Len(pipe[k]) < PipeCap)
      /\ pipe' = IF dies THEN pipe ELSE [pipe EXCEPT ![k] = Append(@, m)]
      /\ \/ /\ dies \/ Leaves(m)
            /\ kid' = [Ended(k) EXCEPT ![k].msg = IF dies THEN "killed" ELSE ""]
            /\ CloseClient(k)
         \/ /\ ~ dies /\ ~ Leaves(m)
            /\ kid' = [kid EXCEPT ![k] =
                 [@ EXCEPT !.pc = IF kid[k].ready THEN "look" ELSE "select",
                           !.msg = "", !.ready = FALSE]]
            /\ cliEnd' = IF m = "no more" THEN [cliEnd EXCEPT ![k] = "shut"] ELSE cliEnd
            /\ UNCHANGED s2c
      /\ UNCHANGED <<userVars, session, xterm, shown, c2s, srvEnd, serverVars>>

-----------------------------------------------------------------------------
(* The server (tcpechotimesrv.c). *)

(* Its end closes every connection, and resets those with data unread. *)
ServerEnds(how) ==
  /\ server' = how /\ main' = {} /\ backlog' = [s \in Service |-> <<>>]
  /\ thread' = [t \in 1 .. Len(thread) |-> [thread[t] EXCEPT !.pc = "done", !.buf = <<>>]]
  /\ srvEnd' = [k \in Session |->
                  IF srvEnd[k] # "open" THEN srvEnd[k]
                  ELSE IF c2s[k] = <<>> /\ \E t \in 1 .. Len(thread) : thread[t].fd = k
                       THEN "closed" ELSE "reset"]
  /\ c2s' = [k \in Session |-> <<>>]

ServerKilled ==
  /\ server = "up"
  /\ ServerEnds("killed")
  /\ UNCHANGED <<userVars, session, kidVars, s2c, cliEnd>>

Select ==
  /\ server = "up" /\ main = {}
  /\ main' = {s \in Service : backlog[s] # <<>>}
  /\ main' # {}
  /\ UNCHANGED <<userVars, session, kidVars, tcpVars, backlog, thread, server>>

NewThread(s, k) ==
  thread' = Append(thread, [pc |-> "start", service |-> s, fd |-> k, buf |-> <<>>])

(* Mutant: accept()'s result is not looked at. *)
AcceptUnchecked(s) ==
  /\ server = "up" /\ s \in main /\ (s = "time" => "echo" \notin main)
  /\ \/ /\ backlog[s] # <<>>
        /\ backlog' = [backlog EXCEPT ![s] = Tail(@)]
        /\ NewThread(s, Head(backlog[s]))
     \/ backlog[s] = <<>> /\ NewThread(s, -1) /\ UNCHANGED backlog
  /\ main' = main \ {s}
  /\ UNCHANGED <<userVars, session, kidVars, tcpVars, server>>

(* Accept() on a listener that does not block: an empty queue ends the      *)
(* server.  Echo comes first.                                               *)
Accept(s) ==
  /\ server = "up" /\ s \in main /\ (s = "time" => "echo" \notin main)
  /\ \/ /\ backlog[s] # <<>>
        /\ backlog' = [backlog EXCEPT ![s] = Tail(@)]
        /\ NewThread(s, Head(backlog[s]))
        /\ main' = main \ {s}
        /\ UNCHANGED <<server, c2s, srvEnd>>
     \/ backlog[s] = <<>> /\ ServerEnds("died")
  /\ UNCHANGED <<userVars, session, kidVars, s2c, cliEnd>>

(* Mutant: the threads of a service are handed the same variable. *)
SharedArg(t) ==
  thread[SelectLastInSeq(thread, LAMBDA r : r.service = thread[t].service)].fd

(* The thread's own copy of the descriptor, from malloc(). *)
Arg(t) == thread[t].fd

StartThread(t) ==
  /\ thread[t].pc = "start"
  /\ thread' = [thread EXCEPT ![t].pc = "read", ![t].fd = Arg(t)]
  /\ UNCHANGED <<userVars, session, kidVars, tcpVars, main, backlog, server>>

(* Mutant: what has been read when the client has no more is not echoed. *)
EchoReadHasty(t) ==
  LET k == thread[t].fd
  IN  /\ thread[t].pc = "read" /\ thread[t].service = "echo"
      /\ \/ \E n \in 1 .. Len(c2s[k]) :
              /\ cliEnd[k] = "open"
              /\ thread' = [thread EXCEPT ![t].pc = "write", ![t].buf = SubSeq(c2s[k], 1, n)]
              /\ c2s' = [c2s EXCEPT ![k] = SubSeq(@, n + 1, Len(@))]
              /\ UNCHANGED srvEnd
         \/ /\ cliEnd[k] # "open"
            /\ thread' = [thread EXCEPT ![t].pc = "done"]
            /\ srvEnd' = [srvEnd EXCEPT ![k] = "closed"]
            /\ UNCHANGED c2s
      /\ UNCHANGED <<userVars, session, kidVars, s2c, cliEnd, main, backlog, server>>

(* str_echo: data, or the end of the connection. *)
EchoRead(t) ==
  LET k == thread[t].fd
  IN  /\ thread[t].pc = "read" /\ thread[t].service = "echo"
      /\ \/ \E n \in 1 .. Len(c2s[k]) :
              /\ thread' = [thread EXCEPT ![t].pc = "write", ![t].buf = SubSeq(c2s[k], 1, n)]
              /\ c2s' = [c2s EXCEPT ![k] = SubSeq(@, n + 1, Len(@))]
              /\ UNCHANGED srvEnd
         \/ /\ c2s[k] = <<>> /\ cliEnd[k] # "open"
            /\ thread' = [thread EXCEPT ![t].pc = "done"]
            /\ srvEnd' = [srvEnd EXCEPT ![k] = "closed"]
            /\ UNCHANGED c2s
      /\ UNCHANGED <<userVars, session, kidVars, s2c, cliEnd, main, backlog, server>>

(* Mutant: the time is sent, and the thread's loop left. *)
TimeReadOnce(t) ==
  LET k == thread[t].fd
  IN  /\ thread[t].pc = "read" /\ thread[t].service = "time"
      /\ thread' = [thread EXCEPT ![t].pc = "done"]
      /\ srvEnd' = [srvEnd EXCEPT ![k] = "closed"]
      /\ UNCHANGED <<userVars, session, kidVars, c2s, s2c, cliEnd, main, backlog, server>>

(* time_serv: five seconds pass, or the connection has become readable. *)
TimeRead(t) ==
  LET k == thread[t].fd
  IN  /\ thread[t].pc = "read" /\ thread[t].service = "time"
      /\ \/ /\ cliEnd[k] = "open"
            /\ thread' = [thread EXCEPT ![t].pc = "write", ![t].buf = <<"time">>]
            /\ UNCHANGED srvEnd
         \/ /\ cliEnd[k] # "open"
            /\ thread' = [thread EXCEPT ![t].pc = "done"]
            /\ srvEnd' = [srvEnd EXCEPT ![k] = "closed"]
      /\ UNCHANGED <<userVars, session, kidVars, c2s, s2c, cliEnd, main, backlog, server>>

(* Write(): it blocks while the buffer is full; a closed peer answers with  *)
(* a reset; after the reset the whole server ends.                          *)
Write(t) ==
  LET k    == thread[t].fd
      rest == Tail(thread[t].buf)
      done == [thread EXCEPT ![t].pc = IF rest = <<>> THEN "read" ELSE "write", ![t].buf = rest]
  IN  /\ thread[t].pc = "write"
      /\ \/ /\ cliEnd[k] \in {"open", "shut"} /\ Len(s2c[k]) < SockCap
            /\ s2c' = [s2c EXCEPT ![k] = Append(@, Head(thread[t].buf))]
            /\ thread' = done
            /\ UNCHANGED <<c2s, cliEnd, srvEnd, main, backlog, server>>
         \/ /\ cliEnd[k] \in {"closed", "resetting"}
            /\ cliEnd' = [cliEnd EXCEPT ![k] = "resetting"]
            /\ thread' = done
            /\ UNCHANGED <<c2s, s2c, srvEnd, main, backlog, server>>
         \/ /\ cliEnd[k] = "reset"
            /\ ServerEnds("died")
            /\ UNCHANGED <<s2c, cliEnd>>
      /\ UNCHANGED <<userVars, session, kidVars>>

(* The reset reaches the server. *)
ResetArrives(k) ==
  /\ cliEnd[k] = "resetting"
  /\ cliEnd' = [cliEnd EXCEPT ![k] = "reset"]
  /\ UNCHANGED <<userVars, session, kidVars, c2s, s2c, srvEnd, serverVars>>

-----------------------------------------------------------------------------
ParentStep(u) == ReadPipe(u) \/ PipeEof(u) \/ CatchChld(u)

KidStep(k) ==
  \/ Connect(k) \/ FromServer(k) \/ FromUser(k) \/ Send(k) \/ Tell(k)
  \/ k \notin xterm /\ Kill(k)
  \/ kid[k].pc = "gone" /\ CloseWindow(k)

MainStep == Select \/ \E s \in Service : Accept(s)

ThreadStep(t) == StartThread(t) \/ EchoRead(t) \/ TimeRead(t) \/ Write(t)

(* What users and chance may do to a session or to the server. *)
Upset ==
  /\ upsets < MaxUpset /\ upsets' = upsets + 1
  /\ \/ \E u \in User : Quit(u) \/ CloseStdin(u)
     \/ \E k \in Session : Kill(k) \/ CloseWindow(k) \/ ExecFails(k)
     \/ ServerKilled

Step ==
  /\ \/ \E u \in User : Choose(u) \/ ParentStep(u)
     \/ \E k \in Session : KidStep(k) \/ ResetArrives(k)
     \/ MainStep
     \/ \E t \in 1 .. Len(thread) : ThreadStep(t)
  /\ UNCHANGED upsets

Next == Step \/ Upset

Spec == Init /\ [][Next]_vars

(* Every process and thread runs on.  A user need not do anything, and a     *)
(* reset need not arrive.                                                   *)
FairSpec ==
  /\ Spec
  /\ \A u \in User : WF_sysVars(ParentStep(u))
  /\ \A k \in 1 .. MaxSession : WF_sysVars(k \in Session /\ KidStep(k))
  /\ WF_sysVars(MainStep)
  /\ \A t \in 1 .. MaxSession : WF_sysVars(t \in 1 .. Len(thread) /\ ThreadStep(t))

-----------------------------------------------------------------------------
\* Every variable keeps its type, no buffer holds more than it can, and a thread is
\* handed a connection.
EchoTypeOK ==
  /\ parent \in [User -> {"prompt", "select", "gone"}]
  /\ \A t \in 1 .. Len(thread) : thread[t].fd \in Session
  /\ \A k \in Session : Len(pipe[k]) <= PipeCap /\ Len(c2s[k]) <= SockCap /\ Len(s2c[k]) <= SockCap
  /\ \A k \in Session : cliEnd[k] \in {"none", "open", "shut", "closed", "resetting", "reset"}
  /\ \A k \in Session : srvEnd[k] \in {"none", "open", "closed", "reset"}
  /\ main \subseteq Service /\ server \in {"up", "killed", "died"}

\* Whatever the interleaving of the sessions and the sizes of the pieces in which
\* data is read, a window shows the lines typed in it, in their order, and no other.
EchoedInOrder ==
  \A k \in Session : shown[k] = [n \in 1 .. Len(shown[k]) |-> <<k, n>>]

\* The server ends by itself only if a child was killed by a signal: one that leaves after the
\* end of its input has read everything, and no Write() meets a reset.
DiesOfAKill == server = "died" => \E k \in Session : kid[k].msg = "killed"

\* A client is at its prompt only when the window and the child of its last session
\* have gone and everything that the child reported has been read.
PromptMeansOver ==
  \A u \in User :
    parent[u] = "prompt" /\ Current(u) # 0 => Gone(Current(u)) /\ pipe[Current(u)] = <<>>

\* What keeps a session from its course: it or the server is killed, its client has
\* ended, or looks at nothing but the end of its standard input.
Disturbed(k) ==
  \/ server # "up" \/ kid[k].msg \in {"killed", "no window"}
  \/ parent[session[k].of] = "gone" \/ stdinEof[session[k].of]

\* In the end every line is shown in the window where it was typed: nobody waits
\* for ever, although child and thread both block in write() when a buffer is full.
LinesReturn ==
  <>[](\A k \in Session : Len(shown[k]) = kid[k].line \/ Disturbed(k))

\* A session of the time service gets the time again and again.
TimeComes ==
  \A k \in 1 .. MaxSession :
    []<>(k \in Session /\ session[k].service = "time" => kid[k].msg = "time" \/ Disturbed(k))

\* A session whose user ends its input, or whose child has gone, comes to its end,
\* and the client to its prompt.
SessionEnds ==
  <>[](\A u \in User : LET k == Current(u) IN
         parent[u] = "select" =>
           stdinEof[u] \/ ~ (kid[k].echo_flag \/ kid[k].pc = "gone"))
=============================================================================
