----------------------------- MODULE FileServer -----------------------------
(***************************************************************************)
(* The server child of Assignment 2 (server.c) while it transfers a file:  *)
(* sliding window, congestion window, time-outs, fast retransmit and       *)
(* probes of a closed window.  One action per pass of a loop body or       *)
(* blocking call.                                                          *)
(***************************************************************************)
EXTENDS FileNet, CirQueue

CONSTANTS
  SendWindow,   \* send_window, slots of the queue
  Clock,        \* time stamps rtt_ts() may return: {1}, or {0, 1}
  AckGarbage,   \* what the uninitialised localcopy.ack may be
  GarbageSeq,   \* sequence numbers found behind the array
  MaxNrexmt,    \* RTT_MAXNREXMT
  MaxCwnd       \* bound of the model: congestion windows and counts

ASSUME ServerAssumption ==
  /\ SendWindow \in Nat \ {0}
  /\ Clock \subseteq {0, 1}
  /\ AckGarbage \subseteq Int
  /\ GarbageSeq \subseteq {0, BigSeq}
  /\ MaxNrexmt \in Nat /\ MaxCwnd \in Nat

VARIABLES
  spc,              \* where the child is
  after,            \* where it goes when the window has opened
  send_buffer,      \* the circular queue
  j, todo,          \* counter and limit of the sending loops
  sending_window,
  recv_window,
  cwnd, ssh, congestion_avoid_count,
  received,
  sequence_number,
  head,
  nrexmt,           \* rtt_nrexmt
  blocked,          \* SIGALRM is blocked
  ackInit           \* localcopy.ack, never assigned

loopVars == <<j, todo, sending_window, received>>
congVars == <<cwnd, ssh, congestion_avoid_count>>
seqVars  == <<sequence_number, head>>
serverVars == <<spc, after, send_buffer, loopVars, recv_window, congVars, seqVars,
                nrexmt, blocked, ackInit>>

Min2(a, b) == IF a < b THEN a ELSE b
Max2(a, b) == IF a < b THEN b ELSE a
three_min(a, b, c) == Min2(Min2(a, b), c)

Slot(seq, ts, sendline, ack) == [seq |-> seq, ts |-> ts, sendline |-> sendline, ack |-> ack]

feof == sequence_number >= FileLen

FrontSlot == send_buffer.base[send_buffer.front]

(* base[i], which may lie behind the array. *)
SlotsAt(i) ==
  IF i < SendWindow THEN {send_buffer.base[i]}
  ELSE {Slot(g, IF g = 0 THEN 0 ELSE 1, IF g = 0 THEN Empty ELSE Junk, 0) : g \in GarbageSeq}

ServerInit ==
  /\ spc = "top" /\ after = "top"
  /\ send_buffer = InitCirQueue(SendWindow, Slot(0, 0, Empty, 0))
  /\ j = 0 /\ todo = 0 /\ sending_window = 0 /\ received = 0
  /\ cwnd = 1 /\ ssh = 65535 /\ congestion_avoid_count = 0
  /\ sequence_number = 0 /\ head = 1
  /\ nrexmt = 0 /\ blocked = FALSE
  /\ ackInit \in AckGarbage

-----------------------------------------------------------------------------
(* Waiting until a closed window opens.  SIGALRM is blocked here for good. *)
WaitForWindow(next) ==
  /\ spc' = "probe" /\ after' = next /\ blocked' = TRUE

(* The loop that sends new data, n passes of it, and what follows. *)
SendNewData(n) ==
  IF n > 0 THEN spc' = "new" /\ j' = 0 /\ todo' = n /\ UNCHANGED received
  ELSE spc' = "wait" /\ received' = 0 /\ UNCHANGED <<j, todo>>

(* A round starts: how much may be under way, and what of it is sent again. *)
Round ==
  LET sw    == three_min(cwnd, SendWindow, recv_window)
      again == Min2(sw, CirQueueLength(send_buffer))
  IN  /\ spc = "top" /\ recv_window # 0
      /\ sending_window' = sw
      /\ nrexmt' = 0
      /\ IF again > 0
         THEN spc' = "resend" /\ j' = 0 /\ todo' = again /\ UNCHANGED received
         ELSE SendNewData(sw)
      /\ UNCHANGED <<after, send_buffer, recv_window, congVars, seqVars, blocked, ackInit, netVars>>

WindowClosed ==
  /\ spc = "top" /\ recv_window = 0
  /\ WaitForWindow("top")
  /\ UNCHANGED <<send_buffer, loopVars, recv_window, congVars, seqVars, nrexmt, ackInit, netVars>>

(* base[front+j] without a modulo. *)
Resend ==
  /\ spc = "resend"
  /\ \E s \in SlotsAt(send_buffer.front + j) : SendPacket(s.seq, s.ts, s.sendline)
  /\ IF j + 1 < todo
     THEN j' = j + 1 /\ UNCHANGED <<spc, todo, received>>
     ELSE SendNewData(sending_window - CirQueueLength(send_buffer))
  /\ UNCHANGED <<after, send_buffer, sending_window, recv_window, congVars, seqVars, nrexmt,
                 blocked, ackInit, toSrv>>

(* BigSeq bounds the model: the number before it is not used either, so that *)
(* BigSeq does not follow on any.                                            *)
SendNew ==
  LET seq  == sequence_number + 1
      data == IF seq <= FileLen THEN seq ELSE Empty
  IN  /\ spc = "new" /\ seq + 1 < BigSeq
      /\ sequence_number' = seq
      /\ \E ts \in IF seq < FileLen THEN Clock ELSE {0} :
            /\ send_buffer' = EnCirQueue(send_buffer, Slot(seq, ts, data, ackInit))
            /\ SendPacket(seq, ts, data)
      /\ IF j + 1 < todo /\ seq < FileLen
         THEN j' = j + 1 /\ UNCHANGED <<spc, received>>
         ELSE spc' = "wait" /\ received' = 0 /\ UNCHANGED j
      /\ UNCHANGED <<after, todo, sending_window, recv_window, congVars, head, nrexmt, blocked,
                     ackInit, toSrv>>

(* Every datagram from the client makes the window grow, whatever it says. *)
Grow ==
  /\ cwnd < MaxCwnd /\ congestion_avoid_count < MaxCwnd
  /\ IF cwnd < ssh
     THEN cwnd' = cwnd + 1 /\ UNCHANGED congestion_avoid_count
     ELSE IF congestion_avoid_count + 1 = cwnd
     THEN cwnd' = cwnd + 1 /\ congestion_avoid_count' = 0
     ELSE congestion_avoid_count' = congestion_avoid_count + 1 /\ UNCHANGED cwnd
  /\ UNCHANGED ssh

(* The queue without the datagrams that an acknowledgement covers. *)
Advance(m) == DeCirQueue(send_buffer, IF m.seq > head THEN m.seq - head ELSE 0)

SetAck(Q, n) == [Q EXCEPT !.base[Q.front].ack = n]

FrontAck(Q) == Q.base[Q.front].ack

(* The acknowledgement of the end of the file. *)
RecvFinalAck ==
  /\ spc = "wait" /\ toSrv # <<>> /\ Head(toSrv).seq = 0
  /\ Grow
  /\ received' = received + 1
  /\ toSrv' = Tail(toSrv)
  /\ toCli' = Append(toCli, EndMsg)
  /\ spc' = "end"
  /\ UNCHANGED <<after, send_buffer, j, todo, sending_window, recv_window, seqVars, nrexmt,
                 blocked, ackInit>>

RecvAck ==
  LET m == Head(toSrv)
      Q == Advance(m)
  IN  /\ spc = "wait" /\ toSrv # <<>> /\ m.seq # 0
      /\ Grow
      /\ received' = received + 1
      /\ toSrv' = Tail(toSrv)
      /\ head' = Max2(head, m.seq)
      /\ recv_window' = m.win
      /\ FrontAck(Q) + 1 # 3
      /\ send_buffer' = SetAck(Q, FrontAck(Q) + 1)
      /\ spc' = IF received + 1 = sending_window \/ IsEmptyCirQueue(Q) THEN "top" ELSE "wait"
      /\ UNCHANGED <<after, j, todo, sending_window, sequence_number, nrexmt, blocked, ackInit,
                     toCli>>

(* The third acknowledgement of a datagram counts as a third duplicate. *)
RecvThirdAck ==
  LET m == Head(toSrv)
      Q == Advance(m)
  IN  /\ spc = "wait" /\ toSrv # <<>> /\ m.seq # 0
      /\ Grow
      /\ received' = received + 1
      /\ toSrv' = Tail(toSrv)
      /\ head' = Max2(head, m.seq)
      /\ recv_window' = m.win
      /\ FrontAck(Q) + 1 = 3
      /\ send_buffer' = SetAck(Q, 0)
      /\ nrexmt' = nrexmt + 1
      /\ \/ nrexmt' > MaxNrexmt /\ spc' = "exited" /\ UNCHANGED <<after, blocked>>
         \/ nrexmt' <= MaxNrexmt /\ m.win = 0 /\ WaitForWindow("fast")
         \/ nrexmt' <= MaxNrexmt /\ m.win # 0 /\ spc' = "fast" /\ UNCHANGED <<after, blocked>>
      /\ UNCHANGED <<j, todo, sending_window, sequence_number, ackInit, toCli>>

(* Fast recovery. *)
FastResend ==
  LET w == three_min(Max2(cwnd \div 2, 1), SendWindow, recv_window)
  IN  /\ spc = "fast"
      /\ cwnd' = Max2(cwnd \div 2, 1) /\ ssh' = cwnd'
      /\ SendPacket(FrontSlot.seq, FrontSlot.ts, FrontSlot.sendline)
      /\ IF feof
         THEN spc' = "wait" /\ received' = 0 /\ UNCHANGED <<sending_window, j, todo>>
         ELSE sending_window' = 2 * w /\ SendNewData(w - 1)
      /\ UNCHANGED <<after, send_buffer, recv_window, congestion_avoid_count, seqVars, nrexmt,
                     blocked, ackInit, toSrv>>

(* What follows SIGALRM: siglongjmp() to the start of the wait. *)
TimedOut ==
  /\ nrexmt' = nrexmt + 1
  /\ \/ nrexmt' > MaxNrexmt /\ spc' = "exited" /\ UNCHANGED <<after, blocked>>
     \/ nrexmt' <= MaxNrexmt /\ recv_window = 0 /\ WaitForWindow("timeout")
     \/ nrexmt' <= MaxNrexmt /\ recv_window # 0 /\ spc' = "timeout" /\ UNCHANGED <<after, blocked>>

(* SIGALRM while the child waits for an acknowledgement. *)
Timeout ==
  /\ spc = "wait" /\ ~ blocked
  /\ TimedOut
  /\ UNCHANGED <<send_buffer, loopVars, recv_window, congVars, seqVars, ackInit, netVars>>

(* SIGALRM in the loop that removes what an acknowledgement covers, between *)
(* DeCirQueue and the increment of head.                                    *)
TimeoutInAck ==
  LET m == Head(toSrv)
  IN  /\ spc = "wait" /\ ~ blocked /\ toSrv # <<>> /\ m.seq > head
      /\ Grow
      /\ received' = received + 1
      /\ toSrv' = Tail(toSrv)
      /\ \E n \in 1 .. m.seq - head :
            send_buffer' = DeCirQueue(send_buffer, n) /\ head' = head + n - 1
      /\ TimedOut
      /\ UNCHANGED <<j, todo, sending_window, recv_window, sequence_number, ackInit, toCli>>

TimeoutResend ==
  /\ spc = "timeout"
  /\ ssh' = Max2(cwnd \div 2, 1) /\ cwnd' = 1 /\ sending_window' = 1
  /\ SendPacket(FrontSlot.seq, FrontSlot.ts, FrontSlot.sendline)
  /\ spc' = "wait" /\ received' = 0
  /\ UNCHANGED <<after, send_buffer, j, todo, recv_window, congestion_avoid_count, seqVars,
                 nrexmt, blocked, ackInit, toSrv>>

(* pselect() returns because of the alarm: a probe, a header alone. *)
Probe ==
  /\ spc = "probe"
  /\ toCli' = Append(toCli, Hdr(0, 0))
  /\ UNCHANGED <<serverVars, toSrv>>

(* Whatever arrives says how wide the window is; nothing else of it is used. *)
RecvWindow ==
  /\ spc = "probe" /\ toSrv # <<>>
  /\ toSrv' = Tail(toSrv)
  /\ recv_window' = Head(toSrv).win
  /\ spc' = IF recv_window' > 0 THEN after ELSE "probe"
  /\ UNCHANGED <<after, send_buffer, loopVars, congVars, seqVars, nrexmt, blocked, ackInit, toCli>>
=============================================================================
