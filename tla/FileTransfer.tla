---------------------------- MODULE FileTransfer ----------------------------
(***************************************************************************)
(* A server child and its client from the end of the handshake to the end  *)
(* of both.                                                                *)
(***************************************************************************)
EXTENDS FileServer, FileClient

CONSTANTS
  StalePorts,   \* bound: repeated port numbers that are still in the client's queue
  MaxEarly      \* bound: time-outs that strike although an answer is under way

ASSUME TransferAssumption == StalePorts \in Nat /\ MaxEarly \in Nat

VARIABLE early  \* how many have struck

vars == <<serverVars, clientVars, netVars, early>>

Init ==
  /\ ServerInit /\ ClientInit
  /\ recv_window = RecvWin
  /\ toSrv = <<>> /\ early = 0
  /\ \E n \in 0 .. StalePorts : toCli = [i \in 1 .. n |-> PortMsg]

-----------------------------------------------------------------------------
CanReceive == /\ cpc = "recv" /\ toCli # <<>>
              /\ SeqOf(Head(toCli)) = 0 \/ Len(toCli) > 1

(* Nothing that the client has sent or will send by itself is to come. *)
Quiet == toSrv = <<>> /\ cpc \notin {"link", "ack"} /\ ~ CanReceive

Running == spc \notin {"end", "exited"}

(* A datagram meets a closed port, and the next call of the child fails. *)
Refused ==
  /\ cpc = "done" /\ Running /\ toCli # <<>>
  /\ toCli' = <<>>
  /\ spc' = "exited"
  /\ UNCHANGED <<after, send_buffer, loopVars, recv_window, congVars, seqVars, nrexmt, blocked,
                 ackInit, clientVars, toSrv>>

ServerStep ==
  /\ \/ (Round \/ WindowClosed \/ Resend \/ SendNew) /\ UNCHANGED clientVars
     \/ (RecvAck \/ RecvFinalAck \/ RecvThirdAck \/ RecvWindow) /\ UNCHANGED clientVars
     \/ (FastResend \/ TimeoutResend) /\ UNCHANGED clientVars
     \/ Refused
  /\ UNCHANGED early

(* One probe under way bounds the model. *)
NoProbeUnderWay ==
  toSrv = <<>> /\ \A i \in 1 .. Len(toCli) : toCli[i].type = "hdr" => toCli[i].seq # 0

TimerStep ==
  /\ Timeout \/ TimeoutInAck \/ (Probe /\ NoProbeUnderWay)
  /\ \/ Quiet /\ UNCHANGED early
     \/ ~ Quiet /\ early < MaxEarly /\ early' = early + 1
  /\ UNCHANGED clientVars

ReceiverStep ==
  /\ RecvProbe \/ RecvPacket \/ Link \/ SendAck \/ Confirm \/ Finish
  /\ UNCHANGED <<serverVars, early>>

PrinterStep ==
  /\ Wake \/ TestFirst \/ PrintFirst \/ CountPrinted \/ TestFlag
  /\ UNCHANGED <<serverVars, early>>

Next == ServerStep \/ TimerStep \/ ReceiverStep \/ PrinterStep

Spec == Init /\ [][Next]_vars

(* Both processes and the thread run on; the child's alarm goes off when no *)
(* answer comes.                                                            *)
FairSpec ==
  /\ Spec
  /\ WF_vars(ServerStep) /\ WF_vars(TimerStep)
  /\ WF_vars(ReceiverStep) /\ WF_vars(PrinterStep)

-----------------------------------------------------------------------------
\* Every variable keeps its type; front and rear stay inside the array, and no
\* malloc() finds memory that is in use.
FileTypeOK ==
  /\ toCli \in Seq(Datagram)
  /\ toSrv \in Seq([seq : Nat, win : Word])
  /\ send_buffer.front \in 0 .. SendWindow - 1 /\ send_buffer.rear \in 0 .. SendWindow - 1
  /\ send_buffer.base \in
       [0 .. SendWindow - 1 -> [seq : Nat, ts : {0, 1}, sendline : 0 .. Junk, ack : Int]]
  /\ sequence_number \in Nat /\ head \in Nat /\ recv_window \in Word
  /\ cwnd \in Nat /\ ssh \in Nat /\ congestion_avoid_count \in Nat
  /\ nrexmt \in 0 .. MaxNrexmt + 1 /\ blocked \in BOOLEAN
  /\ rseq \in Nat /\ rts \in {0, 1} /\ rdata \in 0 .. Junk
  /\ place \in Addr \cup {header} /\ temp \in Pointer
  /\ heap \in [Addr \cup {header} -> Node] /\ free \subseteq Addr
  /\ printed \in Nat /\ out \in Seq(0 .. Junk)
  /\ data_flag \in BOOLEAN /\ process_flag \in BOOLEAN

(* Packets of the file that the client has: printed, being printed, or in  *)
(* memory that is not freed.                                               *)
Live == Addr \ free

Held == {k \in 1 .. FileLen :
           \/ k <= printed
           \/ ppc = "count" /\ k = printed + 1
           \/ \E a \in Live : heap[a].seq = k}

D == INSTANCE Delivery WITH held <- Held, delivered <- out, closed <- (spc = "end")

\* The transfer delivers: whatever is lost, sent again, taken for something else
\* or read behind the queue, the packets come out in the order of the file, each
\* once, none of them while the client does not hold it, and the child ends well
\* only when the client holds the whole file.
DeliverySpec == D!Spec

\* A packet that the child has dropped from its queue is in the client's hands.
AckedIsHeld == \A k \in 1 .. FileLen : k < head => k \in Held

-----------------------------------------------------------------------------
(* What keeps a transfer from its end. *)

\* print_out finds nothing to print, then finds data_flag set, and ends.
MissedTail == ppc = "ended" /\ Len(out) < FileLen

\* InsertLinkList has left a pointer to freed memory, or a circle, in the list.
BrokenList ==
  ~ IsList(heap, header) \/ \E n \in 1 .. Far : Steps(heap, header)[n] \in free

\* SIGALRM is blocked since the window was closed, and something is lost.
DeafToLoss == blocked /\ losses > 0

\* rtt_timeout() gives up, after more losses and early time-outs than it allows.
GaveUp == nrexmt > MaxNrexmt /\ losses + early > MaxNrexmt

\* The child has sent more than its queue holds before the first of it was
\* acknowledged.
Overfull == sequence_number - head >= SendWindow

\* SIGALRM has left the queue and head apart.
Torn == send_buffer.front # (head - 1) % SendWindow

\* The client took a repeated port number for a header, and then every payload.
OutOfStep == \E a \in Addr : heap[a].seq >= BigSeq

Complete == Len(out) = FileLen /\ cpc = "done" /\ ~ Running

\* Every transfer comes to its end, the whole file printed and both processes
\* gone, unless one of these has happened.
Completes ==
  <>(\/ Complete \/ MissedTail \/ BrokenList \/ DeafToLoss \/ GaveUp
     \/ Overfull \/ Torn \/ OutOfStep)

\* The child ends: its file is acknowledged, or it gives up.
ChildEnds == <>(~ Running)

\* What is printed is the file as far as it goes, each packet once.
PrintsInOrder == out = [k \in 1 .. Len(out) |-> k]
=============================================================================
