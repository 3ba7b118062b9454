----------------------------- MODULE FileClient -----------------------------
(***************************************************************************)
(* The client of Assignment 2 (client.c) from the start of the transfer:   *)
(* its main thread, which receives packets, sorts them into the list and   *)
(* acknowledges them, and the thread print_out, which takes them from the  *)
(* front of the list and prints them.  The threads share the list, printed *)
(* and data_flag without a lock.  Losses are decided by the client itself, *)
(* with a random number, for what it receives and for what it sends.       *)
(***************************************************************************)
EXTENDS FileNet, LinkList

CONSTANTS
  RecvWin,      \* recv_window of client.in
  MaxLoss,      \* losses that the random numbers bring about
  Overlap       \* may one thread work on the list while the other one does?

ASSUME ClientAssumption == RecvWin \in 1 .. 2 ^ 8 - 1 /\ MaxLoss \in Nat /\ Overlap \in BOOLEAN

VARIABLES
  cpc,            \* where the main thread is
  rseq, rts,      \* recv_hdr
  rdata,          \* recv_data
  place,          \* "head" of InsertLinkList
  temp,           \* "temp" of InsertLinkList
  heap,           \* memory of the nodes
  free,           \* addresses that malloc() may return
  printed,
  data_flag,
  process_flag,
  ppc,            \* where print_out is
  out,            \* what has been printed
  losses

hdrVars   == <<rseq, rts, rdata>>
placeVars == <<place, temp>>
listVars  == <<heap, free>>
printVars == <<ppc, out, printed, process_flag>>
clientVars == <<cpc, hdrVars, placeVars, listVars, printVars, data_flag, losses>>

Node == [seq : Nat, data : 0 .. Junk, next : Pointer]

(* The head of the list is the first memory of the process, which is zero. *)
ClientInit ==
  /\ cpc = "recv" /\ rseq = 0 /\ rts = 0 /\ rdata = Empty
  /\ place = header /\ temp = NULL
  /\ heap = [a \in Addr \cup {header} |-> [seq |-> 0, data |-> Empty, next |-> NULL]]
  /\ free = Addr
  /\ printed = 0 /\ data_flag = FALSE /\ process_flag = FALSE
  /\ ppc = "sleep" /\ out = <<>>
  /\ losses = 0

(* print_out is between the test of its inner loop and the next one. *)
Printing == ppc \in {"print", "count"}

MayUseList == Overlap \/ ~ Printing

Lose == losses < MaxLoss /\ losses' = losses + 1

(* recv_window - htons(LinkListLength(header)), as ntohs() of the server's *)
(* end reads it.                                                           *)
Advertised == htons((htons(RecvWin) - htons(LinkListLength(heap, header))) % 65536)

-----------------------------------------------------------------------------
(* A header with sequence number 0 asks for the width of the window. *)
RecvProbe ==
  /\ cpc = "recv" /\ toCli # <<>> /\ SeqOf(Head(toCli)) = 0
  /\ rseq' = 0 /\ rts' = TsOf(Head(toCli))
  /\ toCli' = Tail(toCli)
  /\ \/ Lose /\ UNCHANGED <<cpc, toSrv>>
     \/ /\ MayUseList /\ IsList(heap, header)
        /\ toSrv' = Append(toSrv, Ack(1, Advertised))
        /\ UNCHANGED <<cpc, losses>>
     \/ /\ MayUseList /\ ~ IsList(heap, header)
        /\ cpc' = "spin"
        /\ UNCHANGED <<toSrv, losses>>
  /\ UNCHANGED <<rdata, placeVars, listVars, printVars, data_flag>>

(* Mutant: a packet that has been printed is not acknowledged again. *)
InsertOnly(seq) ==
  \/ seq <= printed /\ cpc' = "recv" /\ UNCHANGED placeVars
  \/ /\ seq > printed
     /\ \E a \in InsertPoints(heap, header, seq) :
           /\ place' = a /\ temp' = heap[a].next
           /\ cpc' = IF temp' # NULL /\ heap[temp'].seq = seq THEN "ack" ELSE "link"

(* InsertLinkList up to its call of malloc(): the place for a number that  *)
(* has not been printed, if it is new and if the list has an end.          *)
Insert(seq) ==
  \/ seq <= printed /\ cpc' = "ack" /\ UNCHANGED placeVars
  \/ /\ seq > printed
     /\ \E a \in InsertPoints(heap, header, seq) :
           /\ place' = a /\ temp' = heap[a].next
           /\ cpc' = IF temp' # NULL /\ heap[temp'].seq = seq THEN "ack" ELSE "link"
  \/ /\ seq > printed /\ InsertPoints(heap, header, seq) = {}
     /\ cpc' = "spin" /\ UNCHANGED placeVars

(* A header and what follows it. *)
RecvPacket ==
  /\ cpc = "recv" /\ Len(toCli) > 1 /\ SeqOf(toCli[1]) # 0
  /\ rseq' = SeqOf(toCli[1]) /\ rts' = TsOf(toCli[1]) /\ rdata' = DataOf(toCli[2])
  /\ toCli' = Tail(Tail(toCli))
  /\ \/ Lose /\ UNCHANGED <<cpc, placeVars>>
     \/ MayUseList /\ Insert(SeqOf(toCli[1])) /\ UNCHANGED losses
  /\ UNCHANGED <<toSrv, listVars, printVars, data_flag>>

(* The new node.  Behind the last of several its next pointer is not set, *)
(* and is what the memory held.                                            *)
Link ==
  /\ cpc = "link"
  /\ \E a \in free :
        LET next == IF temp # NULL \/ place = header THEN temp ELSE heap[a].next
        IN  /\ heap' = [[heap EXCEPT ![a] = [seq |-> rseq, data |-> rdata, next |-> next]]
                        EXCEPT ![place].next = a]
            /\ free' = free \ {a}
  /\ cpc' = "ack"
  /\ UNCHANGED <<netVars, hdrVars, placeVars, printVars, data_flag, losses>>

(* The packet is the last one and nothing is missing before it. *)
Final == rts = 0 /\ NextAck(heap, header, printed) = rseq + 1

SendAck ==
  /\ cpc = "ack" /\ MayUseList
  /\ data_flag' = (data_flag \/ Final)
  /\ \/ Lose /\ cpc' = "recv" /\ UNCHANGED toSrv
     \/ /\ IsList(heap, header)
        /\ toSrv' = Append(toSrv, Ack(IF Final THEN 0 ELSE NextAck(heap, header, printed), Advertised))
        /\ cpc' = IF data_flag' THEN "confirm" ELSE "recv"
        /\ UNCHANGED losses
     \/ /\ ~ IsList(heap, header)
        /\ cpc' = "spin" /\ UNCHANGED <<toSrv, losses>>
  /\ UNCHANGED <<toCli, hdrVars, placeVars, listVars, printVars>>

(* Any datagram confirms the end of the transfer. *)
Confirm ==
  /\ cpc = "confirm" /\ toCli # <<>>
  /\ toCli' = Tail(toCli)
  /\ cpc' = "finish"
  /\ UNCHANGED <<toSrv, hdrVars, placeVars, listVars, printVars, data_flag, losses>>

(* The process ends, and what its socket still holds is gone. *)
Finish ==
  /\ cpc = "finish" /\ process_flag
  /\ cpc' = "done"
  /\ toCli' = <<>>
  /\ UNCHANGED <<toSrv, hdrVars, placeVars, listVars, printVars, data_flag, losses>>

-----------------------------------------------------------------------------
(* print_out.  First is header->next, read again at every use. *)
First == heap[header].next

Wake ==
  /\ ppc = "sleep" /\ ppc' = "test"
  /\ UNCHANGED <<netVars, cpc, hdrVars, placeVars, listVars, out, printed, process_flag,
                 data_flag, losses>>

(* Mutant: whatever is first is printed. *)
TestFirstAny ==
  /\ ppc = "test"
  /\ Overlap \/ cpc # "link"
  /\ ppc' = IF First # NULL THEN "print" ELSE "flag"
  /\ UNCHANGED <<netVars, cpc, hdrVars, placeVars, listVars, out, printed, process_flag,
                 data_flag, losses>>

TestFirst ==
  /\ ppc = "test"
  /\ Overlap \/ cpc # "link"
  /\ ppc' = IF First # NULL /\ heap[First].seq = printed + 1 THEN "print" ELSE "flag"
  /\ UNCHANGED <<netVars, cpc, hdrVars, placeVars, listVars, out, printed, process_flag,
                 data_flag, losses>>

(* An empty payload prints nothing. *)
PrintFirst ==
  /\ ppc = "print"
  /\ out' = IF heap[First].data = Empty THEN out ELSE Append(out, heap[First].data)
  /\ heap' = [heap EXCEPT ![header].next = heap[First].next]
  /\ free' = free \cup {First}
  /\ ppc' = "count"
  /\ UNCHANGED <<netVars, cpc, hdrVars, placeVars, printed, process_flag, data_flag, losses>>

CountPrinted ==
  /\ ppc = "count" /\ ppc' = "test"
  /\ printed' = printed + 1
  /\ UNCHANGED <<netVars, cpc, hdrVars, placeVars, listVars, out, process_flag, data_flag, losses>>

(* data_flag is read after the list was found to have nothing to print. *)
TestFlag ==
  /\ ppc = "flag"
  /\ ppc' = IF data_flag THEN "ended" ELSE "sleep"
  /\ process_flag' = (process_flag \/ data_flag)
  /\ UNCHANGED <<netVars, cpc, hdrVars, placeVars, listVars, out, printed, data_flag, losses>>
=============================================================================
