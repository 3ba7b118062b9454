------------------------------ MODULE FileNet -------------------------------
(***************************************************************************)
(* The datagrams between a server child and its client in Assignment 2,    *)
(* and the two queues that carry them.  A packet of the file travels as    *)
(* two datagrams, its header and its payload, and the reader tells one     *)
(* from the other only by their order.  A datagram of another kind that is *)
(* read in their place is taken for one of them.                           *)
(*                                                                         *)
(* Payloads are the numbers of the packets of the file; fread() reports    *)
(* the end of the file with packet FileLen, and what is sent behind it is  *)
(* empty.  Time stamps are 0 or not: 0 marks the end of the file.          *)
(***************************************************************************)
EXTENDS Integers, Sequences

CONSTANTS
  FileLen,   \* packets of the file
  BigSeq     \* bytes that are no sequence number, read as one

ASSUME FileAssumption == FileLen \in Nat \ {0} /\ BigSeq \in Nat /\ BigSeq > FileLen + 1

VARIABLES
  toCli,     \* datagrams on their way to the client's socket
  toSrv      \* acknowledgements on their way to the child's socket

netVars == <<toCli, toSrv>>

Empty == 0                \* payload without a character
Junk  == FileLen + 1      \* payload that is no packet of the file

Hdr(seq, ts) == [type |-> "hdr", seq |-> seq, ts |-> ts, data |-> Empty]
Pay(data)    == [type |-> "data", seq |-> 0, ts |-> 0, data |-> data]
PortMsg      == [type |-> "port", seq |-> BigSeq, ts |-> 1, data |-> Empty]
EndMsg       == [type |-> "end", seq |-> 0, ts |-> 0, data |-> Empty]

Datagram == [type : {"hdr", "data", "port", "end"}, seq : Nat, ts : {0, 1}, data : 0 .. Junk]

(* What recv() into a struct hdr makes of a datagram.  The characters of a *)
(* payload make a number that no packet has.                               *)
SeqOf(d) == IF d.type = "data" /\ d.data # Empty THEN BigSeq + d.data ELSE d.seq
TsOf(d)  == IF d.type = "data" /\ d.data # Empty THEN 1 ELSE d.ts

(* What recv() into recv_data makes of it. *)
DataOf(d) == IF d.type = "data" THEN d.data ELSE Junk

(* A packet is sent with two calls of send(). *)
SendPacket(seq, ts, data) == toCli' = toCli \o <<Hdr(seq, ts), Pay(data)>>

Ack(seq, win) == [seq |-> seq, win |-> win]

(* htons() and ntohs() on a little-endian host. *)
htons(x) == ((x % 256) * 256) + ((x \div 256) % 256)

Word == 0 .. 2 ^ 16 - 1   \* what they return, a uint16_t
=============================================================================
