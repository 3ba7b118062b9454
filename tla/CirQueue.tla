------------------------------ MODULE CirQueue ------------------------------
(***************************************************************************)
(* The circular queue of Assignment 2 (CirQueue.c), in which the server    *)
(* child keeps the datagrams that have not been acknowledged.  None of its *)
(* functions looks whether the queue is full: with as many datagrams as    *)
(* slots front equals rear, and the queue is taken for empty.              *)
(***************************************************************************)
EXTENDS Integers

(* "fresh" is what malloc() leaves in a slot. *)
InitCirQueue(size, fresh) ==
  [base |-> [i \in 0 .. size - 1 |-> fresh], front |-> 0, rear |-> 0, MAX_QSIZE |-> size]

IsEmptyCirQueue(Q) == Q.front = Q.rear

CirQueueLength(Q) == (Q.rear - Q.front + Q.MAX_QSIZE) % Q.MAX_QSIZE

(* Mutant: rear does not wrap round. *)
EnCirQueueFlat(Q, input) ==
  [Q EXCEPT !.base = [@ EXCEPT ![Q.rear] = input], !.rear = @ + 1]

EnCirQueue(Q, input) ==
  [Q EXCEPT !.base = [@ EXCEPT ![Q.rear] = input], !.rear = (@ + 1) % Q.MAX_QSIZE]

(* n calls of DeCirQueue. *)
DeCirQueue(Q, n) == [Q EXCEPT !.front = (@ + n) % Q.MAX_QSIZE]
=============================================================================
