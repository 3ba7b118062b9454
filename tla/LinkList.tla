------------------------------ MODULE LinkList ------------------------------
(***************************************************************************)
(* The sorted list of Assignment 2 (LinkList.c), in which the client keeps *)
(* the datagrams that have not been printed, at the level of its pointers: *)
(* memory is a function from addresses to nodes, a freed node keeps what   *)
(* it holds, and a new one holds what the memory held before, as malloc()  *)
(* and free() have it.  A function that walks the list does not return     *)
(* when the list has become circular.                                      *)
(***************************************************************************)
EXTENDS Integers, FiniteSets

CONSTANTS
  Addr,     \* the addresses malloc() returns
  header,   \* the address of the list head
  NULL

ASSUME AddrAssumption ==
  header \notin Addr /\ NULL \notin Addr \cup {header} /\ IsFiniteSet(Addr)

Pointer == Addr \cup {NULL}

(* The address reached from L by following n pointers, NULL at the end. *)
Steps(heap, L) ==
  LET at[n \in Nat] ==
        IF n = 0 THEN L
        ELSE IF at[n - 1] = NULL THEN NULL ELSE heap[at[n - 1]].next
  IN  at

(* A walk that has not ended after so many nodes goes round for ever. *)
Far == Cardinality(Addr) + 1

LinkListLengths(heap, L) ==
  {n \in 0 .. Far : Steps(heap, L)[n] # NULL /\ Steps(heap, L)[n + 1] = NULL}

(* LinkListLength returns. *)
IsList(heap, L) == LinkListLengths(heap, L) # {}

LinkListLength(heap, L) == CHOOSE n \in LinkListLengths(heap, L) : TRUE

(* The nodes at which the loop of InsertLinkList may stop: the first whose *)
(* successor is missing or not smaller than seq; none if it goes round.    *)
Stops(heap, a, seq) == heap[a].next = NULL \/ heap[heap[a].next].seq >= seq

InsertPoints(heap, L, seq) ==
  {a \in DOMAIN heap :
     \E n \in 0 .. Far :
        /\ Steps(heap, L)[n] = a
        /\ Stops(heap, a, seq)
        /\ \A m \in 0 .. n - 1 : ~ Stops(heap, Steps(heap, L)[m], seq)}

(* Mutant: gaps between the nodes are not looked for. *)
NextAckOfLength(heap, L, start) == start + LinkListLength(heap, L) + 1

(* The number behind the last node that continues start without a gap. *)
NextAck(heap, L, start) ==
  CHOOSE ack \in start + 1 .. start + Far :
     LET n == ack - start - 1
     IN  /\ \A m \in 1 .. n : /\ Steps(heap, L)[m] # NULL
                              /\ heap[Steps(heap, L)[m]].seq = start + m
         /\ \/ Steps(heap, L)[n + 1] = NULL
            \/ heap[Steps(heap, L)[n + 1]].seq # ack
=============================================================================
