------------------------------ MODULE Delivery ------------------------------
(***************************************************************************)
(* What a file transfer promises: packets come to be held by the receiver  *)
(* in any order, are delivered in the order of the file, each once, and    *)
(* the sender closes only when the receiver holds all of them.             *)
(***************************************************************************)
EXTENDS Integers, Sequences

CONSTANT FileLen

VARIABLES held, delivered, closed

vars == <<held, delivered, closed>>

Init == held = {} /\ delivered = <<>> /\ closed = FALSE

Receive(k) ==
  /\ held' = held \cup {k}
  /\ UNCHANGED <<delivered, closed>>

Deliver ==
  /\ Len(delivered) + 1 \in held
  /\ delivered' = Append(delivered, Len(delivered) + 1)
  /\ UNCHANGED <<held, closed>>

Close ==
  /\ held = 1 .. FileLen
  /\ closed' = TRUE
  /\ UNCHANGED <<held, delivered>>

Next == (\E k \in 1 .. FileLen : Receive(k)) \/ Deliver \/ Close

Spec == Init /\ [][Next]_vars
=============================================================================
