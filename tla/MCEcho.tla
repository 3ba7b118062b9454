------------------------------- MODULE MCEcho -------------------------------
(* One user types lines for the echo service; the other asks for the time. *)
EXTENDS EchoTime

CONSTANTS u, v

BothUsers == {u, v}

OneEcho == [x \in BothUsers |-> IF x = u THEN {"echo"} ELSE {"time"}]

OneTypes == [x \in BothUsers |-> IF x = u THEN 2 ELSE 0]
=============================================================================
