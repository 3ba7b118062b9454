------------------------------ MODULE MCTime ------------------------------
(* Small networks for module TimeService. *)
EXTENDS TimeService

ThreeNodes == {"vm1", "vm2", "vm3"}

\* vm1 -- a -- vm2 -- b -- vm3
LineLans == {"a", "b"}
Line == {<<"vm1", "a">>, <<"vm2", "a">>, <<"vm2", "b">>, <<"vm3", "b">>}

\* Every two of vm1, vm2, vm3 share a segment of their own.
RingLans == {"a", "b", "c"}
Ring == {<<"vm1", "a">>, <<"vm2", "a">>, <<"vm2", "b">>, <<"vm3", "b">>,
         <<"vm3", "c">>, <<"vm1", "c">>}

NoGarbage == {0}
CleanBuffer == {-1}

\* Above every identifier that a run gives out.
HighGarbage == {9}

\* Clients at both ends of the line, the server between them.
ServerBetween == {<<"vm1", "c1">>, <<"vm3", "c1">>, <<"vm2", "srv">>}

\* Two clients at one node, a server at each of the others.
TwoAtOne == {<<"vm1", "c1">>, <<"vm1", "c2">>, <<"vm2", "srv">>, <<"vm3", "srv">>}

\* Clients at two nodes, the server at the third.
TwoClients == {<<"vm1", "c1">>, <<"vm2", "c1">>, <<"vm3", "srv">>}

\* Two clients at one end of the line, a client and the server at the other.
SharedCrowd == {<<"vm1", "c1">>, <<"vm1", "c2">>, <<"vm3", "c1">>, <<"vm3", "srv">>}
=============================================================================
