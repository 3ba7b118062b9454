------------------------------ MODULE MCTour ------------------------------
(* Small tours for module Tour. *)
EXTENDS Tour

ThreeNodes == {"vm1", "vm2", "vm3"}

\* The source is visited once more, every other node once.
Once == <<"vm1", "vm2", "vm1", "vm3">>

\* The last node was visited before, from two nodes, from one of them twice.
Again == <<"vm1", "vm2", "vm1", "vm2", "vm3", "vm2">>
=============================================================================
