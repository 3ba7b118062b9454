------------------------------- MODULE MCFile -------------------------------
(* Memory for module FileTransfer. *)
EXTENDS FileTransfer

\* As many nodes as malloc() may be asked for at a time.
ThreeNodes == {1, 2, 3}
=============================================================================
