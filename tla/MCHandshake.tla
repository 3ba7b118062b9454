---------------------------- MODULE MCHandshake -----------------------------
(* Clients for module Handshake. *)
EXTENDS Handshake

\* Two hosts, on which two clients have the same port.
SamePort == {<<"h1", 1>>, <<"h2", 1>>}
=============================================================================
