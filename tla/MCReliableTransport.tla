-------------------------- MODULE MCReliableTransport --------------------------
(* TLC instances of ReliableTransport. *)
EXTENDS ReliableTransport
=============================================================================
