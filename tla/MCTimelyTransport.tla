--------------------------- MODULE MCTimelyTransport ---------------------------
(* TLC instances of TimelyTransport. *)
EXTENDS TimelyTransport
=============================================================================
