---------------------------- MODULE MCReceiverAlone ----------------------------
(* TLC instances of ReceiverAlone: tids are interchangeable. *)
EXTENDS ReceiverAlone, TLC

Symmetry == Permutations(Tids)
=============================================================================
