---------------------------- MODULE MCStreamBuffer ----------------------------
(* StreamBuffer with a few interchangeable callers.                         *)
EXTENDS StreamBuffer, TLC

CONSTANTS w1, w2
=============================================================================
