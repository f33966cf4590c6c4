---------------------------- MODULE MCReconnecting ----------------------------
(* ReconnectingNetwork for TLC: the constants are numbers given by the cfg.  *)
EXTENDS ReconnectingNetwork, TLC
=============================================================================
