--------------------------- MODULE MCServerUpdate ---------------------------
(* ServerUpdate for TLC: all constants are given in the cfg. *)
EXTENDS ServerUpdate
=============================================================================
