---------------------------- MODULE MCLocalParty ----------------------------
(* Small instances of LocalParty for TLC.                                  *)
EXTENDS LocalParty
=============================================================================
