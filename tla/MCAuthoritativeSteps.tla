------------------------ MODULE MCAuthoritativeSteps ------------------------
(* Model-checking instance of AuthoritativeSteps. *)
EXTENDS AuthoritativeSteps
=============================================================================
