-------------------------- MODULE MCContextRollover --------------------------
(* Model values of ContextRollover for TLC. *)
EXTENDS ContextRollover

CONSTANTS i1, i2
=============================================================================
