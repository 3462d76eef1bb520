-------------------------- MODULE MCThreadReadModel --------------------------
(* Model values of ThreadReadModel for TLC. *)
EXTENDS ThreadReadModel

CONSTANTS i1, i2
=============================================================================
