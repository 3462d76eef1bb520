-------------------------- MODULE MCAppServerClient --------------------------
(* Model values of AppServerClient for TLC. *)
EXTENDS AppServerClient

CONSTANTS w1, w2, k1, k2

TwoSockets == {w1, w2}
OneCall == {k1}
TwoCalls == {k1, k2}
NoCalls == {}
SecondCall == {k2}
=============================================================================
