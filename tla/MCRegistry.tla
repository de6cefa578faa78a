----------------------------- MODULE MCRegistry -----------------------------
(* The registry for TLC: two commands in parallel.                          *)
EXTENDS Registry

CONSTANTS k1, k2, p, q

TwoCallers == {k1, k2}
TwoProfiles == {p, q}
=============================================================================
