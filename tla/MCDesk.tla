------------------------------- MODULE MCDesk -------------------------------
(* Desk instantiated for TLC: two start or resume calls in parallel.        *)
EXTENDS Desk

CONSTANTS c1, c2

TwoCalls == {c1, c2}
=============================================================================
