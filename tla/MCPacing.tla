------------------------------ MODULE MCPacing ------------------------------
(***************************************************************************)
(* An instance of the send gate: two tasks, a window of one, a queue of    *)
(* one, and a meter of two buckets.                                        *)
(***************************************************************************)
EXTENDS Pacing
=============================================================================
