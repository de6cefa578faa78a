-------------------------------- MODULE MCBatch --------------------------------
(* Batch for TLC: two recipients under one number, another, and one that    *)
(* cannot be reached.                                                       *)
EXTENDS Batch, TLC

CONSTANTS a, b, c, unroutable, n1, n2, other

Numbers  == (a :> n1) @@ (b :> n1) @@ (c :> n2) @@ (unroutable :> n2)
AllLists == {<<>>, <<a>>, <<a, b>>, <<c, a>>, <<a, unroutable>>, <<a, b, c>>}
=============================================================================
