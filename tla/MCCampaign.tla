------------------------------ MODULE MCCampaign ------------------------------
(***************************************************************************)
(* Instances of Campaign for TLC: one or two recipients, one of them     *)
(* listed twice, a queue of one item and at most two runs.                 *)
(***************************************************************************)
EXTENDS Campaign

CONSTANTS a, b

TwiceListed == <<a, b, a>>
BadLast     == <<a, a, b>>
Two         == {a, b}
SecondOnly  == {b}
None        == {}
=============================================================================
