----------------------------- MODULE MCSession -----------------------------
(* Session instantiated for TLC.  The requests are model values; the bounds *)
(* are in the configurations.                                               *)
EXTENDS Session, TLC

CONSTANTS r1, r2

OneCall == {r1}
TwoCalls == {r1, r2}
None == {}
CoreAnswers == {"deliver_sm_resp"}
LinkAnswers == {"enquire_link_resp", "unbind_resp"}

Contract == INSTANCE RequestContract WITH
  call <- [r \in Requests |->
             IF phase[r] = "idle" THEN "new"
             ELSE IF phase[r] = "done"
                  THEN IF reply[r].kind = "ok" THEN "succeeded" ELSE "failed"
             ELSE IF phase[r] = "dropped" THEN "failed" ELSE "open"],
  answered <- {r \in Requests : reply[r] = Reply("ok", r)}

(* The session keeps the promise of request() to its callers.               *)
KeepsContract == Contract!ContractSpec
=============================================================================
