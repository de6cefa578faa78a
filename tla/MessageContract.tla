--------------------------- MODULE MessageContract ---------------------------
(***************************************************************************)
(* What the journal promises of the messages of a campaign, one recipient  *)
(* at a time: a message is opened before anything can leave, copies reach  *)
(* the message centre only while it is open, and it gets at most one       *)
(* verdict, which says ACCEPTED only of a message that was taken           *)
(* (campaign/resume.rs, "The invariant"; CA-010-05).                       *)
(***************************************************************************)
EXTENDS Integers

CONSTANT Recipients

VARIABLES
  verdict,   \* "none", "open", "accepted" or "failed"
  copies     \* messages of this recipient the message centre took

ContractInit ==
  /\ verdict = [r \in Recipients |-> "none"]
  /\ copies = [r \in Recipients |-> 0]

Open(r) ==
  /\ verdict[r] = "none"
  /\ verdict' = [verdict EXCEPT ![r] = "open"]
  /\ UNCHANGED copies

Take(r) ==
  /\ verdict[r] = "open"
  /\ copies' = [copies EXCEPT ![r] = copies[r] + 1]
  /\ UNCHANGED verdict

Decide(r, v) ==
  /\ verdict[r] = "open"
  /\ v = "accepted" => copies[r] > 0
  /\ verdict' = [verdict EXCEPT ![r] = v]
  /\ UNCHANGED copies

ContractNext ==
  \E r \in Recipients :
    Open(r) \/ Take(r) \/ \E v \in {"accepted", "failed"} : Decide(r, v)

ContractSpec == ContractInit /\ [][ContractNext]_<<verdict, copies>>

(* The same, when one step moves the messages of a batch together.          *)
Moves(r) ==
  \/ verdict[r] = "none" /\ verdict'[r] = "open" /\ copies'[r] = copies[r]
  \/ verdict[r] = "open" /\ verdict'[r] = "open" /\ copies'[r] = copies[r] + 1
  \/ /\ verdict[r] = "open" /\ copies'[r] = copies[r]
     /\ verdict'[r] = "failed" \/ (verdict'[r] = "accepted" /\ copies[r] > 0)
  \/ verdict'[r] = verdict[r] /\ copies'[r] = copies[r]

TogetherSpec == ContractInit /\ [][\A r \in Recipients : Moves(r)]_<<verdict, copies>>
=============================================================================
