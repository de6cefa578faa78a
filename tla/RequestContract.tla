-------------------------- MODULE RequestContract --------------------------
(***************************************************************************)
(* What SessionHandle::request promises its callers, without the session   *)
(* behind it: every call is made once and ends once, for good, and it only *)
(* succeeds when the message centre has answered that very call.           *)
(***************************************************************************)
CONSTANT Requests

VARIABLES
  call,      \* where each call stands
  answered   \* the calls whose own response has been received

contractVars == <<call, answered>>

ContractInit == call = [r \in Requests |-> "new"] /\ answered = {}

Open(r) ==
  /\ call[r] = "new" /\ call' = [call EXCEPT ![r] = "open"]
  /\ UNCHANGED answered

ResponseArrives(r) ==
  /\ call[r] = "open" /\ answered' = answered \cup {r}
  /\ UNCHANGED call

Succeed(r) ==
  /\ call[r] = "open" /\ r \in answered
  /\ call' = [call EXCEPT ![r] = "succeeded"]
  /\ UNCHANGED answered

Fail(r) ==
  /\ call[r] \in {"new", "open"}
  /\ call' = [call EXCEPT ![r] = "failed"]
  /\ UNCHANGED answered

ContractNext ==
  \E r \in Requests : Open(r) \/ ResponseArrives(r) \/ Succeed(r) \/ Fail(r)

ContractSpec == ContractInit /\ [][ContractNext]_contractVars
=============================================================================
