---------------------------- MODULE MessageJournal ----------------------------
(***************************************************************************)
(* One row of the message journal: the lifecycle of crates/messaging's     *)
(* MessageState, the conditional UPDATE of crates/persistence, and what    *)
(* the resume of a campaign concludes from a row.  A row keeps what those  *)
(* decide on: the state, whether a command_status is recorded, and the     *)
(* number of attempts.                                                     *)
(***************************************************************************)
EXTENDS Integers

Terminal  == {"DELIVERED", "FAILED", "EXPIRED"}
Alive     == {"QUEUED", "SENT", "ACCEPTED"}
RowStates == Alive \cup Terminal

Rows  == [state : RowStates, answered : BOOLEAN, attempts : Nat]
NoRow == [state |-> "NONE", answered |-> FALSE, attempts |-> 0]
QueuedRow == [state |-> "QUEUED", answered |-> FALSE, attempts |-> 0]

Rank(s) == CASE s = "QUEUED" -> 0 [] s = "SENT" -> 1 [] s = "ACCEPTED" -> 2 [] OTHER -> 3

(* Nothing goes backwards, and nothing leaves a terminal state.             *)
CanMoveTo(from, to) == from = to \/ (from \in Alive /\ Rank(from) <= Rank(to))

(* An update carries the state, whether it has a command_status to write,   *)
(* and the attempt's number (0: none).                                      *)
Update(state, answered, attempt) ==
  [state |-> state, answered |-> answered, attempt |-> attempt]

Larger(m, n) == IF m < n THEN n ELSE m

(* COALESCE(?, command_status), MAX(attempts, ?); a move the lifecycle      *)
(* refuses matches no row and changes nothing.                              *)
ApplyUpdate(row, u) ==
  IF CanMoveTo(row.state, u.state)
  THEN [state    |-> u.state,
        answered |-> row.answered \/ u.answered,
        attempts |-> Larger(row.attempts, u.attempt)]
  ELSE row

Policies == {"reemit", "abandon"}

(* UnansweredPolicy::admit.                                                 *)
Fresh  == [kind |-> "fresh",  unanswered |-> FALSE]
Skip   == [kind |-> "skip",   unanswered |-> FALSE]
Resume(unanswered) == [kind |-> "resume", unanswered |-> unanswered]

MutantAdmission(policy, row) ==
  CASE row.state = "NONE"     -> Fresh
    [] row.state = "QUEUED"   -> Resume(FALSE)
    [] row.state = "ACCEPTED" -> Skip
    [] OTHER                  -> Resume(TRUE)

Admission(policy, row) ==
  CASE row.state = "NONE"   -> Fresh
    [] row.state = "QUEUED" -> Resume(FALSE)
    [] row.state = "SENT"   -> IF row.answered THEN Resume(FALSE)
                               ELSE IF policy = "reemit" THEN Resume(TRUE) ELSE Skip
    [] OTHER                -> Skip
=============================================================================
