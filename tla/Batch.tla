--------------------------------- MODULE Batch ---------------------------------
(***************************************************************************)
(* BatchSender::submit_batch of crates/messaging, with the send path of     *)
(* Sender::dispatch it falls back on: one call after another over the       *)
(* journal, with a kill or a refusal of the journal between any two writes. *)
(*                                                                         *)
(* The caller and the message centre are the environment.  A message is     *)
(* "taken" when the centre has the whole of it; the fragments it keeps of a *)
(* message that failed half-way are no copy of it.                          *)
(***************************************************************************)
EXTENDS Integers, Sequences, SequencesExt, MessageJournal

CONSTANTS
  Recipients,
  NumberOf,         \* the digits of each recipient's destination
  Garbled,          \* an address in a form no destination has
  Orders,           \* the recipient lists a caller may pass, nobody twice
  Unroutable,       \* recipients no PDU can be built for
  MaxDestinations,  \* MAX_DESTINATIONS
  Policy,           \* UnansweredPolicy
  StoreFails,       \* the journal may refuse a read or a write
  MaxCalls          \* bound: calls of submit_batch

ASSUME BatchAssumption ==
  /\ Orders \subseteq Seq(Recipients) /\ \A o \in Orders : IsInjective(o)
  /\ Unroutable \subseteq Recipients
  /\ \A r \in Recipients : NumberOf[r] # Garbled
  /\ MaxDestinations \in Nat \ {0} /\ Policy \in Policies
  /\ StoreFails \in BOOLEAN /\ MaxCalls \in Nat

VARIABLES
  batch,     \* the Batch and the settings of the call in progress
  calls,     \* calls so far; the attempt number the caller passes
  phase,     \* where the call stands
  todo,      \* recipients still to be handled in the loop it is in
  live,      \* recipients the batch may send to
  again,     \* the loop re-sends rows that are already there
  report,    \* what the last submission came to, for each live recipient
  slots,     \* the outcome filled in for each recipient
  counted,   \* recipients counted in reemitted_unanswered
  written,   \* every verdict so far was journalled
  latch,     \* MultiSupport: "unknown", "supported" or "unsupported"
  result,    \* how the last call ended
  journal,   \* the row of each recipient
  before,    \* copies when the call began
  copies     \* whole messages the centre took

callVars  == <<batch, calls>>
slotVars  == <<slots, counted, written>>
centreVars == <<before, copies>>
vars == <<callVars, phase, todo, live, again, report, slotVars, latch, result, journal, centreVars>>

Settings == [order : Orders, enabled : BOOLEAN, foreign : BOOLEAN, parts : 1 .. 2, last : BOOLEAN]
Reports  == {"accepted", "busy", "fatal", "unanswered", "unbound", "barred"}
Outcomes == {"accepted", "rejected", "uncertain", "not_emitted", "present"}
Phases   == {"idle", "insert", "attempts", "submit", "verdicts", "each", "attempt", "send", "verdict"}

Order     == batch.order
Me        == Head(todo)
Pending   == "uncertain"

-----------------------------------------------------------------------------
(* Reading an answer                                                        *)

Naming(dests, number) == {i \in DOMAIN dests : NumberOf[dests[i]] = number}

MutantAttributed(dests, refusals) == \A k \in DOMAIN refusals : TRUE

(* match_refusals: every refusal names exactly one destination, and none is *)
(* named twice.                                                             *)
Attributed(dests, refusals) ==
  /\ Len(refusals) <= Len(dests)
  /\ \A k \in DOMAIN refusals :
       \E i \in DOMAIN dests :
         /\ Naming(dests, refusals[k].number) = {i}
         /\ \A j \in DOMAIN refusals \ {k} : Naming(dests, refusals[j].number) # {i}

RefusedWith(dests, refusals, r) ==
  {refusals[k].status : k \in {j \in DOMAIN refusals : NumberOf[r] = refusals[j].number}}

(* The verdicts of a submit_multi_resp, when they can be attributed.        *)
ReadRefusals(dests, refusals) ==
  [r \in Recipients |->
     IF ~Attributed(dests, refusals) THEN "unanswered"
     ELSE IF RefusedWith(dests, refusals, r) = {} THEN "accepted"
     ELSE CHOOSE s \in RefusedWith(dests, refusals, r) : TRUE]

(* What the message centre may quote back of those it refused: the number,  *)
(* another spelling of it, or one of them twice.                            *)
Quoted(refused, spelling, twice) ==
  LET names == SetToSeq({r \in ToSet(live) : refused[r] # "taken"})
      list  == [i \in DOMAIN names |->
                  [number |-> IF spelling = "own" THEN NumberOf[names[i]] ELSE Garbled,
                   status |-> refused[names[i]]]]
  IN  IF twice /\ list # <<>> THEN Append(list, Head(list)) ELSE list

Retryable(r) == r \in {"busy", "unanswered", "unbound"}
Status(r)    == r \in {"accepted", "busy", "fatal"}

(* verdict_update, and Sender::final_transition.                            *)
VerdictUpdate(r) ==
  CASE r = "accepted"                -> Update("ACCEPTED", TRUE, 0)
    [] ~batch.last /\ Retryable(r)   -> Update("SENT", Status(r), 0)
    [] OTHER                         -> Update("FAILED", Status(r), 0)

(* The outcome reported: of a submit_multi, and of a submit_sm, whose       *)
(* report does not say that nothing left (outcome_of).                      *)
MultiOutcome(r) ==
  CASE r = "accepted"             -> "accepted"
    [] r \in {"busy", "fatal"}    -> "rejected"
    [] r = "unanswered"           -> "uncertain"
    [] OTHER                      -> "not_emitted"

UnitOutcome(r) ==
  CASE r = "accepted"             -> "accepted"
    [] r \in {"busy", "fatal"}    -> "rejected"
    [] OTHER                      -> "uncertain"

-----------------------------------------------------------------------------
(* The call                                                                 *)

Ends(how) == phase' = "idle" /\ result' = how

(* What a call holds when it begins, and what is left of one that ends with *)
(* an error, whose report is lost.                                          *)
Blank ==
  /\ live' = <<>> /\ again' = FALSE
  /\ report' = [r \in Recipients |-> "unanswered"]
  /\ slots' = [r \in Recipients |-> Pending]
  /\ counted' = {} /\ written' = TRUE

WrongSize(n) == n = 0 \/ n > MaxDestinations

(* why_not_multi.                                                           *)
NotMulti(b) ==
  \/ ~b.enabled \/ b.foreign \/ latch = "unsupported"
  \/ Len(b.order) < 2 \/ b.parts # 1

Start ==
  /\ phase = "idle" /\ calls < MaxCalls
  /\ batch' \in Settings /\ calls' = calls + 1
  /\ LET n == Len(batch'.order)
     IN  \/ WrongSize(n) /\ Ends("refused")
         \/ ~WrongSize(n) /\ NotMulti(batch') /\ phase' = "each" /\ result' = "none"
         \/ /\ ~WrongSize(n) /\ ~NotMulti(batch')
            /\ IF ToSet(batch'.order) \cap Unroutable # {} THEN Ends("refused")
               ELSE phase' = "insert" /\ result' = "none"
  /\ todo' = batch'.order /\ before' = copies /\ Blank
  /\ UNCHANGED <<latch, journal, copies>>

(* BatchSender::admit, for a recipient whose row is there.                  *)
Admitted(r) == Admission(Policy, journal[r])

MutantAtRisk(r) == {x \in {r} : FALSE}
AtRisk(r) == {x \in {r} : Admitted(x).unanswered}

Admits(r) ==
  /\ Admitted(r).kind = "resume"
  /\ counted' = counted \cup AtRisk(r)
  /\ UNCHANGED slots

Leaves(r) ==
  /\ Admitted(r).kind = "skip"
  /\ slots' = [slots EXCEPT ![r] = "present"]
  /\ UNCHANGED counted

-----------------------------------------------------------------------------
(* One submit_multi for all                                                 *)

(* write_ahead, one recipient: the insert, and the guard on a conflict.     *)
InsertRow ==
  /\ phase = "insert"
  /\ \/ /\ journal[Me] = NoRow
        /\ journal' = [journal EXCEPT ![Me] = QueuedRow]
        /\ live' = Append(live, Me) /\ UNCHANGED <<slots, counted>>
     \/ journal[Me] # NoRow /\ Admits(Me) /\ live' = Append(live, Me) /\ UNCHANGED journal
     \/ journal[Me] # NoRow /\ Leaves(Me) /\ UNCHANGED <<live, journal>>
  /\ todo' = Tail(todo)
  /\ IF todo' # <<>> THEN UNCHANGED <<phase, result>>
     ELSE IF live' = <<>> THEN Ends("reported")
     ELSE phase' = "attempts" /\ UNCHANGED result
  /\ UNCHANGED <<callVars, again, report, written, latch, centreVars>>

AttemptOf(rows, who) ==
  [r \in Recipients |-> IF r \in who THEN ApplyUpdate(rows[r], Update("SENT", FALSE, calls))
                                     ELSE rows[r]]

MarkedRows == AttemptOf(journal, ToSet(live))

(* The attempts of all of them in one transaction, before the socket.       *)
MarkAttempts ==
  /\ phase = "attempts"
  /\ journal' = MarkedRows /\ phase' = "submit"
  /\ UNCHANGED <<callVars, todo, live, again, report, slotVars, latch, result, centreVars>>

Taken(who) == [r \in Recipients |-> IF r \in who THEN copies[r] + 1 ELSE copies[r]]
Everyone(what) == [r \in Recipients |-> what]

(* The answers that give every recipient of the batch the same report: what *)
(* the centre may have done when it comes to that.                          *)
MultiAnswered ==
  /\ phase' = "verdicts" /\ UNCHANGED <<todo, again>>
  /\ \/ /\ report' \in {Everyone("busy"), Everyone("fatal"), Everyone("unbound"), Everyone("barred")}
        /\ UNCHANGED <<copies, latch>>
     \/ /\ \E who \in {{}, ToSet(live)} : copies' = Taken(who)
        /\ report' = Everyone("unanswered") /\ UNCHANGED latch
     \/ \E refused \in [ToSet(live) -> {"taken", "busy", "fatal"}] :
        \E spelling \in {"own", "other"}, twice \in BOOLEAN :
          LET refusals == Quoted(refused, spelling, twice)
          IN  /\ copies' = Taken({r \in ToSet(live) : refused[r] = "taken"})
              /\ report' = ReadRefusals(live, refusals)
              /\ latch' = IF Attributed(live, refusals) THEN "supported" ELSE "unsupported"

(* ESME_RINVCMDID or a generic_nack: the operation is unknown, and the live *)
(* recipients are sent to one at a time over the rows they have.            *)
MultiUnknown ==
  /\ phase' = "each" /\ todo' = live /\ again' = TRUE
  /\ latch' = "unsupported"
  /\ UNCHANGED <<copies, report>>

SubmitMulti ==
  /\ phase = "submit"
  /\ MultiAnswered \/ MultiUnknown
  /\ UNCHANGED <<callVars, live, slotVars, result, journal, before>>

Settled(rows, who) ==
  [r \in Recipients |-> IF r \in who THEN ApplyUpdate(rows[r], VerdictUpdate(report[r])) ELSE rows[r]]

(* journal_verdicts: one transaction, whose failure is only reported.       *)
JournalVerdicts ==
  /\ phase = "verdicts"
  /\ \/ journal' = Settled(journal, ToSet(live)) /\ UNCHANGED written
     \/ StoreFails /\ written' = FALSE /\ UNCHANGED journal
  /\ slots' = [r \in Recipients |-> IF r \in ToSet(live) THEN MultiOutcome(report[r]) ELSE slots[r]]
  /\ Ends("reported")
  /\ UNCHANGED <<callVars, todo, live, again, report, counted, latch, centreVars>>

-----------------------------------------------------------------------------
(* One submit_sm each                                                       *)

(* Sender::send up to its insert, with the guard on a conflict; a re-send   *)
(* finds its row there and does not ask.                                    *)
BeginOne ==
  /\ phase = "each" /\ todo # <<>>
  /\ \/ /\ again /\ phase' = "attempt" /\ UNCHANGED <<todo, slots, counted, result, journal>>
     \/ /\ ~again /\ Me \in Unroutable
        /\ Ends("refused") /\ UNCHANGED <<todo, slots, counted, journal>>
     \/ /\ ~again /\ Me \notin Unroutable /\ journal[Me] = NoRow
        /\ journal' = [journal EXCEPT ![Me] = QueuedRow] /\ phase' = "attempt"
        /\ UNCHANGED <<todo, slots, counted, result>>
     \/ /\ ~again /\ Me \notin Unroutable /\ journal[Me] # NoRow
        /\ Admits(Me) /\ phase' = "attempt" /\ UNCHANGED <<todo, result, journal>>
     \/ /\ ~again /\ Me \notin Unroutable /\ journal[Me] # NoRow
        /\ Leaves(Me) /\ todo' = Tail(todo) /\ UNCHANGED <<phase, result, journal>>
  /\ UNCHANGED <<callVars, live, again, report, written, latch, centreVars>>

MarkOne ==
  /\ phase = "attempt"
  /\ journal' = AttemptOf(journal, {Me}) /\ phase' = "send"
  /\ UNCHANGED <<callVars, todo, live, again, report, slotVars, latch, result, centreVars>>

MutantUnitReport(n, failure) == IF n > 0 THEN "accepted" ELSE failure
(* aggregate: the first segment that does not land decides, and the ones    *)
(* after it are not sent; the centre took n of them before.                 *)
UnitReport(n, failure) == IF n = batch.parts THEN "accepted" ELSE failure

(* submit_all.                                                              *)
SubmitOne ==
  /\ phase = "send"
  /\ \E n \in 0 .. batch.parts, failure \in Reports \ {"accepted"} :
       /\ report' = [report EXCEPT ![Me] = UnitReport(n, failure)]
       /\ \/ n = batch.parts /\ copies' = Taken({Me})
          \/ n < batch.parts /\ UNCHANGED copies
          \/ n = batch.parts - 1 /\ failure = "unanswered" /\ copies' = Taken({Me})
  /\ phase' = "verdict"
  /\ UNCHANGED <<callVars, todo, live, again, slotVars, latch, result, journal, before>>

VerdictOne ==
  /\ phase = "verdict"
  /\ \/ journal' = Settled(journal, {Me}) /\ UNCHANGED written
     \/ StoreFails /\ written' = FALSE /\ UNCHANGED journal
  /\ slots' = [slots EXCEPT ![Me] = UnitOutcome(report[Me])]
  /\ todo' = Tail(todo) /\ phase' = "each"
  /\ UNCHANGED <<callVars, live, again, report, counted, latch, result, centreVars>>

AllSent ==
  /\ phase = "each" /\ todo = <<>>
  /\ Ends("reported")
  /\ UNCHANGED <<callVars, todo, live, again, report, slotVars, latch, journal, centreVars>>

-----------------------------------------------------------------------------
(* The journal refuses a read, an insert or an attempt.                     *)
StoreFailure ==
  /\ StoreFails
  /\ phase \in {"insert", "attempts", "attempt"} \/ (phase = "each" /\ ~again /\ todo # <<>>)
  /\ Ends("store_failed") /\ Blank /\ todo' = <<>>
  /\ UNCHANGED <<callVars, latch, journal, centreVars>>

(* The process dies, or the session ends and another has a latch of its own.*)
Kill ==
  /\ phase # "idle" \/ latch # "unknown"
  /\ Ends("killed") /\ latch' = "unknown" /\ Blank /\ todo' = <<>>
  /\ UNCHANGED <<callVars, journal, centreVars>>

Init ==
  /\ batch \in {[order |-> o, enabled |-> TRUE, foreign |-> FALSE, parts |-> 1, last |-> TRUE]
                : o \in Orders}
  /\ calls = 0 /\ phase = "idle" /\ todo = <<>> /\ live = <<>> /\ again = FALSE
  /\ report = [r \in Recipients |-> "unanswered"] /\ slots = [r \in Recipients |-> Pending]
  /\ counted = {} /\ written = TRUE /\ latch = "unknown" /\ result = "none"
  /\ journal = [r \in Recipients |-> NoRow]
  /\ before = [r \in Recipients |-> 0] /\ copies = [r \in Recipients |-> 0]

Next ==
  \/ Start \/ InsertRow \/ MarkAttempts \/ SubmitMulti \/ JournalVerdicts
  \/ BeginOne \/ MarkOne \/ SubmitOne \/ VerdictOne \/ AllSent
  \/ StoreFailure \/ Kill

Spec == Init /\ [][Next]_vars
-----------------------------------------------------------------------------
(* Properties *)

CallTypeOK ==
  /\ batch \in Settings /\ calls \in Nat /\ phase \in Phases
  /\ todo \in Seq(Recipients) /\ (phase \in {"insert", "attempt", "send", "verdict"} => todo # <<>>)
  /\ live \in Seq(Recipients) /\ Len(live) <= MaxDestinations /\ again \in BOOLEAN

TypeOK ==
  /\ CallTypeOK
  /\ report \in [Recipients -> Reports] /\ slots \in [Recipients -> Outcomes]
  /\ counted \in SUBSET Recipients /\ written \in BOOLEAN
  /\ latch \in {"unknown", "supported", "unsupported"}
  /\ result \in {"none", "reported", "refused", "store_failed", "killed"}
  /\ journal \in [Recipients -> Rows \cup {NoRow}]
  /\ before \in [Recipients -> Nat] /\ copies \in [Recipients -> Nat]

TakenNow(r) == copies[r] - before[r]

(* The report of a call is true of each recipient: the ones it calls        *)
(* accepted were taken, once; the ones it calls rejected, not emitted or    *)
(* already present were not; and none was taken twice, through the fallback *)
(* or otherwise (CA-010-08; match_refusals, "a whole batch of rejected      *)
(* messages is journalled ACCEPTED").  And nobody is lost to an earlier     *)
(* call that failed at its k-th insert: once a call has reported, nobody in *)
(* its batch is without a row or still QUEUED (write_ahead, "they were      *)
(* never sent at all").                                                     *)
ReportIsTrue ==
  result = "reported" => \A r \in ToSet(Order) :
    /\ slots[r] = "accepted" => TakenNow(r) = 1
    /\ slots[r] \in {"rejected", "not_emitted", "present"} => TakenNow(r) = 0
    /\ TakenNow(r) <= 1
    /\ journal[r].state \notin {"NONE", "QUEUED"}

(* Whoever is taken a second time was counted as a duplicate risk by the    *)
(* call that did it, unless an earlier refusal had left its status on the   *)
(* row (BatchReport::reemitted_unanswered).                                 *)
DuplicatesCounted ==
  [][\A r \in Recipients :
       copies'[r] > copies[r] /\ copies[r] > 0 => r \in counted \/ journal[r].answered]_vars

(* The journal's rows as verdicts.                                          *)
VerdictOf(row) ==
  CASE row.state = "NONE"               -> "none"
    [] row.state \in {"QUEUED", "SENT"} -> "open"
    [] row.state = "ACCEPTED"           -> "accepted"
    [] OTHER                            -> "failed"

Verdicts == [r \in Recipients |-> VerdictOf(journal[r])]
Contract == INSTANCE MessageContract WITH verdict <- Verdicts, copies <- copies

(* A batch keeps the contract of its messages, which it moves together:     *)
(* none is taken before it is open or after its verdict, and none is        *)
(* ACCEPTED that was not taken (resume.rs, "The invariant"; CA-010-05).     *)
KeepsMessageContract == Contract!TogetherSpec
=============================================================================
