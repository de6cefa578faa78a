------------------------------- MODULE Campaign -------------------------------
(***************************************************************************)
(* One campaign of crates/messaging and the journal it writes: the feeder  *)
(* and the emitter that CampaignRunner::run joins, the send path of        *)
(* Sender::dispatch, the operator's pause, resume and cancel, and the runs *)
(* that follow one another when the process is killed.                     *)
(*                                                                         *)
(* A step is what runs between two awaits.  The message centre decides on  *)
(* each submit_sm, and its answer may be lost; whether a kill lands before *)
(* or after the answer is read makes no difference until it is journalled. *)
(* A message is one segment here.                                          *)
(***************************************************************************)
EXTENDS Integers, Sequences, FiniteSets, MessageJournal

CONSTANTS
  Recipients,
  Source,         \* the recipients in the order the source yields them
  Unbuildable,    \* those Feeder::prepare makes no message for
  Unencodable,    \* those whose text the send path cannot segment or build
  QueueCapacity,  \* RECIPIENT_QUEUE_CAPACITY
  MaxAttempts,    \* RetryPolicy::max_attempts
  Policy,         \* UnansweredPolicy
  StoreFails,     \* the journal may refuse a read or a write
  SourceFails,    \* the recipient source may fail half-way
  MaxRuns         \* bound: times the campaign is launched

ASSUME CampaignAssumption ==
  /\ Source \in Seq(Recipients)
  /\ Unbuildable \subseteq Recipients /\ Unencodable \subseteq Recipients
  /\ QueueCapacity \in Nat \ {0} /\ MaxAttempts \in Nat \ {0}
  /\ Policy \in Policies
  /\ StoreFails \in BOOLEAN /\ SourceFails \in BOOLEAN
  /\ MaxRuns \in Nat

VARIABLES
  mode,      \* "idle", or the StartMode of the run in progress
  runs,      \* runs launched so far
  outcome,   \* how the last run ended
  gate,      \* the operator's RunState, cancellation apart
  token,     \* the run's CancellationToken is cancelled
  feeder,    \* where the feeder stands
  pos,       \* recipients read from the source
  fed,       \* FeedSummary::queued
  feedEnd,   \* why the feeding stopped
  queue,     \* items between the feeder and the emitter
  step,      \* where the emitter stands
  item,      \* the recipient in its hand
  attempt,   \* the number of the attempt being made
  report,    \* what the last attempt came to
  stopped,   \* the emitter only drains from here on
  tally,     \* CampaignTally
  marked,    \* recipients this run has journalled an attempt for
  journal,   \* the row of each recipient
  sent,      \* submit_sm that left for each recipient
  copies     \* those the message centre took

controlVars == <<gate, token>>
feederVars  == <<feeder, pos, fed, feedEnd>>
emitterVars == <<step, item, attempt, report, stopped, tally, marked>>
runVars     == <<mode, runs, outcome>>
centreVars  == <<sent, copies>>
vars == <<runVars, controlVars, feederVars, queue, emitterVars, journal, centreVars>>

Outcomes == {"none", "killed", "COMPLETED", "CANCELLED", "FAILED"}
Covered  == {"accepted", "failed", "rejected", "skipped", "cancelled"}
Buckets  == Covered \cup {"retried", "reemitted", "not_journalled"}
Reports  == {"accepted", "busy", "fatal", "unanswered", "not_allowed"}
Busy     == {"gate", "window", "guard", "conflict", "insert", "mark",
             "submit", "stranded", "verdict", "delay", "give_up"}
Steps    == Busy \cup {"recv", "done", "store_failed"}

Item(r, ready) == [of |-> r, ready |-> ready]
Counted(b)     == [tally EXCEPT ![b] = @ + 1]
TotalOf(t)     == t["accepted"] + t["failed"] + t["rejected"] + t["skipped"] + t["cancelled"]
Total          == TotalOf(tally)
InHand         == IF step \in Busy THEN 1 ELSE 0

-----------------------------------------------------------------------------
(* The feeder                                                               *)

FeederFrame == UNCHANGED <<runVars, controlVars, emitterVars, journal, centreVars>>

MutantWaitEnds(cancelled) == gate = "running"

(* wait_until_running: a paused campaign waits, a cancelled one does not.   *)
WaitEnds(cancelled) == IF cancelled THEN token ELSE ~token /\ gate = "running"

StopFeeding(why) == feeder' = "done" /\ feedEnd' = why

FeederWaits ==
  /\ feeder = "gate"
  /\ \/ WaitEnds(TRUE) /\ StopFeeding("cancelled")
     \/ WaitEnds(FALSE) /\ feeder' = "reading" /\ UNCHANGED feedEnd
  /\ FeederFrame /\ UNCHANGED <<pos, fed, queue>>

SourceDry == pos = Len(Source)

(* Both selects of the feeder are biased towards the cancellation.          *)
FeederReads ==
  /\ feeder = "reading"
  /\ \/ token /\ StopFeeding("cancelled") /\ UNCHANGED pos
     \/ ~token /\ SourceFails /\ StopFeeding("failed") /\ UNCHANGED pos
     \/ ~token /\ SourceDry /\ StopFeeding("exhausted") /\ UNCHANGED pos
     \/ /\ ~token /\ ~SourceDry
        /\ pos' = pos + 1 /\ feeder' = "offering" /\ UNCHANGED feedEnd
  /\ FeederFrame /\ UNCHANGED <<fed, queue>>

FeederOffers ==
  /\ feeder = "offering"
  /\ \/ token /\ StopFeeding("cancelled") /\ UNCHANGED <<fed, queue>>
     \/ ~token /\ step = "store_failed" /\ StopFeeding("closed") /\ UNCHANGED <<fed, queue>>
     \/ /\ ~token /\ step # "store_failed" /\ Len(queue) < QueueCapacity
        /\ queue' = Append(queue, Item(Source[pos], Source[pos] \notin Unbuildable))
        /\ fed' = fed + 1 /\ feeder' = "gate" /\ UNCHANGED feedEnd
  /\ FeederFrame /\ UNCHANGED pos

Feeder == FeederWaits \/ FeederReads \/ FeederOffers

-----------------------------------------------------------------------------
(* The emitter: from the queue to the first write                           *)

EmitterFrame == UNCHANGED <<runVars, controlVars, feederVars>>
NothingSent  == UNCHANGED <<journal, centreVars>>

(* The item in hand ends in one of the tally's buckets.                     *)
EndsAs(bucket) == step' = "recv" /\ tally' = Counted(bucket)

MutantDrained == tally
Drained == Counted("cancelled")

Receive ==
  /\ step = "recv" /\ queue # <<>>
  /\ queue' = Tail(queue)
  /\ \/ /\ ~Head(queue).ready
        /\ EndsAs("rejected") /\ UNCHANGED item
     \/ /\ Head(queue).ready /\ stopped
        /\ step' = "recv" /\ tally' = Drained /\ UNCHANGED item
     \/ /\ Head(queue).ready /\ ~stopped
        /\ item' = Head(queue).of /\ step' = "gate" /\ UNCHANGED tally
  /\ EmitterFrame /\ NothingSent /\ UNCHANGED <<attempt, report, stopped, marked>>

(* The queue is empty and its sender has gone with the feeder.              *)
ReceiveEnds ==
  /\ step = "recv" /\ queue = <<>> /\ feeder = "done"
  /\ step' = "done"
  /\ EmitterFrame /\ NothingSent
  /\ UNCHANGED <<queue, item, attempt, report, stopped, tally, marked>>

(* A fresh campaign lets the insert answer; a resumed one asks first.       *)
FirstQuestion == IF mode = "resuming" THEN "guard" ELSE "insert"

StopEmitting == stopped' = TRUE /\ EndsAs("cancelled")

EmitterWaits ==
  /\ step = "gate"
  /\ \/ WaitEnds(TRUE) /\ StopEmitting
     \/ WaitEnds(FALSE) /\ step' \in {"window", FirstQuestion} /\ UNCHANGED <<stopped, tally>>
  /\ EmitterFrame /\ NothingSent /\ UNCHANGED <<queue, item, attempt, report, marked>>

(* await_schedule, when the daily window is closed.                         *)
AwaitWindow ==
  /\ step = "window"
  /\ \/ token /\ StopEmitting
     \/ ~token /\ step' = FirstQuestion /\ UNCHANGED <<stopped, tally>>
  /\ EmitterFrame /\ NothingSent /\ UNCHANGED <<queue, item, attempt, report, marked>>

Admitted == Admission(Policy, journal[item])

(* EmissionGuard::admit, before the insert of a resumed run or after an     *)
(* insert that found the key taken: its row is there, since no other run    *)
(* writes this campaign's.  A row is only there for a text that could be    *)
(* built, so a resend builds.                                               *)
Guard ==
  /\ step \in {"guard", "conflict"}
  /\ \/ Admitted.kind = "fresh" /\ step = "guard" /\ step' = "insert" /\ UNCHANGED <<attempt, tally>>
     \/ Admitted.kind = "skip" /\ EndsAs("skipped") /\ UNCHANGED attempt
     \/ /\ Admitted.kind = "resume"
        /\ attempt' = journal[item].attempts + 1 /\ step' = "mark"
        /\ tally' = IF Admitted.unanswered THEN Counted("reemitted") ELSE tally
  /\ EmitterFrame /\ NothingSent /\ UNCHANGED <<queue, item, report, stopped, marked>>

(* The write-ahead insert, after the text was segmented and every PDU built.*)
Insert ==
  /\ step = "insert"
  /\ \/ item \in Unencodable /\ EndsAs("failed") /\ UNCHANGED <<attempt, journal>>
     \/ /\ item \notin Unencodable /\ journal[item] # NoRow
        /\ step' = "conflict" /\ UNCHANGED <<attempt, tally, journal>>
     \/ /\ item \notin Unencodable /\ journal[item] = NoRow
        /\ journal' = [journal EXCEPT ![item] = QueuedRow]
        /\ attempt' = 1 /\ step' = "mark" /\ UNCHANGED tally
  /\ EmitterFrame /\ UNCHANGED <<queue, item, report, stopped, marked, centreVars>>

-----------------------------------------------------------------------------
(* The emitter: the attempt and its verdict                                 *)

Writes(u) == journal' = [journal EXCEPT ![item] = ApplyUpdate(@, u)]

SentRow == Update("SENT", FALSE, attempt)

(* The attempt is committed on its own, before anything reaches the socket. *)
Mark ==
  /\ step = "mark"
  /\ Writes(SentRow)
  /\ marked' = marked \cup {item} /\ step' = "submit"
  /\ EmitterFrame /\ UNCHANGED <<queue, item, attempt, report, stopped, tally, centreVars>>

(* What the socket and the message centre did with the PDU when the request *)
(* comes back: the PDU left, or the session refused it before the socket.   *)
Reported ==
  \/ /\ sent' = [sent EXCEPT ![item] = @ + 1]
     /\ \/ /\ copies' = [copies EXCEPT ![item] = @ + 1]
           /\ report' \in {"accepted", "unanswered"}
        \/ /\ UNCHANGED copies
           /\ report' \in {"busy", "fatal", "unanswered"}
  \/ report' \in {"unanswered", "not_allowed"} /\ UNCHANGED centreVars

(* The session is shut down with the request in flight: nothing resolves it *)
(* any more, the submit never returns, and cancelling does not reach it.    *)
LostInFlight ==
  /\ UNCHANGED report
  /\ \/ UNCHANGED centreVars
     \/ /\ sent' = [sent EXCEPT ![item] = @ + 1]
        /\ \E taken \in {0, 1} : copies' = [copies EXCEPT ![item] = @ + taken]

Submit ==
  /\ step = "submit"
  /\ \/ Reported /\ step' = "verdict"
     \/ LostInFlight /\ step' = "stranded"
  /\ EmitterFrame /\ UNCHANGED <<queue, item, attempt, stopped, tally, marked, journal>>

Retryable == report \in {"busy", "unanswered"}
Answered  == report \in {"accepted", "busy", "fatal"}

(* What the request tells the journal, and what RetryPolicy::decide answers *)
(* from the attempts the runner has counted.                                *)
MoreAttempts == attempt < MaxAttempts
Replays == Retryable /\ attempt < MaxAttempts

(* final_transition: a failure that will be replayed leaves the row SENT.   *)
FinalState ==
  CASE report = "accepted"       -> "ACCEPTED"
    [] Retryable /\ MoreAttempts -> "SENT"
    [] OTHER                     -> "FAILED"

(* The verdict is written, or lost with a failing journal; the tally and    *)
(* the decision to replay go by the report either way.                      *)
Verdict ==
  /\ step = "verdict"
  /\ \E journalled \in IF StoreFails THEN BOOLEAN ELSE {TRUE} :
       LET counted == IF journalled THEN tally ELSE Counted("not_journalled")
       IN  /\ IF journalled THEN Writes(Update(FinalState, Answered, 0)) ELSE UNCHANGED journal
           /\ \/ /\ report = "accepted" /\ step' = "recv"
                 /\ tally' = [counted EXCEPT !["accepted"] = @ + 1]
              \/ Replays /\ step' = "delay" /\ tally' = counted
              \/ /\ report # "accepted" /\ ~Replays
                 /\ step' = "recv" /\ tally' = [counted EXCEPT !["failed"] = @ + 1]
  /\ EmitterFrame /\ UNCHANGED <<queue, item, attempt, report, stopped, marked, centreVars>>

(* sleep_unless_cancelled, biased towards the cancellation.                 *)
RetryDelay ==
  /\ step = "delay"
  /\ \/ token /\ step' = "give_up" /\ UNCHANGED <<attempt, tally>>
     \/ ~token /\ step' = "mark" /\ attempt' = attempt + 1 /\ tally' = Counted("retried")
  /\ EmitterFrame /\ NothingSent /\ UNCHANGED <<queue, item, report, stopped, marked>>

MutantGivenUp == Update("SENT", Answered, 0)
GivenUp == Update("FAILED", Answered, 0)

GiveUp ==
  /\ step = "give_up"
  /\ \/ Writes(GivenUp) /\ EndsAs("failed")
     \/ /\ StoreFails /\ step' = "recv"
        /\ tally' = [Counted("not_journalled") EXCEPT !["failed"] = @ + 1]
        /\ UNCHANGED journal
  /\ EmitterFrame /\ UNCHANGED <<queue, item, attempt, report, stopped, marked, centreVars>>

(* The journal refuses a read, the insert or the attempt: nothing has left, *)
(* and the run stops with its receiver.                                     *)
StoreFailure ==
  /\ StoreFails /\ step \in {"guard", "conflict", "insert", "mark"}
  /\ step' = "store_failed" /\ queue' = <<>>
  /\ EmitterFrame /\ NothingSent /\ UNCHANGED <<item, attempt, report, stopped, tally, marked>>

Emitter ==
  \/ Receive \/ ReceiveEnds \/ EmitterWaits \/ AwaitWindow \/ Guard \/ Insert
  \/ Mark \/ Submit \/ Verdict \/ RetryDelay \/ GiveUp \/ StoreFailure

-----------------------------------------------------------------------------
(* The runs                                                                 *)

Zero == [b \in Buckets |-> 0]

(* A campaign may be launched again after a kill, whose row still says      *)
(* RUNNING or PAUSED, or when the status of the last run could not be       *)
(* written; campaign_start runs it as fresh, campaign_resume as resuming.   *)
Start ==
  /\ mode = "idle" /\ runs < MaxRuns
  /\ outcome \in {"none", "killed"} \/ StoreFails
  /\ mode' \in {"fresh", "resuming"} /\ runs' = runs + 1 /\ outcome' = "none"
  /\ gate' = "running" /\ token' = FALSE
  /\ feeder' = "gate" /\ pos' = 0 /\ fed' = 0 /\ feedEnd' = "none" /\ queue' = <<>>
  /\ step' = "recv" /\ stopped' = FALSE /\ tally' = Zero /\ marked' = {}
  /\ UNCHANGED <<item, attempt, report, journal, centreVars>>

ControlFrame == UNCHANGED <<runVars, feederVars, queue, emitterVars, journal, centreVars>>

Pause  == mode # "idle" /\ gate = "running" /\ gate' = "paused" /\ UNCHANGED token /\ ControlFrame
Unpause == mode # "idle" /\ gate = "paused" /\ gate' = "running" /\ UNCHANGED token /\ ControlFrame
Cancel == mode # "idle" /\ ~token /\ token' = TRUE /\ UNCHANGED gate /\ ControlFrame

MutantStatus ==
  IF step = "store_failed" THEN "FAILED"
  ELSE IF token THEN "CANCELLED"
  ELSE "COMPLETED"

(* CampaignRunner::run returns once both halves have.                       *)
Status ==
  IF step = "store_failed" THEN "FAILED"
  ELSE IF feedEnd = "cancelled" \/ token THEN "CANCELLED"
  ELSE IF feedEnd = "failed" THEN "FAILED"
  ELSE "COMPLETED"

Finish ==
  /\ mode # "idle" /\ feeder = "done" /\ step \in {"done", "store_failed"}
  /\ mode' = "idle" /\ outcome' = Status
  /\ UNCHANGED <<runs, controlVars, feederVars, queue, emitterVars, journal, centreVars>>

(* The process dies: what is left is the journal and what was sent.         *)
Kill ==
  /\ mode # "idle"
  /\ mode' = "idle" /\ outcome' = "killed"
  /\ gate' = "running" /\ token' = FALSE
  /\ feeder' = "done" /\ pos' = 0 /\ fed' = 0 /\ feedEnd' = "none" /\ queue' = <<>>
  /\ step' = "done" /\ stopped' = FALSE /\ tally' = Zero /\ marked' = {}
  /\ UNCHANGED <<runs, item, attempt, report, journal, centreVars>>

Init ==
  /\ mode = "idle" /\ runs = 0 /\ outcome = "none"
  /\ gate = "running" /\ token = FALSE
  /\ feeder = "done" /\ pos = 0 /\ fed = 0 /\ feedEnd = "none" /\ queue = <<>>
  /\ step = "done" /\ item \in Recipients /\ attempt = 0 /\ report = "unanswered"
  /\ stopped = FALSE /\ tally = Zero /\ marked = {}
  /\ journal = [r \in Recipients |-> NoRow]
  /\ sent = [r \in Recipients |-> 0] /\ copies = [r \in Recipients |-> 0]

Next ==
  \/ Feeder \/ Emitter
  \/ Start \/ Pause \/ Unpause \/ Cancel \/ Finish \/ Kill

Spec == Init /\ [][Next]_vars

(* The two halves are polled by one join!, a session that lasts answers or  *)
(* times out, and the daily window opens again.  Nothing is owed by the     *)
(* operator, nor by a session shut down with a submit in flight.            *)
Fairness ==
  /\ WF_vars(Feeder) /\ WF_vars(Emitter) /\ WF_vars(Finish)

FairSpec == Spec /\ Fairness

-----------------------------------------------------------------------------
(* Properties *)

RunTypeOK ==
  /\ mode \in {"idle", "fresh", "resuming"} /\ runs \in Nat /\ outcome \in Outcomes
  /\ gate \in {"running", "paused"} /\ token \in BOOLEAN

FeederTypeOK ==
  /\ feeder \in {"gate", "reading", "offering", "done"}
  /\ pos \in 0 .. Len(Source) /\ (feeder = "offering" => pos > 0)
  /\ fed \in Nat /\ feedEnd \in {"none", "cancelled", "failed", "exhausted", "closed"}

Items == [of : Recipients, ready : BOOLEAN]

EmitterTypeOK ==
  /\ step \in Steps /\ item \in Recipients /\ attempt \in Nat /\ report \in Reports
  /\ stopped \in BOOLEAN /\ tally \in [Buckets -> Nat] /\ marked \in SUBSET Recipients

JournalTypeOK ==
  /\ journal \in [Recipients -> Rows \cup {NoRow}]
  /\ sent \in [Recipients -> Nat] /\ copies \in [Recipients -> Nat]

TypeOK ==
  RunTypeOK /\ FeederTypeOK /\ queue \in Seq(Items) /\ EmitterTypeOK /\ JournalTypeOK

(* CA-010-02: every recipient the feeder queued is in exactly one bucket of *)
(* the tally, in the queue or in the emitter's hand; a run that ends on its *)
(* own has counted them all (runner.rs step, "would break the balance").    *)
Balance ==
  step # "store_failed" => fed = Total + Len(queue) + InHand

(* The write-ahead of the journal: nothing has left for a recipient whose   *)
(* row is missing or QUEUED, and no submit_sm leaves that the row's count   *)
(* of attempts does not cover, whatever is killed in between (sender.rs     *)
(* dispatch step 4; resume.rs, "the row carries attempts >= 2").            *)
WriteAhead ==
  \A r \in Recipients :
    /\ journal[r].state \in {"NONE", "QUEUED"} => sent[r] = 0
    /\ copies[r] <= sent[r] /\ sent[r] <= journal[r].attempts

(* What the emitter knows of the row of the message in its hand: it is open, *)
(* it counts the attempt before the submit_sm leaves, and the one before     *)
(* the attempt is marked has a smaller number.                               *)
OpenInHand ==
  LET row == journal[item] IN
  /\ step = "mark" =>
       row \in Rows /\ row.state \in {"QUEUED", "SENT"} /\ row.attempts < attempt
  /\ step \in {"submit", "stranded", "verdict", "delay", "give_up"} =>
       row \in Rows /\ row.state = "SENT" /\ row.attempts = attempt
  /\ step = "submit" => sent[item] < row.attempts
  /\ step = "verdict" /\ report = "accepted" => copies[item] > 0

JournalInv == TypeOK /\ WriteAhead /\ OpenInHand

(* The inductive invariant of a campaign: its types, its tally, its journal.*)
CampaignInv == JournalInv /\ Balance

(* CA-010-09: when a run ends, cancelled or not, every message it made an   *)
(* attempt for has its verdict, unless the journal refused to take it.      *)
RunDecides ==
  mode = "idle" /\ step = "done" /\ tally["not_journalled"] = 0
    => \A r \in marked : journal[r].state \in {"ACCEPTED", "FAILED"}

(* A run reported COMPLETED has accounted for the whole source, and leaves  *)
(* no buildable message open but those the policy abandons (runner.rs run,  *)
(* feeder.rs "has not covered its recipients").                             *)
CompletedCovers ==
  mode = "idle" /\ outcome = "COMPLETED" =>
    /\ Total = Len(Source)
    /\ tally["not_journalled"] = 0 =>
         \A i \in DOMAIN Source : LET row == journal[Source[i]] IN
           \/ Source[i] \in Unbuildable \cup Unencodable
           \/ row.state \in {"ACCEPTED", "FAILED"}
           \/ Policy = "abandon" /\ row.state = "SENT" /\ ~row.answered

(* A run ends, unless it is left paused or its session was shut down under  *)
(* a submit, which then returns to nobody: cancelling ends it from wherever *)
(* else it waits, the pause, the daily window, the retry delay or a full    *)
(* queue (CA-010-09, control.rs wait_until_running, feeder.rs run).         *)
RunEnds ==
  []<>(mode = "idle" \/ (gate = "paused" /\ ~token) \/ step = "stranded")

(* Under Abandon, a message that an earlier run left unanswered is let be:  *)
(* whatever the runs that follow meet, nothing more leaves for it and its   *)
(* row stays as it was (resume.rs, UnansweredPolicy::admit).  Within a run, *)
(* an unanswered attempt is replayed like any other.                        *)
AbandonLeavesAlone ==
  [][\A r \in Recipients \ marked :
       Policy = "abandon" /\ journal[r].state = "SENT" /\ ~journal[r].answered
         => journal'[r] = journal[r] /\ sent'[r] = sent[r]]_vars

(* What tests/campaign_invariant.rs:61 says: under Abandon, no recipient is *)
(* ever accepted twice.  It holds of one attempt per run, and not of two:   *)
(* the runner replays the attempt that was not answered.                    *)
AbandonNeverDuplicates ==
  Policy = "abandon" => \A r \in Recipients : copies[r] <= 1

(* The journal's rows as verdicts, and what the message centre took.        *)
VerdictOf(row) ==
  CASE row.state = "NONE"               -> "none"
    [] row.state \in {"QUEUED", "SENT"} -> "open"
    [] row.state = "ACCEPTED"           -> "accepted"
    [] OTHER                            -> "failed"

Verdicts == [r \in Recipients |-> VerdictOf(journal[r])]
Contract == INSTANCE MessageContract WITH verdict <- Verdicts, copies <- copies

(* The campaign keeps the contract of its messages, whatever is killed,     *)
(* resumed, lost or listed twice.                                           *)
KeepsMessageContract == Contract!ContractSpec

=============================================================================
