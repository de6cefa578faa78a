---------------------------- MODULE CampaignProofs ----------------------------
(* What holds of Campaign for every source, queue, budget and policy.        *)
EXTENDS Campaign, TLAPS

-----------------------------------------------------------------------------
(* The rows                                                                  *)

(* A row stays a row, and an update that carries a number never lowers the   *)
(* count of attempts (messages.rs apply_update).                             *)
LEMMA UpdateKeepsRow ==
  ASSUME NEW row \in Rows, NEW s \in RowStates, NEW answered \in BOOLEAN, NEW n \in Nat
  PROVE  /\ ApplyUpdate(row, Update(s, answered, n)) \in Rows
         /\ ApplyUpdate(row, Update(s, answered, n)).attempts >= row.attempts
<1> DEFINE u == Update(s, answered, n)
<1>1. u.state = s /\ u.attempt = n
  BY DEF Update
<1>2. row.answered \in BOOLEAN /\ row.attempts \in Nat
  BY DEF Rows
<1>3. u.answered \in BOOLEAN
  BY DEF Update
<1>4. (row.answered \/ u.answered) \in BOOLEAN
  BY <1>2, <1>3, Zenon
<1>5. Larger(row.attempts, u.attempt) \in Nat /\ Larger(row.attempts, u.attempt) >= row.attempts
  BY <1>1, <1>2 DEF Larger
<1>6. CASE CanMoveTo(row.state, u.state)
  <2>1. ApplyUpdate(row, u) = [state |-> s, answered |-> (row.answered \/ u.answered),
                               attempts |-> Larger(row.attempts, u.attempt)]
    BY <1>1, <1>6 DEF ApplyUpdate
  <2>2. ApplyUpdate(row, u) \in Rows
    BY <2>1, <1>4, <1>5 DEF Rows
  <2>3. ApplyUpdate(row, u).attempts >= row.attempts
    BY <2>1, <1>5
  <2> QED BY <2>2, <2>3
<1>7. CASE ~CanMoveTo(row.state, u.state)
  BY <1>2, <1>7 DEF ApplyUpdate
<1> QED BY <1>6, <1>7

(* An open row moves to the state it is told to.                             *)
LEMMA OpenRowMoves ==
  ASSUME NEW row \in Rows, row.state \in {"QUEUED", "SENT"},
         NEW s \in {"SENT", "ACCEPTED", "FAILED"}, NEW answered \in BOOLEAN, NEW n \in Nat
  PROVE  /\ ApplyUpdate(row, Update(s, answered, n)).state = s
         /\ ApplyUpdate(row, Update(s, answered, n)).attempts = Larger(row.attempts, n)
BY DEF ApplyUpdate, Update, CanMoveTo, Alive, Rank

LEMMA RowsApart ==
  /\ NoRow.state = "NONE" /\ NoRow.attempts = 0
  /\ QueuedRow \in Rows /\ QueuedRow.state = "QUEUED" /\ QueuedRow.attempts = 0
  /\ \A row \in Rows : row.state # "NONE" /\ row.attempts \in Nat
BY DEF NoRow, QueuedRow, Rows, RowStates, Alive, Terminal

-----------------------------------------------------------------------------
(* The state stays in its types                                              *)

LEMMA CountedType ==
  ASSUME EmitterTypeOK, NEW b \in Buckets
  PROVE  /\ Counted(b) \in [Buckets -> Nat]
         /\ \A d \in Buckets : Counted(b)[d] = IF d = b THEN tally[d] + 1 ELSE tally[d]
BY DEF EmitterTypeOK, Counted

LEMMA InitType == ASSUME Init PROVE TypeOK
<1>1. queue \in Seq(Items)
  BY DEF Init
<1>2. RunTypeOK /\ EmitterTypeOK
  BY DEF Init, RunTypeOK, EmitterTypeOK, Outcomes, Steps, Busy, Reports, Zero
<1>3. FeederTypeOK
  BY CampaignAssumption DEF Init, FeederTypeOK
<1>4. JournalTypeOK
  BY DEF Init, JournalTypeOK
<1> QED BY <1>1, <1>2, <1>3, <1>4 DEF TypeOK

LEMMA FeederType == ASSUME TypeOK, Feeder PROVE TypeOK'
<1> USE DEF TypeOK
<1>1. RunTypeOK' /\ EmitterTypeOK' /\ JournalTypeOK'
  BY DEF Feeder, FeederWaits, FeederReads, FeederOffers, FeederFrame, runVars, controlVars,
     emitterVars, centreVars, RunTypeOK, EmitterTypeOK, JournalTypeOK
<1>2. CASE FeederWaits
  BY <1>1, <1>2 DEF FeederWaits, StopFeeding, FeederTypeOK
<1>3. CASE FeederReads
  BY <1>1, <1>3, CampaignAssumption DEF FeederReads, SourceDry, StopFeeding, FeederTypeOK
<1>4. CASE FeederOffers
  <2>1. FeederTypeOK'
    BY <1>4 DEF FeederOffers, StopFeeding, FeederTypeOK
  <2>2. ASSUME feeder = "offering" PROVE Item(Source[pos], Source[pos] \notin Unbuildable) \in Items
    <3>1. Source[pos] \in Recipients
      BY <2>2, CampaignAssumption DEF FeederTypeOK
    <3>2. (Source[pos] \notin Unbuildable) \in BOOLEAN
      BY Zenon
    <3> QED BY <3>1, <3>2 DEF Item, Items
  <2>3. queue' \in Seq(Items)
    BY <1>4, <2>2 DEF FeederOffers
  <2> QED BY <1>1, <2>1, <2>3
<1> QED BY <1>2, <1>3, <1>4 DEF Feeder

LEMMA MembershipIsBoolean == ASSUME NEW x, NEW S PROVE (x \in S) \in BOOLEAN
OBVIOUS

(* The state and the answer a verdict writes are a state and a Boolean.      *)
LEMMA AttemptValues ==
  /\ FinalState \in {"ACCEPTED", "SENT", "FAILED"} /\ FinalState \in RowStates
  /\ Answered \in BOOLEAN
<1>1. FinalState \in {"ACCEPTED", "SENT", "FAILED"}
  BY DEF FinalState
<1>2. Answered \in BOOLEAN
  BY MembershipIsBoolean, Zenon DEF Answered
<1> QED BY <1>1, <1>2 DEF RowStates, Alive, Terminal

LEMMA WriteType ==
  ASSUME JournalTypeOK, item \in Recipients, NEW s \in RowStates, NEW answered \in BOOLEAN,
         NEW n \in Nat, Writes(Update(s, answered, n))
  PROVE  journal' \in [Recipients -> Rows \cup {NoRow}]
<1>1. ApplyUpdate(journal[item], Update(s, answered, n)) \in Rows \cup {NoRow}
  <2>1. CASE journal[item] \in Rows
    BY <2>1, UpdateKeepsRow
  <2>2. CASE journal[item] = NoRow
    BY <2>2 DEF ApplyUpdate, Update, CanMoveTo, NoRow, RowStates, Alive, Terminal
  <2> QED BY <2>1, <2>2 DEF JournalTypeOK
<1> QED BY <1>1 DEF Writes, JournalTypeOK

(* A submit that returns or is stranded: a copy is taken only of a PDU that  *)
(* left, and "accepted" is only reported of a copy that was taken.           *)
LEMMA SubmitIs ==
  ASSUME TypeOK, Submit
  PROVE  /\ step = "submit" /\ step' \in {"verdict", "stranded"} /\ report' \in Reports
         /\ EmitterFrame /\ UNCHANGED <<queue, item, attempt, stopped, tally, marked, journal>>
         /\ \/ sent' = [sent EXCEPT ![item] = @ + 1] /\ copies' = [copies EXCEPT ![item] = @ + 1]
            \/ /\ sent' = [sent EXCEPT ![item] = @ + 1] /\ copies' = copies
               /\ step' = "verdict" => report' # "accepted"
            \/ sent' = sent /\ copies' = copies /\ (step' = "verdict" => report' # "accepted")
<1>1. copies \in [Recipients -> Nat] /\ item \in Recipients /\ report \in Reports
  BY DEF TypeOK, EmitterTypeOK, JournalTypeOK
<1>2. [copies EXCEPT ![item] = @ + 0] = copies
  BY <1>1
<1>3. /\ step = "submit" /\ EmitterFrame
      /\ UNCHANGED <<queue, item, attempt, stopped, tally, marked, journal>>
  BY DEF Submit
<1>4. CASE Reported /\ step' = "verdict"
  BY <1>3, <1>4 DEF Reported, Reports, centreVars
<1>5. CASE LostInFlight /\ step' = "stranded"
  <2>1. report' \in Reports
    BY <1>1, <1>5 DEF LostInFlight
  <2>2. \/ sent' = sent /\ copies' = copies
        \/ /\ sent' = [sent EXCEPT ![item] = @ + 1]
           /\ copies' = copies \/ copies' = [copies EXCEPT ![item] = @ + 1]
    BY <1>2, <1>5 DEF LostInFlight, centreVars
  <2> QED BY <1>3, <1>5, <2>1, <2>2
<1> QED BY <1>4, <1>5 DEF Submit

LEMMA EmitterType == ASSUME TypeOK, Emitter PROVE TypeOK'
<1> USE DEF TypeOK
<1>1. RunTypeOK' /\ FeederTypeOK'
  BY DEF Emitter, Receive, ReceiveEnds, EmitterWaits, AwaitWindow, Guard, Insert, Mark, Submit,
     Verdict, RetryDelay, GiveUp, StoreFailure, EmitterFrame, runVars, controlVars, feederVars,
     RunTypeOK, FeederTypeOK
<1> DEFINE Frame == UNCHANGED <<report, stopped, marked>>
<1>2. \A b \in Buckets : Counted(b) \in [Buckets -> Nat]
  BY CountedType
<1>3. {"accepted", "failed", "rejected", "skipped", "cancelled", "retried", "reemitted",
       "not_journalled"} = Buckets
  BY DEF Buckets, Covered
<1>4. CASE Receive
  <2>1. Head(queue) \in Items /\ Tail(queue) \in Seq(Items)
    BY <1>4 DEF Receive
  <2>2. JournalTypeOK'
    BY <1>4 DEF Receive, NothingSent, centreVars, JournalTypeOK
  <2>3. EmitterTypeOK'
    BY <1>2, <1>3, <1>4, <2>1 DEF Receive, EndsAs, Drained, EmitterTypeOK, Items, Steps, Busy
  <2> QED BY <1>1, <1>4, <2>1, <2>2, <2>3 DEF Receive
<1>5. CASE ReceiveEnds \/ EmitterWaits \/ AwaitWindow
  <2>1. JournalTypeOK' /\ UNCHANGED queue
    BY <1>5 DEF ReceiveEnds, EmitterWaits, AwaitWindow, NothingSent, centreVars, JournalTypeOK
  <2>2. EmitterTypeOK'
    BY <1>2, <1>3, <1>5 DEF ReceiveEnds, EmitterWaits, AwaitWindow, StopEmitting, EndsAs,
       FirstQuestion, EmitterTypeOK, Steps, Busy
  <2> QED BY <1>1, <2>1, <2>2
<1>6. CASE Guard
  <2>1. JournalTypeOK' /\ UNCHANGED queue
    BY <1>6 DEF Guard, NothingSent, centreVars, JournalTypeOK
  <2>2. journal[item].attempts \in Nat
    BY RowsApart DEF JournalTypeOK, EmitterTypeOK
  <2>3. attempt' \in Nat
    BY <1>6, <2>2 DEF Guard, EmitterTypeOK
  <2>4. tally' \in [Buckets -> Nat]
    BY <1>2, <1>3, <1>6 DEF Guard, EndsAs, EmitterTypeOK
  <2>5. step' \in Steps
    BY <1>6 DEF Guard, EndsAs, Steps, Busy
  <2>6. EmitterTypeOK'
    BY <1>6, <2>3, <2>4, <2>5 DEF Guard, EmitterTypeOK
  <2> QED BY <1>1, <2>1, <2>6
<1>7. CASE Insert
  <2>1. JournalTypeOK' /\ UNCHANGED queue
    BY <1>7, RowsApart DEF Insert, centreVars, JournalTypeOK
  <2>2. EmitterTypeOK'
    BY <1>2, <1>3, <1>7 DEF Insert, EndsAs, EmitterTypeOK, Steps, Busy
  <2> QED BY <1>1, <2>1, <2>2
<1>8. CASE Mark
  <2>1. UNCHANGED queue /\ EmitterTypeOK'
    BY <1>8 DEF Mark, EmitterTypeOK, Steps, Busy
  <2>2. Writes(Update("SENT", FALSE, attempt)) /\ UNCHANGED centreVars
    BY <1>8 DEF Mark, SentRow
  <2>3. JournalTypeOK'
    BY <2>2, WriteType DEF EmitterTypeOK, RowStates, Alive, centreVars, JournalTypeOK
  <2> QED BY <1>1, <2>1, <2>3
<1>9. CASE Submit
  <2>1. UNCHANGED queue /\ EmitterTypeOK'
    BY <1>9, SubmitIs DEF EmitterTypeOK, Steps, Busy
  <2>2. JournalTypeOK'
    <3>1. journal' = journal
      BY <1>9 DEF Submit
    <3>2. sent' \in [Recipients -> Nat] /\ copies' \in [Recipients -> Nat]
      <4>1. \/ sent' = [sent EXCEPT ![item] = @ + 1] /\ copies' = [copies EXCEPT ![item] = @ + 1]
            \/ sent' = [sent EXCEPT ![item] = @ + 1] /\ copies' = copies
            \/ sent' = sent /\ copies' = copies
        BY <1>9, SubmitIs
      <4>2. /\ sent \in [Recipients -> Nat] /\ copies \in [Recipients -> Nat]
            /\ [sent EXCEPT ![item] = @ + 1] \in [Recipients -> Nat]
            /\ [copies EXCEPT ![item] = @ + 1] \in [Recipients -> Nat]
        BY DEF EmitterTypeOK, JournalTypeOK
      <4> QED BY <4>1, <4>2
    <3> QED BY <3>1, <3>2 DEF JournalTypeOK
  <2> QED BY <1>1, <2>1, <2>2
<1>10. CASE Verdict
  <2>1. UNCHANGED queue
    BY <1>10 DEF Verdict
  <2>2. PICK journalled \in BOOLEAN :
          LET counted == IF journalled THEN tally ELSE Counted("not_journalled")
          IN  /\ IF journalled THEN Writes(Update(FinalState, Answered, 0)) ELSE UNCHANGED journal
              /\ \/ /\ report = "accepted" /\ step' = "recv"
                    /\ tally' = [counted EXCEPT !["accepted"] = @ + 1]
                 \/ Replays /\ step' = "delay" /\ tally' = counted
                 \/ /\ report # "accepted" /\ ~Replays
                    /\ step' = "recv" /\ tally' = [counted EXCEPT !["failed"] = @ + 1]
    BY <1>10 DEF Verdict
  <2>3. JournalTypeOK'
    <3>1. FinalState \in RowStates /\ Answered \in BOOLEAN
      BY AttemptValues
    <3>2. CASE journalled
      BY <1>10, <2>2, <3>1, <3>2, WriteType DEF Verdict, EmitterTypeOK, centreVars, JournalTypeOK
    <3>3. CASE ~journalled
      BY <1>10, <2>2, <3>3 DEF Verdict, centreVars, JournalTypeOK
    <3> QED BY <3>2, <3>3
  <2>4. EmitterTypeOK'
    <3> DEFINE counted == IF journalled THEN tally ELSE Counted("not_journalled")
    <3>1. counted \in [Buckets -> Nat]
      BY <1>2, <1>3 DEF EmitterTypeOK
    <3>2. /\ \/ tally' = [counted EXCEPT !["accepted"] = @ + 1]
             \/ tally' = counted
             \/ tally' = [counted EXCEPT !["failed"] = @ + 1]
          /\ step' \in {"recv", "delay"}
      BY <2>2
    <3>3. "accepted" \in Buckets /\ "failed" \in Buckets
      BY <1>3
    <3> HIDE DEF counted
    <3>4. tally' \in [Buckets -> Nat]
      BY <3>1, <3>2, <3>3
    <3> QED BY <1>10, <3>2, <3>4 DEF Verdict, EmitterTypeOK, Steps, Busy
  <2> QED BY <1>1, <2>1, <2>3, <2>4
<1>11. CASE RetryDelay
  <2>1. UNCHANGED queue /\ JournalTypeOK'
    BY <1>11 DEF RetryDelay, NothingSent, centreVars, JournalTypeOK
  <2>2. EmitterTypeOK'
    BY <1>2, <1>3, <1>11 DEF RetryDelay, EmitterTypeOK, Steps, Busy
  <2> QED BY <1>1, <2>1, <2>2
<1>12. CASE GiveUp
  <2>1. UNCHANGED queue
    BY <1>12 DEF GiveUp
  <2>2. JournalTypeOK'
    <3>1. CASE Writes(Update("FAILED", Answered, 0))
      BY <1>12, <3>1, WriteType, AttemptValues
      DEF GiveUp, EmitterTypeOK, RowStates, Terminal, centreVars, JournalTypeOK
    <3>2. CASE UNCHANGED journal
      BY <1>12, <3>2 DEF GiveUp, centreVars, JournalTypeOK
    <3> QED BY <1>12, <3>1, <3>2 DEF GiveUp, GivenUp
  <2>3. EmitterTypeOK'
    <3>1. Counted("not_journalled") \in [Buckets -> Nat] /\ "failed" \in Buckets
      BY <1>2, <1>3
    <3>2. [Counted("not_journalled") EXCEPT !["failed"] = @ + 1] \in [Buckets -> Nat]
      BY <3>1
    <3> QED BY <1>2, <1>3, <1>12, <3>2 DEF GiveUp, EndsAs, EmitterTypeOK, Steps, Busy
  <2> QED BY <1>1, <2>1, <2>2, <2>3
<1>13. CASE StoreFailure
  <2>1. queue' \in Seq(Items) /\ EmitterTypeOK'
    BY <1>13 DEF StoreFailure, EmitterTypeOK, Steps, Busy
  <2>2. JournalTypeOK'
    BY <1>13 DEF StoreFailure, NothingSent, centreVars, JournalTypeOK
  <2> QED BY <1>1, <2>1, <2>2
<1> QED
  BY <1>4, <1>5, <1>6, <1>7, <1>8, <1>9, <1>10, <1>11, <1>12, <1>13 DEF Emitter

(* Launching a run and losing the process both leave nothing of the last    *)
(* run behind but the journal and what was sent.                            *)
LEMMA Wiped ==
  ASSUME Start \/ Kill
  PROVE  /\ queue' = <<>> /\ feeder' \in {"gate", "done"} /\ pos' = 0 /\ fed' = 0
         /\ feedEnd' = "none" /\ step' \in {"recv", "done"} /\ stopped' = FALSE
         /\ tally' = Zero /\ marked' = {} /\ UNCHANGED <<item, attempt, report, journal, sent, copies>>
         /\ mode' \in {"idle", "fresh", "resuming"} /\ outcome' \in {"none", "killed"}
         /\ gate' = "running" /\ token' = FALSE /\ (runs' = runs \/ runs' = runs + 1)
<1>1. CASE Start
  BY <1>1, Zenon DEF Start, centreVars
<1>2. CASE Kill
  BY <1>2, Zenon DEF Kill, centreVars
<1> QED BY <1>1, <1>2

LEMMA NextType == ASSUME TypeOK, [Next]_vars PROVE TypeOK'
<1>1. CASE Feeder
  BY <1>1, FeederType
<1>2. CASE Emitter
  BY <1>2, EmitterType
<1>3. CASE Start \/ Kill
  <2>1. /\ queue' = <<>> /\ feeder' \in {"gate", "done"} /\ pos' = 0 /\ fed' = 0
        /\ feedEnd' = "none" /\ step' \in {"recv", "done"} /\ stopped' = FALSE
        /\ tally' = Zero /\ marked' = {} /\ UNCHANGED <<item, attempt, report, journal, sent, copies>>
        /\ mode' \in {"idle", "fresh", "resuming"} /\ outcome' \in {"none", "killed"}
        /\ gate' = "running" /\ token' = FALSE /\ (runs' = runs \/ runs' = runs + 1)
    BY Wiped, <1>3
  <2>2. queue' \in Seq(Items)
    BY <2>1
  <2>3. RunTypeOK'
    <3>1. runs' \in Nat
      BY <2>1 DEF TypeOK, RunTypeOK
    <3>2. mode' \in {"idle", "fresh", "resuming"} /\ outcome' \in Outcomes
      BY <2>1 DEF Outcomes
    <3>3. gate' \in {"running", "paused"} /\ token' \in BOOLEAN
      BY <2>1
    <3> QED BY <3>1, <3>2, <3>3 DEF RunTypeOK
  <2>4. EmitterTypeOK'
    BY <2>1 DEF TypeOK, EmitterTypeOK, Zero, Steps
  <2>5. JournalTypeOK'
    BY <2>1 DEF TypeOK, JournalTypeOK
  <2>6. FeederTypeOK'
    BY <2>1, CampaignAssumption DEF FeederTypeOK
  <2> QED BY <2>2, <2>3, <2>4, <2>5, <2>6 DEF TypeOK
<1>4. CASE Pause \/ Unpause \/ Cancel
  BY ZenonT(40), <1>4 DEF Pause, Unpause, Cancel, ControlFrame, TypeOK, RunTypeOK, FeederTypeOK, EmitterTypeOK,
     JournalTypeOK, runVars, feederVars, emitterVars, centreVars
<1>5. CASE Finish
  BY <1>5 DEF Finish, Status, TypeOK, RunTypeOK, FeederTypeOK, EmitterTypeOK,
     JournalTypeOK, controlVars, feederVars, emitterVars, centreVars, Outcomes
<1>6. CASE UNCHANGED vars
  BY <1>6 DEF vars, TypeOK, RunTypeOK, FeederTypeOK, EmitterTypeOK, JournalTypeOK, runVars,
     controlVars, feederVars, emitterVars, centreVars
<1> QED BY <1>1, <1>2, <1>3, <1>4, <1>5, <1>6 DEF Next

(* Every value a campaign keeps stays in its type, the position in the       *)
(* source and the counters included.                                         *)
THEOREM CampaignTypeOK == Spec => []TypeOK
<1>1. Init => TypeOK
  BY InitType
<1>2. TypeOK /\ [Next]_vars => TypeOK'
  BY NextType
<1> QED BY <1>1, <1>2, PTL DEF Spec

-----------------------------------------------------------------------------
(* Every queued recipient is counted once                                    *)

(* Filling a bucket adds one to the total, or nothing when the bucket counts *)
(* something else than a recipient.                                          *)
LEMMA TotalGrows ==
  ASSUME NEW t \in [Buckets -> Nat], NEW b \in Buckets
  PROVE  /\ b \in Covered => TotalOf([t EXCEPT ![b] = @ + 1]) = TotalOf(t) + 1
         /\ b \notin Covered => TotalOf([t EXCEPT ![b] = @ + 1]) = TotalOf(t)
BY DEF TotalOf, Buckets, Covered

LEMMA TotalIsNat == ASSUME NEW t \in [Buckets -> Nat] PROVE TotalOf(t) \in Nat
BY DEF TotalOf, Buckets, Covered

LEMMA BalanceInit == ASSUME Init PROVE Balance
BY DEF Init, Balance, Total, TotalOf, InHand, Zero, Buckets, Covered, Busy

(* The feeder pushes one item and counts it in the same step.                *)
LEMMA FeederBalance == ASSUME TypeOK, Balance, Feeder PROVE Balance'
<1>1. UNCHANGED <<tally, step>>
  BY DEF Feeder, FeederWaits, FeederReads, FeederOffers, FeederFrame, emitterVars
<1>2. \/ UNCHANGED <<fed, queue>>
      \/ fed' = fed + 1 /\ queue' = Append(queue, Item(Source[pos], Source[pos] \notin Unbuildable))
  BY DEF Feeder, FeederWaits, FeederReads, FeederOffers
<1>3. TotalOf(tally) \in Nat /\ Len(queue) \in Nat /\ fed \in Nat /\ queue \in Seq(Items)
  BY TotalIsNat DEF TypeOK, EmitterTypeOK, FeederTypeOK
<1>4. CASE UNCHANGED <<fed, queue>>
  BY <1>1, <1>4 DEF Balance, Total, InHand
<1>5. CASE /\ fed' = fed + 1
           /\ queue' = Append(queue, Item(Source[pos], Source[pos] \notin Unbuildable))
  <2>1. Len(queue') = Len(queue) + 1
    BY <1>3, <1>5
  <2> QED BY <1>1, <1>3, <1>5, <2>1 DEF Balance, Total, InHand
<1> QED BY <1>2, <1>4, <1>5

(* The item leaves the queue for the hand, or for a bucket.                  *)
LEMMA EmitterBalance == ASSUME TypeOK, Balance, Emitter PROVE Balance'
<1>0. UNCHANGED fed
  BY DEF Emitter, Receive, ReceiveEnds, EmitterWaits, AwaitWindow, Guard, Insert, Mark,
     Submit, Verdict, RetryDelay, GiveUp, StoreFailure, EmitterFrame, feederVars
<1>1. UNCHANGED fed /\ fed \in Nat /\ tally \in [Buckets -> Nat] /\ Total \in Nat
      /\ Len(queue) \in Nat
  BY <1>0, TotalIsNat DEF TypeOK, EmitterTypeOK, FeederTypeOK, Total
<1>5. /\ {"accepted", "failed", "rejected", "skipped", "cancelled"} = Covered
      /\ {"retried", "reemitted", "not_journalled"} = Buckets \ Covered
  BY DEF Buckets, Covered
<1>2. \A b \in Covered : tally' = Counted(b) => Total' = Total + 1
  BY <1>1, TotalGrows DEF Counted, Total, Buckets
<1>3. \A b \in Buckets \ Covered : tally' = Counted(b) => Total' = Total
  BY <1>1, TotalGrows DEF Counted, Total
<1>4. tally' = tally => Total' = Total
  BY DEF Total
<1> USE DEF Balance
<1>6. CASE Receive
  <2>1. Len(queue') = Len(queue) - 1 /\ InHand = 0
    BY <1>6 DEF Receive, TypeOK, InHand, Busy
  <2>2. CASE (tally' = Counted("rejected") \/ tally' = Counted("cancelled")) /\ step' = "recv"
    <3>1. Total' = Total + 1
      BY <1>2, <1>5, <2>2
    <3> QED BY <1>1, <1>6, <2>1, <2>2, <3>1 DEF Receive, InHand, Busy
  <2>3. CASE tally' = tally /\ step' = "gate"
    BY <1>1, <1>4, <1>6, <2>1, <2>3 DEF Receive, InHand, Busy
  <2> QED BY <1>6, <2>2, <2>3 DEF Receive, EndsAs, Drained
<1>7. CASE ReceiveEnds
  BY <1>1, <1>4, <1>7 DEF ReceiveEnds, InHand, Busy
<1>8. ASSUME NEW b \in Covered, EndsAs(b), step \in Busy, UNCHANGED queue PROVE Balance'
  <2>1. Total' = Total + 1 /\ step' = "recv"
    BY <1>2, <1>8 DEF EndsAs
  <2> QED BY <1>1, <1>8, <2>1 DEF InHand, Busy
<1>9. ASSUME Total' = Total, step \in Busy, step' \in Busy, UNCHANGED queue PROVE Balance'
  BY <1>1, <1>9 DEF InHand, Busy
<1>10. CASE EmitterWaits \/ AwaitWindow
  <2>1. step \in Busy /\ UNCHANGED queue
    BY <1>10 DEF EmitterWaits, AwaitWindow, Busy
  <2>2. CASE StopEmitting
    BY <1>5, <1>8, <2>1, <2>2 DEF StopEmitting
  <2>3. CASE UNCHANGED tally /\ step' \in Busy
    BY <1>4, <1>9, <2>1, <2>3
  <2> QED BY <1>10, <2>2, <2>3 DEF EmitterWaits, AwaitWindow, FirstQuestion, Busy
<1>11. CASE Guard \/ Insert
  <2>1. step \in Busy /\ UNCHANGED queue
    BY <1>11 DEF Guard, Insert, Busy
  <2>2. CASE EndsAs("skipped") \/ EndsAs("failed")
    BY <1>5, <1>8, <2>1, <2>2
  <2>3. CASE step' \in Busy /\ (UNCHANGED tally \/ tally' = Counted("reemitted"))
    BY <1>3, <1>4, <1>5, <1>9, <2>1, <2>3
  <2> QED BY <1>11, <2>2, <2>3 DEF Guard, Insert, Busy
<1>12. CASE Mark \/ Submit
  BY <1>4, <1>9, <1>12 DEF Mark, Submit, Busy
<1>13. CASE RetryDelay
  BY <1>3, <1>4, <1>5, <1>9, <1>13 DEF RetryDelay, Busy
<1>14. CASE Verdict \/ GiveUp
  <2>1. step \in Busy /\ UNCHANGED queue
    BY <1>14 DEF Verdict, GiveUp, Busy
  <2>2. \E t \in {tally, Counted("not_journalled")} :
           \/ tally' = t /\ step' = "delay"
           \/ tally' = [t EXCEPT !["accepted"] = @ + 1] /\ step' = "recv"
           \/ tally' = [t EXCEPT !["failed"] = @ + 1] /\ step' = "recv"
    <3>1. CASE Verdict
      BY <3>1 DEF Verdict
    <3>2. CASE GiveUp
      BY <3>2 DEF GiveUp, EndsAs, Counted
    <3> QED BY <1>14, <3>1, <3>2
  <2>3. PICK t \in {tally, Counted("not_journalled")} :
           \/ tally' = t /\ step' = "delay"
           \/ tally' = [t EXCEPT !["accepted"] = @ + 1] /\ step' = "recv"
           \/ tally' = [t EXCEPT !["failed"] = @ + 1] /\ step' = "recv"
    BY <2>2
  <2>4. t \in [Buckets -> Nat] /\ TotalOf(t) = Total
    BY <1>1, <1>5, <2>3, TotalGrows DEF Counted, Total
  <2>5. CASE tally' = t /\ step' = "delay"
    BY <1>9, <2>1, <2>4, <2>5 DEF Total, Busy
  <2>6. CASE /\ step' = "recv"
             /\ \/ tally' = [t EXCEPT !["accepted"] = @ + 1]
                \/ tally' = [t EXCEPT !["failed"] = @ + 1]
    <3>1. Total' = Total + 1
      <4>1. "accepted" \in Covered /\ "failed" \in Covered /\ Covered \subseteq Buckets
        BY <1>5 DEF Buckets
      <4>2. /\ TotalOf([t EXCEPT !["accepted"] = @ + 1]) = TotalOf(t) + 1
            /\ TotalOf([t EXCEPT !["failed"] = @ + 1]) = TotalOf(t) + 1
        BY <2>4, <4>1, TotalGrows
      <4>3. Total' = TotalOf(tally')
        BY DEF Total
      <4> QED BY <2>4, <2>6, <4>2, <4>3
    <3> QED BY <1>1, <2>1, <2>6, <3>1 DEF InHand, Busy
  <2> QED BY <2>3, <2>5, <2>6
<1>15. CASE StoreFailure
  BY <1>15 DEF StoreFailure
<1> QED
  BY <1>6, <1>7, <1>10, <1>11, <1>12, <1>13, <1>14, <1>15 DEF Emitter

(* CA-010-02: no recipient the feeder queued is lost or counted twice,       *)
(* however the run is paused, cancelled or cut short.                        *)
THEOREM CampaignBalance == Spec => []Balance
<1>1. Init => TypeOK /\ Balance
  BY InitType, BalanceInit
<1>2. TypeOK /\ Balance /\ [Next]_vars => (TypeOK /\ Balance)'
  <2> SUFFICES ASSUME TypeOK, Balance, [Next]_vars PROVE TypeOK' /\ Balance'
    OBVIOUS
  <2>1. TypeOK'
    BY NextType
  <2>2. CASE Feeder
    BY <2>1, <2>2, FeederBalance
  <2>3. CASE Emitter
    BY <2>1, <2>3, EmitterBalance
  <2>4. CASE Start \/ Kill
    <3>1. /\ queue' = <<>> /\ tally' = Zero /\ fed' = 0 /\ step' \in {"recv", "done"}
      BY <2>4, Wiped
    <3>2. TotalOf(Zero) = 0
      BY DEF TotalOf, Zero, Buckets, Covered
    <3> QED BY <2>1, <3>1, <3>2 DEF Balance, Total, InHand, Busy
  <2>5. CASE Pause \/ Unpause \/ Cancel \/ Finish
    BY <2>1, <2>5 DEF Pause, Unpause, Cancel, Finish, ControlFrame, Balance, Total, InHand, feederVars,
       emitterVars
  <2>6. CASE UNCHANGED vars
    BY <2>1, <2>6 DEF vars, Balance, Total, InHand, feederVars, emitterVars
  <2> QED BY <2>1, <2>2, <2>3, <2>4, <2>5, <2>6 DEF Next
<1> QED BY <1>1, <1>2, PTL DEF Spec

-----------------------------------------------------------------------------
(* The write-ahead and the contract of the messages                          *)

LEMMA JournalInit == ASSUME Init PROVE JournalInv
<1>1. WriteAhead
  BY RowsApart DEF Init, WriteAhead
<1>2. OpenInHand
  BY DEF Init, OpenInHand
<1> QED BY <1>1, <1>2, InitType DEF JournalInv

(* A step that leaves the journal and the message centre alone.              *)
LEMMA NothingWritten ==
  ASSUME JournalInv, TypeOK', UNCHANGED <<journal, sent, copies>>, OpenInHand'
  PROVE  JournalInv'
BY DEF JournalInv, WriteAhead

(* A write of an open row, whose number covers what was sent.                *)
LEMMA WriteCovers ==
  ASSUME JournalInv, TypeOK', UNCHANGED <<sent, copies>>, journal[item] \in Rows,
         journal[item].state \in {"QUEUED", "SENT"},
         NEW s \in {"SENT", "ACCEPTED", "FAILED"}, NEW answered \in BOOLEAN, NEW n \in Nat,
         Writes(Update(s, answered, n)), UNCHANGED item
  PROVE  /\ WriteAhead'
         /\ journal'[item] \in Rows /\ journal'[item].state = s
         /\ journal'[item].attempts = Larger(journal[item].attempts, n)
         /\ \A r \in Recipients \ {item} : journal'[r] = journal[r]
<1>1. item \in Recipients /\ journal \in [Recipients -> Rows \cup {NoRow}]
  BY DEF JournalInv, TypeOK, EmitterTypeOK, JournalTypeOK
<1>2. journal'[item] = ApplyUpdate(journal[item], Update(s, answered, n))
  BY <1>1 DEF Writes
<1>3. \A r \in Recipients \ {item} : journal'[r] = journal[r]
  BY <1>1 DEF Writes
<1>4. /\ journal'[item].state = s
      /\ journal'[item].attempts = Larger(journal[item].attempts, n)
  BY <1>2, OpenRowMoves
<1>5. s \in RowStates
  BY DEF RowStates, Alive, Terminal
<1>6. journal'[item] \in Rows /\ journal'[item].attempts >= journal[item].attempts
  BY <1>2, <1>5, UpdateKeepsRow
<1>7. /\ copies[item] <= sent[item] /\ sent[item] <= journal[item].attempts
      /\ copies[item] \in Nat /\ sent[item] \in Nat /\ journal[item].attempts \in Nat
      /\ journal'[item].attempts \in Nat
  BY <1>1, <1>6 DEF JournalInv, TypeOK, WriteAhead, JournalTypeOK, Rows
<1>8. WriteAhead'
  <2> SUFFICES ASSUME NEW r \in Recipients
               PROVE  /\ journal'[r].state \in {"NONE", "QUEUED"} => sent[r] = 0
                      /\ copies[r] <= sent[r] /\ sent[r] <= journal'[r].attempts
    BY DEF WriteAhead
  <2>1. CASE r = item
    BY <1>4, <1>6, <1>7, <2>1
  <2>2. CASE r # item
    BY <1>3, <2>2 DEF JournalInv, WriteAhead
  <2> QED BY <2>1, <2>2
<1> QED BY <1>3, <1>4, <1>6, <1>8

LEMMA EmitterJournal == ASSUME JournalInv, Emitter PROVE JournalInv'
<1>1. TypeOK'
  BY EmitterType DEF JournalInv
<1>2. item \in Recipients /\ journal \in [Recipients -> Rows \cup {NoRow}] /\ attempt \in Nat
      /\ sent \in [Recipients -> Nat] /\ copies \in [Recipients -> Nat]
  BY DEF JournalInv, TypeOK, EmitterTypeOK, JournalTypeOK
<1>3. CASE Receive \/ ReceiveEnds \/ EmitterWaits \/ AwaitWindow \/ StoreFailure
  <2>1. UNCHANGED <<journal, sent, copies>>
    BY <1>3 DEF Receive, ReceiveEnds, EmitterWaits, AwaitWindow, StoreFailure, NothingSent, centreVars
  <2>2. step' \in {"recv", "gate", "done", "window", "guard", "insert", "store_failed"}
    BY <1>3 DEF Receive, ReceiveEnds, EmitterWaits, AwaitWindow, StoreFailure, EndsAs, StopEmitting,
       FirstQuestion
  <2> QED BY <1>1, <2>1, <2>2, NothingWritten DEF OpenInHand
<1>4. CASE Guard
  <2>1. UNCHANGED <<journal, sent, copies, item>>
    BY <1>4 DEF Guard, NothingSent, centreVars
  <2>2. CASE Admitted.kind = "resume" /\ attempt' = journal[item].attempts + 1 /\ step' = "mark"
    <3>1. journal[item].state \in {"QUEUED", "SENT"}
      BY <2>2 DEF Admitted, Admission, Fresh, Skip
    <3>2. journal[item] \in Rows /\ journal[item].attempts \in Nat
      BY <1>2, <3>1, RowsApart
    <3> QED BY <1>1, <2>1, <2>2, <3>1, <3>2, NothingWritten DEF OpenInHand
  <2>3. CASE step' \in {"insert", "recv"}
    BY <1>1, <2>1, <2>3, NothingWritten DEF OpenInHand
  <2> QED BY <1>4, <2>2, <2>3 DEF Guard, EndsAs
<1>5. CASE Insert
  <2>1. UNCHANGED <<sent, copies, item>>
    BY <1>5 DEF Insert, centreVars
  <2>2. CASE UNCHANGED journal /\ step' \in {"recv", "conflict"}
    BY <1>1, <2>1, <2>2, NothingWritten DEF OpenInHand
  <2>3. CASE /\ journal[item] = NoRow /\ journal' = [journal EXCEPT ![item] = QueuedRow]
             /\ attempt' = 1 /\ step' = "mark"
    <3>1. sent[item] = 0 /\ copies[item] <= sent[item]
      BY <1>2, <2>3, RowsApart DEF JournalInv, WriteAhead
    <3>2. journal'[item] = QueuedRow /\ \A r \in Recipients \ {item} : journal'[r] = journal[r]
      BY <1>2, <2>3
    <3>3. WriteAhead'
      BY <1>2, <2>1, <3>1, <3>2, RowsApart DEF JournalInv, WriteAhead
    <3>4. OpenInHand'
      BY <1>2, <2>1, <2>3, <3>2, RowsApart DEF OpenInHand
    <3> QED BY <1>1, <3>3, <3>4 DEF JournalInv
  <2> QED BY <1>5, <2>2, <2>3 DEF Insert, EndsAs
<1>6. CASE Mark
  <2>1. /\ journal[item] \in Rows /\ journal[item].state \in {"QUEUED", "SENT"}
        /\ journal[item].attempts < attempt
    BY <1>6 DEF Mark, JournalInv, OpenInHand
  <2>2. UNCHANGED <<sent, copies, item, attempt>> /\ step' = "submit"
        /\ Writes(Update("SENT", FALSE, attempt))
    BY <1>6 DEF Mark, SentRow, centreVars
  <2>3. /\ WriteAhead' /\ journal'[item] \in Rows /\ journal'[item].state = "SENT"
        /\ journal'[item].attempts = Larger(journal[item].attempts, attempt)
    BY <1>1, <1>2, <2>1, <2>2, WriteCovers
  <2>4. Larger(journal[item].attempts, attempt) = attempt
    BY <2>1 DEF Larger
  <2>5. sent[item] < attempt
    BY <1>2, <2>1 DEF JournalInv, WriteAhead, Rows
  <2> QED BY <1>1, <2>2, <2>3, <2>4, <2>5 DEF JournalInv, OpenInHand
<1>7. CASE Submit
  <2>1. /\ journal[item] \in Rows /\ journal[item].state = "SENT"
        /\ journal[item].attempts = attempt /\ sent[item] < journal[item].attempts
    BY <1>7 DEF Submit, JournalInv, OpenInHand
  <2>2. UNCHANGED <<journal, item, attempt>> /\ step' \in {"verdict", "stranded"}
    BY <1>7 DEF Submit
  <2>3. copies[item] <= sent[item] /\ copies[item] \in Nat /\ sent[item] \in Nat
    BY <1>2 DEF JournalInv, WriteAhead
  <2>4. \/ sent' = [sent EXCEPT ![item] = @ + 1] /\ copies' = [copies EXCEPT ![item] = @ + 1]
        \/ /\ sent' = [sent EXCEPT ![item] = @ + 1] /\ copies' = copies
           /\ step' = "verdict" => report' # "accepted"
        \/ sent' = sent /\ copies' = copies /\ (step' = "verdict" => report' # "accepted")
    BY <1>7, SubmitIs DEF JournalInv
  <2>5. /\ copies'[item] <= sent'[item] /\ sent'[item] <= journal[item].attempts
        /\ step' = "verdict" /\ report' = "accepted" => copies'[item] > 0
        /\ \A r \in Recipients \ {item} : sent'[r] = sent[r] /\ copies'[r] = copies[r]
    <3>1. journal[item].attempts \in Nat
      BY <2>1 DEF Rows
    <3> QED BY <1>2, <2>1, <2>3, <2>4, <3>1
  <2>6. WriteAhead'
    BY <1>2, <2>1, <2>2, <2>5 DEF JournalInv, WriteAhead
  <2>7. OpenInHand'
    BY <2>1, <2>2, <2>5 DEF OpenInHand
  <2> QED BY <1>1, <2>6, <2>7 DEF JournalInv
<1>8. CASE Verdict \/ GiveUp
  <2>1. journal[item] \in Rows /\ journal[item].state = "SENT" /\ journal[item].attempts = attempt
    BY <1>8 DEF Verdict, GiveUp, JournalInv, OpenInHand
  <2>2. UNCHANGED <<sent, copies, item, attempt>>
    BY <1>8 DEF Verdict, GiveUp, centreVars
  <2>3. \/ UNCHANGED journal
        \/ \E s \in {"SENT", "ACCEPTED", "FAILED"} :
             Writes(Update(s, Answered, 0)) /\ (step' = "delay" => s = "SENT")
    <3>1. CASE Verdict
      <4>1. step' = "delay" => FinalState = "SENT"
        BY <3>1 DEF Verdict, FinalState, MoreAttempts, Replays, Retryable
      <4> QED BY <3>1, <4>1, AttemptValues DEF Verdict
    <3>2. CASE GiveUp
      BY <3>2 DEF GiveUp, GivenUp, EndsAs
    <3> QED BY <1>8, <3>1, <3>2
  <2>4. step' \in {"recv", "delay"}
    BY <1>8 DEF Verdict, GiveUp, EndsAs
  <2>5. CASE UNCHANGED journal
    BY <1>1, <2>1, <2>2, <2>4, <2>5, NothingWritten DEF OpenInHand
  <2>6. ASSUME NEW s \in {"SENT", "ACCEPTED", "FAILED"}, Writes(Update(s, Answered, 0)),
               step' = "delay" => s = "SENT"
        PROVE  JournalInv'
    <3>1. /\ WriteAhead' /\ journal'[item] \in Rows /\ journal'[item].state = s
          /\ journal'[item].attempts = Larger(journal[item].attempts, 0)
      BY <1>1, <2>1, <2>2, <2>6, WriteCovers, AttemptValues
    <3>2. Larger(journal[item].attempts, 0) = attempt
      BY <1>2, <2>1 DEF Larger
    <3> QED BY <1>1, <2>2, <2>4, <2>6, <3>1, <3>2 DEF JournalInv, OpenInHand
  <2> QED BY <2>3, <2>5, <2>6
<1>9. CASE RetryDelay
  <2>1. UNCHANGED <<journal, sent, copies, item>>
    BY <1>9 DEF RetryDelay, NothingSent, centreVars
  <2>2. journal[item] \in Rows /\ journal[item].state = "SENT" /\ journal[item].attempts = attempt
    BY <1>9 DEF RetryDelay, JournalInv, OpenInHand
  <2>3. \/ step' = "give_up" /\ attempt' = attempt
        \/ step' = "mark" /\ attempt' = attempt + 1
    BY <1>9 DEF RetryDelay
  <2> QED BY <1>1, <1>2, <2>1, <2>2, <2>3, NothingWritten DEF OpenInHand
<1> QED BY <1>3, <1>4, <1>5, <1>6, <1>7, <1>8, <1>9 DEF Emitter

LEMMA NextJournal == ASSUME JournalInv, [Next]_vars PROVE JournalInv'
<1>1. TypeOK'
  BY NextType DEF JournalInv
<1>2. CASE Emitter
  BY <1>2, EmitterJournal
<1>3. CASE Start \/ Kill
  <2>1. UNCHANGED <<journal, sent, copies>> /\ step' \in {"recv", "done"}
    BY <1>3, Wiped
  <2> QED BY <1>1, <2>1, NothingWritten DEF OpenInHand
<1>4. CASE Feeder \/ Pause \/ Unpause \/ Cancel \/ Finish \/ UNCHANGED vars
  <2>1. UNCHANGED <<journal, sent, copies, step, item, attempt, report>>
    BY <1>4 DEF Feeder, FeederWaits, FeederReads, FeederOffers, FeederFrame, Pause, Unpause, Cancel,
       Finish, ControlFrame, vars, emitterVars, centreVars
  <2>2. OpenInHand'
    BY <2>1 DEF JournalInv, OpenInHand
  <2> QED BY <1>1, <2>1, <2>2, NothingWritten
<1> QED BY <1>2, <1>3, <1>4 DEF Next

(* Nothing has left for a recipient whose row is missing or QUEUED, and a    *)
(* row counts at least every submit_sm that left: the two facts the resume   *)
(* of a campaign rests on, across any number of kills.                       *)
THEOREM CampaignWriteAhead == Spec => []WriteAhead
<1>1. Init => JournalInv
  BY JournalInit
<1>2. JournalInv /\ [Next]_vars => JournalInv'
  BY NextJournal
<1>3. JournalInv => WriteAhead
  BY DEF JournalInv
<1> QED BY <1>1, <1>2, <1>3, PTL DEF Spec

(* The types, the tally and the journal together: all that the properties of *)
(* a campaign rest on, in every reachable state.                             *)
THEOREM CampaignInvariant == Spec => []CampaignInv
<1>1. Init => JournalInv
  BY JournalInit
<1>2. JournalInv /\ [Next]_vars => JournalInv'
  BY NextJournal
<1>3. JournalInv /\ Balance => CampaignInv
  BY DEF CampaignInv
<1> QED BY <1>1, <1>2, <1>3, CampaignBalance, PTL DEF Spec

(* Only the row in hand is ever written, so only its verdict changes.        *)
LEMMA VerdictChanges ==
  ASSUME JournalInv, NEW row, journal' = [journal EXCEPT ![item] = row]
  PROVE  Verdicts' = [Verdicts EXCEPT ![item] = VerdictOf(row)]
<1>1. journal \in [Recipients -> Rows \cup {NoRow}]
  BY DEF JournalInv, TypeOK, JournalTypeOK
<1>2. \A r \in Recipients : journal'[r] = IF r = item THEN row ELSE journal[r]
  BY <1>1
<1>3. Verdicts' = [r \in Recipients |-> VerdictOf(journal'[r])]
  BY DEF Verdicts, VerdictOf
<1>4. Verdicts = [r \in Recipients |-> VerdictOf(journal[r])]
  BY DEF Verdicts
<1> DEFINE New == [Verdicts EXCEPT ![item] = VerdictOf(row)]
<1>5. New = [r \in Recipients |-> IF r = item THEN VerdictOf(row) ELSE VerdictOf(journal[r])]
  BY <1>4
<1>6. \A r \in Recipients :
        VerdictOf(journal'[r]) = IF r = item THEN VerdictOf(row) ELSE VerdictOf(journal[r])
  BY <1>2
<1> QED BY <1>3, <1>5, <1>6

(* Every step of the campaign is one of the contract's, or none.             *)
LEMMA StepKeepsContract ==
  ASSUME JournalInv, [Next]_vars
  PROVE  Contract!ContractNext \/ UNCHANGED <<Verdicts, copies>>
<1> USE DEF JournalInv
<1>1. item \in Recipients /\ journal \in [Recipients -> Rows \cup {NoRow}]
      /\ copies \in [Recipients -> Nat]
  BY DEF TypeOK, EmitterTypeOK, JournalTypeOK
<1>2. ASSUME UNCHANGED journal PROVE UNCHANGED Verdicts
  BY <1>2 DEF Verdicts
<1>3. \A r \in Recipients : Verdicts[r] = VerdictOf(journal[r])
  BY DEF Verdicts
<1>4. ASSUME journal[item].state \in {"QUEUED", "SENT"}, journal[item] \in Rows,
             NEW s \in {"SENT", "ACCEPTED", "FAILED"}, NEW answered \in BOOLEAN, NEW n \in Nat,
             Writes(Update(s, answered, n)), s = "ACCEPTED" => copies[item] > 0, UNCHANGED copies
      PROVE  Contract!ContractNext \/ UNCHANGED <<Verdicts, copies>>
  <2> DEFINE row == ApplyUpdate(journal[item], Update(s, answered, n))
  <2>1. row.state = s
    BY <1>4, OpenRowMoves
  <2>2. journal' = [journal EXCEPT ![item] = row]
    BY <1>4 DEF Writes
  <2> HIDE DEF row
  <2>3. Verdicts' = [Verdicts EXCEPT ![item] = VerdictOf(row)]
    BY <2>2, VerdictChanges
  <2>4. Verdicts[item] = "open"
    BY <1>1, <1>3, <1>4 DEF VerdictOf
  <2>5. CASE s = "SENT"
    <3>1. VerdictOf(row) = "open"
      BY <2>1, <2>5 DEF VerdictOf
    <3>2. Verdicts' = Verdicts
      BY <2>3, <2>4, <3>1 DEF Verdicts
    <3> QED BY <1>4, <3>2
  <2>6. CASE s = "ACCEPTED"
    <3>1. VerdictOf(row) = "accepted"
      BY <2>1, <2>6 DEF VerdictOf
    <3>2. Contract!Decide(item, "accepted")
      BY <1>4, <2>3, <2>4, <2>6, <3>1 DEF Contract!Decide
    <3> QED BY <1>1, <3>2 DEF Contract!ContractNext
  <2>7. CASE s = "FAILED"
    <3>1. VerdictOf(row) = "failed"
      BY <2>1, <2>7 DEF VerdictOf
    <3>2. Contract!Decide(item, "failed")
      BY <1>4, <2>3, <2>4, <2>7, <3>1 DEF Contract!Decide
    <3> QED BY <1>1, <3>2 DEF Contract!ContractNext
  <2> QED BY <2>5, <2>6, <2>7
<1>5. CASE Insert
  <2>1. CASE journal[item] = NoRow /\ journal' = [journal EXCEPT ![item] = QueuedRow]
    <3>1. Verdicts' = [Verdicts EXCEPT ![item] = "open"]
      BY <2>1, VerdictChanges, RowsApart DEF VerdictOf
    <3>2. Verdicts[item] = "none"
      BY <1>1, <1>3, <2>1, RowsApart DEF VerdictOf
    <3>3. Contract!Open(item)
      BY <1>5, <3>1, <3>2 DEF Contract!Open, Insert, centreVars
    <3> QED BY <1>1, <3>3 DEF Contract!ContractNext
  <2>2. CASE UNCHANGED <<journal, copies>>
    BY <1>2, <2>2
  <2> QED BY <1>5, <2>1, <2>2 DEF Insert, centreVars
<1>6. CASE Mark
  <2>1. Writes(Update("SENT", FALSE, attempt)) /\ UNCHANGED copies /\ attempt \in Nat
    BY <1>6 DEF Mark, SentRow, centreVars, TypeOK, EmitterTypeOK
  <2>2. journal[item] \in Rows /\ journal[item].state \in {"QUEUED", "SENT"}
    BY <1>6 DEF Mark, OpenInHand
  <2> QED BY <1>4, <2>1, <2>2
<1>7. CASE Submit
  <2>1. UNCHANGED Verdicts
    BY <1>2, <1>7 DEF Submit
  <2>2. Verdicts[item] = "open"
    BY <1>1, <1>3, <1>7 DEF Submit, OpenInHand, VerdictOf
  <2>3. CASE copies' = [copies EXCEPT ![item] = @ + 1]
    <3>1. Contract!Take(item)
      BY <2>1, <2>2, <2>3 DEF Contract!Take
    <3> QED BY <1>1, <3>1 DEF Contract!ContractNext
  <2>4. CASE copies' = copies
    BY <2>1, <2>4
  <2>5. copies' = copies \/ copies' = [copies EXCEPT ![item] = @ + 1]
    BY <1>7, SubmitIs DEF JournalInv
  <2> QED BY <2>3, <2>4, <2>5
<1>8. CASE Verdict \/ GiveUp
  <2>1. UNCHANGED copies /\ journal[item] \in Rows /\ journal[item].state = "SENT"
    BY <1>8 DEF Verdict, GiveUp, centreVars, OpenInHand
  <2>2. \/ UNCHANGED journal
        \/ \E s \in {"SENT", "ACCEPTED", "FAILED"} :
             Writes(Update(s, Answered, 0)) /\ (s = "ACCEPTED" => copies[item] > 0)
    <3>1. CASE Verdict
      <4>1. FinalState = "ACCEPTED" => copies[item] > 0
        BY <3>1 DEF Verdict, FinalState, OpenInHand
      <4> QED BY <3>1, <4>1, AttemptValues DEF Verdict
    <3>2. CASE GiveUp
      BY <3>2 DEF GiveUp, GivenUp
    <3> QED BY <1>8, <3>1, <3>2
  <2> QED BY <1>2, <1>4, <2>1, <2>2, AttemptValues
<1>9. CASE Receive \/ ReceiveEnds \/ EmitterWaits \/ AwaitWindow \/ Guard \/ RetryDelay \/ StoreFailure
  BY <1>2, <1>9 DEF Receive, ReceiveEnds, EmitterWaits, AwaitWindow, Guard, RetryDelay, StoreFailure,
     NothingSent, centreVars
<1>10. CASE Start \/ Kill
  BY <1>2, <1>10, Wiped
<1>11. CASE Feeder \/ Pause \/ Unpause \/ Cancel \/ Finish \/ UNCHANGED vars
  BY <1>2, <1>11 DEF Feeder, FeederWaits, FeederReads, FeederOffers, FeederFrame, Pause, Unpause,
     Cancel, Finish, ControlFrame, vars, centreVars
<1> QED BY <1>5, <1>6, <1>7, <1>8, <1>9, <1>10, <1>11 DEF Next, Emitter

(* The campaign implements the contract of its messages: no copy reaches the *)
(* message centre after a verdict, no verdict is ever changed, and ACCEPTED  *)
(* is only written of a message that was taken (CA-010-05).                  *)
THEOREM CampaignKeepsContract == Spec => KeepsMessageContract
<1>1. Init => Contract!ContractInit
  BY RowsApart DEF Init, Contract!ContractInit, Verdicts, VerdictOf
<1>2. JournalInv /\ [Next]_vars => [Contract!ContractNext]_<<Verdicts, copies>>
  BY StepKeepsContract
<1>3. Init => JournalInv
  BY JournalInit
<1>4. JournalInv /\ [Next]_vars => JournalInv'
  BY NextJournal
<1> QED
  BY <1>1, <1>2, <1>3, <1>4, PTL DEF Spec, KeepsMessageContract, Contract!ContractSpec

-----------------------------------------------------------------------------
(* What a run has decided                                                    *)

DecidedIn(r) == journal[r].state \in {"ACCEPTED", "FAILED"}
PastInsert == step \in {"mark", "submit", "stranded", "verdict", "delay", "give_up"}

(* Until a write is lost, only the message in hand lacks its verdict.        *)
DecidedSoFar ==
  tally["not_journalled"] = 0 /\ step # "store_failed" =>
    \A r \in marked : DecidedIn(r) \/ (r = item /\ PastInsert)

(* A write that is lost stays counted until the run is over.                 *)
LEMMA LostStaysCounted ==
  ASSUME TypeOK, Emitter
  PROVE  tally'["not_journalled"] = 0 => tally["not_journalled"] = 0
<1>1. "not_journalled" \in Buckets /\ tally["not_journalled"] \in Nat
  BY DEF TypeOK, EmitterTypeOK, Buckets
<1>2. \A b \in Buckets : /\ Counted(b) \in [Buckets -> Nat]
                         /\ Counted(b)["not_journalled"] = 0 => tally["not_journalled"] = 0
  <2> SUFFICES ASSUME NEW b \in Buckets
               PROVE  /\ Counted(b) \in [Buckets -> Nat]
                      /\ Counted(b)["not_journalled"] = 0 => tally["not_journalled"] = 0
    OBVIOUS
  <2> QED BY SMTT(30), <1>1, CountedType DEF TypeOK
<1>3. {"accepted", "failed", "rejected", "skipped", "cancelled", "retried", "reemitted"}
        \subseteq Buckets
  BY DEF Buckets, Covered
<1>4. CASE Verdict \/ GiveUp
  <2>1. \E t \in {tally, Counted("not_journalled")} :
           \/ tally' = t
           \/ tally' = [t EXCEPT !["accepted"] = @ + 1]
           \/ tally' = [t EXCEPT !["failed"] = @ + 1]
    BY <1>4 DEF Verdict, GiveUp, EndsAs, Counted
  <2>2. PICK t \in {tally, Counted("not_journalled")} :
           \/ tally' = t
           \/ tally' = [t EXCEPT !["accepted"] = @ + 1]
           \/ tally' = [t EXCEPT !["failed"] = @ + 1]
    BY <2>1
  <2>3. t \in [Buckets -> Nat] /\ (t["not_journalled"] = 0 => tally["not_journalled"] = 0)
    BY <1>1, <1>2 DEF TypeOK, EmitterTypeOK
  <2>4. tally'["not_journalled"] = t["not_journalled"]
    BY <1>1, <2>2, <2>3
  <2> QED BY <2>3, <2>4
<1>5. CASE ~(Verdict \/ GiveUp)
  <2>1. tally' = tally \/ \E b \in Buckets : tally' = Counted(b)
    BY <1>3, <1>5 DEF Emitter, Receive, ReceiveEnds, EmitterWaits, AwaitWindow, Guard, Insert, Mark,
       Submit, RetryDelay, StoreFailure, EndsAs, Drained, StopEmitting
  <2> QED BY <1>2, <2>1
<1> QED BY <1>4, <1>5

(* The verdict is a decision, unless the attempt is made again.              *)
LEMMA VerdictDecides ==
  ASSUME JournalInv, Verdict \/ GiveUp
  PROVE  /\ UNCHANGED <<item, attempt, marked, sent, copies>> /\ step' \in {"recv", "delay"}
         /\ \A r \in Recipients \ {item} : journal'[r] = journal[r]
         /\ tally'["not_journalled"] = 0 =>
              \/ DecidedIn(item)'
              \/ step' = "delay" /\ journal'[item].state = "SENT"
         /\ journal'[item].state \in {"SENT", "ACCEPTED", "FAILED"}
         /\ step' = "delay" => attempt < MaxAttempts
<1>1. /\ journal[item] \in Rows /\ journal[item].state = "SENT"
      /\ UNCHANGED <<item, attempt, marked, sent, copies>>
      /\ item \in Recipients /\ TypeOK
  BY DEF Verdict, GiveUp, JournalInv, OpenInHand, centreVars, TypeOK, EmitterTypeOK
<1>2. step' \in {"recv", "delay"} /\ (step' = "delay" => attempt < MaxAttempts)
  BY DEF Verdict, GiveUp, EndsAs, Replays
<1>3. TypeOK'
  BY <1>1, EmitterType DEF Emitter
<1>4. ASSUME NEW s \in {"SENT", "ACCEPTED", "FAILED"}, Writes(Update(s, Answered, 0))
      PROVE  journal'[item].state = s /\ \A r \in Recipients \ {item} : journal'[r] = journal[r]
  BY <1>1, <1>3, <1>4, WriteCovers, AttemptValues
<1>5. Counted("not_journalled")["not_journalled"] # 0
  <2>1. EmitterTypeOK /\ "not_journalled" \in Buckets /\ tally["not_journalled"] \in Nat
    BY <1>1 DEF TypeOK, EmitterTypeOK, Buckets
  <2> QED BY <2>1, CountedType
<1>6. Counted("not_journalled") \in [Buckets -> Nat]
  BY <1>1, CountedType DEF TypeOK, Buckets
<1>7. CASE Verdict
  <2>1. PICK journalled \in BOOLEAN :
          LET counted == IF journalled THEN tally ELSE Counted("not_journalled")
          IN  /\ IF journalled THEN Writes(Update(FinalState, Answered, 0)) ELSE UNCHANGED journal
              /\ \/ /\ report = "accepted" /\ step' = "recv"
                    /\ tally' = [counted EXCEPT !["accepted"] = @ + 1]
                 \/ Replays /\ step' = "delay" /\ tally' = counted
                 \/ /\ report # "accepted" /\ ~Replays
                    /\ step' = "recv" /\ tally' = [counted EXCEPT !["failed"] = @ + 1]
    BY <1>7 DEF Verdict
  <2>2. CASE journalled
    <3>1. FinalState = "SENT" => step' = "delay"
      BY <2>1 DEF FinalState, Replays, Retryable, MoreAttempts
    <3> QED BY <1>1, <1>2, <1>4, <2>1, <2>2, <3>1, AttemptValues DEF DecidedIn
  <2>3. CASE ~journalled
    <3> DEFINE lost == Counted("not_journalled")
    <3>1. journal' = journal
      BY <2>1, <2>3
    <3>2. \/ tally' = lost
          \/ tally' = [lost EXCEPT !["accepted"] = @ + 1]
          \/ tally' = [lost EXCEPT !["failed"] = @ + 1]
      BY <2>1, <2>3
    <3>3. lost \in [Buckets -> Nat] /\ lost["not_journalled"] # 0
      BY <1>5, <1>6
    <3>4. {"accepted", "failed", "not_journalled"} \subseteq Buckets
      BY DEF Buckets, Covered
    <3> HIDE DEF lost
    <3>5. tally'["not_journalled"] = lost["not_journalled"]
      BY <3>2, <3>3, <3>4
    <3> QED BY <1>1, <1>2, <3>1, <3>3, <3>5
  <2> QED BY <2>2, <2>3
<1>8. CASE GiveUp
  <2>1. CASE Writes(GivenUp)
    <3>1. journal'[item].state = "FAILED" /\ \A r \in Recipients \ {item} : journal'[r] = journal[r]
      BY <1>4, <2>1 DEF GivenUp
    <3> QED BY <1>1, <1>2, <3>1 DEF DecidedIn
  <2>2. CASE /\ tally' = [Counted("not_journalled") EXCEPT !["failed"] = @ + 1]
             /\ UNCHANGED journal
    <3>1. tally'["not_journalled"] = Counted("not_journalled")["not_journalled"]
      BY <1>6, <2>2
    <3> QED BY <1>1, <1>2, <1>5, <2>2, <3>1
  <2> QED BY <1>8, <2>1, <2>2 DEF GiveUp
<1> QED BY <1>7, <1>8

(* Before the verdict only a row that is open, or missing, is written.       *)
LEMMA WritesBefore ==
  ASSUME JournalInv, Emitter, ~(Verdict \/ GiveUp)
  PROVE  /\ \A r \in Recipients : journal'[r] # journal[r] => r = item /\ ~DecidedIn(r) /\ item' = item
         /\ journal' # journal => step' \in {"mark", "submit"}
<1>1. item \in Recipients /\ journal \in [Recipients -> Rows \cup {NoRow}]
  BY DEF JournalInv, TypeOK, EmitterTypeOK, JournalTypeOK
<1>2. CASE Insert
  BY <1>1, <1>2, RowsApart DEF Insert, DecidedIn
<1>3. CASE Mark
  <2>1. journal[item].state \in {"QUEUED", "SENT"}
    BY <1>3 DEF Mark, JournalInv, OpenInHand
  <2> QED BY <1>1, <1>3, <2>1 DEF Mark, Writes, DecidedIn
<1>4. CASE ~(Insert \/ Mark)
  BY <1>4 DEF Emitter, Receive, ReceiveEnds, EmitterWaits, AwaitWindow, Guard, Submit, RetryDelay,
     StoreFailure, NothingSent
<1> QED BY <1>2, <1>3, <1>4

LEMMA EmitterDecides ==
  ASSUME JournalInv, DecidedSoFar, Emitter
  PROVE  DecidedSoFar'
<1> USE DEF DecidedSoFar
<1>1. TypeOK /\ item \in Recipients /\ marked \in SUBSET Recipients
  BY DEF JournalInv, TypeOK, EmitterTypeOK
<1>2. tally'["not_journalled"] = 0 => tally["not_journalled"] = 0
  BY <1>1, LostStaysCounted
<1>3. CASE Verdict \/ GiveUp
  <2>1. step # "store_failed"
    BY <1>3 DEF Verdict, GiveUp
  <2>2. /\ UNCHANGED <<item, attempt, marked, sent, copies>>
        /\ \A r \in Recipients \ {item} : journal'[r] = journal[r]
        /\ tally'["not_journalled"] = 0 => DecidedIn(item)' \/ step' = "delay"
    BY <1>3, VerdictDecides
  <2> QED BY <1>1, <1>2, <2>1, <2>2 DEF DecidedIn, PastInsert
<1>4. CASE ~(Verdict \/ GiveUp)
  <2>1. /\ \A r \in Recipients : journal'[r] # journal[r] => r = item /\ ~DecidedIn(r) /\ item' = item
        /\ journal' # journal => step' \in {"mark", "submit"}
    BY <1>4, WritesBefore
  <2>2. CASE Mark
    <3>1. marked' = marked \cup {item} /\ item' = item /\ step' = "submit" /\ step = "mark"
      BY <2>2 DEF Mark
    <3> QED BY <1>1, <1>2, <2>1, <3>1 DEF DecidedIn, PastInsert
  <2>3. CASE ~Mark
    <3>1. marked' = marked
      BY <1>4, <2>3 DEF Emitter, Receive, ReceiveEnds, EmitterWaits, AwaitWindow, Guard, Insert, Submit,
         RetryDelay, StoreFailure
    <3>2. step = "store_failed" => FALSE
      BY <1>4, <2>3 DEF Emitter, Receive, ReceiveEnds, EmitterWaits, AwaitWindow, Guard, Insert, Submit,
         RetryDelay, StoreFailure
    <3>3. step' = "store_failed" \/ (PastInsert => PastInsert' /\ item' = item)
      BY <1>4, <2>3 DEF Emitter, Receive, ReceiveEnds, EmitterWaits, AwaitWindow, Guard, Insert, Submit,
         RetryDelay, StoreFailure, PastInsert
    <3> QED BY <1>1, <1>2, <2>1, <3>1, <3>2, <3>3 DEF DecidedIn
  <2> QED BY <2>2, <2>3
<1> QED BY <1>3, <1>4

(* CA-010-09: a run that ends has a verdict for every message it made an     *)
(* attempt for, however it was paused, cancelled or retried, unless a write  *)
(* of the journal was lost, which the tally says.                            *)
THEOREM CampaignRunDecides == Spec => []RunDecides
<1>1. Init => JournalInv /\ DecidedSoFar
  <2>1. Init => DecidedSoFar
    BY DEF Init, DecidedSoFar
  <2> QED BY <2>1, JournalInit
<1>2. JournalInv /\ DecidedSoFar /\ [Next]_vars => (JournalInv /\ DecidedSoFar)'
  <2> SUFFICES ASSUME JournalInv, DecidedSoFar, [Next]_vars PROVE DecidedSoFar'
    BY NextJournal
  <2>1. CASE Emitter
    BY <2>1, EmitterDecides
  <2>2. CASE Start \/ Kill
    BY <2>2, Wiped DEF DecidedSoFar
  <2>3. CASE Feeder \/ Pause \/ Unpause \/ Cancel \/ Finish \/ UNCHANGED vars
    <3>1. UNCHANGED <<journal, step, item, tally, marked>>
      BY <2>3 DEF Feeder, FeederWaits, FeederReads, FeederOffers, FeederFrame, Pause, Unpause, Cancel,
         Finish, ControlFrame, vars, emitterVars
    <3> QED BY <3>1 DEF DecidedSoFar, DecidedIn, PastInsert
  <2> QED BY <2>1, <2>2, <2>3 DEF Next
<1>3. DecidedSoFar => RunDecides
  BY DEF DecidedSoFar, RunDecides, DecidedIn, PastInsert
<1> QED BY <1>1, <1>2, <1>3, PTL DEF Spec

-----------------------------------------------------------------------------
(* What Abandon promises                                                     *)

(* With one attempt and under Abandon, a row that is open has no answer, and *)
(* the message in hand has not left before its one attempt.                  *)
OneAttempt ==
  /\ \A r \in Recipients : copies[r] <= 1 /\ (journal[r].answered => DecidedIn(r))
  /\ step \in {"mark", "submit"} => copies[item] = 0
  /\ step = "mark" => journal[item].state = "QUEUED"
  /\ step \in {"submit", "verdict"} => attempt > 0
  /\ step \notin {"delay", "give_up"}

LEMMA EmitterOneAttempt ==
  ASSUME JournalInv, OneAttempt, Emitter, MaxAttempts = 1, Policy = "abandon"
  PROVE  OneAttempt'
<1>1. item \in Recipients /\ journal \in [Recipients -> Rows \cup {NoRow}] /\ attempt \in Nat
      /\ sent \in [Recipients -> Nat] /\ copies \in [Recipients -> Nat] /\ TypeOK'
  BY EmitterType DEF JournalInv, TypeOK, EmitterTypeOK, JournalTypeOK
<1>2. ASSUME UNCHANGED <<journal, copies>>,
             step' \in {"recv", "gate", "done", "window", "guard", "insert", "conflict", "store_failed"}
      PROVE  OneAttempt'
  BY <1>2 DEF OneAttempt, DecidedIn
<1>3. CASE Receive \/ ReceiveEnds \/ EmitterWaits \/ AwaitWindow \/ StoreFailure
  <2>1. UNCHANGED <<journal, copies>>
    BY <1>3 DEF Receive, ReceiveEnds, EmitterWaits, AwaitWindow, StoreFailure, NothingSent, centreVars
  <2>2. step' \in {"recv", "gate", "done", "window", "guard", "insert", "store_failed"}
    BY <1>3 DEF Receive, ReceiveEnds, EmitterWaits, AwaitWindow, StoreFailure, EndsAs, StopEmitting,
       FirstQuestion
  <2> QED BY <1>2, <2>1, <2>2
<1>4. CASE Guard
  <2>1. UNCHANGED <<journal, copies, item>>
    BY <1>4 DEF Guard, NothingSent, centreVars
  <2>2. CASE Admitted.kind = "resume" /\ step' = "mark"
    <3>1. journal[item].state = "QUEUED"
      BY <1>1, <2>2 DEF Admitted, Admission, Fresh, Skip, Resume, OneAttempt, DecidedIn
    <3>2. copies[item] = 0
      BY <1>1, <3>1 DEF JournalInv, WriteAhead
    <3> QED BY <2>1, <2>2, <3>1, <3>2 DEF OneAttempt, DecidedIn
  <2>3. CASE step' \in {"insert", "recv"}
    BY <1>2, <2>1, <2>3
  <2> QED BY <1>4, <2>2, <2>3 DEF Guard, EndsAs
<1>5. CASE Insert
  <2>1. UNCHANGED <<copies, item>>
    BY <1>5 DEF Insert, centreVars
  <2>2. CASE UNCHANGED journal /\ step' \in {"recv", "conflict"}
    BY <1>2, <2>1, <2>2
  <2>3. CASE journal[item] = NoRow /\ journal' = [journal EXCEPT ![item] = QueuedRow] /\ step' = "mark"
    <3>1. copies[item] = 0
      BY <1>1, <2>3, RowsApart DEF JournalInv, WriteAhead
    <3>2. journal'[item] = QueuedRow /\ \A r \in Recipients \ {item} : journal'[r] = journal[r]
      BY <1>1, <2>3
    <3>3. QueuedRow.answered = FALSE
      BY DEF QueuedRow
    <3> QED BY <1>1, <2>1, <2>3, <3>1, <3>2, <3>3, RowsApart DEF OneAttempt, DecidedIn
  <2> QED BY <1>5, <2>2, <2>3 DEF Insert, EndsAs
<1>6. CASE Mark
  <2>1. /\ journal[item] \in Rows /\ journal[item].state = "QUEUED" /\ copies[item] = 0
        /\ journal[item].attempts \in Nat /\ journal[item].attempts < attempt
    BY <1>6, RowsApart DEF Mark, JournalInv, OpenInHand, OneAttempt
  <2>2. UNCHANGED <<copies, item, attempt>> /\ step' = "submit"
        /\ journal' = [journal EXCEPT ![item] = ApplyUpdate(@, SentRow)]
    BY <1>6 DEF Mark, Writes, centreVars
  <2>3. ~journal[item].answered
    BY <1>1, <2>1 DEF OneAttempt, DecidedIn
  <2>4. ~ApplyUpdate(journal[item], SentRow).answered
    BY <2>1, <2>3 DEF ApplyUpdate, SentRow, Update, CanMoveTo, Alive, Rank
  <2>5. ~journal'[item].answered /\ \A r \in Recipients \ {item} : journal'[r] = journal[r]
    BY <1>1, <2>2, <2>4
  <2> QED BY <1>1, <2>1, <2>2, <2>5 DEF OneAttempt, DecidedIn
<1>7. CASE Submit
  <2>1. /\ UNCHANGED <<journal, item, attempt>> /\ step' \in {"verdict", "stranded"}
        /\ copies[item] = 0 /\ attempt > 0
    BY <1>7 DEF Submit, OneAttempt
  <2>2. copies' = copies \/ copies' = [copies EXCEPT ![item] = @ + 1]
    BY <1>7, SubmitIs DEF JournalInv
  <2>3. \A r \in Recipients : copies'[r] <= 1
    BY <1>1, <2>1, <2>2 DEF OneAttempt
  <2> QED BY <2>1, <2>3 DEF OneAttempt, DecidedIn
<1>8. CASE Verdict
  <2>1. ~MoreAttempts /\ ~Replays
    BY <1>1, <1>8 DEF Verdict, OneAttempt, MoreAttempts, Replays
  <2>2. FinalState \in {"ACCEPTED", "FAILED"} /\ Answered \in BOOLEAN
    BY <2>1, AttemptValues DEF FinalState
  <2>3. UNCHANGED copies /\ step' = "recv"
        /\ (Writes(Update(FinalState, Answered, 0)) \/ UNCHANGED journal)
    BY <1>8, <2>1 DEF Verdict, centreVars
  <2>4. CASE UNCHANGED journal
    BY <1>2, <2>3, <2>4
  <2>5. CASE Writes(Update(FinalState, Answered, 0))
    <3>1. /\ journal'[item].state = FinalState
          /\ \A r \in Recipients \ {item} : journal'[r] = journal[r]
      <4>1. journal[item] \in Rows /\ journal[item].state = "SENT" /\ UNCHANGED <<item, sent, copies>>
        BY <1>8 DEF Verdict, JournalInv, OpenInHand, centreVars
      <4> QED BY <1>1, <2>2, <2>5, <4>1, WriteCovers
    <3>2. item' = item
      BY <1>8 DEF Verdict
    <3> QED BY <2>2, <2>3, <3>1, <3>2 DEF OneAttempt, DecidedIn
  <2> QED BY <2>3, <2>4, <2>5
<1>9. CASE RetryDelay \/ GiveUp
  BY <1>9 DEF RetryDelay, GiveUp, OneAttempt
<1> QED BY <1>3, <1>4, <1>5, <1>6, <1>7, <1>8, <1>9 DEF Emitter

(* resume.rs, the table of policies: across runs and kills, no               *)
(* recipient's message is accepted twice, provided the campaign makes one    *)
(* attempt per message: a retried busy attempt may follow a lost answer.     *)
THEOREM CampaignAbandons == MaxAttempts = 1 => (Spec => []AbandonNeverDuplicates)
<1> SUFFICES ASSUME MaxAttempts = 1 PROVE Spec => []AbandonNeverDuplicates
  OBVIOUS
<1> DEFINE Inv == JournalInv /\ (Policy = "abandon" => OneAttempt)
<1>1. Init => Inv
  <2>1. Init => OneAttempt
    BY DEF Init, OneAttempt, NoRow
  <2> QED BY <2>1, JournalInit
<1>2. Inv /\ [Next]_vars => Inv'
  <2> SUFFICES ASSUME JournalInv, OneAttempt, Policy = "abandon", [Next]_vars PROVE OneAttempt'
    BY NextJournal
  <2>1. CASE Emitter
    BY <2>1, EmitterOneAttempt
  <2>2. CASE Start \/ Kill
    <3>1. UNCHANGED <<journal, copies>> /\ step' \in {"recv", "done"}
      BY <2>2, Wiped
    <3> QED BY <3>1 DEF OneAttempt, DecidedIn
  <2>3. CASE Feeder \/ Pause \/ Unpause \/ Cancel \/ Finish \/ UNCHANGED vars
    <3>1. UNCHANGED <<journal, copies, step, item, attempt>>
      BY <2>3 DEF Feeder, FeederWaits, FeederReads, FeederOffers, FeederFrame, Pause, Unpause, Cancel,
         Finish, ControlFrame, vars, emitterVars, centreVars
    <3> QED BY <3>1 DEF OneAttempt, DecidedIn
  <2> QED BY <2>1, <2>2, <2>3 DEF Next
<1>3. Inv => AbandonNeverDuplicates
  BY DEF OneAttempt, AbandonNeverDuplicates
<1> QED BY <1>1, <1>2, <1>3, PTL DEF Spec

(* What a run of an abandoning campaign has in hand, once it may write the   *)
(* row, is either a message of its own or one that no run left unanswered.   *)
HandIsAllowed ==
  /\ step \in {"submit", "stranded", "verdict", "delay", "give_up"} => item \in marked
  /\ step = "mark" /\ Policy = "abandon" /\ item \notin marked =>
       ~(journal[item].state = "SENT" /\ ~journal[item].answered)

LEMMA NextHand == ASSUME JournalInv, HandIsAllowed, [Next]_vars PROVE HandIsAllowed'
<1>1. item \in Recipients /\ journal \in [Recipients -> Rows \cup {NoRow}] /\ marked \in SUBSET Recipients
  BY DEF JournalInv, TypeOK, EmitterTypeOK, JournalTypeOK
<1> DEFINE before == {"recv", "gate", "done", "window", "guard", "insert", "conflict", "store_failed"}
<1>2. ASSUME step' \in before PROVE HandIsAllowed'
  BY <1>2 DEF HandIsAllowed
<1>3. CASE Receive \/ ReceiveEnds \/ EmitterWaits \/ AwaitWindow \/ StoreFailure
  <2>1. step' \in before
    BY <1>3 DEF Receive, ReceiveEnds, EmitterWaits, AwaitWindow, StoreFailure, EndsAs, StopEmitting,
       FirstQuestion
  <2> QED BY <1>2, <2>1
<1>4. CASE Guard
  <2>1. CASE step' \in {"insert", "recv"}
    BY <1>2, <2>1
  <2>2. CASE Admitted.kind = "resume" /\ step' = "mark"
    <3>1. UNCHANGED <<journal, item, marked>>
      BY <1>4 DEF Guard, NothingSent
    <3>2. Policy = "abandon" => ~(journal[item].state = "SENT" /\ ~journal[item].answered)
      BY <2>2 DEF Admitted, Admission, Fresh, Skip, Resume
    <3> QED BY <2>2, <3>1, <3>2 DEF HandIsAllowed
  <2> QED BY <1>4, <2>1, <2>2 DEF Guard, EndsAs
<1>5. CASE Insert
  <2>1. CASE step' \in {"recv", "conflict"}
    BY <1>2, <2>1
  <2>2. CASE journal' = [journal EXCEPT ![item] = QueuedRow] /\ step' = "mark"
    <3>1. journal'[item] = QueuedRow /\ item' = item
      BY <1>1, <1>5, <2>2 DEF Insert
    <3> QED BY <2>2, <3>1 DEF HandIsAllowed, QueuedRow
  <2> QED BY <1>5, <2>1, <2>2 DEF Insert, EndsAs
<1>6. CASE Mark
  BY <1>1, <1>6 DEF Mark, HandIsAllowed
<1>7. CASE Submit
  BY <1>7 DEF Submit, HandIsAllowed
<1>8. CASE Verdict \/ GiveUp
  <2>1. UNCHANGED <<item, marked>> /\ step' \in {"recv", "delay"} /\ item \in marked
    BY <1>8 DEF Verdict, GiveUp, EndsAs, HandIsAllowed
  <2> QED BY <2>1 DEF HandIsAllowed
<1>9. CASE RetryDelay
  BY <1>9 DEF RetryDelay, HandIsAllowed
<1>10. CASE Start \/ Kill
  <2>1. step' \in {"recv", "done"}
    BY <1>10, Wiped
  <2> QED BY <1>2, <2>1
<1>11. CASE Feeder \/ Pause \/ Unpause \/ Cancel \/ Finish \/ UNCHANGED vars
  <2>1. UNCHANGED <<journal, step, item, marked>>
    BY <1>11 DEF Feeder, FeederWaits, FeederReads, FeederOffers, FeederFrame, Pause, Unpause, Cancel,
       Finish, ControlFrame, vars, emitterVars
  <2> QED BY <2>1 DEF HandIsAllowed
<1> QED BY <1>3, <1>4, <1>5, <1>6, <1>7, <1>8, <1>9, <1>10, <1>11 DEF Next, Emitter

(* A message that is not the run's own, open and unanswered, is not touched. *)
LEMMA LeavesAlone ==
  ASSUME JournalInv, HandIsAllowed, [Next]_vars, NEW r \in Recipients \ marked,
         Policy = "abandon", journal[r].state = "SENT", ~journal[r].answered
  PROVE  journal'[r] = journal[r] /\ sent'[r] = sent[r]
<1>1. /\ item \in Recipients /\ journal \in [Recipients -> Rows \cup {NoRow}]
      /\ sent \in [Recipients -> Nat] /\ TypeOK
  BY DEF JournalInv, TypeOK, EmitterTypeOK, JournalTypeOK
<1>2. CASE Insert
  <2>1. \/ journal' = journal
        \/ journal[item] = NoRow /\ journal' = [journal EXCEPT ![item] = QueuedRow]
    BY <1>2 DEF Insert
  <2>2. NoRow.state # "SENT" /\ sent' = sent
    BY <1>2 DEF NoRow, Insert, centreVars
  <2> QED BY <1>1, <2>1, <2>2
<1>3. CASE Mark \/ Verdict \/ GiveUp
  <2>1. r # item
    BY <1>3 DEF Mark, Verdict, GiveUp, HandIsAllowed
  <2>2. /\ sent' = sent
        /\ journal' = journal \/ \E row : journal' = [journal EXCEPT ![item] = row]
    BY <1>3 DEF Mark, Verdict, GiveUp, Writes, centreVars
  <2> QED BY <1>1, <2>1, <2>2
<1>4. CASE Submit
  <2>1. r # item
    BY <1>4 DEF Submit, HandIsAllowed
  <2>2. journal' = journal /\ (sent' = sent \/ sent' = [sent EXCEPT ![item] = @ + 1])
    BY <1>1, <1>4, SubmitIs
  <2> QED BY <1>1, <2>1, <2>2
<1>5. CASE Receive \/ ReceiveEnds \/ EmitterWaits \/ AwaitWindow \/ Guard \/ RetryDelay \/ StoreFailure
  BY <1>5 DEF Receive, ReceiveEnds, EmitterWaits, AwaitWindow, Guard, RetryDelay, StoreFailure,
     NothingSent, centreVars
<1>6. CASE Feeder \/ Start \/ Kill \/ Pause \/ Unpause \/ Cancel \/ Finish \/ UNCHANGED vars
  BY <1>6 DEF Feeder, FeederWaits, FeederReads, FeederOffers, FeederFrame, Start, Kill, Pause, Unpause,
     Cancel, Finish, ControlFrame, vars, centreVars
<1> QED BY <1>2, <1>3, <1>4, <1>5, <1>6 DEF Next, Emitter

(* Under Abandon, whatever number of attempts a run makes, no later run      *)
(* touches a message that an earlier one left unanswered (resume.rs, admit). *)
THEOREM CampaignLeavesAlone == Spec => AbandonLeavesAlone
<1> DEFINE Inv == JournalInv /\ HandIsAllowed
<1>1. Init => Inv
  <2>1. Init => HandIsAllowed
    BY DEF Init, HandIsAllowed
  <2> QED BY <2>1, JournalInit
<1>2. Inv /\ [Next]_vars => Inv'
  BY NextJournal, NextHand
<1>3. ASSUME Inv, [Next]_vars
      PROVE  [\A r \in Recipients \ marked :
                Policy = "abandon" /\ journal[r].state = "SENT" /\ ~journal[r].answered
                  => journal'[r] = journal[r] /\ sent'[r] = sent[r]]_vars
  BY <1>3, LeavesAlone
<1> QED BY <1>1, <1>2, <1>3, PTL DEF Spec, AbandonLeavesAlone

-----------------------------------------------------------------------------
(* What COMPLETED means                                                      *)

(* What the feeder has read is what it has queued, and it stops for a reason. *)
FeedInv ==
  /\ mode = "idle" => feeder = "done" /\ step \in {"done", "store_failed"}
  /\ mode # "idle" /\ feeder = "done" => feedEnd # "none"
  /\ feeder # "done" => feedEnd = "none" /\ fed = IF feeder = "offering" THEN pos - 1 ELSE pos
  /\ fed <= pos
  /\ feedEnd = "exhausted" => fed = Len(Source)
  /\ feedEnd = "closed" => step = "store_failed"
  /\ step = "done" => feeder = "done" /\ queue = <<>>
  /\ stopped => token

(* The queue holds the last recipients that were read, behind the one in     *)
(* hand.                                                                     *)
Behind == fed - Len(queue)
QueueIsNext ==
  step # "store_failed" =>
    /\ \A j \in 1 .. Len(queue) :
         /\ Behind + j \in DOMAIN Source
         /\ queue[j] = Item(Source[Behind + j], Source[Behind + j] \notin Unbuildable)
    /\ step \in Busy => Behind \in DOMAIN Source /\ item = Source[Behind]

(* What a completed run may leave of a recipient (CompletedCovers).          *)
Settled(r) ==
  \/ r \in Unbuildable \cup Unencodable
  \/ DecidedIn(r)
  \/ Policy = "abandon" /\ journal[r].state = "SENT" /\ ~journal[r].answered

(* Everything the emitter has taken is settled, but for the message in hand. *)
CoveredSoFar ==
  tally["not_journalled"] = 0 /\ ~stopped /\ step # "store_failed" =>
    \A i \in DOMAIN Source : i <= Behind =>
      Settled(Source[i]) \/ (step \in Busy /\ Source[i] = item)

(* A campaign alone never writes what only a receipt does.                   *)
NoReceipts == \A r \in Recipients : journal[r].state \notin {"DELIVERED", "EXPIRED"}

CompletedRun ==
  outcome = "COMPLETED" =>
    mode = "idle" /\ step = "done" /\ feedEnd = "exhausted" /\ ~stopped

CoverInv == FeedInv /\ QueueIsNext /\ CoveredSoFar /\ NoReceipts /\ CompletedRun

LEMMA CoverInit == ASSUME Init PROVE CoverInv
<1>1. FeedInv /\ QueueIsNext /\ CompletedRun
  BY DEF Init, FeedInv, QueueIsNext, CompletedRun, Busy
<1>2. CoveredSoFar
  BY CampaignAssumption DEF Init, CoveredSoFar, Behind
<1>3. NoReceipts
  BY RowsApart DEF Init, NoReceipts
<1> QED BY <1>1, <1>2, <1>3 DEF CoverInv

LEMMA FeederCovers == ASSUME TypeOK, CoverInv, Feeder PROVE CoverInv'
<1>1. UNCHANGED <<mode, outcome, token, step, item, stopped, tally, journal>>
  BY DEF Feeder, FeederWaits, FeederReads, FeederOffers, FeederFrame, runVars, controlVars, emitterVars
<1>2. /\ pos \in 0 .. Len(Source) /\ fed \in Nat /\ queue \in Seq(Items) /\ Len(Source) \in Nat
      /\ DOMAIN Source = 1 .. Len(Source)
  BY CampaignAssumption DEF TypeOK, FeederTypeOK
<1>3. FeedInv'
  <2>0. pos \in Nat /\ fed \in Nat /\ Len(Source) \in Nat
    BY <1>2
  <2>1. CASE FeederWaits
    <3>1. /\ feeder = "gate" /\ UNCHANGED <<pos, fed, queue>>
          /\ \/ feeder' = "done" /\ feedEnd' = "cancelled"
             \/ feeder' = "reading" /\ feedEnd' = feedEnd
      BY <2>1 DEF FeederWaits, StopFeeding, WaitEnds
    <3> QED BY <1>1, <2>0, <3>1 DEF CoverInv, FeedInv
  <2>2. CASE FeederReads
    <3>1. /\ feeder = "reading" /\ UNCHANGED <<fed, queue>>
          /\ \/ feeder' = "done" /\ feedEnd' \in {"cancelled", "failed"} /\ pos' = pos
             \/ feeder' = "done" /\ feedEnd' = "exhausted" /\ pos' = pos /\ pos = Len(Source)
             \/ feeder' = "offering" /\ feedEnd' = feedEnd /\ pos' = pos + 1
      BY <2>2 DEF FeederReads, SourceDry, StopFeeding
    <3> QED BY <1>1, <2>0, <3>1 DEF CoverInv, FeedInv
  <2>3. CASE FeederOffers
    BY <1>1, <1>2, <2>3 DEF FeederOffers, StopFeeding, CoverInv, FeedInv
  <2> QED BY <2>1, <2>2, <2>3 DEF Feeder
<1>4. \/ UNCHANGED <<fed, queue>>
      \/ /\ feeder = "offering" /\ fed' = fed + 1
         /\ queue' = Append(queue, Item(Source[pos], Source[pos] \notin Unbuildable))
  BY DEF Feeder, FeederWaits, FeederReads, FeederOffers
<1>5. Behind' = Behind /\ QueueIsNext'
  <2>1. CASE UNCHANGED <<fed, queue>>
    BY <1>1, <2>1 DEF CoverInv, QueueIsNext, Behind
  <2>2. CASE /\ feeder = "offering" /\ fed' = fed + 1
             /\ queue' = Append(queue, Item(Source[pos], Source[pos] \notin Unbuildable))
    <3>1. /\ Len(queue) \in Nat /\ Len(queue') = Len(queue) + 1
          /\ \A j \in 1 .. Len(queue) : queue'[j] = queue[j]
          /\ queue'[Len(queue) + 1] = Item(Source[pos], Source[pos] \notin Unbuildable)
      BY <1>2, <2>2
    <3>2. Behind' = Behind
      BY <1>2, <2>2, <3>1 DEF Behind
    <3>3. Behind + Len(queue) + 1 = pos /\ pos \in DOMAIN Source
      BY <1>2, <2>2, <3>1 DEF Behind, CoverInv, FeedInv
    <3>4. ASSUME step # "store_failed", NEW j \in 1 .. Len(queue')
          PROVE  /\ Behind + j \in DOMAIN Source
                 /\ queue'[j] = Item(Source[Behind + j], Source[Behind + j] \notin Unbuildable)
      <4>1. CASE j \in 1 .. Len(queue)
        BY <3>1, <3>4, <4>1 DEF CoverInv, QueueIsNext
      <4>2. CASE j = Len(queue) + 1
        <5>1. Behind + j = pos
          BY <1>2, <3>1, <3>3, <4>2 DEF Behind
        <5> QED BY <3>1, <3>3, <4>2, <5>1
      <4> QED BY <3>1, <4>1, <4>2
    <3> QED BY <1>1, <3>2, <3>4 DEF CoverInv, QueueIsNext
  <2> QED BY <1>4, <2>1, <2>2
<1>6. CoveredSoFar' /\ NoReceipts'
  BY <1>1, <1>5 DEF CoverInv, CoveredSoFar, NoReceipts, Settled, DecidedIn
<1>7. CompletedRun'
  BY <1>1 DEF CoverInv, CompletedRun, FeedInv, Feeder, FeederWaits, FeederReads, FeederOffers
<1> QED BY <1>3, <1>5, <1>6, <1>7 DEF CoverInv

(* What the emitter writes is never a receipt's state.                       *)
LEMMA EmitterWrites ==
  ASSUME JournalInv, NoReceipts, Emitter
  PROVE  NoReceipts' /\ \A r \in Recipients : journal'[r] # journal[r] => r = item
<1>1. item \in Recipients /\ journal \in [Recipients -> Rows \cup {NoRow}]
  BY DEF JournalInv, TypeOK, EmitterTypeOK, JournalTypeOK
<1>2. CASE Verdict \/ GiveUp
  <2>1. /\ \A r \in Recipients \ {item} : journal'[r] = journal[r]
        /\ journal'[item].state \in {"SENT", "ACCEPTED", "FAILED"}
    BY <1>2, VerdictDecides
  <2> QED BY <1>1, <2>1 DEF NoReceipts
<1>3. CASE ~(Verdict \/ GiveUp)
  <2>1. \A r \in Recipients : journal'[r] # journal[r] => r = item
    BY <1>3, WritesBefore
  <2>2. journal'[item].state \notin {"DELIVERED", "EXPIRED"}
    <3>1. CASE Insert
      BY <1>1, <3>1, RowsApart DEF Insert, NoReceipts
    <3>2. CASE Mark
      <4>1. journal[item] \in Rows /\ journal[item].state \in {"QUEUED", "SENT"} /\ attempt \in Nat
        BY <3>2 DEF Mark, JournalInv, OpenInHand, TypeOK, EmitterTypeOK
      <4>2. journal'[item] = ApplyUpdate(journal[item], Update("SENT", FALSE, attempt))
        BY <1>1, <3>2 DEF Mark, Writes, SentRow
      <4> QED BY ZenonT(40), <4>1, <4>2, OpenRowMoves
    <3>3. CASE ~(Insert \/ Mark)
      BY <1>1, <1>3, <3>3 DEF Emitter, Receive, ReceiveEnds, EmitterWaits, AwaitWindow, Guard, Submit,
         RetryDelay, StoreFailure, NothingSent, NoReceipts
    <3> QED BY <3>1, <3>2, <3>3
  <2> QED BY <1>1, <2>1, <2>2 DEF NoReceipts
<1> QED BY <1>2, <1>3

(* The message in hand is settled when it is put down, unless the run has    *)
(* been stopped or has lost a write.                                         *)
LEMMA PutDownSettled ==
  ASSUME JournalInv, NoReceipts, Emitter, step \in Busy, step' \notin Busy,
         step' # "store_failed", ~stopped', tally'["not_journalled"] = 0
  PROVE  Settled(item)'
<1>1. item \in Recipients /\ journal \in [Recipients -> Rows \cup {NoRow}]
  BY DEF JournalInv, TypeOK, EmitterTypeOK, JournalTypeOK
<1>2. CASE Verdict \/ GiveUp
  <2>1. step' # "delay" /\ item' = item
    BY <1>2 DEF Verdict, GiveUp, Busy
  <2> QED BY <1>2, <2>1, VerdictDecides DEF Settled, DecidedIn
<1>3. CASE Guard
  <2>1. Admitted.kind = "skip" /\ UNCHANGED <<item, journal>>
    BY <1>3 DEF Guard, NothingSent, Busy
  <2>2. journal[item].state # "NONE" /\ journal[item] \in Rows
    BY <1>1, <2>1, RowsApart DEF Admitted, Admission, Fresh
  <2>3. journal[item].state \in {"QUEUED", "SENT", "ACCEPTED", "FAILED"}
    BY <1>1, <2>2 DEF NoReceipts, Rows, RowStates, Alive, Terminal
  <2> QED BY <2>1, <2>3, CampaignAssumption
          DEF Admitted, Admission, Resume, Settled, DecidedIn, Policies
<1>4. CASE Insert
  BY <1>4 DEF Insert, EndsAs, Busy, Settled
<1>5. CASE ~(Verdict \/ GiveUp \/ Guard \/ Insert)
  BY <1>5 DEF Emitter, Receive, ReceiveEnds, EmitterWaits, AwaitWindow, Mark, Submit, RetryDelay,
     StoreFailure, StopEmitting, FirstQuestion, EndsAs, Busy
<1> QED BY <1>2, <1>3, <1>4, <1>5

LEMMA EmitterCovers == ASSUME JournalInv, CoverInv, Emitter PROVE CoverInv'
<1> USE DEF CoverInv
<1>1. /\ UNCHANGED <<mode, outcome, token, feeder, pos, fed, feedEnd>>
      /\ step # "done" /\ step # "store_failed"
  BY DEF Emitter, Receive, ReceiveEnds, EmitterWaits, AwaitWindow, Guard, Insert, Mark, Submit, Verdict,
     RetryDelay, GiveUp, StoreFailure, EmitterFrame, runVars, controlVars, feederVars
<1>2. /\ TypeOK /\ queue \in Seq(Items) /\ fed \in Nat /\ Len(queue) \in Nat
      /\ DOMAIN Source = 1 .. Len(Source) /\ Len(Source) \in Nat /\ pos \in 0 .. Len(Source)
      /\ \A i \in DOMAIN Source : Source[i] \in Recipients
  BY CampaignAssumption DEF JournalInv, TypeOK, FeederTypeOK
<1>3. tally'["not_journalled"] = 0 => tally["not_journalled"] = 0
  BY <1>2, LostStaysCounted
<1>4. NoReceipts' /\ \A r \in Recipients : journal'[r] # journal[r] => r = item
  BY EmitterWrites
<1>5. FeedInv'
  <2>1. stopped' => token
    BY DEF Emitter, Receive, ReceiveEnds, EmitterWaits, AwaitWindow, Guard, Insert, Mark, Submit,
       Verdict, RetryDelay, GiveUp, StoreFailure, StopEmitting, WaitEnds, FeedInv
  <2>2. step' = "done" => feeder = "done" /\ queue' = <<>>
    BY DEF Emitter, Receive, ReceiveEnds, EmitterWaits, AwaitWindow, Guard, Insert, Mark, Submit,
       Verdict, RetryDelay, GiveUp, StoreFailure, StopEmitting, FirstQuestion, EndsAs
  <2>3. mode # "idle"
    BY <1>1 DEF FeedInv
  <2> QED BY <1>1, <2>1, <2>2, <2>3 DEF FeedInv
<1>6. CompletedRun'
  BY <1>1 DEF CompletedRun, FeedInv
<1>7. CASE Receive
  <2>1. /\ queue # <<>> /\ Len(queue) > 0 /\ Len(queue') = Len(queue) - 1
        /\ \A j \in 1 .. Len(queue') : queue'[j] = queue[j + 1]
        /\ Head(queue) = queue[1] /\ step = "recv" /\ journal' = journal
    BY <1>2, <1>7 DEF Receive, NothingSent
  <2>2. Behind' = Behind + 1 /\ Behind \in Int
    BY <1>1, <1>2, <2>1 DEF Behind
  <2>3. /\ Behind + 1 \in DOMAIN Source
        /\ Head(queue) = Item(Source[Behind + 1], Source[Behind + 1] \notin Unbuildable)
    BY <1>1, <1>2, <2>1 DEF QueueIsNext
  <2>4. /\ step' \in {"recv", "gate"}
        /\ step' = "gate" => item' = Source[Behind + 1]
        /\ step' = "recv" => stopped \/ Source[Behind + 1] \in Unbuildable
        /\ stopped' = stopped
    <3>1. /\ Head(queue).of = Source[Behind + 1]
          /\ Source[Behind + 1] \notin Unbuildable => Head(queue).ready
      <4> DEFINE r == Source[Behind + 1]
      <4>1. /\ Item(r, r \notin Unbuildable).of = r
            /\ r \notin Unbuildable => Item(r, r \notin Unbuildable).ready = TRUE
        BY DEF Item
      <4> QED BY <2>3, <4>1, Zenon
    <3> QED BY <1>7, <3>1 DEF Receive, EndsAs
  <2>5. QueueIsNext'
    <3> SUFFICES ASSUME NEW j \in 1 .. Len(queue')
                 PROVE  /\ Behind' + j \in DOMAIN Source
                        /\ queue'[j] = Item(Source[Behind' + j], Source[Behind' + j] \notin Unbuildable)
      BY <2>2, <2>3, <2>4 DEF QueueIsNext, Busy
    <3>1. j + 1 \in 1 .. Len(queue) /\ Behind' + j = Behind + (j + 1)
      BY <1>2, <2>1, <2>2
    <3> QED BY <1>1, <2>1, <3>1 DEF QueueIsNext
  <2>6. CoveredSoFar'
    <3> SUFFICES ASSUME tally'["not_journalled"] = 0, ~stopped', NEW i \in DOMAIN Source, i <= Behind'
                 PROVE  Settled(Source[i])' \/ (step' \in Busy /\ Source[i] = item')
      BY DEF CoveredSoFar
    <3>1. CASE i <= Behind
      BY <1>1, <1>3, <2>1, <2>4, <3>1 DEF CoveredSoFar, Settled, DecidedIn, Busy
    <3>2. CASE i = Behind + 1
      BY <2>4, <3>2 DEF Settled, Busy
    <3> QED BY <1>2, <2>2, <3>1, <3>2
  <2> QED BY <1>4, <1>5, <1>6, <2>5, <2>6
<1>8. CASE ReceiveEnds
  <2>1. UNCHANGED <<queue, item, stopped, tally, journal>> /\ step' = "done" /\ step = "recv"
    BY <1>8 DEF ReceiveEnds, NothingSent
  <2>2. QueueIsNext' /\ CoveredSoFar'
    BY <1>1, <2>1 DEF QueueIsNext, CoveredSoFar, Behind, Settled, DecidedIn, Busy
  <2> QED BY <1>4, <1>5, <1>6, <2>2
<1>9. CASE StoreFailure
  BY <1>4, <1>5, <1>6, <1>9 DEF StoreFailure, QueueIsNext, CoveredSoFar
<1>10. CASE ~(Receive \/ ReceiveEnds \/ StoreFailure)
  <2>1. /\ UNCHANGED <<queue, item>> /\ step \in Busy
        /\ step' # "store_failed" /\ (stopped => stopped') /\ stopped' \in BOOLEAN
    BY <1>2, <1>10 DEF Emitter, EmitterWaits, AwaitWindow, Guard, Insert, Mark, Submit, Verdict,
       RetryDelay, GiveUp, StopEmitting, FirstQuestion, EndsAs, Busy, TypeOK, EmitterTypeOK
  <2>2. Behind' = Behind /\ QueueIsNext'
    BY <1>1, <2>1 DEF QueueIsNext, Behind
  <2>3. CoveredSoFar'
    <3> SUFFICES ASSUME tally'["not_journalled"] = 0, ~stopped', NEW i \in DOMAIN Source, i <= Behind
                 PROVE  Settled(Source[i])' \/ (step' \in Busy /\ Source[i] = item')
      BY <2>2 DEF CoveredSoFar
    <3>1. CASE Source[i] = item
      <4>1. CASE step' \in Busy
        BY <2>1, <3>1, <4>1
      <4>2. CASE step' \notin Busy
        BY <2>1, <3>1, <4>2, PutDownSettled DEF Settled, DecidedIn
      <4> QED BY <4>1, <4>2
    <3>2. CASE Source[i] # item
      <4>1. journal'[Source[i]] = journal[Source[i]]
        BY <1>2, <1>4, <3>2
      <4>2. Settled(Source[i])
        BY <1>1, <1>3, <2>1, <3>2 DEF CoveredSoFar
      <4> QED BY <4>1, <4>2 DEF Settled, DecidedIn
    <3> QED BY <3>1, <3>2
  <2> QED BY <1>4, <1>5, <1>6, <2>2, <2>3
<1> QED BY <1>7, <1>8, <1>9, <1>10

LEMMA RunsCover ==
  ASSUME TypeOK, CoverInv, Start \/ Pause \/ Unpause \/ Cancel \/ Finish \/ Kill
  PROVE  CoverInv'
<1> USE DEF CoverInv
<1>1. CASE Start \/ Kill
  <2>1. /\ queue' = <<>> /\ pos' = 0 /\ fed' = 0 /\ feedEnd' = "none" /\ stopped' = FALSE
        /\ UNCHANGED <<item, journal>> /\ outcome' \in {"none", "killed"}
        /\ \/ mode' # "idle" /\ feeder' = "gate" /\ step' = "recv"
           \/ mode' = "idle" /\ feeder' = "done" /\ step' = "done"
    BY <1>1, Zenon DEF Start, Kill
  <2>2. FeedInv' /\ CompletedRun'
    BY <2>1 DEF FeedInv, CompletedRun
  <2>3. Behind' = 0 /\ Len(queue') = 0 /\ step' \notin Busy
    <3>1. Len(queue') = 0 /\ fed' = 0
      BY <2>1
    <3>2. step' \notin Busy
      BY <2>1 DEF Busy
    <3> QED BY <3>1, <3>2 DEF Behind
  <2>4. QueueIsNext' /\ CoveredSoFar'
    BY <2>3, CampaignAssumption DEF QueueIsNext, CoveredSoFar
  <2> QED BY <2>1, <2>2, <2>4 DEF NoReceipts
<1>2. CASE Pause \/ Unpause \/ Cancel
  <2>1. UNCHANGED <<runVars, feederVars, queue, emitterVars, journal>> /\ (token => token')
    BY <1>2 DEF Pause, Unpause, Cancel, ControlFrame
  <2> QED BY <2>1 DEF FeedInv, QueueIsNext, CoveredSoFar, NoReceipts, CompletedRun, Behind, Settled,
          DecidedIn, runVars, feederVars, emitterVars
<1>3. CASE Finish
  <2>1. UNCHANGED <<feederVars, queue, emitterVars, journal>>
    BY <1>3 DEF Finish
  <2>2. QueueIsNext' /\ CoveredSoFar' /\ NoReceipts'
    BY <2>1 DEF QueueIsNext, CoveredSoFar, NoReceipts, Behind, Settled, DecidedIn, feederVars, emitterVars
  <2>3. FeedInv'
    BY <1>3 DEF Finish, FeedInv, feederVars, emitterVars, controlVars
  <2>4. CompletedRun'
    <3>1. /\ feeder = "done" /\ step \in {"done", "store_failed"} /\ mode' = "idle"
          /\ outcome' = Status /\ UNCHANGED <<step, feedEnd, stopped>> /\ feedEnd # "none"
          /\ feedEnd \in {"none", "cancelled", "failed", "exhausted", "closed"}
      BY <1>3 DEF Finish, FeedInv, feederVars, emitterVars, TypeOK, FeederTypeOK
    <3> QED BY <3>1 DEF Status, CompletedRun, FeedInv
  <2> QED BY <2>2, <2>3, <2>4
<1> QED BY <1>1, <1>2, <1>3

(* A run reported COMPLETED has read its whole source, counts every          *)
(* recipient of it, and leaves no message open but those it could not build  *)
(* and those the policy abandons, unless the tally says a verdict was lost.  *)
THEOREM CampaignCompletedCovers == Spec => []CompletedCovers
<1> DEFINE Inv == JournalInv /\ CoverInv
<1>1. Init => Inv
  BY JournalInit, CoverInit
<1>2. Inv /\ [Next]_vars => Inv'
  <2> SUFFICES ASSUME JournalInv, CoverInv, [Next]_vars PROVE CoverInv'
    BY NextJournal
  <2>1. TypeOK
    BY DEF JournalInv
  <2>2. CASE UNCHANGED vars
    BY <2>2 DEF vars, runVars, controlVars, feederVars, emitterVars, CoverInv, FeedInv, QueueIsNext,
       CoveredSoFar, NoReceipts, CompletedRun, Behind, Settled, DecidedIn
  <2> QED BY <2>1, <2>2, FeederCovers, EmitterCovers, RunsCover DEF Next
<1>3. Inv /\ Balance => CompletedCovers
  <2> SUFFICES ASSUME JournalInv, CoverInv, Balance, mode = "idle", outcome = "COMPLETED"
               PROVE  /\ Total = Len(Source)
                      /\ tally["not_journalled"] = 0 => \A i \in DOMAIN Source : Settled(Source[i])
    BY DEF CompletedCovers, Settled, DecidedIn
  <2>1. step = "done" /\ feedEnd = "exhausted" /\ ~stopped /\ queue = <<>> /\ fed = Len(Source)
    BY DEF CoverInv, CompletedRun, FeedInv
  <2>2. Len(queue) = 0 /\ InHand = 0 /\ Len(Source) \in Nat /\ Total \in Nat /\ step \notin Busy
    BY <2>1, CampaignAssumption, TotalIsNat DEF InHand, Busy, Total, JournalInv, TypeOK, EmitterTypeOK
  <2>3. Total = Len(Source)
    BY <2>1, <2>2 DEF Balance
  <2>4. \A i \in DOMAIN Source : i <= Behind
    BY <2>1, <2>2, CampaignAssumption DEF Behind
  <2>5. tally["not_journalled"] = 0 => \A i \in DOMAIN Source : Settled(Source[i])
    BY <2>1, <2>2, <2>4 DEF CoverInv, CoveredSoFar
  <2> QED BY <2>3, <2>5
<1> QED BY <1>1, <1>2, <1>3, CampaignBalance, PTL DEF Spec

=============================================================================
