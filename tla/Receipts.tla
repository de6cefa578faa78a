------------------------------- MODULE Receipts -------------------------------
(***************************************************************************)
(* The delivery receipts of one session: the queue its reader fills, the   *)
(* receipt loop of src-tauri that classifies what comes out of it, and the *)
(* pipeline of crates/messaging that collects a batch, looks up the        *)
(* message of each receipt in the journal, writes the transitions in one   *)
(* transaction, replays a batch that was not wholly taken, and announces   *)
(* what was written.                                                       *)
(*                                                                         *)
(* The message centre and the send path are the environment: a centre may  *)
(* push a receipt before the send path has journalled the identifier it    *)
(* names.                                                                  *)
(***************************************************************************)
EXTENDS Integers, Sequences, FiniteSets, MessageJournal

CONSTANTS
  Messages,
  Nobody,            \* what a receipt for none of them is about
  IdOf,              \* the identifier the centre gave each message
  Own,               \* the messages sent through this session
  Doomed,            \* partially failed: taken in part, journalled FAILED
  Pdus,              \* deliver_sm the centre may push
  Matching,          \* IdMatching of the session profile
  DeliveryCapacity,  \* DELIVERY_QUEUE_CAPACITY
  ReceiptCapacity,   \* RECEIPT_QUEUE_CAPACITY
  MaxReceipts,       \* BatchPolicy::max_receipts
  MaxDelay,          \* BatchPolicy::max_delay
  StoreFails,        \* the journal may refuse a read or a write
  MaxDeliveries      \* bound: deliver_sm pushed

(* An identifier as it is written: what it reads as in hexadecimal, whether *)
(* it is padded with zeroes, and the case of its letters.                   *)
Low(h)        == h % 16
High(h)       == h \div 16
HasLetters(h) == High(h) > 9 \/ Low(h) > 9
Text(h, padded, upper) == [hex |-> h, padded |-> padded, upper |-> upper /\ HasLetters(h)]
Texts == {t \in [hex : 0 .. 255, padded : BOOLEAN, upper : BOOLEAN] : t.upper => HasLetters(t.hex)}
NoText        == Text(0, FALSE, FALSE)

Policies3 == {"exact", "relaxed", "bases"}
States    == RowStates \cup {"none"}
Stats     == {"DELIVRD", "EXPIRED", "DELETED", "UNDELIV", "ACCEPTD", "REJECTD", "UNKNOWN"}
Tokens    == [field : STRING, id : Texts, stat : Stats \cup {"none"}, spaced : BOOLEAN]
Receipt   == [id : Texts, to : States, about : Messages \cup {Nobody}]

ASSUME ReceiptsAssumption ==
  /\ Nobody \notin Messages
  /\ IdOf \in [Messages -> Texts] /\ \A m \in Messages : IdOf[m] # NoText
  /\ Own \subseteq Messages /\ Doomed \subseteq Own
  /\ \A m, n \in Own : IdOf[m].hex = IdOf[n].hex => m = n
  /\ \A p \in Pdus : p.tlvId \in Texts /\ p.about \in Messages \cup {Nobody}
  /\ \A p \in Pdus : p.body \in Seq(Tokens)
  /\ Matching \in Policies3
  /\ DeliveryCapacity \in Nat \ {0} /\ ReceiptCapacity \in Nat \ {0}
  /\ MaxReceipts \in Nat \ {0} /\ MaxDelay \in Nat
  /\ StoreFails \in BOOLEAN /\ MaxDeliveries \in Nat

VARIABLES
  open,      \* the session is alive: its delivery queue has a sender
  arrived,   \* deliver_sm acknowledged so far
  queue,     \* those waiting for the receipt loop
  loop,      \* where the receipt loop stands
  hand,      \* the receipt it holds
  inbox,     \* receipts between the loop and the pipeline
  pipe,      \* where the pipeline stands
  pending,   \* receipts of the batch in hand
  timer,     \* time on the deadline of the batch
  waited,    \* time its first receipt has waited
  closed,    \* the channel was found closed while collecting
  updates,   \* transitions of the batch
  flags,     \* which of them were written, so far
  draft,     \* the rows inside the open transaction
  strays,    \* receipts of the batch that match no message
  unheard,   \* messages of which a transition failed in a replay
  row,       \* the journal
  told,      \* the last state announced for each message
  tally      \* what became of every deliver_sm

linkVars  == <<open, arrived, queue>>
loopVars  == <<loop, hand>>
clockVars == <<timer, waited, closed>>
batchVars == <<updates, flags, draft, strays, unheard>>
vars == <<linkVars, loopVars, inbox, pipe, pending, clockVars, batchVars, row, told, tally>>

Outcomes == {"dropped", "mobile", "applied", "refused", "orphaned", "noted", "failed", "lost"}
Counted(outcome) == [tally EXCEPT ![outcome] = @ + 1]

-----------------------------------------------------------------------------
(* Identifiers                                                              *)

Upper(t) == Text(t.hex, t.padded, TRUE)
Lower(t) == Text(t.hex, t.padded, FALSE)

(* An identifier made of zeroes has no unpadded form.                       *)
Unpadded(t) == IF t.hex = 0 THEN <<>> ELSE <<[t EXCEPT !.padded = FALSE]>>

(* Read as decimal when it can be, and written in hexadecimal; read as      *)
(* hexadecimal, and written in decimal.                                     *)
FromDecimal(t) ==
  IF HasLetters(t.hex) THEN <<>>
  ELSE LET n == 10 * High(t.hex) + Low(t.hex) IN <<Text(n, FALSE, FALSE), Text(n, FALSE, TRUE)>>
FromHexadecimal(t) ==
  IF t.hex > 99 THEN <<>> ELSE <<Text(16 * (t.hex \div 10) + (t.hex % 10), FALSE, FALSE)>>

MutantCandidates(policy, t) == <<t>> \o FromDecimal(t) \o FromHexadecimal(t)

(* IdMatching::candidates, in the order they are tried.                     *)
Candidates(policy, t) ==
  CASE policy = "exact"   -> <<t>>
    [] policy = "relaxed" -> <<t, Upper(t), Lower(t)>> \o Unpadded(t)
    [] policy = "bases"   -> <<t, Upper(t), Lower(t)>> \o Unpadded(t)
                               \o FromDecimal(t) \o FromHexadecimal(t)

(* find_message_by_smsc_id: the session is part of the predicate, and a row *)
(* without an identifier matches nothing.                                   *)
RowsOf(t) == {m \in Own : row[m].id = t /\ row[m].id # NoText}

(* The first candidate that finds a row.                                    *)
Found(t) ==
  LET tried == Candidates(Matching, t)
      hits  == {i \in DOMAIN tried : RowsOf(tried[i]) # {}}
  IN  IF hits = {} THEN Nobody
      ELSE LET first == CHOOSE i \in hits : \A j \in hits : i <= j
           IN  CHOOSE m \in RowsOf(tried[first]) : TRUE

-----------------------------------------------------------------------------
(* What a deliver_sm says                                                   *)

(* The fields of the body a scan reads: the key and its value up to the     *)
(* next space, so that a value after a space is another token; everything   *)
(* after text: is the text.  The first readable one of a name wins.         *)
Readable(body, field) ==
  {i \in DOMAIN body :
     /\ body[i].field = field /\ ~body[i].spaced
     /\ \A j \in 1 .. i - 1 : body[j].field # "text"}

FirstOf(body, field) ==
  CHOOSE i \in Readable(body, field) : \A j \in Readable(body, field) : i <= j

BodyId(body)   == IF Readable(body, "id") = {} THEN NoText ELSE body[FirstOf(body, "id")].id
BodyStat(body) == IF Readable(body, "stat") = {} THEN "none" ELSE body[FirstOf(body, "stat")].stat

(* The message_state TLV as a status: the states without a spelling of      *)
(* their own say that the message is still moving.                          *)
StatusOf(wire) == IF wire \in Stats \cup {"none"} THEN wire ELSE "UNKNOWN"

(* DeliveryStatus::message_state.                                           *)
StateOf(stat) ==
  CASE stat = "DELIVRD"                          -> "DELIVERED"
    [] stat = "EXPIRED"                          -> "EXPIRED"
    [] stat \in {"DELETED", "UNDELIV", "REJECTD"} -> "FAILED"
    [] OTHER                                     -> "ACCEPTED"

(* The TLV of the identifier wins over the body, the stat: of the body over *)
(* the TLV of the state; an intermediate notification moves nothing.        *)
ReadId(p)     == IF p.tlvId # NoText THEN p.tlvId ELSE BodyId(p.body)
ReadStatus(p) == IF BodyStat(p.body) # "none" THEN BodyStat(p.body) ELSE StatusOf(p.tlvState)

ReadState(p) ==
  IF p.type = "notification" \/ ReadStatus(p) = "none" THEN "none" ELSE StateOf(ReadStatus(p))

Classify(p) == [id |-> ReadId(p), to |-> ReadState(p), about |-> p.about]

(* What a receipt is about: the message of this session that was given its  *)
(* identifier, however it is written, and no other under another base       *)
(* either, where the policy tries them (correlation.rs IdMatching).         *)
ASSUME IdentifiersAssumption ==
  \A p \in Pdus : p.type # "message" =>
    \A m \in Own :
      /\ IdOf[m].hex = ReadId(p).hex => p.about = m
      /\ Matching = "bases" =>
           \A i \in DOMAIN Candidates(Matching, ReadId(p)) :
             Candidates(Matching, ReadId(p))[i].hex = IdOf[m].hex => p.about = m

-----------------------------------------------------------------------------
(* The environment                                                          *)

PipeFrame == UNCHANGED <<pipe, pending, clockVars, batchVars, told>>

(* The reader acknowledges, then offers to a queue that drops when full.    *)
Push(p) ==
  /\ open /\ arrived < MaxDeliveries
  /\ arrived' = arrived + 1
  /\ IF Len(queue) < DeliveryCapacity
     THEN queue' = Append(queue, p) /\ UNCHANGED tally
     ELSE UNCHANGED queue /\ tally' = Counted("dropped")
  /\ PipeFrame /\ UNCHANGED <<open, loopVars, inbox, row>>

SessionEnds ==
  /\ open /\ open' = FALSE
  /\ PipeFrame /\ UNCHANGED <<arrived, queue, loopVars, inbox, row, tally>>

InTransaction == pipe = "writing" /\ flags # <<>>

(* The row while the centre has the message, and after the final transition *)
(* of the send path: a partially failed message keeps no identifier.        *)
Unanswered == [state |-> "SENT", id |-> NoText]
Answer(m)  == IF m \in Doomed THEN [state |-> "FAILED", id |-> NoText]
                              ELSE [state |-> "ACCEPTED", id |-> IdOf[m]]

(* That transition waits for the write lock of an open transaction.         *)
Verdict(m) ==
  /\ row[m].state = "SENT" /\ ~InTransaction
  /\ row' = [row EXCEPT ![m] = Answer(m)]
  /\ draft' = row'
  /\ UNCHANGED <<linkVars, loopVars, inbox, pipe, pending, clockVars>>
  /\ UNCHANGED <<updates, flags, strays, unheard, told, tally>>

-----------------------------------------------------------------------------
(* The receipt loop                                                         *)

LoopFrame == PipeFrame /\ UNCHANGED <<open, arrived, row>>

(* recv() and classify: a mobile-originated message is only logged.         *)
LoopReads ==
  /\ loop = "reading" /\ queue # <<>>
  /\ queue' = Tail(queue)
  /\ IF Head(queue).type = "message"
     THEN tally' = Counted("mobile") /\ UNCHANGED loopVars
     ELSE hand' = Classify(Head(queue)) /\ loop' = "sending" /\ UNCHANGED tally
  /\ LoopFrame /\ UNCHANGED inbox

Room == Len(inbox) < ReceiptCapacity

LoopSends ==
  /\ loop = "sending" /\ Room
  /\ inbox' = Append(inbox, hand) /\ loop' = "reading"
  /\ LoopFrame /\ UNCHANGED <<queue, hand, tally>>

(* The queue is empty and its sender has gone with the session; the channel *)
(* of the receipts closes with the loop.                                    *)
LoopEnds ==
  /\ loop = "reading" /\ queue = <<>> /\ ~open
  /\ loop' = "ended"
  /\ LoopFrame /\ UNCHANGED <<queue, hand, inbox, tally>>

Loop == LoopReads \/ LoopSends \/ LoopEnds

-----------------------------------------------------------------------------
(* The pipeline: collecting a batch                                         *)

CollectFrame == UNCHANGED <<linkVars, loopVars, batchVars, row, told, tally>>

AfterReceipt(n) == IF n < MaxReceipts THEN "collecting" ELSE "correlating"

(* The deadline starts at the first receipt of the batch.                   *)
First ==
  /\ pipe = "idle" /\ inbox # <<>>
  /\ pending' = <<Head(inbox)>> /\ inbox' = Tail(inbox)
  /\ timer' = 0 /\ waited' = 0 /\ closed' = FALSE
  /\ pipe' = AfterReceipt(1)
  /\ CollectFrame

NextTimer == timer

Another ==
  /\ pipe = "collecting" /\ inbox # <<>>
  /\ pending' = Append(pending, Head(inbox)) /\ inbox' = Tail(inbox)
  /\ timer' = NextTimer /\ pipe' = AfterReceipt(Len(pending) + 1)
  /\ CollectFrame /\ UNCHANGED <<waited, closed>>

Deadline ==
  /\ pipe = "collecting" /\ timer = MaxDelay
  /\ pipe' = "correlating"
  /\ CollectFrame /\ UNCHANGED <<inbox, pending, clockVars>>

MutantAfterClosed == "ended"
AfterClosed == "correlating"

(* recv() says that the loop has gone: with a batch in hand it is committed *)
(* first.                                                                   *)
ChannelClosed ==
  /\ inbox = <<>> /\ loop = "ended"
  /\ \/ pipe = "idle" /\ pipe' = "ended" /\ UNCHANGED closed
     \/ pipe = "collecting" /\ pipe' = AfterClosed /\ closed' = TRUE
  /\ CollectFrame /\ UNCHANGED <<inbox, pending, timer, waited>>

(* The timer fires when it is due: time does not pass over it.              *)
Tick ==
  /\ pipe = "collecting" /\ timer < MaxDelay
  /\ timer' = timer + 1 /\ waited' = waited + 1
  /\ CollectFrame /\ UNCHANGED <<inbox, pipe, pending, closed>>

-----------------------------------------------------------------------------
(* The pipeline: committing it                                              *)

CommitFrame == UNCHANGED <<linkVars, loopVars, inbox, clockVars>>

Transition(r, m) == [of |-> m, to |-> r.to, about |-> r.about]

(* Correlator::correlate, one receipt.  The lookups of its candidates are   *)
(* taken as one read of the journal.                                        *)
Correlate ==
  /\ pipe = "correlating" /\ pending # <<>>
  /\ LET r == Head(pending)
         m == IF r.id = NoText THEN Nobody ELSE Found(r.id)
     IN  \/ /\ m = Nobody
            /\ strays' = strays + 1 /\ UNCHANGED <<updates, tally>>
         \/ /\ m # Nobody /\ r.to = "none"
            /\ tally' = Counted("noted") /\ UNCHANGED <<updates, strays>>
         \/ /\ m # Nobody /\ r.to # "none"
            /\ updates' = Append(updates, Transition(r, m)) /\ UNCHANGED <<strays, tally>>
         \/ /\ StoreFails /\ r.id # NoText
            /\ tally' = Counted("failed") /\ UNCHANGED <<updates, strays>>
  /\ pending' = Tail(pending)
  /\ pipe' = IF pending' # <<>> THEN "correlating" ELSE IF updates' = <<>> THEN "closing" ELSE "writing"
  /\ CommitFrame /\ UNCHANGED <<flags, draft, unheard, row, told>>

Taken(rows, u)   == CanMoveTo(rows[u.of].state, u.to)
(* The UPDATE of one row: its WHERE carries the lifecycle, and a receipt    *)
(* leaves the identifier alone.                                             *)
MutantWritten(rows, u) == [rows EXCEPT ![u.of].state = u.to]
Written(rows, u) == IF Taken(rows, u) THEN [rows EXCEPT ![u.of].state = u.to] ELSE rows

NextUpdate == updates[Len(flags) + 1]
AllWritten == \A i \in DOMAIN flags : flags[i]

(* update_states: the statements of the transaction, which sees the journal *)
(* as it is when it takes the write lock.                                   *)
Statement ==
  /\ pipe = "writing" /\ Len(flags) < Len(updates)
  /\ draft' = Written(draft, NextUpdate) /\ flags' = Append(flags, Taken(draft, NextUpdate))
  /\ CommitFrame /\ UNCHANGED <<pipe, pending, updates, strays, unheard, row, told, tally>>

(* What the commit answers is a count: with fewer than the batch, which     *)
(* ones were taken is asked one by one.                                     *)
MutantAttributed == pipe' = "closing" /\ flags' = [i \in DOMAIN updates |-> TRUE]
Attributed ==
  IF AllWritten THEN pipe' = "closing" /\ UNCHANGED flags ELSE pipe' = "replaying" /\ flags' = <<>>

Commit ==
  /\ pipe = "writing" /\ Len(flags) = Len(updates)
  /\ row' = draft
  /\ Attributed
  /\ CommitFrame /\ UNCHANGED <<pending, updates, draft, strays, unheard, told, tally>>

(* The transaction fails and is rolled back; the batch is replayed.         *)
RollBack ==
  /\ StoreFails /\ pipe = "writing" /\ Len(flags) = Len(updates)
  /\ pipe' = "replaying" /\ flags' = <<>> /\ draft' = row
  /\ CommitFrame /\ UNCHANGED <<pending, updates, strays, unheard, row, told, tally>>

(* attribute: one transaction for each transition; one that fails counts as *)
(* one that was not written.                                                *)
Replay ==
  /\ pipe = "replaying"
  /\ \/ /\ row' = Written(row, NextUpdate) /\ flags' = Append(flags, Taken(row, NextUpdate))
        /\ UNCHANGED unheard
     \/ /\ StoreFails /\ flags' = Append(flags, FALSE)
        /\ unheard' = unheard \cup {NextUpdate.of} /\ UNCHANGED row
  /\ draft' = row' /\ pipe' = IF Len(flags') < Len(updates) THEN "replaying" ELSE "closing"
  /\ CommitFrame /\ UNCHANGED <<pending, updates, strays, told, tally>>

NotesOf(m)  == {i \in DOMAIN updates : flags[i] /\ updates[i].of = m}
LastNote(m) == CHOOSE i \in NotesOf(m) : \A j \in NotesOf(m) : j <= i
NoOf(flag)  == Cardinality({i \in DOMAIN flags : flags[i] = flag})

(* The strays are written in one transaction of their own, or lost with it, *)
(* and the transitions that were written are announced, in order.           *)
CloseBatch ==
  /\ pipe = "closing"
  /\ \E kept \in IF StoreFails /\ strays > 0 THEN BOOLEAN ELSE {TRUE} :
       tally' = [tally EXCEPT !["applied"] = @ + NoOf(TRUE), !["refused"] = @ + NoOf(FALSE),
                              ![IF kept THEN "orphaned" ELSE "lost"] = @ + strays]
  /\ told' = [m \in Messages |-> IF NotesOf(m) = {} THEN told[m] ELSE updates[LastNote(m)].to]
  /\ updates' = <<>> /\ flags' = <<>> /\ strays' = 0
  /\ pipe' = IF closed THEN "ended" ELSE "idle"
  /\ CommitFrame /\ UNCHANGED <<pending, draft, unheard, row>>

Pipeline ==
  \/ First \/ Another \/ Deadline \/ ChannelClosed \/ Tick
  \/ Correlate \/ Statement \/ Commit \/ RollBack \/ Replay
  \/ CloseBatch

Init ==
  /\ open = TRUE /\ arrived = 0 /\ queue = <<>>
  /\ loop = "reading" /\ hand = [id |-> NoText, to |-> "none", about |-> Nobody]
  /\ inbox = <<>> /\ pipe = "idle" /\ pending = <<>>
  /\ timer = 0 /\ waited = 0 /\ closed = FALSE
  /\ updates = <<>> /\ flags = <<>> /\ strays = 0 /\ unheard = {}
  /\ row = [m \in Messages |-> IF m \in Own THEN Unanswered ELSE Answer(m)] /\ draft = row
  /\ told = [m \in Messages |-> "none"]
  /\ tally = [o \in Outcomes |-> 0]

Next ==
  \/ \E p \in Pdus : Push(p)
  \/ \E m \in Messages : Verdict(m)
  \/ SessionEnds \/ Loop \/ Pipeline

Spec == Init /\ [][Next]_vars

(* The two tasks run when they can and the journal answers; nothing is      *)
(* assumed of the message centre, of the session or of the send path.       *)
FairSpec == Spec /\ WF_vars(Loop) /\ WF_vars(Pipeline)

-----------------------------------------------------------------------------
(* Properties *)

LinkTypeOK ==
  /\ open \in BOOLEAN /\ arrived \in Nat /\ queue \in Seq(Pdus)
  /\ loop \in {"reading", "sending", "ended"} /\ hand \in Receipt
  /\ inbox \in Seq(Receipt) /\ Len(inbox) <= ReceiptCapacity

Updates == [of : Messages, to : RowStates, about : Messages \cup {Nobody}]

PipeTypeOK ==
  /\ pipe \in {"idle", "collecting", "correlating", "writing", "replaying", "closing", "ended"}
  /\ pending \in Seq(Receipt) /\ timer \in Nat /\ waited \in Nat /\ closed \in BOOLEAN
  /\ updates \in Seq(Updates) /\ flags \in Seq(BOOLEAN) /\ strays \in Nat
  /\ unheard \in SUBSET Messages
  /\ told \in [Messages -> States] /\ tally \in [Outcomes -> Nat]

JournalRows == [state : RowStates, id : Texts]
TypeOK ==
  /\ LinkTypeOK /\ PipeTypeOK
  /\ row \in [Messages -> JournalRows] /\ draft \in [Messages -> JournalRows]

Sum == tally["dropped"] + tally["mobile"] + tally["applied"] + tally["refused"]
       + tally["orphaned"] + tally["noted"] + tally["failed"] + tally["lost"]

(* Every deliver_sm the reader acknowledged is waiting somewhere or in one  *)
(* of the outcomes, whatever is full, fails or closes (correlation.rs       *)
(* commit; dlr.rs, "not going to send it again").                           *)
Accounted ==
  arrived = Sum + Len(queue) + (IF loop = "sending" THEN 1 ELSE 0) + Len(inbox)
            + Len(pending) + Len(updates) + strays

(* CA-008-04 and the two barriers of correlation.rs: a receipt only moves   *)
(* the message it is about, and a partially failed message is never moved.  *)
CreditsItsOwn ==
  \A i \in DOMAIN updates : updates[i].of = updates[i].about /\ updates[i].of \notin Doomed

(* Outside a commit, what was last announced of a message is what its row   *)
(* says, and a row that only a receipt could have moved has been announced, *)
(* however the batch was refused, rolled back or replayed, unless the       *)
(* replay of a transition of its own failed (correlation.rs commit, "ONLY   *)
(* the transitions the journal actually wrote").                            *)
ToldIsStanding ==
  pipe \in {"idle", "collecting", "correlating", "ended"} =>
    \A m \in Messages :
      /\ told[m] \in Terminal \/ (told[m] # "none" /\ m \notin unheard) => told[m] = row[m].state
      /\ row[m].state \in {"DELIVERED", "EXPIRED"} /\ m \notin unheard => told[m] = row[m].state

(* No receipt waits longer than max_delay for its batch to be committed,    *)
(* however steadily others arrive (correlation.rs BatchPolicy).             *)
CommitOnTime == pipe = "collecting" => waited <= MaxDelay

(* Every receipt is accounted for, in time, on its own message, and what was *)
(* announced is what was written (correlation.rs).                          *)
ReceiptsInv == TypeOK /\ Accounted /\ CommitOnTime /\ CreditsItsOwn /\ ToldIsStanding

(* A message that reached its end stays there, whatever arrives later, in   *)
(* whatever order and however often (message.rs can_move_to).               *)
EndsStand ==
  [][\A m \in Messages : row[m].state \in Terminal => row'[m] = row[m]]_vars

Legible(r, m) ==
  /\ r.id.hex = IdOf[m].hex
  /\ r.id.padded \/ ~IdOf[m].padded
  /\ r.id.padded = IdOf[m].padded \/ r.id.upper = IdOf[m].upper

(* A receipt whose identifier is that of a message of this session, but for *)
(* its case or its padding, is an orphan only if it came before the verdict *)
(* was journalled (correlation.rs, "an early receipt is a permanent         *)
(* orphan") or if the message keeps no identifier.                          *)
StraysAreStrangers ==
  [][Matching # "exact" /\ strays' > strays =>
       LET r == Head(pending) IN
         \A m \in Own \ Doomed : Legible(r, m) => row[m].state = "SENT"]_vars

(* When the session ends, both tasks end, with everything committed         *)
(* (logs.rs spawn_receipt_loop, correlation.rs run).                        *)
ReceiptsDrain ==
  ~open ~> (/\ loop = "ended" /\ pipe = "ended"
            /\ queue = <<>> /\ inbox = <<>> /\ pending = <<>>)
=============================================================================
