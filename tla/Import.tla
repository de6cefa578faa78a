------------------------------- MODULE Import -------------------------------
(***************************************************************************)
(* The import of a contact file: a blocking reader that maps and validates *)
(* the rows and a writer that deduplicates, batches and stores them, with a*)
(* bounded queue between the two and one token that cancels both; and the  *)
(* desktop half, which lets one import run at a time and forwards its      *)
(* progress to the screen.                                                 *)
(*                                                                         *)
(* What becomes of each row is Rows; here is the order things happen in.   *)
(* The store answers every call and refuses any: a refused call writes     *)
(* nothing, each of the two calls of a batch being one transaction.        *)
(***************************************************************************)
EXTENDS Rows, FiniteSetsExt

CONSTANTS
    MaxImports,     \* bound: how many times the operator calls contacts_import
    Requests,       \* what each call may ask for: sets of [file, options]
    RowQueue,       \* ROW_QUEUE_CAPACITY
    BatchSize,      \* BATCH_SIZE
    ProgressEvery,  \* PROGRESS_EVERY_ROWS
    ProgressQueue   \* PROGRESS_QUEUE_CAPACITY

ASSUME ImportAssumption ==
    /\ {RowQueue, BatchSize, ProgressEvery, ProgressQueue} \subseteq Nat \ {0}
    /\ MaxImports \in Nat /\ None \notin Nat
    /\ \A i \in 1..MaxImports : \A ask \in Requests[i] :
        /\ ask.file.rows \in Seq(ToSet(ask.file.rows))
        /\ ask.options.dedup \in {"first_wins", "merge_attributes"}

Imports == 1..MaxImports

(* The rows of a request as its reader sees them.  A headerless file is as *)
(* wide as its first row that is not blank.                                *)
View(ask) ==
    LET header == Headers(ask.file, ask.options.headers)
        rows == DataRows(ask.file, ask.options.headers)
        solid == {k \in DOMAIN rows : ~IsBlank(rows[k])}
        width == IF header # <<>> THEN Len(header)
                 ELSE IF solid = {} THEN 0 ELSE Len(rows[Min(solid)])
    IN  [asked |-> ask.options, opens |-> Opens(ask.file), named |-> header # <<>>,
         fits |-> MappingFits(ask.options.mapping, header, width),
         rows |-> [k \in DOMAIN rows |-> OutcomeOf(rows[k], k, header, width, ask.options)]]
VARIABLES
    slot,       \* the import `running` holds the token of, or None
    cancelled,  \* the imports whose token has fired
    request,    \* what each call asked for
    reader,     \* the blocking half: [at, pc, hand, failed]
    queue,      \* the rows between the two halves
    open,       \* whether the writer still holds the receiving end
    writer,     \* the other half: [pc, tally, kept, batch, reported, finishing, stopped]
    outbox,     \* the progress events the forwarder has not drained
    shown,      \* the last event it put on the bridge
    answer,     \* what the call returns: an error or a report
    contacts,   \* the contact table, in rowid order
    members     \* the contacts enrolled in the list

reading == <<reader, queue, open>>
store == <<contacts, members>>
vars == <<slot, cancelled, request, reader, queue, open, writer, outbox, shown,
          answer, contacts, members>>

NoTally == [imported |-> 0, rejected |-> 0, duplicates |-> 0, blank |-> 0]
Processed(tally) == tally.imported + tally.rejected + tally.duplicates
Idle == [pc |-> "idle", tally |-> NoTally, kept |-> <<>>, batch |-> <<>>,
         reported |-> 0, finishing |-> FALSE, stopped |-> FALSE]
NoReader == [at |-> 1, pc |-> "absent", hand |-> None, failed |-> FALSE]

Init ==
    /\ slot = None /\ cancelled = {} /\ contacts = <<>> /\ members = {}
    /\ request = [i \in Imports |-> None]
    /\ reader = [i \in Imports |-> NoReader]
    /\ queue = [i \in Imports |-> <<>>]
    /\ open = [i \in Imports |-> FALSE]
    /\ writer = [i \in Imports |-> Idle]
    /\ outbox = [i \in Imports |-> <<>>]
    /\ shown = [i \in Imports |-> None]
    /\ answer = [i \in Imports |-> [is |-> "none"]]

Options(i) == request[i].asked
HasHeader(i) == request[i].named
Fits(i) == request[i].fits
FileLength(i) == Len(request[i].rows)
RowFor(i, k) == request[i].rows[k]
At(i, pc) == writer[i].pc = pc

----------------------------------------------------------------------------
(* The call.                                                               *)

Running == slot # None

Begin(i) ==
    /\ At(i, "idle") /\ \A j \in 1..(i - 1) : ~At(j, "idle")
    /\ IF Running
       THEN /\ answer' = [answer EXCEPT ![i] = [is |-> "busy"]]
            /\ writer' = [writer EXCEPT ![i].pc = "answered"]
            /\ UNCHANGED <<slot, request>>
       ELSE /\ slot' = i
            /\ \E ask \in Requests[i] : request' = [request EXCEPT ![i] = View(ask)]
            /\ writer' = [writer EXCEPT ![i].pc = "opening"]
            /\ UNCHANGED answer
    /\ UNCHANGED <<cancelled, reading, outbox, shown, store>>

Cancel ==
    /\ slot # None
    /\ cancelled' = cancelled \cup {slot}
    /\ UNCHANGED <<slot, request, reading, writer, outbox, shown, answer, store>>

(* run() hands its result back: the progress sender is dropped with it and *)
(* so is the receiver, whichever way it went.                              *)
Return(i, w, result) ==
    /\ writer' = [writer EXCEPT ![i] = [w EXCEPT !.pc = "forwarding"]]
    /\ answer' = [answer EXCEPT ![i] = result]
    /\ open' = [open EXCEPT ![i] = FALSE]

Open(i) ==
    /\ At(i, "opening")
    /\ \/ /\ request[i].opens
          /\ reader' = [reader EXCEPT ![i].pc = "reading"]
          /\ open' = [open EXCEPT ![i] = TRUE]
          /\ writer' = [writer EXCEPT ![i].pc = "receiving"]
          /\ UNCHANGED answer
       \/ /\ ~request[i].opens
          /\ Return(i, writer[i], [is |-> "failed"])
          /\ UNCHANGED reader
    /\ UNCHANGED <<slot, cancelled, request, queue, outbox, shown, store>>

Forward(i) ==
    /\ outbox[i] # <<>>
    /\ shown' = [shown EXCEPT ![i] = Head(outbox[i])]
    /\ outbox' = [outbox EXCEPT ![i] = Tail(@)]
    /\ UNCHANGED <<slot, cancelled, request, reading, writer, answer, store>>

(* The command waits for the forwarder before it gives the slot up.        *)
ForwarderGone(i) == outbox[i] = <<>>

Answer(i) ==
    /\ At(i, "forwarding") /\ ForwarderGone(i)
    /\ writer' = [writer EXCEPT ![i].pc = "answered"]
    /\ slot' = IF slot = i THEN None ELSE slot
    /\ UNCHANGED <<cancelled, request, reading, outbox, shown, answer, store>>

----------------------------------------------------------------------------
(* The reader.                                                             *)

ReadFails(i) ==
    \/ HasHeader(i) /\ ~Fits(i)
    \/ /\ reader[i].at <= FileLength(i)
       /\ LET kind == RowFor(i, reader[i].at).kind
          IN  kind = "broken" \/ (i \notin cancelled /\ kind # "blank" /\ ~Fits(i))

ReadRow(i) ==
    /\ reader[i].pc = "reading"
    /\ LET r == reader[i]
       IN  reader' = [reader EXCEPT ![i] =
               CASE ReadFails(i) -> [r EXCEPT !.pc = "ended", !.failed = TRUE]
                 [] ~ReadFails(i) /\ (r.at > FileLength(i) \/ i \in cancelled) ->
                        [r EXCEPT !.pc = "ended"]
                 [] OTHER -> [r EXCEPT !.pc = "offering", !.hand = RowFor(i, r.at)]]
    /\ UNCHANGED <<slot, cancelled, request, queue, open, writer, outbox, shown, answer, store>>

(* blocking_send: parked on a full queue until there is room or until the  *)
(* receiver is gone.  It does not watch the token.                         *)
Offer(i) ==
    /\ reader[i].pc = "offering"
    /\ \/ /\ open[i] /\ Len(queue[i]) < RowQueue
          /\ queue' = [queue EXCEPT ![i] = Append(@, reader[i].hand)]
          /\ reader' = [reader EXCEPT ![i].pc = "reading", ![i].at = @ + 1,
                                      ![i].hand = None]
       \/ /\ ~open[i]
          /\ reader' = [reader EXCEPT ![i].pc = "ended", ![i].hand = None]
          /\ UNCHANGED queue
    /\ UNCHANGED <<slot, cancelled, request, open, writer, outbox, shown, answer, store>>

----------------------------------------------------------------------------
(* The writer.                                                             *)

(* A progress event is offered, and lost when the screen is behind.        *)
Notified(i, tally, done) ==
    LET event == [processed |-> Processed(tally), done |-> done]
    IN  IF Len(outbox[i]) < ProgressQueue THEN [outbox EXCEPT ![i] = Append(@, event)]
        ELSE outbox

Due(w) == Processed(w.tally) >= w.reported + ProgressEvery

(* The end of one turn of the loop, once the batch is dealt with.          *)
TurnEnds(i, w) ==
    /\ writer' = [writer EXCEPT ![i] =
           [w EXCEPT !.pc = "receiving",
                     !.reported = IF Due(w) THEN Processed(w.tally) ELSE @]]
    /\ outbox' = IF Due(w) THEN Notified(i, w.tally, FALSE) ELSE outbox

(* A number is counted imported on its first row and a duplicate after.    *)
Counted(tally, kept, o) ==
    CASE o.kind = "blank" -> [tally EXCEPT !.blank = @ + 1]
      [] o.kind = "rejected" -> [tally EXCEPT !.rejected = @ + 1]
      [] o.kind = "accepted" /\ ~Holds(kept, o.msisdn) -> [tally EXCEPT !.imported = @ + 1]
      [] OTHER -> [tally EXCEPT !.duplicates = @ + 1]

ContactOf(i, o) ==
    [import |-> i, line |-> o.line, msisdn |-> o.msisdn, attributes |-> o.attributes]

(* Under FirstWins a fresh contact is written as it comes, under           *)
(* MergeAttributes it is held: a later row may still add to it.            *)
Taken(i, w, o) ==
    LET strategy == Options(i).dedup
        fresh == o.kind = "accepted" /\ ~Holds(w.kept, o.msisdn)
    IN  [w EXCEPT
            !.tally = Counted(@, w.kept, o),
            !.kept = IF o.kind = "accepted" THEN Offered(strategy, @, ContactOf(i, o)) ELSE @,
            !.batch = IF fresh /\ strategy = "first_wins" THEN Append(@, ContactOf(i, o)) ELSE @]

Receive(i) ==
    /\ At(i, "receiving") /\ i \notin cancelled /\ queue[i] # <<>>
    /\ queue' = [queue EXCEPT ![i] = Tail(@)]
    /\ LET w == Taken(i, writer[i], Head(queue[i]))
       IN  IF Len(w.batch) >= BatchSize
           THEN writer' = [writer EXCEPT ![i] = [w EXCEPT !.pc = "inserting"]] /\ UNCHANGED outbox
           ELSE TurnEnds(i, w)
    /\ UNCHANGED <<slot, cancelled, request, reader, open, shown, answer, store>>

(* Mutant: the queue is left open before the reader is joined.             *)
MutantCloseQueue(i) == UNCHANGED open

(* Closing the queue is what frees a reader parked on it.                  *)
CloseQueue(i) == open' = [open EXCEPT ![i] = FALSE]

NextChunk(i, w) ==
    IF w.batch = <<>>
    THEN writer' = [writer EXCEPT ![i] = [w EXCEPT !.pc = "joining"]] /\ CloseQueue(i)
    ELSE writer' = [writer EXCEPT ![i] = [w EXCEPT !.pc = "inserting"]] /\ UNCHANGED open

(* The select is biased: a token that has fired wins over a row that waits.*)
Finish(i) ==
    /\ At(i, "receiving")
    /\ i \in cancelled \/ (queue[i] = <<>> /\ reader[i].pc = "ended")
    /\ NextChunk(i, [writer[i] EXCEPT
           !.finishing = TRUE,
           !.stopped = i \in cancelled,
           !.batch = @ \o (IF Options(i).dedup = "merge_attributes"
                           THEN writer[i].kept ELSE <<>>)])
    /\ UNCHANGED <<slot, cancelled, request, reader, queue, outbox, shown, answer, store>>

ChunkSize(w) == Min({BatchSize, Len(w.batch)})
Chunk(w) == SubSeq(w.batch, 1, ChunkSize(w))
AfterChunk(w) == [w EXCEPT !.batch = SubSeq(@, ChunkSize(w) + 1, Len(@))]

(* A batch is behind: the loop turns, or the drain goes on.                *)
Committed(i) ==
    LET w == AfterChunk(writer[i])
    IN  IF w.finishing THEN NextChunk(i, w) /\ UNCHANGED outbox
        ELSE TurnEnds(i, w) /\ UNCHANGED open

Insert(i) ==
    /\ At(i, "inserting")
    /\ contacts' = contacts \o Chunk(writer[i])
    /\ IF Options(i).list = None THEN Committed(i)
       ELSE /\ writer' = [writer EXCEPT ![i].pc = "enrolling"]
            /\ UNCHANGED <<open, outbox>>
    /\ UNCHANGED <<slot, cancelled, request, reader, queue, shown, answer, members>>

Enrol(i) ==
    /\ At(i, "enrolling")
    /\ members' = members \cup ToSet(Chunk(writer[i]))
    /\ Committed(i)
    /\ UNCHANGED <<slot, cancelled, request, reader, queue, shown, answer, contacts>>

(* Either call of a batch may be refused; the report goes with the error.  *)
StoreRefuses(i) ==
    /\ At(i, "inserting") \/ At(i, "enrolling")
    /\ Return(i, writer[i], [is |-> "failed"])
    /\ UNCHANGED <<slot, cancelled, request, reader, queue, outbox, shown, store>>

Report(i) ==
    [is |-> "report", counts |-> writer[i].tally, total |-> Processed(writer[i].tally),
     cancelled |-> writer[i].stopped \/ i \in cancelled]

Join(i) ==
    /\ At(i, "joining") /\ reader[i].pc = "ended"
    /\ IF reader[i].failed THEN Return(i, writer[i], [is |-> "failed"]) /\ UNCHANGED outbox
       ELSE Return(i, writer[i], Report(i)) /\ outbox' = Notified(i, writer[i].tally, TRUE)
    /\ UNCHANGED <<slot, cancelled, request, reader, queue, shown, store>>

----------------------------------------------------------------------------
Read(i) == ReadRow(i) \/ Offer(i)
Write(i) ==
    Open(i) \/ Receive(i) \/ Finish(i) \/ Insert(i) \/ Enrol(i) \/ StoreRefuses(i) \/ Join(i)

AllAnswered == \A i \in Imports : At(i, "answered") /\ reader[i].pc \in {"absent", "ended"}
Stutter == AllAnswered /\ UNCHANGED vars

Next ==
    \/ \E i \in Imports : Begin(i) \/ Read(i) \/ Write(i) \/ Forward(i) \/ Answer(i)
    \/ Cancel
    \/ Stutter

(* The blocking pool runs the reader, the runtime runs the writer and the  *)
(* forwarder, and the store answers: no fairness for the operator.         *)
Fairness == \A i \in Imports :
    WF_vars(Read(i)) /\ WF_vars(Write(i)) /\ WF_vars(Forward(i)) /\ WF_vars(Answer(i))

Spec == Init /\ [][Next]_vars
FairSpec == Spec /\ Fairness

----------------------------------------------------------------------------
(* What the import promises.                                               *)

(* The contacts, the marks on the way and the counts have their shape.     *)
TypeOK ==
    /\ slot \in Imports \cup {None} /\ cancelled \subseteq Imports
    /\ open \in [Imports -> BOOLEAN]
    /\ \A i \in Imports :
        /\ writer[i].pc \in {"idle", "opening", "receiving", "inserting", "enrolling",
                             "joining", "forwarding", "answered"}
        /\ reader[i].pc \in {"absent", "reading", "offering", "ended"}
        /\ Len(queue[i]) <= RowQueue
        /\ Len(outbox[i]) <= ProgressQueue
        /\ ~writer[i].finishing => Len(writer[i].batch) <= BatchSize
    /\ members \subseteq ToSet(contacts)

Active(i) == ~At(i, "idle") /\ ~At(i, "answered")

(* One import runs at a time and the slot names it, so that two of them    *)
(* never interleave their batches and a cancellation reaches the one that  *)
(* runs: also while a cancelled one is still committing what it holds.     *)
OneImport == \A i \in Imports : Active(i) <=> slot = i

(* The contacts the first n rows of a file stand for, stated without the   *)
(* deduplicator: one per number, on its first row, and under               *)
(* MergeAttributes each column from the first of its rows that fills it.   *)
Accepted(rows, n) == {k \in 1..n : rows[k].kind = "accepted"}
SameNumber(rows, n, k) == {j \in Accepted(rows, n) : rows[j].msisdn = rows[k].msisdn}
Firsts(rows, n) == {k \in Accepted(rows, n) : \A j \in SameNumber(rows, n, k) : k <= j}
Solid(view, n, k, v) ==
    {j \in SameNumber(view.rows, n, k) :
        /\ view.asked.dedup = "merge_attributes" \/ j = k
        /\ view.rows[j].attributes[v] # ""}
Filled(view, n, k, v) ==
    LET solid == Solid(view, n, k, v)
    IN  IF solid = {} THEN "" ELSE view.rows[Min(solid)].attributes[v]
Entry(i, view, n, k) ==
    [import |-> i, line |-> k, msisdn |-> view.rows[k].msisdn,
     attributes |-> [v \in DOMAIN view.rows[k].attributes |-> Filled(view, n, k, v)]]
Reference(i, view, n) == {Entry(i, view, n, k) : k \in Firsts(view.rows, n)}

Stored(i) == {c \in ToSet(contacts) : c.import = i}
Copies(i) == {k \in DOMAIN contacts : contacts[k].import = i}
Of(rows, n, kind) == Cardinality({k \in 1..n : rows[k].kind = kind})
Reported(i) == At(i, "answered") /\ answer[i].is = "report"

(* A report tells the database: for some number of rows, the whole file    *)
(* unless the import was cancelled, the contacts stored are exactly those  *)
(* these rows stand for, each once and enrolled, and the counts are theirs.*)
(* And it is the last thing told: no progress event is still on its way to *)
(* move the bar beside a finished report (contacts.rs, import).            *)
ReportIsTrue ==
    \A i \in Imports : Reported(i) =>
      /\ outbox[i] = <<>>
      /\ \E n \in 0..FileLength(i) :
            /\ ~answer[i].cancelled => n = FileLength(i)
            /\ Stored(i) = Reference(i, request[i], n)
            /\ answer[i].counts.imported = Cardinality(Stored(i))
            /\ Cardinality(Copies(i)) = Cardinality(Stored(i))
            /\ answer[i].counts.rejected = Of(request[i].rows, n, "rejected")
            /\ answer[i].counts.blank = Of(request[i].rows, n, "blank")
            /\ answer[i].total = n - Of(request[i].rows, n, "blank")
            /\ Options(i).list # None => Stored(i) \subseteq members

(* The import of contacts is right: one at a time, and its report is true. *)
ImportInv == TypeOK /\ OneImport /\ ReportIsTrue

(* An import that began answers, cancelled or not, and its reader leaves   *)
(* the blocking pool: neither half waits for the other for ever.           *)
ImportEnds ==
    \A i \in Imports : Active(i) ~> At(i, "answered") /\ reader[i].pc \in {"absent", "ended"}

=============================================================================
