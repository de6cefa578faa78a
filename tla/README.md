# TLA+ models of smpp-client

`smpp-client` is a desktop SMPP client. It keeps sessions with message centres, sends single messages, batches and campaigns
through them at a paced rate, journals every message so that a campaign survives the death of the process, matches the
delivery receipts that come back, and imports the contacts it sends to. These modules model the parts where tasks, timeouts,
messages, failures and crashes meet, and the algorithms the rest depends on. TLC checks them on small instances, and
TLAPS proves for all values of the constants every safety property of the runs but two (`KeepsContract`, `TextsAreFaithful`).

Contents: 1 the system; 2 the modules and how they correspond to the code; 3 the runs, their bounds and the fairness; 4 what
is proved and how; 5 where the code and its documentation disagree; 6 what is not modelled; 7 the plan.

## 1. The system

| Component | Source (under `src/`) | State | Operations | Modules |
|---|---|---|---|---|
| Session: supervisor, reader, connection | `crates/smpp-session/src/actors/`, `state.rs` | published state, tokens, outgoing queue, reader task, delivery queue | connect, bind, serve, keep alive, sweep, reconnect, shut down; `request`, `shutdown` | `Session` |
| Correlation table | `smpp-session/src/pending.rs` | `waiting`, `cursor`, deadlines | register, resolve, expire, fail_all | `Session` |
| Send gate, limiter, window | `actors/writer.rs`, `rate-control/src/` | pacing lock, quota, penalty, permits, waiters | admit, penalise, settle | `Pacing`, `Session` |
| Session metrics (partly) | `smpp-session/src/metrics.rs` | ring of submissions | record, read | `Pacing` |
| Reconnection policy | `smpp-session/src/reconnect.rs`, `error.rs` | attempt counter | delay, jitter, which failures are retried | `Waits`, `Session` |
| Session registry (partly) | `smpp-session/src/registry.rs`, `src-tauri/src/sessions.rs` | live handles, forwarders | bind, rebind, unbind, delete, shutdown_all, forward | `Registry` |
| Framing | `actors/framing.rs`, `connection.rs` | read buffer | cut a stream in PDUs | `Frames` |
| SMPP codec and values (partly) | `smpp-core/src/` | none | sequence numbers, lengths | `Session`, `Frames`, `Waits` |
| Session profile | `smpp-session/src/profile.rs` | none | validation, projection | `Profiles` |
| Campaign runner, feeder, control | `messaging/src/campaign/{runner,feeder,control}.rs` | two halves and their queue, tally, control | run, pause, resume, cancel | `Campaign` |
| Resume arbitration | `campaign/resume.rs` | none (a decision on a row) | admit | `MessageJournal`, `Campaign` |
| Message lifecycle and journal | `messaging/src/message.rs`, `persistence/.../messages.rs` | rows | insert, conditional update, batch, lookup | `MessageJournal`, `Receipts`, `Logs` |
| Send path and retry | `messaging/src/{sender,retry,ports}.rs` | none of its own | dispatch, resend, decide | `Campaign`, `Batch`, `Waits` |
| Campaign schedule and progress | `campaign/{schedule,progress}.rs` | ring of acceptances | wait for the hours, measure | `Waits`, `Campaign` |
| Campaign services | `src-tauri/src/campaigns.rs`, `commands/campaign.rs` | live table, stored row, sampler | create, start, pause, resume, cancel, finish, exit | `Desk`, `Launch` |
| Batch sender | `messaging/src/submit_multi.rs` | latch of the session's support | submit_batch | `Batch` |
| Receipt correlation | `messaging/src/{correlation,dlr}.rs`, `src-tauri/src/logs.rs` | batch in hand, orphan journal | classify, match, commit, replay, announce | `Receipts` |
| Encodings and segmentation | `messaging/src/encoding/`, `segmentation.rs` | none | choose, count, cut, pack | `Segments` |
| Templates | `messaging/src/template.rs` | none | parse, render | `Templates` |
| Addresses and submit_sm fields | `messaging/src/{addressing,submit}.rs`, `commands/message.rs` | none | parse, refuse, lay out | `Compose` |
| Contacts import (partly) | `contacts/src/import/`, `src-tauri/src/contacts.rs` | row queue, deduplicator, batch, one slot | run, cancel | `Rows`, `Import` |
| Contacts validation and lists (partly) | `contacts/src/{validation,lists}.rs` | lists | validate, select, page | `Rows`, `Book` |
| Persistence (partly) | `persistence/src/` | SQLite tables | transactions, keyset pages | `Logs`, `Import`, `Book`, `Profiles` |
| Journal reading and PDU log (partly) | `logging-export/src/`, `commands/logs.rs` | recorder, buffer | record, flush, traverse | `Logs` |
| Desktop shell (partly) | `src-tauri/src/lib.rs` | the exit | close, exit | `Desk` |
| User interface (partly) | `ui/src/store/`, `ui/src/views/` | stores and forms | install answers and events, compose | `Desk`, `Logs`, `Book`, `Profiles`, `Compose`, `Launch` |
| Number generator, security | `numbers-gen`, `security` | none | stubs | not modelled |

How they interact. A campaign's emitter calls `Sender::dispatch`, which opens the row, marks the attempt, and awaits
`SessionHandle::request`. The request waits for the limiter and a window slot, takes a number in the correlation table, and
puts its PDU in a bounded queue. The supervisor is the only writer of the socket; the reader task, spawned for each
connection, resolves entries of the table and queues its own answers in the same outgoing queue. Deliveries go to a second
bounded queue, read by the receipt loop, which hands receipts to a pipeline that moves the rows of the journal by batches. The
operator's commands reach a campaign through a watch channel (pause) and a token (cancel), and a session through its token. The
desktop shell keeps a table of live runs and one of live sessions, each under a lock held across some awaits and not others, and
tells the screens by events; the screens' own requests are answered in any order with them.

What is hard, and what makes each part correct:

* *Session.* Callers, supervisor, reader, deadlines and shutdown interleave at every await. Correct when no caller is
  orphaned, a call succeeds only on its own response, a dead link is noticed, and shutting down always ends.
* *Pacing.* A penalty read outside the lock that a throttled response raises; waiters dropped while queued. Correct when slots and
  queues are exactly the requests that hold them, nobody is admitted early, and every request comes back unless the end of its session strands it.
* *Campaign.* Two halves joined by a bounded queue, an operator who pauses and cancels, a journal that may fail, and
  a process that may die anywhere. Correct when nothing leaves that the journal does not cover, no recipient is lost from the
  count, what is decided stays decided, no run claims a completion it does not have, and cancelling ends the run (unless its session
  was shut down under one of its submits).
* *Batch.* One PDU for many recipients, refusals that name addresses, a row per recipient written one at a time. Correct when the
  report says the truth of everyone and whoever may receive a second copy is counted.
* *Receipts.* Receipts before the verdict they are about, twice, out of order; a batch declined in part and replayed. Correct
  when each is accounted for, moves its own message only, and what is announced is what is written.
* *Desk, Registry.* Two places that hold the same fact (a table and a row, a table and a closing session). Correct when
  they agree, an end stands, and the last state is always told.
* *Import.* A blocking reader on a bounded queue, batches of two transactions, cancellation. Correct when one runs at a time, its report is
  what the database holds, and both halves leave.
* *The rest* is computation and screens: a text survives its segmentation, a delay is what the policy says, a table on screen is the
  selection it names, a form sends what it shows.

Every hazard is listed in `PROJECT.json` at its line, with the properties that watch it.

## 2. The modules

`X.tla` models a component, `MCX.tla` and `x*.cfg` instantiate it for TLC, `XProofs.tla` holds its theorems. `ServicesProofs` holds those of `Desk` and `Registry`, and
`ConsoleProofs` those of the modules `Console` composes.

| Module | What it is |
|---|---|
| `Session` | One session: calls, window, table, queue, supervisor, reader. The message centre is the environment. |
| `RequestContract` | What `request()` promises its callers, with nothing behind it. `MCSession` maps `Session` onto it (`KeepsContract`). |
| `Pacing` | The send gate: pacing lock, quota, penalty, window with its waiters, queue to the connection, ring of the meter, and a clock. |
| `MessageJournal` | A journal row: lifecycle, conditional update, and the decision of a resume. Used by the next three. |
| `Campaign` | A campaign over the journal: feeder, emitter, operator, kills and relaunches. |
| `Batch` | `submit_batch` and its one-by-one fallback over the journal, with kills and refusals of the store. |
| `Receipts` | Delivery queue, receipt loop, correlation pipeline, replay, orphans, announcements. |
| `MessageContract` | What the journal promises of messages. `Campaign` and `Batch` each carry a mapping onto it (`KeepsMessageContract`). |
| `Desk` | One campaign as the desktop services see it: row, live table, runs, samplers, exit, kill, restart, and the screen. |
| `Registry` | The session registry, its callers, the closing sessions and their forwarders. |
| `Rows`, `Import` | What becomes of each row of a file (pure), and the two halves that import it. |
| `Segments`, `Templates`, `Waits`, `Frames` | Algorithms, each driven by the smallest environment that reaches its inputs. |
| `Logs`, `Book`, `Profiles`, `Compose`, `Launch` | The screens with what stands behind them: PDU log, contacts, profiles, one message, a campaign. |
| `Pages` | A table read by pages: order, limit and cursor. Used by `Logs`, `Book`, `Profiles` and `Compose`. |
| `Console` | The disjoint composition of `Segments` to `Launch`, one in use at a time; `Tools` names those a run uses. |

### How state and actions correspond to the code

*Session.* `phase[r]` is the await at which a call to `request()` stands: `gate` (pacing and window), `admitted` (holds a permit), `registered` (has an entry,
waits for room in the queue), `awaiting` (waits on its receiver). `SlotHolders` is derived from it, as the permit lives in the future. `seqOf[o]` is the number
whose receiver `o` holds and `reply[o]` what was sent into it, so `Listening(s)` is the code's `!sender.is_closed()`. `sup` is the place of the supervisor:
`top` to `binding` are `run` and `attempt_connection`, `serving` is the `select!` of `serve`, `writing` is `write`, `unbinding` to `joining` its goodbye,
`failing` and `draining` what a lost connection costs, `backoff` the wait. Each arm of the `select!` is an action. `fail_all` and each `try_recv` of the queue
are separate steps because callers run between them. A reader that does not stop in time is aborted and not awaited: it leaves `reader` for `strays`, where it
may still resolve and queue what its own connection holds, beside the next reader. Time is not counted: `DeadlinePasses` may happen to any entry, and a timer
arm may be taken when the code could find it ready; the relation the profile imposes (the response timeout is below the keep-alive period) is in `Overdue`.
Bytes that do not parse and unknown operations are both the answer `generic_nack` of `ReadRequest`.

*Pacing.* `line` is the pacing lock with its waiters, `due` the quota's next cell, `penalty` what is left of `not_before`, `nap[s]` what a
sender still sleeps of the penalty it read before queuing, `free` and `waiters` the fair semaphore. `SessionEnds` is the supervisor that
returns after a shutdown: the queue loses its receiver, so a request on its way to it is refused, and one in flight is `stranded`, its slot
with it. The window is not closed then: `window.close()` runs from the drop of the handle, which a waiting caller holds. Clocks are kept as the ticks
that are left, so that the model runs for ever in finitely many states; a timer may fire late, never early. `sent`, `newest`, `lag` and
`partial` are the ring as the code keeps it, `made` the history it is compared with.

*Campaign.* `step` is the place of the emitter, one value per await of `emit`, `dispatch` and `follow_up`; `feeder` that of the feeder. `tally` has the buckets
of `CampaignTally`. The key of a row is derived from the campaign and the number, so a recipient listed twice meets its own row. `sent` and `copies` are what
left and what the message centre took, history read only by properties and by `MessageContract`. `Submit` is the whole exchange with the centre: a kill before
or after the answer is read leaves the same row, because nothing is written between; with the session shut down meanwhile it never returns (`LostInFlight`, step
`stranded`). `Kill` keeps the journal and what was sent. One segment per message here; several in `Batch`.

*Batch.* `phase` is the await of the call: `insert`, `attempts`, `submit`, `verdicts` on the multi path, `each`, `attempt`, `send`, `verdict` on
the one-by-one path (`again` when it re-sends rows the multi path opened). `slots` is the vector of outcomes the report is built from, `counted` whoever was counted in
`reemitted_unanswered`, `latch` what the session was found to support. A message is taken when the centre has the whole of it. The lists
a caller passes name nobody twice (`BatchAssumption`); section 5 says what the code does with one that does.

*Receipts.* An identifier is a number, whether it is padded, and its case; the three matching policies are what the code does with these.
`loop` and `pipe` are the two tasks, `hand`, `inbox` and `pending` what they hold. `updates`, `flags` and `draft` are the transaction, its
`RETURNING` and the rows inside it; `told` is the last state announced per message; `tally` what became of every `deliver_sm`.

*Desk.* Every operation that writes the row holds the lock of the table across its read, its check and its write, so each is one action;
what happens outside the lock (looking the session up, reading the list, the last event) is a step of its own. A run whose session is shut down
under a submit is `stranded`, and keeps its entry in the table. *Registry.* The lock is a
variable, because `bind` and `rebind` hold it across awaits. A session's state is a version, which is what a watch channel counts.

*Import.* `reader[i]` is the blocking half (`at` is the next row, `hand` what it offers), `queue[i]` and `open[i]` the bounded channel and whether
its receiver lives, `writer[i]` the async half with its tally, its deduplicator (`kept`) and its batch. `Rows` decides what a row is;
`View` is a file as its reader will hand it over. Each of the two calls of a batch is one transaction, which the store may refuse.

*Console.* Characters are the few that matter (plain, two-unit, unencodable, a brace), lengths are scaled so that the awkward cases fall at
the same places (a septet body one short of its budget, a delay that overflows its word), and a screen is its store with the answers still on
their way. The screen of the logs holds the rows of two tables, the PDUs and the messages (the orphans are read as the messages are), one tab and one filter;
`fetch` is the one page it may have asked for, which comes in under the tab and the filter of the moment it was asked in, and `course` says whether
the operator changed one of them meanwhile. A stored campaign may be a document of an older version, or one whose status was edited back to CREATED. The
headers of the modules say what each scales.

## 3. The runs

| Run | Instance | Checks |
|---|---|---|
| `session_core` | 2 calls, one droppable, window 1, headroom 1, 4 numbers, 2 connections, a delivery, reconnection | `SessionInv` (a waiting call has its entry), `KeepsContract` |
| `session_link` | no calls, 2 requests of the centre (an unbind among them), keep-alive on with 2 misses, 2 numbers | `ShutdownReturns`, `SilenceIsNoticed` |
| `session_served` | 2 calls, one without a slot, 1 number | `ServedCallReturns` |
| `campaign_core` | a recipient listed twice and one that cannot be built, 2 attempts, 2 runs, Reemit, failing journal | `CampaignInv` (write-ahead and balance), `RunDecides`, `KeepsMessageContract`, `RunEnds` |
| `campaign_abandon` | 3 items of 2 recipients, one unencodable, 2 attempts, 2 runs, failing journal and source, Abandon | `AbandonLeavesAlone`, `CompletedCovers` |
| `batch` | 2 calls over 4 recipients (2 of one number, one with no route) in 6 orders, batches of 2, failing journal, kills | `ReportIsTrue`, `DuplicatesCounted`, `KeepsMessageContract` |
| `receipts` | 3 messages (one own, one of another session with the same identifier in another case, one failed in part), 3 deliveries, queues of 1, Relaxed | `ReceiptsInv`, `EndsStand`, `StraysAreStrangers`, `ReceiptsDrain` |
| `desk` | 2 commands, 2 runs, 1 restart, failing store, exit | `DeskInv`, `EndStands`, `CancelFrees`, `LiveIsShown` |
| `registry` | 2 callers, 2 profiles, 2 binds, exit | `RegistryInv`, `LastStateIsTold`, `ClosedFirst`, `CallsReturn` |
| `pacing` | 2 senders, window 1, period 2, cooldown 2, queue 1, ring of 2 buckets of 2 ticks | `PacingInv`, `CooldownHolds`, `RequestsReturn` |
| `import` | 2 imports, 46 requests (files, strategies, a list), queue 1, batches of 2, events every 2 rows | `ImportInv`, `ImportEnds` |
| `console` | the computing and screen modules, one in use at a time; the logs with 2 binds, pages of 1 and 2 calls of the operator | one invariant per part: `TextsAreFaithful`, `LogsAreWhole`, `DelaysAreRight`, `BookIsTheSelection`, `ProfilesStand`, `MessagesAreAsComposed`, `CampaignsAreAsComposed`, `PdusAreFramed` |


Each property is stated in words above its definition, and has a mutant in `PROJECT.json`: a plausible slip in one definition of the model
that makes the same run fail.

Why the bounds are enough. *Session:* two calls are what it takes for one to reuse another's slot or number; a window of one makes every second call wait; one
number makes every registration wrap and meet its predecessor, and reaches the exhausted table; two are what the keep-alive needs to replace a waiter whose
entry is still in the table; two connections let something of the first reach the second. `KeepsContract` is checked where numbers are not reused within the
run: with a space small enough to wrap during a late answer, the answer to an abandoned request can be taken for that of the new holder, and
`SequenceNumber::next` says it relies on the space being large ("By the time it wraps, the responses to the first requests are long gone"). *Campaign:* one
recipient listed twice meets its own row inside a run, two runs are a kill and a resume, a queue of one holds an item while another is in hand, two attempts are
one retry. *Batch:* two calls are a kill and a second call over its rows; four recipients over batches of two make two PDUs, one of which may mix a duplicate
number with a stranger. *Receipts:* three deliveries are a receipt, its duplicate and another's in one batch, or a batch and the one after; three messages are a
credit, a confusion and an end. *Desk:* two commands race each other with the table between them, two runs are one replaced by another. *Registry:* the same for
two profiles. *Pacing:* two senders, one slot: whoever comes second waits at each place; a period, a cooldown and a bucket of two ticks have an inside and an
edge; the clock is unbounded. *Import:* files of up to seven rows cross a batch, an event period and a full queue; the second import meets the slot and the
contacts of the first. *Console:* every bound is at least one past the edge it is about, and the headers of the modules name each: templates go up to ten
characters, as the shortest in which what is written and what is read back could differ has nine (an escape and a variable); texts go up to ten, which with
two characters of two units are three segments; pages of one over three PDUs and two messages put a cursor between any two rows, and two calls of the
operator are a change of filter or tab under a page in flight and another behind it.

Deadlock checking is on for `import`, whose two halves must never wait for each other (`Stutter` is its only way to stop). The other systems
do stop: a session ends, a campaign is over, a bounded environment has nothing left to do.

### Fairness

Fairness is what the Tokio runtime gives: a task that can run does, a timer fires, and `select!` without `biased` draws its first arm at
random. Nothing is ever assumed of the message centre, the caller or the operator.

* `Session`: weak for the calls and the tasks, strong for the arms of `serve` (an arm that keeps being ready is drawn) and for the callers waiting for room in
  the queue, which Tokio serves in order.
* `Campaign`: weak, for the feeder, the emitter and the end. A submit returns, which `ServedCallReturns` justifies while the session serves, or is stranded by a
  shutdown: nothing obliges it to return, and `RunEnds` excepts a run that waits in it.
* `Receipts`: weak, for the loop and the pipeline. `Pacing`: weak, for each sender, the connection and the clock; the response timeout answers for a silent
  centre while the session lasts. `RequestsReturn` excepts who is stranded when it ends, and who waits on a window all of whose slots are.
* `Desk`: weak, for the tasks; a run returns only once cancelled (`RunEnds`), and then returns or is stranded, which `CancelFrees` excepts. `Registry`: weak,
  for the calls, the forwarders and the end of a session told to close (`ShutdownReturns`).
* `Import`: weak, for each half, the forwarder and the return; the store answers, if only to refuse.

## 4. What is proved

All by TLAPS, for every value of the constants that the module's named assumption allows (types, non-empty capacities, bounds as naturals). Each theorem that has a
run's property in its statement is that property, unchanged.

| Theorem | States | Rests on |
|---|---|---|
| `SessionInvariant` | `SessionInv` | `SessionInv` is inductive: every step that takes an entry out (`Resolve`, `Sweep`, `FailAll`) sends into the receiver if its owner listens, and `Register` takes only a free number |
| `CampaignInvariant`, `CampaignBalance`, `CampaignWriteAhead` | `CampaignInv` and its halves | `JournalInv`: the write-ahead alone is not inductive, a submit adds to `sent` and the row must already count the attempt; `OpenInHand` says what the emitter knows of its row at each step |
| `CampaignKeepsContract` | the refinement of `MessageContract` | `JournalInv`, one lemma per step of the emitter |
| `CampaignRunDecides` | `RunDecides` | each recipient fed is in the queue, in hand, decided, or left to a later run |
| `CampaignLeavesAlone` | `AbandonLeavesAlone` | the emitter reaches a recipient's mark only through the guard, which under Abandon lets be a row that an earlier run left `SENT` without an answer; `marked` is whom this run has marked itself |
| `CampaignAbandons` | `AbandonNeverDuplicates`, if `MaxAttempts = 1` | under Abandon a row that left `QUEUED` is never sent again; without the hypothesis it is false: a retry of the same run replays an unanswered attempt |
| `CampaignCompletedCovers` | `CompletedCovers` | `CoverInv`: what was fed is a prefix of the source, the queue is the part of it not yet taken, and what is behind is decided |
| `BatchReportIsTrue`, `BatchDuplicatesCounted` | `ReportIsTrue`, `DuplicatesCounted` | each recipient of a call is *untouched*, *ready* (its row open, its old copies counted), *sendable* (row SENT), *answered* (the answer consistent with what was taken) or *reported*; `ReadingIsTrue`: whatever addresses the refusals name, `match_refusals` calls accepted only who was taken, and refused only who was not |
| `BatchKeepsContract` | the refinement of `MessageContract` | the same invariant |
| `ReceiptsInvariant`, `ReceiptsEndsStand`, `ReceiptsStraysAreStrangers` | `ReceiptsInv`, `EndsStand`, `StraysAreStrangers` | `AllInv`: the receipts in hand are ones the centre pushed, identifiers lead to one own message (`IdentifiersAssumption`, which is what the centre's contract and the session key give), the draft of a transaction is ahead of the rows it will replace, and what was told agrees with them |
| `DeskInvariant`, `DeskEndStands` | `DeskInv`, `EndStands` | `DeskInv` is inductive |
| `RegistryInvariant`, `RegistryTellsLast`, `RegistryClosedFirst` | `RegistryInv`, `LastStateIsTold`, `ClosedFirst` | `RegistryInv` is inductive |
| `PacingInvariant`, `PacingCooldownHolds` | `PacingInv`, `CooldownHolds` | `AllInv`: slots count their holders, each queue lists its phase once, who began since the last penalty owes it in full, and the ring is the history rotated by `newest` |
| `ImportInvariant` | `ImportInv` | `AllInv`: the rows taken from the queue are a prefix of the file, the deduplicator holds the contacts that prefix stands for, once each (`OfferedList`), and what is stored, what is in the batch and what is still held partition them; only the import in the slot has a reader or a batch |
| `ConsoleLogsAreWhole` | `LogsAreWhole` | `OnceInv`: an entry is in one place (a queue, the hands of a task, the buffer, the table) or among the losses, each step moves it from one to another, and only a task that pushes or writes holds any; `TraversalInv`: unless a page crossed a change of tab, filter or traversal, the page in flight is for what is on screen, the rows are up to the cursor, and what is owed is on the screen or ahead of it; a crossed page owes nothing |
| `ConsoleBookIsTheSelection` | `BookIsTheSelection` | `BookInv`: a request of the table's own query starts where the table ends and there is one at most; the rows are sought, in order, up to the cursor, and all of them unless an import has yet to refresh the table; the same of the rows a request has read |
| `ConsoleProfilesStand` | `ProfilesStand` | `ScreenInv`: identifiers are unique, every row and every command holds a profile the constructor accepted, in the form the columns keep; on a screen opened once at most one command is out, and the screen holds the rows unless a command that lists again is still to answer |
| `ConsoleDelaysAreRight` | `DelaysAreRight` | a delay is the policy's at its attempt, and the factor doubles up to the last power of the word; the hours enumerated are those that `contains` accepts, by the arithmetic of the day; a slot of the ring holds a second of its own residue, and two seconds of a window never share one |
| `ConsoleMessagesAreAsComposed` | `MessagesAreAsComposed` | `FieldsInv`: a form holds only what it offers (an address loses no digit on the way, so the number read is the number typed); `SendInv`: a preview carries the text and the alphabet it was asked for, the latest generation is that of the text on screen, and a result is of one of this screen's messages; a custom TLV may have any tag, and the fields the segmenter sets are written after it |
| `ConsoleCampaignsAreAsComposed` | `CampaignsAreAsComposed` | `LaunchInv`: the row is the document of the form it was typed in, or one an older version stored or a hand edited, and its flags follow the lifecycle, by which CREATED never runs; a run holds the plan of its row; then the plan is compared with the form field by field, and the opening it computes with the first open hour |
| `ConsolePdusAreFramed` | `PdusAreFramed` | `FrameIs`: the buffer is what follows, on the wire, the octets of the PDUs already taken, so it begins where the next PDU begins and its length is read there; an end has the cause that is still in the buffer |

For `Console` each part has its start, its step and its safety lemma (`LogsStart`, `LogsStep`, `LogsSafe`); `ToolsInv` joins the invariants, and a step of the tool in use
leaves the others as they are.

The assumptions that say more than a type: `IdentifiersAssumption` (`Receipts`: the identifiers of this session's messages are not confused by the matching
policy in force), `BatchAssumption` (a list names nobody twice), `MaxAttempts = 1` as the hypothesis of `CampaignAbandons`. TLC evaluates every named assumption
on each run. `ImportAssumption` says only that a file has finitely many rows and that the strategy is one of the two the code has; the numbering plan, the files
and the options are arbitrary. Those of the console's parts say what the code's constants are: the length field fits the header and the header the largest PDU,
a length is a natural (`FramesAssumption`); `PowerOfTwo` is the table of the powers below the word and the longest policy is below the last of them, as an hour
of milliseconds is below `1 << 63` (`WaitsAssumption`); a day has more than the four hours the schedules use (`LaunchAssumption`); a number has a digit, a
sender is shorter than the longest number, and a session can be chosen (`ComposeAssumption`); the selections name lists of the book (`BookAssumption`); and the
values that stand for `None` are none of the values they replace.

Only model-checked:

* Liveness (`ShutdownReturns`, `SilenceIsNoticed`, `ServedCallReturns`, `RunEnds`, `ReceiptsDrain`, `CancelFrees`, `LiveIsShown`, `CallsReturn`,
  `RequestsReturn`, `ImportEnds`): out of TLAPS's reach, as is `ENABLED`.
* `KeepsContract`: it does not hold for every `MaxSeq`, and the assumption that would make it hold (no number comes round while its answer is out) is about a
  behaviour, not a constant.
* `TextsAreFaithful`: it compares what the encoders, the filler, the reassembly and the templates compute, by folds over a text of any length, with their
  definitions, which is induction over data.

## 5. Where the code and its documentation disagree

Met while modelling, each by reading or by a property that failed and was then restated. None is hidden by a model: the modules do what the code does.

*Session and campaign.* Shutting down does not fail the requests in flight, which only the retry path does (`supervisor.rs:138` against `:30`), and nothing
sweeps after it, so their callers wait for good; a campaign in such a call cannot be cancelled, and stays in the live table (CAMPAIGN_BUSY). A
call between its registration and the queue can have its PDU written on the next connection, after it was told that the connection took it (`supervisor.rs:161`,
`:170`). A reader that does not stop in time is aborted and not awaited (`supervisor.rs:501`, `:522`). An unbind of the
message centre may go unanswered (`reader.rs:156`, `supervisor.rs:373`). The supervisor publishes CLOSED from RECONNECT, an edge `SessionState::allows` does not
have. The bind response's sequence number is not checked. A dropped or expired call gives its slot back while its PDU is queued, so the queue may hold more than
`window_size` messages (`writer.rs:25`). Under Abandon, a retry inside a run may send a second copy (`runner.rs:706`). A row keeps the
status of an earlier attempt (`COALESCE`, `messages.rs:1089`), so a resume takes an unanswered attempt for a refused one (`resume.rs:253`),
and may go over its attempts. Under Reemit, a duplicate made by a retry inside a run is not counted as re-emitted (`campaign_invariant.rs:72`).

*Batch.* A store error does not mean nothing was sent on the one-by-one path. A key given twice in a batch is admitted the second time as a resume, and two
copies leave. A refusal before the socket is reported Uncertain on the one-by-one path. The status kept by `COALESCE` makes the duplicate of a third call
uncounted.

*Receipts.* Replaying a batch that was declined in part does not always report the same answers (`correlation.rs:826`). A space after the colon loses the value
of a receipt's field (`dlr.rs:574`). Relaxed does not try another case and no padding together.

*Pacing and metrics.* Callers queued or asleep before a throttling status are admitted during the cooldown; callers waiting on the window bank their tokens.
`tps_peak` can be below a later reading. An expired request still waiting for room is enqueued. A backward step of the clock in `AcceptanceRate` can replace a
newer slot. A ticker of metrics is added at each rebind.

*Desk and registry.* A panic emits no last event. A cancel between the return of a run and its `finish` answers Ok, and the row ends COMPLETED. A resume of a
cancelled live run answers Ok(true) and does nothing. `campaign_start` accepts a RUNNING row left by a crash, in Fresh mode. The exit writes CANCELLED
(`campaigns.rs:540` says rows are kept). Unbind and a quick bind give two binds of one `system_id`; `shutdown_all` does not wait for a session an unbind is
closing; two publishers may emit an older payload last.

*Import and contacts.* The last progress event can be dropped. An import failing after committed batches returns an error and no report, against "There is no
state in which rows were written and nothing says so". `RowSource::next_row` says blank rows are skipped, the readers hand them over. A batch's contacts are
committed before their membership, so an excluding selection read in between includes them.

*Segments and logs.* The greedy fill can take one segment more than necessary. Row identifiers are not the arrival order when a flush and a batch overlap; the
entry being written is not on the page; an entry whose switch was read on can be pushed after the flush of the switch-off.

*Screens and forms.* `logs.ts`: a filter or a tab changed during a fetch is not asked for, and the late answer installs the old rows and the old cursor. The
panel offers to start a row of status CREATED, which the lifecycle refuses (`CampaignPanel.tsx:7`). `campaign.ts`, `sessions.ts`, `contacts.ts` (references): an
older answer may be installed over newer events; a bind's answer can leave CONNECTING on screen. `bridge.ts`: two preference writes can lose one. `send.ts`: the
answer of the command overwrites a later DELIVERED; a send that failed adopts any message's update; updates emitted while the screen is left are missed; a
preview is stale after the session's layout changes. A sender's TON/NPI chosen with a blank sender is dropped. `ProfileForm` says NaN is refused as out of range
(JSON makes it null, and an empty field is 0). `session_update` after a delete re-creates the row; `session_bind` racing `session_delete` can leave a live
session without a row; one invalid stored profile fails the whole list; in `reconnect_from_document` only a large `min_backoff_s` fails instead of falling back.
`RetryPolicy::default` caps at 60 s, the form and `RetryInput::default` at 300 s; "every absent field falls back" is false for nested fields; a document that
cannot be read can be offered for starting (the backend refuses); `parse_time` accepts "+8:00" and `TlvDto` "+F"; a custom TLV with the tag of `message_payload`
is not refused, and stands beside `short_message` (`submit.rs:386`); the total counted at creation goes stale if the list grows.

## 6. Not modelled, and why

The bodies of the PDUs (data over the `rusmpp` codec), the plain reads and the migrations (SQL), the numbering plan and the guesses of the import (separator,
charset, aliases), which are inputs; the ticker of the metrics and the other counters, which only read or add one; the statuses adopted by the sessions screen
(`sessions.ts:117`); what an aborted reader still answers after its session has ended, in `Pacing`; the tab of the orphans; how much of a PDU the log shows; the
views that only display, their wording and layout. `numbers-gen` and `security` are stubs.

## 7. The plan

Done: every component above with state of its own is modelled and checked, and what its runs check of safety is proved, with the two refinements of
`MessageContract`, but for the texts of `Console` and the contract of `Session`.
Left, in this order:

1. `KeepsContract`, under a hypothesis of the theorem that says no number comes round while its answer is out: the step-by-step refinement of `RequestContract`, on top of
   `SessionInv`.
2. Action properties that hold by the invariants already proved: the report of an import stands and the contacts of an earlier one are never touched (`Import`), the ring
   of the meter is cleared only as it turns (`Pacing`), a session's slot is given back once (`Session`).
3. `TextsAreFaithful` over one cut of a text instead of all of them: that each piece is within its budget and that the pieces join up, which needs no induction once the cuts are given.
4. Shorter proofs where two lemmas of a module say nearly the same of two phases (`CampaignProofs`, `ImportProofs`, `ConsoleProofs`).
