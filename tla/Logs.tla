-------------------------------- MODULE Logs --------------------------------
(***************************************************************************)
(* The PDU log and the reading of a log by pages                           *)
(* (crates/logging-export/src/pdu_log.rs, src-tauri/src/logs.rs,           *)
(* commands/logs.rs, persistence/src/repositories/{pdu_log,messages,       *)
(* dlr_orphans,page}.rs).                                                  *)
(*                                                                         *)
(* Each bind has an observer that pushes what crosses the socket on a      *)
(* bounded queue, and a task that drains it into the one recorder.  The    *)
(* recorder, when on, buffers entries and writes them by batches; the      *)
(* operator's switch and the log screen flush it from tasks of their own.  *)
(* The screen (ui/src/store/logs.ts) meanwhile pages through a table that  *)
(* grows, and through the messages, whose rows come and go from its        *)
(* filter; the operator changes tab and filter while a page is on its way. *)
(* The tab of the orphans is read as that of the messages is.              *)
(***************************************************************************)
EXTENDS Pages

CONSTANTS
  Binds,        \* the binds whose PDUs are observed
  MaxSeen,      \* (bound) how many PDUs each bind sees
  QueueRoom,    \* PDU_QUEUE_CAPACITY
  Threshold,    \* FLUSH_THRESHOLD
  Limit,        \* rows of a page
  MaxMessages,  \* (bound) rows of the messages table
  MaxCalls      \* (bound) switches, tabs, filters and reloads the operator asks for

ASSUME LogsAssumption ==
  /\ MaxSeen \in [Binds -> Nat] /\ QueueRoom \in Nat \ {0} /\ Threshold \in Nat \ {0}
  /\ Binds \intersect {"switch", "screen"} = {}
  /\ Limit \in Nat \ {0} /\ MaxMessages \in Nat /\ MaxCalls \in Nat

VARIABLES
  enabled,    \* whether recording is on
  seen,       \* PDUs each bind has seen
  unrecorded, \* PDUs each bind has seen that will never be in the log
  inbox,      \* the queue of each bind
  pending,    \* entries the recorder holds
  task,       \* what each drain task and each call of the operator is doing
  stored,     \* the pdu_log table, by identifier
  messages,   \* the messages table, by rowid: whether the filter selects each
  screen,     \* [tab, filtered, rows, cursor, exhausted]: the store of the screen
  fetch,      \* [tab, filtered, from, append]: the last page asked for
  course,     \* (history) how far the traversal on screen is, or that a page asked
              \* for something else crossed it
  owed,       \* (history) what the traversal has to show
  calls       \* (bound) calls the operator has made

recorder == <<enabled, seen, unrecorded, inbox, pending, stored>>
reading  == <<screen, fetch, course>>
vars == <<enabled, seen, unrecorded, inbox, pending, task, stored, messages, reading, owed, calls>>

Callers == {"switch", "screen"}

\* What a task does next, and the entries it holds.
At(step, entries) == [step |-> step, entries |-> entries]
Idle == At("idle", <<>>)

Tabs == {"pdus", "messages"}
NoRows == [tab \in Tabs |-> <<>>]
Closed == [tab |-> "messages", filtered |-> FALSE, rows |-> NoRows, cursor |-> 0,
           exhausted |-> FALSE]
LogRequest(s, append) ==
  [tab |-> s.tab, filtered |-> s.filtered, from |-> IF append THEN s.cursor ELSE 0,
   append |-> append]

LogsInit ==
  /\ enabled = FALSE
  /\ seen = [b \in Binds |-> 0]
  /\ unrecorded = [b \in Binds |-> {}]
  /\ inbox = [b \in Binds |-> <<>>]
  /\ pending = <<>>
  /\ task = [t \in Binds \union Callers |-> Idle]
  /\ stored = <<>>
  /\ messages = <<>>
  /\ screen = Closed
  /\ fetch = LogRequest(Closed, FALSE)
  /\ course = "opening"
  /\ owed = {}
  /\ calls = 0

-----------------------------------------------------------------------------
(* The observer and the recorder.                                          *)

Lost(entries) ==
  [b \in Binds |-> unrecorded[b] \union {e.number : e \in {x \in ToSet(entries) : x.bind = b}}]

\* `QueueingObserver::saw`: a full queue drops the entry.
Saw(b) ==
  LET entry == [bind |-> b, number |-> seen[b] + 1]
  IN  /\ seen[b] < MaxSeen[b]
      /\ seen' = [seen EXCEPT ![b] = @ + 1]
      /\ IF Len(inbox[b]) < QueueRoom
           THEN inbox' = [inbox EXCEPT ![b] = Append(@, entry)] /\ UNCHANGED unrecorded
           ELSE unrecorded' = Lost(<<entry>>) /\ UNCHANGED inbox
      /\ UNCHANGED <<enabled, pending, task, stored, messages, reading, owed, calls>>

\* The drain task receives an entry, and `observe` reads the switch.
Drain(b) ==
  /\ task[b] = Idle
  /\ inbox[b] # <<>>
  /\ inbox' = [inbox EXCEPT ![b] = Tail(@)]
  /\ IF enabled
       THEN task' = [task EXCEPT ![b] = At("push", <<Head(inbox[b])>>)] /\ UNCHANGED unrecorded
       ELSE unrecorded' = Lost(<<Head(inbox[b])>>) /\ UNCHANGED task
  /\ UNCHANGED <<enabled, seen, pending, stored, messages, reading, owed, calls>>

\* A batch is copied out of the buffer and left in it.
MutantKept(entries) == entries

\* `core::mem::take`: what the buffer holds once a batch is taken from it.
Kept(entries) == <<>>

\* The rest of `observe`: the entry is buffered and a full buffer is taken.
Buffer(b) ==
  LET held == pending \o task[b].entries
  IN  /\ task[b].step = "push"
      /\ IF Len(held) < Threshold
           THEN pending' = held /\ task' = [task EXCEPT ![b] = Idle]
           ELSE pending' = Kept(held) /\ task' = [task EXCEPT ![b] = At("write", held)]
      /\ UNCHANGED <<enabled, seen, unrecorded, inbox, stored, messages, reading, owed, calls>>

\* `flush`, up to its write.
Flush(t) ==
  /\ task[t].step = "flush"
  /\ pending' = Kept(pending)
  /\ task' = [task EXCEPT ![t] = At(IF pending = <<>> THEN "answer" ELSE "write", pending)]
  /\ owed' = IF t = "screen" /\ course = "opening" THEN ToSet(pending) \union ToSet(stored) ELSE owed
  /\ UNCHANGED <<enabled, seen, unrecorded, inbox, stored, messages, reading, calls>>

AfterWrite(t) == IF t \in Callers THEN At("answer", <<>>) ELSE Idle

\* `insert_entries`: one transaction; a batch that is refused is gone.
Write(t) ==
  /\ task[t].step = "write"
  /\ \/ stored' = stored \o task[t].entries /\ UNCHANGED <<unrecorded, owed>>
     \/ /\ unrecorded' = Lost(task[t].entries)
        /\ owed' = IF screen.tab = "pdus" THEN owed \ ToSet(task[t].entries) ELSE owed
        /\ UNCHANGED stored
  /\ task' = [task EXCEPT ![t] = AfterWrite(t)]
  /\ UNCHANGED <<enabled, seen, inbox, pending, messages, reading, calls>>

\* `logs_set_pdu_logging`: switching off flushes.
Switch ==
  /\ task["switch"] = Idle
  /\ calls < MaxCalls
  /\ calls' = calls + 1
  /\ enabled' = ~enabled
  /\ task' = [task EXCEPT !["switch"] = At(IF enabled THEN "flush" ELSE "answer", <<>>)]
  /\ UNCHANGED <<seen, unrecorded, inbox, pending, stored, messages, reading, owed>>

-----------------------------------------------------------------------------
(* The messages table, and the traversal of a table by pages.              *)

\* A message is journalled, or a row enters or leaves what the filter selects.
Journalled ==
  /\ \/ /\ Len(messages) < MaxMessages
        /\ \E selected \in BOOLEAN : messages' = Append(messages, selected)
        /\ UNCHANGED owed
     \/ \E i \in DOMAIN messages :
          /\ messages' = [messages EXCEPT ![i] = ~@]
          /\ owed' = IF screen.tab = "messages" /\ screen.filtered /\ messages[i]
                     THEN owed \ {i} ELSE owed
  /\ UNCHANGED <<recorder, task, reading, calls>>

\* The rows of a tab that the filter in force selects, by identifier.
Selected(tab, filtered) ==
  IF tab = "pdus" THEN DOMAIN stored ELSE {i \in DOMAIN messages : filtered => messages[i]}

\* `page_entries` and `page_messages`.
Page(request) ==
  IntoPage({i \in Selected(request.tab, request.filtered) : i > request.from}, Limit)

\* A request of the screen is in flight.
Loading == task["screen"] # Idle

\* `fetchPage` with nothing in flight: the tab, the filter and the cursor are
\* those of the moment; the PDUs are flushed before they are read.
Ask(s, append, tasks) ==
  /\ fetch' = LogRequest(s, append)
  /\ task' = [tasks EXCEPT !["screen"] = At(IF s.tab = "pdus" THEN "flush" ELSE "answer", <<>>)]

\* `reload`, in the store `s`: `fetchPage` gives up while a request is in flight,
\* and the page on its way is then for what was on screen before.
ReloadLog(s, tasks) ==
  /\ screen' = [s EXCEPT !.cursor = 0, !.exhausted = FALSE]
  /\ IF Loading
       THEN /\ course' = "crossed" /\ owed' = {}
            /\ task' = tasks /\ UNCHANGED fetch
       ELSE /\ course' = "opening"
            /\ owed' = IF s.tab = "pdus" THEN {} ELSE Selected(s.tab, s.filtered)
            /\ Ask(screen', FALSE, tasks)

\* `show` and `reload` keep the rows until the answer; `setFilter` clears them.
Operate ==
  /\ calls < MaxCalls /\ calls' = calls + 1
  /\ \/ \E tab \in Tabs : ReloadLog([screen EXCEPT !.tab = tab], task)
     \/ \E f \in BOOLEAN : ReloadLog([screen EXCEPT !.filtered = f, !.rows = NoRows], task)
  /\ UNCHANGED <<recorder, messages>>

\* The answer to `logs_set_pdu_logging`; `setPduLogging` then reloads, unless the
\* call failed.
Switched ==
  /\ task["switch"].step = "answer"
  /\ LET tasks == [task EXCEPT !["switch"] = Idle]
     IN  \/ task' = tasks /\ UNCHANGED <<reading, owed>>
         \/ ReloadLog(screen, tasks)
  /\ UNCHANGED <<recorder, messages, calls>>

\* The window reaches the end of what it holds: `loadMore`.
More ==
  /\ ~Loading
  /\ ~screen.exhausted /\ screen.cursor # 0 /\ screen.rows[screen.tab] # <<>>
  /\ Ask(screen, TRUE, task)
  /\ UNCHANGED <<recorder, messages, screen, course, owed, calls>>

\* The query runs and its page comes in, under the tab it was asked for; its
\* cursor becomes that of the screen.
Answered ==
  LET page == Page(fetch)
  IN  /\ task["screen"].step = "answer"
      /\ screen' = [screen EXCEPT
                      !.rows[fetch.tab] = IF fetch.append THEN @ \o page.rows ELSE page.rows,
                      !.cursor = page.next,
                      !.exhausted = page.next = 0]
      /\ course' = IF course = "opening" THEN "through" ELSE course
      /\ task' = [task EXCEPT !["screen"] = Idle]
      /\ UNCHANGED <<recorder, messages, fetch, owed, calls>>

\* The call fails, and what is on screen stays.
Unanswered ==
  /\ task["screen"].step = "answer"
  /\ task' = [task EXCEPT !["screen"] = Idle]
  /\ UNCHANGED <<recorder, messages, reading, owed, calls>>

LogsNext ==
  \/ \E b \in Binds : Saw(b) \/ Drain(b) \/ Buffer(b)
  \/ \E t \in Binds \union Callers : Flush(t) \/ Write(t)
  \/ Switch \/ Switched
  \/ Journalled
  \/ Operate \/ More \/ Answered \/ Unanswered

-----------------------------------------------------------------------------
\* What is held where an entry may be: the queue of a bind, the hands of a task,
\* the recorder's buffer and the table.
Contents ==
  [place \in ({"queue"} \X Binds) \union ({"task"} \X (Binds \union Callers))
               \union ({"buffer", "table"} \X {0}) |->
     CASE place[1] = "queue"  -> inbox[place[2]]
       [] place[1] = "task"   -> task[place[2]].entries
       [] place[1] = "buffer" -> pending
       [] place[1] = "table"  -> stored]

HeldIn(c) == UNION {ToSet(c[place]) : place \in DOMAIN c}

\* No entry is in two places, nor twice in one.
OnceIn(c) ==
  \A p, q \in DOMAIN c : \A i \in DOMAIN c[p], j \in DOMAIN c[q] :
    c[p][i] = c[q][j] => p = q /\ i = j

(***************************************************************************)
(* What crossed the socket is queued, buffered, being written or written,  *)
(* in one place only, or was not to be recorded; whoever flushes while     *)
(* others push (pdu_log.rs, `PduRecorder`: the buffer is taken under its   *)
(* lock and written outside it).                                           *)
(***************************************************************************)
RecordedOnce ==
  /\ OnceIn(Contents)
  /\ \A b \in Binds :
       {n \in 1 .. seen[b] : [bind |-> b, number |-> n] \notin HeldIn(Contents)} = unrecorded[b]

(***************************************************************************)
(* Paging through a table that grows while it is read shows no row twice   *)
(* (page.rs, `into_page`: the cursor is the identifier of the last row),   *)
(* unless a page asked for before the last tab, filter or reload came in   *)
(* after it.                                                               *)
(***************************************************************************)
OnScreen == screen.rows[screen.tab]

ReadOnce ==
  course = "through" => \A i, j \in DOMAIN OnScreen : i < j => OnScreen[i] < OnScreen[j]

(***************************************************************************)
(* And leaves none out: at the end of the table, every row its filter      *)
(* selected from the moment it was opened has been shown, and of the PDUs  *)
(* what its flush found the recorder holding (commands/logs.rs,            *)
(* `logs_pdus`: "whatever is still buffered belongs on the screen").       *)
(***************************************************************************)
NoneMissed ==
  course = "through" /\ screen.exhausted =>
    owed \subseteq (IF screen.tab = "pdus" THEN {stored[i] : i \in ToSet(OnScreen)}
                    ELSE ToSet(OnScreen))

(* The log shows what crossed the socket: recorded once, and read once.    *)
LogIsWhole == RecordedOnce /\ ReadOnce /\ NoneMissed
=============================================================================
