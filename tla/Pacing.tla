------------------------------- MODULE Pacing -------------------------------
(***************************************************************************)
(* The send gate of one session: the throughput limiter, the send window   *)
(* and the meter of the submissions, shared by every task that submits     *)
(* (crates/rate-control and crates/smpp-session/src/actors/writer.rs,      *)
(* metrics.rs).                                                            *)
(*                                                                         *)
(* A request waits out the penalty it finds, queues for the pacing lock,   *)
(* takes a token, then a window slot, is metered and handed to the         *)
(* connection's queue, and gives its slot back when its outcome is         *)
(* settled.  Time is counted in ticks, and every clock is kept as the      *)
(* ticks that are left, so that the model runs for ever in finitely many   *)
(* states; a timer may fire late, never early.                             *)
(***************************************************************************)
EXTENDS Integers, SequencesExt

CONSTANTS
  Senders,      \* the tasks that submit on this session
  Window,       \* slots of the send window
  Period,       \* ticks between two cells of the quota, 0 when it is unlimited
  Cooldown,     \* ticks a throttling status stops the sending for
  QueueLimit,   \* PDUs the queue to the connection holds
  Buckets,      \* buckets of the meter's ring
  BucketTicks,  \* ticks in a bucket
  None          \* the owner of a PDU whose request has given up

ASSUME PacingAssumption ==
  /\ Window \in Nat \ {0}
  /\ Period \in Nat
  /\ Cooldown \in Nat
  /\ QueueLimit \in Nat \ {0}
  /\ Buckets \in Nat \ {0}
  /\ BucketTicks \in Nat \ {0}
  /\ None \notin Senders

VARIABLES
  phase,     \* where the request of each sender stands
  nap,       \* ticks left of the penalty a sender is sleeping out
  line,      \* who holds the pacing lock (the head) and who waits for it
  due,       \* ticks until the quota has a cell
  penalty,   \* ticks until `not_before`
  free,      \* free slots of the window
  waiters,   \* who waits for a slot, in order
  ended,     \* the supervisor has returned: the queue has no receiver left
  outgoing,  \* the queue to the connection: whose request each PDU is
  sent,      \* the ring: submissions per bucket
  newest,    \* the ring position of the newest bucket
  lag,       \* bucket boundaries crossed since the ring was last advanced, up
             \* to the whole ring: beyond it every bucket is cleared anyway
  partial,   \* ticks of the current bucket already elapsed
  made,      \* (history) submissions in each of the last buckets of time
  fresh      \* (history) who asked since the last throttling status

limiter == <<nap, line, due, penalty>>
slots   == <<free, waiters>>
meter   == <<sent, newest, lag, made>>
vars    == <<phase, limiter, slots, ended, outgoing, meter, partial, fresh>>

Phases == {"idle", "cooling", "pacing", "waiting", "granted", "sending",
           "expired", "inflight", "throttled", "settled", "stranded"}
Held   == {"granted", "sending", "expired", "inflight", "throttled", "settled", "stranded"}
Offsets == 0 .. Buckets - 1

Least(m, n)    == IF m <= n THEN m ELSE n
Greatest(m, n) == IF m >= n THEN m ELSE n

Init ==
  /\ phase = [s \in Senders |-> "idle"]
  /\ nap = [s \in Senders |-> 0]
  /\ line = << >>
  /\ due = 0
  /\ penalty = 0
  /\ free = Window
  /\ waiters = << >>
  /\ ended = FALSE
  /\ outgoing = << >>
  /\ sent = [b \in Offsets |-> 0]
  /\ newest = 0
  /\ lag = 0
  /\ partial = 0
  /\ made = [offset \in Offsets |-> 0]
  /\ fresh = {}

Moves(s, to) == phase' = [phase EXCEPT ![s] = to]

-----------------------------------------------------------------------------
(* The throughput limiter.                                                 *)

\* The penalty is read as over one tick early.
MutantPenaltyRead == Greatest(penalty - 1, 0)

\* What `serve_penalty` sleeps: the penalty as it is read, once.
PenaltyRead == penalty

\* `request` begins, on a session that is not over, and `acquire` reads the
\* penalty, before the lock.
Ask(s) ==
  /\ phase[s] = "idle" /\ ~ended
  /\ fresh' = fresh \union {s}
  /\ IF PenaltyRead > 0
       THEN /\ Moves(s, "cooling")
            /\ nap' = [nap EXCEPT ![s] = PenaltyRead]
            /\ UNCHANGED line
       ELSE /\ Moves(s, "pacing")
            /\ line' = Append(line, s)
            /\ UNCHANGED nap
  /\ UNCHANGED <<due, penalty, slots, ended, outgoing, meter, partial>>

\* The sleep is over: the caller queues for the lock and does not look again.
Wake(s) ==
  /\ phase[s] = "cooling" /\ nap[s] = 0
  /\ Moves(s, "pacing")
  /\ line' = Append(line, s)
  /\ UNCHANGED <<nap, due, penalty, slots, ended, outgoing, meter, partial, fresh>>

\* `penalise`: the resume instant is pushed out, never pulled in.
Penalised == Greatest(penalty, Cooldown)

-----------------------------------------------------------------------------
(* The send window: a fair semaphore.                                      *)

\* A slot that comes back while someone waits is counted free and handed over.
MutantSlotBack(state) ==
  /\ free' = free + 1
  /\ phase' = IF waiters = << >> THEN state ELSE [state EXCEPT ![Head(waiters)] = "granted"]
  /\ waiters' = IF waiters = << >> THEN waiters ELSE Tail(waiters)

\* A slot that comes back goes to the first waiter.
SlotBack(state) ==
  IF waiters = << >>
    THEN /\ free' = free + 1
         /\ phase' = state
         /\ UNCHANGED waiters
    ELSE /\ waiters' = Tail(waiters)
         /\ phase' = [state EXCEPT ![Head(waiters)] = "granted"]
         /\ UNCHANGED free

\* The holder of the lock finds a cell, leaves the lock and asks for a slot.
TakeToken(s) ==
  /\ phase[s] = "pacing" /\ Head(line) = s /\ due = 0
  /\ line' = Tail(line)
  /\ due' = Period
  /\ IF free > 0
       THEN Moves(s, "granted") /\ free' = free - 1 /\ UNCHANGED waiters
       ELSE Moves(s, "waiting") /\ waiters' = Append(waiters, s) /\ UNCHANGED free
  /\ UNCHANGED <<nap, penalty, ended, outgoing, meter, partial, fresh>>

-----------------------------------------------------------------------------
(* The meter.                                                              *)

\* `advance`: the buckets that were skipped are cleared, all of them at most.
Position(offset) == (newest + offset) % Buckets
Cleared == {Position(offset) : offset \in 1 .. lag}
Advanced == [b \in Offsets |-> IF b \in Cleared THEN 0 ELSE sent[b]]

\* What `rate_over` adds for the bucket at an offset, as a reader finds it now.
Read(offset) == Advanced[(Position(lag) + Buckets - offset) % Buckets]

\* `record_submitted`, then the request is registered with the table.
Submit(s) ==
  /\ phase[s] = "granted"
  /\ Moves(s, "sending")
  /\ sent' = [Advanced EXCEPT ![Position(lag)] = @ + 1]
  /\ newest' = Position(lag)
  /\ lag' = 0
  /\ made' = [made EXCEPT ![0] = @ + 1]
  /\ UNCHANGED <<limiter, slots, ended, outgoing, partial, fresh>>

-----------------------------------------------------------------------------
(* The request, from the queue to its outcome.                             *)

\* A refused hand-over is waited for like any other request.
MutantRefused == "inflight"

\* What becomes of a request the queue refuses: `Closed`, at once.
Refused == "settled"

\* The PDU goes in when the queue has room, and the send fails once the queue
\* has no receiver.  A request that gave up while it waited still sends it, and
\* only then reads its outcome.
Enqueue(s) ==
  /\ phase[s] \in {"sending", "expired"}
  /\ IF ended
       THEN Moves(s, Refused) /\ UNCHANGED outgoing
       ELSE /\ Len(outgoing) < QueueLimit
            /\ outgoing' = Append(outgoing, IF phase[s] = "sending" THEN s ELSE None)
            /\ Moves(s, IF phase[s] = "sending" THEN "inflight" ELSE "settled")
  /\ UNCHANGED <<limiter, slots, ended, meter, partial, fresh>>

\* The connection writes the head of the queue, whoever still waits for it.
Write ==
  /\ outgoing # << >>
  /\ outgoing' = Tail(outgoing)
  /\ UNCHANGED <<phase, limiter, slots, ended, meter, partial, fresh>>

\* The message centre answers a PDU that was written.
Answer(s) ==
  /\ phase[s] = "inflight" /\ ~Contains(outgoing, s) /\ ~ended
  /\ \E outcome \in {"throttled", "settled"} : Moves(s, outcome)
  /\ UNCHANGED <<limiter, slots, ended, outgoing, meter, partial, fresh>>

Disowned(s) == [i \in DOMAIN outgoing |-> IF outgoing[i] = s THEN None ELSE outgoing[i]]

\* The table gives up on the request: its timeout, or a connection lost.  The
\* PDU may still be in the queue, and stays there.
GiveUp(s) ==
  /\ phase[s] \in {"sending", "inflight"} /\ ~ended
  /\ Moves(s, IF phase[s] = "sending" THEN "expired" ELSE "settled")
  /\ outgoing' = Disowned(s)
  /\ UNCHANGED <<limiter, slots, ended, meter, partial, fresh>>

\* The supervisor returns after a shutdown: the queue goes with its receiver,
\* and with nobody left to read or to sweep, a request in flight keeps waiting
\* on an entry of the table that nothing resolves any more.
SessionEnds ==
  /\ ~ended
  /\ ended' = TRUE
  /\ outgoing' = << >>
  /\ phase' = [s \in Senders |-> IF phase[s] = "inflight" THEN "stranded" ELSE phase[s]]
  /\ UNCHANGED <<limiter, slots, meter, partial, fresh>>

\* `settle` of a throttling status, on the response path: no lock is taken.
Settle(s) ==
  /\ phase[s] = "throttled"
  /\ Moves(s, "settled")
  /\ penalty' = Penalised
  /\ fresh' = {}
  /\ UNCHANGED <<nap, line, due, slots, ended, outgoing, meter, partial>>

\* `request` returns and its permit is dropped.
Leave(s) ==
  /\ phase[s] = "settled"
  /\ SlotBack([phase EXCEPT ![s] = "idle"])
  /\ UNCHANGED <<limiter, ended, outgoing, meter, partial, fresh>>

\* A future that is dropped takes its place in a queue with it.
Without(queue, s) ==
  IF Contains(queue, s) THEN RemoveAt(queue, CHOOSE i \in DOMAIN queue : queue[i] = s) ELSE queue

\* The future is dropped, at any await: the queues forget the sender, and a
\* permit it holds is dropped with it.
Abandon(s) ==
  /\ phase[s] # "idle"
  /\ IF phase[s] \in Held
       THEN SlotBack([phase EXCEPT ![s] = "idle"])
       ELSE /\ Moves(s, "idle")
            /\ waiters' = Without(waiters, s)
            /\ UNCHANGED free
  /\ line' = Without(line, s)
  /\ nap' = [nap EXCEPT ![s] = 0]
  /\ outgoing' = Disowned(s)
  /\ UNCHANGED <<due, penalty, ended, meter, partial, fresh>>

\* A tick of the clock everyone reads.
Tick ==
  /\ due' = Greatest(due - 1, 0)
  /\ penalty' = Greatest(penalty - 1, 0)
  /\ nap' = [s \in Senders |-> Greatest(nap[s] - 1, 0)]
  /\ partial' = (partial + 1) % BucketTicks
  /\ lag' = IF partial' = 0 THEN Least(lag + 1, Buckets) ELSE lag
  /\ made' = IF partial' = 0
               THEN [offset \in Offsets |-> IF offset = 0 THEN 0 ELSE made[offset - 1]] ELSE made
  /\ UNCHANGED <<phase, line, slots, ended, outgoing, sent, newest, fresh>>

\* What a task does when it is scheduled, or what its answer makes it do.
Works(s) ==
  \/ Wake(s) \/ TakeToken(s) \/ Submit(s) \/ Enqueue(s)
  \/ Answer(s) \/ GiveUp(s) \/ Settle(s) \/ Leave(s)

Next ==
  \/ \E s \in Senders : Ask(s) \/ Works(s) \/ Abandon(s)
  \/ SessionEnds
  \/ Write
  \/ Tick

Spec == Init /\ [][Next]_vars

\* Every task runs; while the session lasts, the response timeout sees to an
\* answer that does not come and the connection writes; and time passes.
Fairness ==
  /\ \A s \in Senders : WF_vars(Works(s))
  /\ WF_vars(Write)
  /\ WF_vars(Tick)

FairSpec == Spec /\ Fairness

-----------------------------------------------------------------------------
(* Properties.                                                             *)

(***************************************************************************)
(* The variables keep to their ranges; in particular a sleeper never       *)
(* sleeps past the penalty in force, and the queue keeps to its limit.     *)
(***************************************************************************)
TypeOK ==
  /\ phase \in [Senders -> Phases]
  /\ nap \in [Senders -> 0 .. penalty]
  /\ line \in Seq(Senders)
  /\ due \in 0 .. Period
  /\ penalty \in 0 .. Cooldown
  /\ free \in 0 .. Window
  /\ waiters \in Seq(Senders)
  /\ ended \in BOOLEAN
  /\ outgoing \in Seq(Senders \union {None}) /\ Len(outgoing) <= QueueLimit
  /\ sent \in [Offsets -> Nat]
  /\ newest \in Offsets
  /\ lag \in 0 .. Buckets
  /\ partial \in 0 .. BucketTicks - 1
  /\ made \in [Offsets -> Nat]
  /\ fresh \subseteq Senders

(***************************************************************************)
(* The displayed occupancy is exact (writer.rs, window.rs): the slots that *)
(* are not free are the requests between their admission and their         *)
(* outcome, through hand-overs, timeouts, dropped futures and the end of   *)
(* the session; and nobody waits on a window that has a free slot.         *)
(***************************************************************************)
OccupancyIsExact ==
  /\ Window - free = Cardinality({s \in Senders : phase[s] \in Held})
  /\ free > 0 => waiters = << >>

(***************************************************************************)
(* Each queue is exactly the requests parked on it, once each: a future    *)
(* that is dropped leaves no ghost that would keep the lock or swallow a   *)
(* slot (limiter.rs, "the lock is the queue").                             *)
(***************************************************************************)
QueuesAreTheParked ==
  /\ IsInjective(line) /\ Range(line) = {s \in Senders : phase[s] = "pacing"}
  /\ IsInjective(waiters) /\ Range(waiters) = {s \in Senders : phase[s] = "waiting"}

(***************************************************************************)
(* Whatever the silence before a reading, each bucket that is summed holds *)
(* the submissions of its own span of time, and no other: the ring is      *)
(* cleared as it turns (metrics.rs, `advance` and `rate_over`).            *)
(***************************************************************************)
RingIsTheWindow == \A offset \in Offsets : Read(offset) = made[offset]

(* The gate: its types, its slots, its queues, and the rate it is read at.  *)
PacingInv == TypeOK /\ OccupancyIsExact /\ QueuesAreTheParked /\ RingIsTheWindow

(***************************************************************************)
(* A request begun after a throttling status takes no token before the     *)
(* cooling-off period is over, however many such statuses follow one       *)
(* another (limiter.rs, `penalise` and `serve_penalty`).                   *)
(***************************************************************************)
CooldownHolds ==
  [][\A s \in Senders : TakeToken(s) /\ s \in fresh => penalty = 0]_vars

\* Nothing will ever wake this request: it was in flight when the session
\* ended, or every slot of the window belongs to such a one.
Stranded(s) ==
  \/ phase[s] = "stranded"
  \/ phase[s] = "waiting" /\ Cardinality({t \in Senders : phase[t] = "stranded"}) = Window

(***************************************************************************)
(* Every request that is not dropped returns, from whichever of its waits  *)
(* (the penalty, the lock, the window, the queue), unless the end of the   *)
(* session strands it: what was in flight then is never resolved, and who  *)
(* waits for its slot is never woken (actors/mod.rs, `request`, and        *)
(* supervisor.rs, where a shutdown returns without `fail_all`).            *)
(***************************************************************************)
RequestsReturn ==
  \A s \in Senders : phase[s] # "idle" ~> phase[s] = "idle" \/ Stranded(s)

=============================================================================
