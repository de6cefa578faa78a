------------------------------- MODULE Waits -------------------------------
(***************************************************************************)
(* The waits the client computes and the rates it shows: before it         *)
(* reconnects (crates/smpp-session/src/reconnect.rs, actors/supervisor.rs),*)
(* before a message is sent again (crates/messaging/src/retry.rs,          *)
(* campaign/runner.rs), before a campaign's hours open (schedule.rs), and  *)
(* the rate of its acceptances (progress.rs).  Each is a value that the    *)
(* code computes from a little state and acts upon; the clocks, the        *)
(* failures and the generator's draws are the environment's.               *)
(***************************************************************************)
EXTENDS Integers, SequencesExt

CONSTANTS
  WordBits,     \* bits of the word the back-off factors are computed in
  PowerOfTwo,   \* the factors that word holds, by their exponent
  Tick,         \* units of delay in a second
  MaxSeconds,   \* the longest delay a policy may configure, in seconds
  MaxTries,     \* the most attempts a retry policy may configure
  Day,          \* units of the clock in a day
  RateSlots,    \* seconds the acceptance rate slides over
  MaxFailures,  \* (bound) connection attempts that fail in a row
  MaxRateClock, \* (bound) seconds of a campaign
  MaxBurst      \* (bound) acceptances in a second

ASSUME WaitsAssumption ==
  /\ WordBits \in Nat \ {0} /\ Tick \in Nat \ {0}
  /\ PowerOfTwo \in [0 .. WordBits - 1 -> Nat \ {0}] /\ PowerOfTwo[0] = 1
  /\ \A n \in 1 .. WordBits - 1 : PowerOfTwo[n] = 2 * PowerOfTwo[n - 1]
  /\ MaxSeconds \in Nat \ {0} /\ MaxSeconds * Tick < PowerOfTwo[WordBits - 1]
  /\ MaxTries \in Nat \ {0} /\ Day \in Nat \ {0} /\ RateSlots \in Nat \ {0}
  /\ MaxFailures \in Nat /\ MaxRateClock \in Nat /\ MaxBurst \in Nat

VARIABLES
  link,   \* [policy, attempt, delay, before, fate]: a session that reconnects
  retry,  \* [policy, first, tried, delay, before, last, row, fate]: a message
  hours,  \* [start, window, now]: a campaign waiting for its hours
  rate    \* [ring, now, accepted]: a campaign's acceptances, and their history

Lower(m, n)  == IF m <= n THEN m ELSE n
Higher(m, n) == IF m >= n THEN m ELSE n

MaxWord == 2 * PowerOfTwo[WordBits - 1] - 1

-----------------------------------------------------------------------------
(* The back-off of a reconnection.                                         *)

\* wait * 2^(n - 1), saturating at the width of the word instead of wrapping.
Doubled(wait, n) ==
  Lower(wait * PowerOfTwo[Lower(Higher(n - 1, 0), WordBits - 1)], MaxWord)

\* `ReconnectPolicy::new`: what a profile may store, in seconds.
ReconnectPolicies ==
  {p \in [enabled : BOOLEAN, min : 0 .. MaxSeconds + 1, max : 0 .. MaxSeconds + 1,
          jitter : BOOLEAN] :
     p.min >= 1 /\ p.max <= MaxSeconds /\ p.max >= p.min}

BaseDelay(p, attempt) == Lower(Doubled(p.min * Tick, attempt), p.max * Tick)

\* `delay_for`: the delays the generator may draw; "equal jitter" draws from
\* the upper half.
DelaysFor(p, attempt) ==
  LET base == BaseDelay(p, attempt)
  IN  IF p.jitter THEN base \div 2 .. base ELSE {base}

Errors == {"rejected", "session_ended", "lost"}

\* `decide`: what becomes of the session once an attempt has failed.
Decision(p, error) ==
  IF error = "rejected" THEN "FATAL_STATUS"
  ELSE IF error = "session_ended" THEN "SESSION_ENDED"
  ELSE IF ~p.enabled THEN "RECONNECT_DISABLED"
  ELSE "reconnecting"

NewLinks ==
  [policy : ReconnectPolicies, attempt : {0}, delay : {0}, before : {0},
   fate : {"reconnecting"}]

\* `run`: a connection attempt fails, or a bound session loses its link.
AttemptFails(error) ==
  LET decided == Decision(link.policy, error)
      attempt == link.attempt + 1
  IN  /\ link.fate = "reconnecting"
      /\ attempt <= MaxFailures
      /\ \E delay \in IF decided = "reconnecting" THEN DelaysFor(link.policy, attempt) ELSE {0} :
           link' = [link EXCEPT !.attempt = attempt, !.delay = delay, !.before = link.delay,
                                !.fate = decided]

\* A bind that succeeds starts the back-off again.
AttemptBinds ==
  /\ link.fate = "reconnecting" /\ link.attempt > 0
  /\ link' = [link EXCEPT !.attempt = 0, !.delay = 0, !.before = 0]

-----------------------------------------------------------------------------
(* The attempts at a message.                                              *)

\* `RetryPolicy::new`: what a campaign may configure.
RetryPolicies ==
  {p \in [tries : 0 .. MaxTries + 1, base : 0 .. MaxSeconds + 1, max : 0 .. MaxSeconds + 1,
          backoff : {"fixed", "exponential"}] :
     /\ p.tries \in 1 .. MaxTries
     /\ p.base >= 1 /\ p.max <= MaxSeconds /\ p.max >= p.base}

RetryDelay(p, n) ==
  Lower(IF p.backoff = "fixed" THEN p.base * Tick ELSE Doubled(p.base * Tick, n), p.max * Tick)

\* What `is_retryable` says of each way a submission may fail.
Failures    == {"fatal", "recoverable", "throttling", "response_timeout", "closed",
                "transport", "not_bound", "not_allowed"}
Replayed    == Failures \ {"fatal", "not_allowed"}

\* The budget is looked at before the failure is.
MutantRetryDecide(p, failure, tried) ==
  IF tried >= p.tries THEN "exhausted"
  ELSE IF failure \notin Replayed THEN "fatal"
  ELSE "retrying"

\* `RetryPolicy::decide`: a fatal failure, then a spent budget.
RetryDecide(p, failure, tried) ==
  IF failure \notin Replayed THEN "fatal"
  ELSE IF tried >= p.tries THEN "exhausted"
  ELSE "retrying"

\* `numbered` and `final_transition`: what the attempt writes on its row.
RowAfter(p, failure, tried) ==
  IF tried < p.tries /\ failure \in Replayed THEN "SENT" ELSE "FAILED"

\* A resumed row may already have been tried more often than is now allowed.
NewMessages ==
  {[policy |-> p, first |-> first, tried |-> first, delay |-> 0, before |-> 0,
    last |-> "none", row |-> "SENT", fate |-> "retrying"] :
     p \in RetryPolicies, first \in 1 .. MaxTries + 1}

\* `follow_up`: the attempt in progress fails, and the next is awaited and made.
SubmissionFails(failure) ==
  LET decided == RetryDecide(retry.policy, failure, retry.tried)
      settled == [retry EXCEPT !.last = failure, !.fate = decided,
                               !.row = RowAfter(retry.policy, failure, retry.tried)]
  IN  /\ retry.fate = "retrying"
      /\ retry' = IF decided # "retrying" THEN settled
                  ELSE [settled EXCEPT !.tried = @ + 1, !.before = retry.delay,
                                       !.delay = RetryDelay(retry.policy, retry.tried)]

SubmissionAccepted ==
  /\ retry.fate = "retrying"
  /\ retry' = [retry EXCEPT !.fate = "accepted", !.row = "ACCEPTED"]

-----------------------------------------------------------------------------
(* The hours a campaign may send in.  A window opens and closes at a time  *)
(* of the day, read at an offset from UTC; an instant is in UTC.           *)

DailyWindows ==
  {w \in [open : 0 .. Day - 1, close : 0 .. Day - 1, offset : 1 - Day .. Day - 1] :
     w.open # w.close}

LocalTime(w, instant) == (instant + w.offset) % Day

ContainsInstant(w, instant) ==
  LET local == LocalTime(w, instant)
  IN  IF w.open < w.close
        THEN w.open <= local /\ local < w.close
        ELSE w.open <= local \/ local < w.close

\* `next_opening`: today's opening on the local date, or tomorrow's.
NextOpening(w, instant) ==
  LET candidate == instant - LocalTime(w, instant) + w.open
  IN  IF ContainsInstant(w, instant) THEN instant
      ELSE IF candidate > instant THEN candidate
      ELSE candidate + Day

\* `decide`, as the instant to wait for: now, to send at once.  A campaign
\* with no start has one that is past.
Decide(start, w, now) == NextOpening(w, IF start > now THEN start ELSE now)

NewCampaigns == [start : 0 .. 2 * Day, window : DailyWindows, now : {0}]

\* Time passes; the campaign asks again.
HourPasses ==
  /\ hours.now < 2 * Day
  /\ hours' = [hours EXCEPT !.now = @ + 1]

-----------------------------------------------------------------------------
(* The acceptance rate: a ring of (second, count), recognised when stale.  *)

NoSecond  == -RateSlots
EmptyRate == [i \in 0 .. RateSlots - 1 |-> [second |-> NoSecond, count |-> 0]]

\* `record`, the second counted from the first acceptance.
Recorded(ring, second, n) ==
  LET slot == ring[second % RateSlots]
      kept == IF slot.second = second THEN slot.count ELSE 0
  IN  [ring EXCEPT ![second % RateSlots] = [second |-> second, count |-> kept + n]]

\* `per_second`: the slots it sums, to divide by the seconds elapsed.
CountedAt(ring, now) ==
  Restrict(ring, {i \in DOMAIN ring : ring[i].second \in now - RateSlots + 1 .. now})

NewRate == [ring |-> EmptyRate, now |-> 0, accepted |-> [s \in 0 .. MaxRateClock |-> 0]]

\* Acceptances are reported.
Accepts(n) ==
  /\ rate.accepted[rate.now] + n <= MaxBurst
  /\ rate' = [rate EXCEPT !.ring = Recorded(rate.ring, rate.now, n),
                          !.accepted[rate.now] = @ + n]

\* A second passes, whether or not anything was accepted in it.
SecondPasses ==
  /\ rate.accepted[0] > 0 /\ rate.now < MaxRateClock
  /\ rate' = [rate EXCEPT !.now = @ + 1]

LinkNext  == AttemptBinds \/ \E error \in Errors : AttemptFails(error)
RetryNext == SubmissionAccepted \/ \E failure \in Failures : SubmissionFails(failure)
RateNext  == SecondPasses \/ \E n \in 1 .. MaxBurst : Accepts(n)

-----------------------------------------------------------------------------
(***************************************************************************)
(* Delays grow and never reset: none exceeds the ceiling of its policy nor *)
(* falls under half its floor; while the base is still doubling each is at *)
(* least the one before, jitter included; an attempt counter that ran away *)
(* waits the ceiling instead of wrapping round (reconnect.rs and retry.rs, *)
(* `delay_for`, and their callers' counters).                              *)
(***************************************************************************)
BackoffsGrow ==
  /\ (link.fate = "reconnecting" /\ link.attempt > 0) =>
       LET p      == link.policy
           factor == PowerOfTwo[Lower(link.attempt - 1, WordBits - 1)]
       IN  /\ link.delay <= p.max * Tick
           /\ 2 * link.delay >= p.min * Tick - 1
           /\ p.min * factor <= p.max => link.delay >= link.before
           /\ p.min * factor >= p.max => 2 * link.delay >= p.max * Tick - 1
  /\ (retry.fate = "retrying" /\ retry.tried > retry.first) =>
       /\ retry.delay \in retry.policy.base * Tick .. retry.policy.max * Tick
       /\ retry.delay >= retry.before

(***************************************************************************)
(* A message is never sent oftener than its policy allows, a resumed one   *)
(* once at least; what gives up on it names a failure that was fatal       *)
(* rather than the spent budget; and its row is closed by the attempt the  *)
(* campaign stops at and by no other, though the row and the replay are    *)
(* decided apart (retry.rs, `decide`; sender.rs, `final_transition`: "the  *)
(* two halves of the condition are exactly the two ways").                 *)
(***************************************************************************)
BudgetsAreKept ==
  /\ retry.tried <= Higher(retry.first, retry.policy.tries)
  /\ retry.fate = "exhausted" => retry.last \in Replayed /\ retry.tried >= retry.policy.tries
  /\ retry.fate = "fatal" => retry.last \notin Replayed
  /\ retry.row = "FAILED" <=> retry.fate \in {"exhausted", "fatal"}

\* The hours of a window, counted one by one from its opening.
OpenHours(w) == {(w.open + i) % Day : i \in 0 .. ((w.close - w.open) % Day) - 1}

(***************************************************************************)
(* Whenever it asks, a campaign is told to wait for the first instant that *)
(* is neither past, nor before its start, nor outside its hours, windows   *)
(* across midnight and zones included; and to send when that is now        *)
(* (schedule.rs, `decide`).                                                *)
(***************************************************************************)
SchedulesAreRight ==
  LET earliest == Higher(hours.start, hours.now)
      legal    == {t \in earliest .. earliest + Day :
                     (t + hours.window.offset) % Day \in OpenHours(hours.window)}
  IN  Decide(hours.start, hours.window, hours.now) = Min(legal)

(***************************************************************************)
(* The rate sums the acceptances of the seconds it slides over, each once, *)
(* and no other, whatever the silences between them, so a silence reads as *)
(* a rate that falls to nothing (progress.rs, `AcceptanceRate`).           *)
(***************************************************************************)
RatesAreRight ==
  LET counted == CountedAt(rate.ring, rate.now)
      busy    == {s \in 0 .. rate.now : s > rate.now - RateSlots /\ rate.accepted[s] > 0}
  IN  /\ \A i, j \in DOMAIN counted : counted[i].second = counted[j].second => i = j
      /\ Range(counted) = {[second |-> s, count |-> rate.accepted[s]] : s \in busy}

(* Every delay, budget, opening and rate is the one its rule gives.        *)
WaitsAreRight == BackoffsGrow /\ BudgetsAreKept /\ SchedulesAreRight /\ RatesAreRight
=============================================================================
