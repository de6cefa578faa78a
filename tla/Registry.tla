------------------------------ MODULE Registry ------------------------------
(* The session registry and the tasks the desktop shell starts with every   *)
(* session: bind, rebind, unbind, delete and exit, and the forwarder that   *)
(* turns state changes into sessions:state (smpp-session: registry.rs;      *)
(* src-tauri: sessions.rs, commands/session.rs).                            *)
(*                                                                          *)
(* A session is the number of its bind.  Its state is a version: what the   *)
(* watch channel counts.  How it connects and closes is the module Session. *)
(* Reading the registry for sessions:state and emitting it are one step.    *)
EXTENDS Naturals

CONSTANTS
  Profiles,       \* the stored connection profiles
  Callers,        \* commands of the interface, in parallel
  MaxBinds,       \* bound: sessions ever spawned
  MaxChanges      \* bound: state changes of an open session

ASSUME RegistryAssumption ==
  /\ Profiles # {} /\ "free" \notin Callers
  /\ MaxBinds \in Nat \ {0} /\ MaxChanges \in Nat

VARIABLES
  table,      \* the live sessions, by profile; 0 for none
  lock,       \* the call holding the registry, or "free"
  owner,      \* the profile of each session
  life,       \* whether a session is open, closing or ended
  version,    \* how many states it has published
  at,         \* where each call stands
  old,        \* the session each call is closing
  forward,    \* where the forwarder of each session stands
  seen,       \* the version it has seen
  told,       \* the newest standing of each session emitted so far
  leaving     \* the sessions the exit waits for, or "no"

vars == <<table, lock, owner, life, version, at, old, forward, seen,
          told, leaving>>
callVars == <<at, old>>
taskVars == <<forward, seen>>

Sessions == 1..MaxBinds
Unused == {s \in Sessions : life[s] = "none"}
(* Past every version: the session is out of the list.                      *)
Gone == MaxChanges + 2

Init ==
  /\ table = [p \in Profiles |-> 0] /\ lock = "free"
  /\ owner = [s \in Sessions |-> CHOOSE p \in Profiles : TRUE]
  /\ life = [s \in Sessions |-> "none"] /\ version = [s \in Sessions |-> 0]
  /\ at = [k \in Callers |-> "idle"] /\ old = [k \in Callers |-> 0]
  /\ forward = [s \in Sessions |-> "none"] /\ seen = [s \in Sessions |-> 0]
  /\ told = [s \in Sessions |-> 0]
  /\ leaving = {0}

Free == lock = "free"
Running == leaving = {0}

-----------------------------------------------------------------------------
(* The registry.                                                            *)

(* Cancelling the token of an open session: its supervisor unbinds.         *)
Closing(S) ==
  [s \in Sessions |-> IF s \in S /\ life[s] = "open" THEN "closing" ELSE life[s]]

(* spawn_observed, the insertion, and the tasks the shell starts for it.    *)
Spawn(k, p) ==
  \E s \in Unused :
    /\ \A other \in Unused : s <= other
    /\ table' = [table EXCEPT ![p] = s] /\ owner' = [owner EXCEPT ![s] = p]
    /\ life' = [life EXCEPT ![s] = "open"]
    /\ forward' = [forward EXCEPT ![s] = "watch"]
    /\ at' = [at EXCEPT ![k] = "answer"] /\ lock' = "free"
    /\ old' = [old EXCEPT ![k] = 0]
    /\ UNCHANGED <<version, seen, told, leaving>>

(* A handle shut down while it is still in the table.                       *)
MutantTaken(p) == table

(* The entry of a profile is taken out.                                     *)
Taken(p) == [table EXCEPT ![p] = 0]

(* bind of a profile that is live: it leaves the table and is shut down     *)
(* while the lock is held.                                                  *)
Rebind(k, p) ==
  /\ at[k] = "idle" /\ Free /\ Running /\ table[p] # 0 /\ Unused # {}
  /\ lock' = k /\ table' = Taken(p)
  /\ life' = Closing({table[p]})
  /\ old' = [old EXCEPT ![k] = table[p]] /\ at' = [at EXCEPT ![k] = "rebind"]
  /\ UNCHANGED <<owner, version, taskVars, told, leaving>>

(* A shutdown that signals and does not wait.                               *)
MutantClosed(s) == TRUE

(* A shutdown that also joins the forwarder, which needs the registry.      *)
MutantJoins(s) == life[s] = "ended" /\ forward[s] = "done"

(* previous.shutdown() returns when its tasks have ended.                   *)
Closed(s) == life[s] = "ended"

Rebound(k) == at[k] = "rebind" /\ Closed(old[k]) /\ Spawn(k, owner[old[k]])

(* bind of a profile that is not: only when no other session is live.       *)
Admitted == \A p \in Profiles : table[p] = 0

Bind(k, p) == at[k] = "idle" /\ Free /\ Running /\ Admitted /\ Spawn(k, p)

(* unbind, and delete before the row goes: the handle is taken out under    *)
(* the lock and shut down outside it.  An unknown session is already closed.*)
Unbind(k, p) ==
  /\ at[k] = "idle" /\ Free /\ Running
  /\ table' = Taken(p)
  /\ old' = [old EXCEPT ![k] = table[p]]
  /\ life' = Closing({table[p]})
  /\ at' = [at EXCEPT ![k] = IF table[p] = 0 THEN "answer" ELSE "unbind"]
  /\ UNCHANGED <<lock, owner, version, taskVars, told, leaving>>

Unbound(k) ==
  /\ at[k] = "unbind" /\ Closed(old[k])
  /\ at' = [at EXCEPT ![k] = "answer"] /\ old' = [old EXCEPT ![k] = 0]
  /\ UNCHANGED <<table, lock, owner, life, version, taskVars, told, leaving>>

(* shutdown_all: the table is emptied under the lock, then each session is  *)
(* closed and waited for.                                                   *)
Exit ==
  /\ Running /\ Free
  /\ leaving' = {table[p] : p \in Profiles} \ {0}
  /\ table' = [p \in Profiles |-> 0]
  /\ life' = Closing(leaving')
  /\ UNCHANGED <<lock, owner, version, callVars, taskVars, told>>

-----------------------------------------------------------------------------
(* A session, as the registry sees it.                                      *)

Published(s) == [version EXCEPT ![s] = @ + 1]

(* A new state on the watch channel: connecting, bound, dropped, again.     *)
Change(s) ==
  /\ life[s] = "open" /\ version[s] < MaxChanges
  /\ version' = Published(s)
  /\ UNCHANGED <<table, lock, owner, life, callVars, taskVars, told, leaving>>

(* The supervisor publishes its last state and returns, because it was told *)
(* to or because it gave up; the watch sender drops.                        *)
End(s) ==
  /\ life[s] \in {"open", "closing"}
  /\ life' = [life EXCEPT ![s] = "ended"]
  /\ version' = Published(s)
  /\ UNCHANGED <<table, lock, owner, callVars, taskVars, told, leaving>>

-----------------------------------------------------------------------------
(* What is told to the interface.                                           *)

(* statuses, emitted: every session of the table, as it stands.             *)
Publish ==
  /\ Free
  /\ told' = [s \in Sessions |->
       IF table[owner[s]] = s THEN version[s]
       ELSE IF life[s] # "none" THEN Gone ELSE told[s]]

(* The end of a command.                                                    *)
Answer(k) ==
  /\ at[k] = "answer" /\ Publish
  /\ at' = [at EXCEPT ![k] = "idle"]
  /\ UNCHANGED <<table, lock, owner, life, version, old, taskVars, leaving>>

(* watch.changed() fails: the supervisor has dropped the sender and there   *)
(* is nothing left to see.                                                  *)
SenderGone(s) == version[s] = seen[s] /\ life[s] = "ended"

(* The forwarder: wake on a change, or for the last time when the sender is *)
(* gone; publish; sleep; wait again.                                        *)
Wake(s) ==
  /\ forward[s] = "watch"
  /\ \/ version[s] # seen[s] /\ forward' = [forward EXCEPT ![s] = "publish"]
     \/ SenderGone(s) /\ forward' = [forward EXCEPT ![s] = "last"]
  /\ seen' = [seen EXCEPT ![s] = version[s]]
  /\ UNCHANGED <<table, lock, owner, life, version, callVars, told,
                 leaving>>

Forward(s) ==
  /\ forward[s] \in {"publish", "last"} /\ Publish
  /\ forward' = [forward EXCEPT ![s] = IF @ = "publish" THEN "sleep" ELSE "done"]
  /\ UNCHANGED <<table, lock, owner, life, version, callVars, seen, leaving>>

(* The newest version marked as seen after the sleep, unread.               *)
MutantAfterPause(s) == version[s]

(* The version the forwarder holds seen once it has slept.                  *)
AfterPause(s) == seen[s]

Slept(s) ==
  /\ forward[s] = "sleep" /\ forward' = [forward EXCEPT ![s] = "watch"]
  /\ seen' = [seen EXCEPT ![s] = AfterPause(s)]
  /\ UNCHANGED <<table, lock, owner, life, version, callVars, told,
                 leaving>>

CallMoves(k) == Rebound(k) \/ Unbound(k) \/ Answer(k)
Forwards(s) == Wake(s) \/ Forward(s) \/ Slept(s)

Next ==
  \/ Exit
  \/ \E k \in Callers :
       CallMoves(k) \/ \E p \in Profiles : Bind(k, p) \/ Rebind(k, p) \/ Unbind(k, p)
  \/ \E s \in Sessions : Change(s) \/ End(s) \/ Forwards(s)

Spec == Init /\ [][Next]_vars

(* The tasks are polled, and a session that was told to close ends          *)
(* (ShutdownReturns of Session).                                            *)
FairSpec ==
  /\ Spec
  /\ \A k \in Callers : WF_vars(CallMoves(k))
  /\ \A s \in Sessions :
       /\ WF_vars(life[s] = "closing" /\ End(s))
       /\ WF_vars(Forwards(s))

-----------------------------------------------------------------------------
(* The types of the state.                                                  *)
TypeOK ==
  /\ table \in [Profiles -> Sessions \cup {0}] /\ lock \in Callers \cup {"free"}
  /\ owner \in [Sessions -> Profiles]
  /\ life \in [Sessions -> {"none", "open", "closing", "ended"}]
  /\ version \in [Sessions -> 0..(MaxChanges + 1)]
  /\ at \in [Callers -> {"idle", "rebind", "unbind", "answer"}]
  /\ old \in [Callers -> Sessions \cup {0}]
  /\ forward \in [Sessions -> {"none", "watch", "publish", "last", "sleep",
                               "done"}]
  /\ seen \in [Sessions -> 0..(MaxChanges + 1)]
  /\ told \in [Sessions -> 0..Gone]
  /\ leaving \subseteq Sessions \cup {0}

(* The message centre sees one bind at a time, but for the one case the     *)
(* code leaves open: a session is spawned only when every earlier one has   *)
(* ended, or is being closed by an unbind that has already let go of the    *)
(* table (registry.rs, bind_observed and unbind).                           *)
ClosedFirst ==
  [][\A s \in Sessions : life[s] = "none" /\ life'[s] = "open" =>
       \A other \in Sessions : life[other] \in {"open", "closing"} =>
         \E k \in Callers : at[k] = "unbind" /\ old[k] = other]_vars

(* A session in the table is one that nobody told to close, and there is at *)
(* most one; a session that is open is in the table.                        *)
TableIsLive ==
  /\ \A p \in Profiles : table[p] # 0 =>
       owner[table[p]] = p /\ life[table[p]] \in {"open", "ended"}
  /\ \A s \in Sessions : life[s] = "open" => table[owner[s]] = s
  /\ \A p, q \in Profiles : table[p] # 0 /\ table[q] # 0 => p = q

(* Pacing coalesces states and never loses the last: a forwarder that waits *)
(* with nothing new to see has told the interface the state the session is  *)
(* in, and one that is done has told that it is over or out of the list     *)
(* (sessions.rs, forward: "the last state a session reaches is always       *)
(* emitted").                                                               *)
LastStateIsTold ==
  \A s \in Sessions :
    /\ forward[s] = "watch" /\ seen[s] = version[s] => told[s] >= version[s]
    /\ forward[s] = "done" => told[s] >= version[s]

(* Every command comes back: nobody waits for the registry for ever while a *)
(* rebind holds it through the closing of the previous session; and the     *)
(* forwarder of a session that has ended, which needs it too, returns.      *)
CallsReturn ==
  /\ \A k \in Callers : at[k] # "idle" ~> at[k] = "idle"
  /\ \A s \in Sessions : life[s] = "ended" ~> forward[s] = "done"

(* What the steps of the registry keep between them: a rebind that waits    *)
(* holds the registry and has emptied it; a session that is being closed    *)
(* has somebody waiting for it; and a forwarder is never ahead of its       *)
(* session, and has told what it has seen.                                  *)
RebindHolds ==
  /\ \A k \in Callers : at[k] = "rebind" => lock = k /\ old[k] # 0 /\ Running
  /\ lock # "free" => \A p \in Profiles : table[p] = 0

ClosingIsAwaited ==
  \A s \in Sessions : life[s] = "closing" =>
    ~Running \/ \E k \in Callers : at[k] \in {"rebind", "unbind"} /\ old[k] = s

ForwarderFollows ==
  \A s \in Sessions :
    /\ seen[s] <= version[s]
    /\ life[s] = "none" => version[s] = 0
    /\ life[s] # "ended" => version[s] <= MaxChanges
    /\ forward[s] \in {"watch", "sleep"} => told[s] >= seen[s]
    /\ forward[s] \in {"last", "done"} => life[s] = "ended"
    /\ forward[s] = "done" => told[s] >= version[s]

(* The inductive invariant of the registry.                                 *)
RegistryInv ==
  TypeOK /\ TableIsLive /\ RebindHolds /\ ClosingIsAwaited /\ ForwarderFollows

=============================================================================
