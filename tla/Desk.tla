-------------------------------- MODULE Desk --------------------------------
(* The campaign services of the desktop shell, for one campaign: the row of *)
(* the store, the table of live runs, the four controls an operator has,    *)
(* the task that drives a run with its progress sampler and the task that   *)
(* joins it, the screen that follows them, the exit of the application, a   *)
(* kill and a restart (src-tauri: campaigns.rs, commands/campaign.rs,       *)
(* lib.rs; messaging: campaign/mod.rs, campaign/control.rs; ui:             *)
(* store/campaign.ts).                                                      *)
(*                                                                          *)
(* Every operation that writes the row holds the lock of the table across   *)
(* its read, its check and its write, so each of them is one action; what   *)
(* happens outside the lock (looking the session up, reading the list, the  *)
(* last event) is a step of its own.                                        *)
EXTENDS Naturals, FiniteSets

CONSTANTS
  Commands,       \* campaign_start and campaign_resume calls, in parallel
  MaxRuns,        \* bound: runs of the campaign, over every process
  MaxRestarts,    \* bound: processes after the first one
  StoreFails,     \* whether a write of the row may fail
  Exits           \* whether the operator may close the application

ASSUME DeskAssumption ==
  /\ MaxRuns \in Nat \ {0} /\ MaxRestarts \in Nat
  /\ StoreFails \in BOOLEAN /\ Exits \in BOOLEAN

VARIABLES
  row,       \* the status of the stored campaign, "absent" before create
  live,      \* the run registered in the live table, 0 when there is none
  phase,     \* where the task of each run stands
  control,   \* what each run has been told: its CampaignControl
  sampler,   \* whether the progress sampler of each run is still looping
  outcome,   \* the status each run returned
  calls,     \* where each start or resume call stands
  app,       \* "up", "exiting" or "down"
  restarts,  \* how many times the application has been started again
  screen,    \* what the interface shows of it: "absent", "live" or "idle"
  list       \* the answer of the campaign_list call in flight, or "none"

deskVars == <<row, live, phase, control, sampler, outcome, calls, app,
          restarts, screen, list>>
runVars == <<phase, control, sampler, outcome>>
appVars == <<app, restarts>>
viewVars == <<screen, list>>

Runs == 1..MaxRuns
Terminal == {"COMPLETED", "CANCELLED", "FAILED"}
Status == {"CREATED", "VALIDATED", "RUNNING", "PAUSED"} \cup Terminal

Phases == {"none", "going", "stranded", "returned", "panicked", "finished", "over", "killed"}
(* The runs that have neither returned nor panicked.                        *)
UnderWay(r) == phase[r] \in {"going", "stranded"}
(* The runs whose task has not given the table back yet.                    *)
Unfinished == {r \in Runs : UnderWay(r) \/ phase[r] \in {"returned", "panicked"}}

Shown(alive) == IF alive THEN "live" ELSE "idle"

DeskInit ==
  /\ row = "absent" /\ live = 0
  /\ phase = [r \in Runs |-> "none"]
  /\ control = [r \in Runs |-> "running"]
  /\ sampler = [r \in Runs |-> "off"]
  /\ outcome = [r \in Runs |-> "COMPLETED"]
  /\ calls = [c \in Commands |-> "idle"]
  /\ app = "up" /\ restarts = 0
  /\ screen = "absent" /\ list = "none"

-----------------------------------------------------------------------------
(* Writing the row.                                                         *)

(* A terminal status that can be left again.                                *)
MutantCanMove(from, to) ==
  \/ from = to \/ to \in {"CANCELLED", "FAILED"}
  \/ <<from, to>> \in { <<"CREATED", "VALIDATED">>, <<"VALIDATED", "RUNNING">>,
                        <<"RUNNING", "PAUSED">>, <<"PAUSED", "RUNNING">>,
                        <<"RUNNING", "COMPLETED">>, <<"PAUSED", "COMPLETED">> }

(* The lifecycle: a replayed command is a no-op, nothing else leaves a      *)
(* terminal status, and stopping is open to every campaign still alive.     *)
CanMove(from, to) ==
  \/ from = to
  \/ /\ from \notin Terminal
     /\ \/ to \in {"CANCELLED", "FAILED"}
        \/ <<from, to>> \in { <<"CREATED", "VALIDATED">>,
                              <<"VALIDATED", "RUNNING">>,
                              <<"RUNNING", "PAUSED">>, <<"PAUSED", "RUNNING">>,
                              <<"RUNNING", "COMPLETED">>,
                              <<"PAUSED", "COMPLETED">> }

(* A write that failed and was only logged, as finish does.                 *)
MutantWriteStatus(next) ==
  row # "absent" /\ CanMove(row, next) /\ row' \in {next} \cup {s \in {row} : StoreFails}

(* write_status: the row is read again under the lock, the lifecycle        *)
(* decides, the row is written.                                             *)
WriteStatus(next) == row # "absent" /\ CanMove(row, next) /\ row' = next

(* RunState::Cancelled holds whatever is set afterwards: the token is read  *)
(* first.                                                                   *)
Told(r, order) ==
  [control EXCEPT ![r] = IF @ = "cancelled" THEN @ ELSE order]

(* campaign_create: what was checked is stored VALIDATED.                   *)
Create ==
  /\ app = "up" /\ row = "absent" /\ row' = "VALIDATED"
  /\ UNCHANGED <<live, runVars, calls, appVars, viewVars>>

-----------------------------------------------------------------------------
(* The controls.                                                            *)

(* launch, first half: the stored campaign is read and its session looked   *)
(* up in the registry; the call then holds the handle, whatever becomes of  *)
(* the session.                                                             *)
LookUp(c) ==
  /\ app = "up" /\ calls[c] \in {"idle", "resuming"} /\ row # "absent"
  /\ calls' = [calls EXCEPT ![c] = "looked"]
  /\ UNCHANGED <<row, live, runVars, appVars, viewVars>>

(* CAMPAIGN_SESSION_NOT_BOUND, for a resume that found nothing running; the *)
(* sessions come and go on their own (Registry).                            *)
NotBound(c) ==
  /\ app # "down" /\ calls[c] = "resuming"
  /\ calls' = [calls EXCEPT ![c] = "idle"]
  /\ UNCHANGED <<row, live, runVars, appVars, viewVars>>

(* A cancelled run no longer counted as running.                            *)
MutantBusy == live # 0 /\ control[live] # "cancelled"

(* The test of start: any run still in the table, a cancelled one too.      *)
Busy == live # 0

(* CampaignServices::start, under the lock: refused while a run is in the   *)
(* table; otherwise the row is moved to RUNNING, then the run is registered *)
(* and its task spawned.                                                    *)
Start(c) ==
  /\ app # "down" /\ calls[c] = "looked" /\ ~Busy
  /\ \E r \in Runs :
       /\ phase[r] = "none" /\ \A q \in Runs : q < r => phase[q] # "none"
       /\ WriteStatus("RUNNING")
       /\ live' = r
       /\ phase' = [phase EXCEPT ![r] = "going"]
       /\ sampler' = [sampler EXCEPT ![r] = "on"]
  /\ calls' = [calls EXCEPT ![c] = "idle"]
  /\ UNCHANGED <<control, outcome, appVars, viewVars>>

(* CAMPAIGN_BUSY, CAMPAIGN_INVALID_TRANSITION, CAMPAIGN_STORAGE.            *)
StartRefused(c) ==
  /\ app # "down" /\ calls[c] = "looked"
  /\ \/ Busy \/ StoreFails \/ ~CanMove(row, "RUNNING")
  /\ calls' = [calls EXCEPT ![c] = "idle"]
  /\ UNCHANGED <<row, live, runVars, appVars, viewVars>>

(* pause: the row first, and the control only if the row took it.           *)
Pause ==
  /\ app = "up" /\ WriteStatus("PAUSED")
  /\ control' = IF live = 0 THEN control ELSE Told(live, "paused")
  /\ UNCHANGED <<live, phase, sampler, outcome, calls, appVars, viewVars>>

(* resume_in_place: a run of this process is told to carry on; otherwise    *)
(* the call goes on to launch a run in resuming mode.                       *)
Resume(c) ==
  /\ app = "up" /\ calls[c] = "idle"
  /\ \/ /\ live # 0 /\ WriteStatus("RUNNING")
        /\ control' = Told(live, "running") /\ UNCHANGED calls
     \/ /\ live = 0 /\ row # "absent"
        /\ calls' = [calls EXCEPT ![c] = "resuming"] /\ UNCHANGED <<row, control>>
  /\ UNCHANGED <<live, phase, sampler, outcome, appVars, viewVars>>

(* cancel: a live run is told through its control and writes its own end;   *)
(* a campaign with no run gets the status written here.                     *)
Cancel ==
  /\ app = "up" /\ row # "absent" /\ CanMove(row, "CANCELLED")
  /\ \/ live # 0 /\ control' = Told(live, "cancelled") /\ UNCHANGED row
     \/ live = 0 /\ WriteStatus("CANCELLED") /\ UNCHANGED control
  /\ UNCHANGED <<live, phase, sampler, outcome, calls, appVars, viewVars>>

-----------------------------------------------------------------------------
(* The task of a run: drive, run_reporting and the task that joins it.      *)

(* CampaignRunner::run: a cancelled control decides; otherwise the run is   *)
(* complete, its source failed, or the journal gave out.                    *)
Return(r) ==
  /\ phase[r] = "going" /\ app # "down"
  /\ phase' = [phase EXCEPT ![r] = "returned"]
  /\ \E s \in Terminal :
       /\ s = "CANCELLED" <=> control[r] = "cancelled" /\ s # "FAILED"
       /\ outcome' = [outcome EXCEPT ![r] = s]
  /\ UNCHANGED <<row, live, control, sampler, calls, appVars, viewVars>>

(* The session of the run is shut down with a submit in flight: the request *)
(* is resolved by nobody, so the emitter never comes back to the control,   *)
(* and the run with it (LostInFlight of Campaign).                          *)
Strand(r) ==
  /\ phase[r] = "going" /\ app # "down"
  /\ phase' = [phase EXCEPT ![r] = "stranded"]
  /\ UNCHANGED <<row, live, control, sampler, outcome, calls, appVars, viewVars>>

(* CampaignStatus::from(control.state()).                                   *)
Projected(order) ==
  CASE order = "running" -> "RUNNING"
    [] order = "paused" -> "PAUSED"
    [] order = "cancelled" -> "CANCELLED"

(* What the joining task records for a task that ended abnormally.          *)
Abnormal(r) == "FAILED"

(* A panic under drive unwinds past everything, the sampler with it.        *)
Panic(r) ==
  /\ phase[r] = "going" /\ app # "down"
  /\ phase' = [phase EXCEPT ![r] = "panicked"]
  /\ sampler' = [sampler EXCEPT ![r] = "off"]
  /\ outcome' = [outcome EXCEPT ![r] = Abnormal(r)]
  /\ UNCHANGED <<row, live, control, calls, appVars, viewVars>>

(* The liveness of a row derived from its status.                           *)
MutantApplyProgress(status, done) ==
  screen' = IF screen = "absent" THEN screen ELSE Shown(status = "RUNNING")

(* applyProgress: a reading updates the row it names, if it is there, and   *)
(* the row is live until the reading that says done, whatever the status.   *)
ApplyProgress(status, done) ==
  screen' = IF screen = "absent" THEN screen ELSE Shown(~done)

(* One turn of the sampler: the control is read when it wakes.              *)
Sample(r) ==
  /\ sampler[r] = "on" /\ app # "down" /\ UnderWay(r)
  /\ ApplyProgress(Projected(control[r]), FALSE)
  /\ UNCHANGED <<row, live, runVars, calls, appVars, list>>

(* The turn the sampler was in when the run returned: its sleep may win the *)
(* select! once more before the finished token is seen, then it returns.    *)
SamplerReturns(r) ==
  /\ sampler[r] = "on" /\ ~UnderWay(r) /\ app # "down"
  /\ sampler' = [sampler EXCEPT ![r] = "off"]
  /\ \/ UNCHANGED screen \/ ApplyProgress(Projected(control[r]), FALSE)
  /\ UNCHANGED <<row, live, phase, control, outcome, calls, appVars, list>>

(* A task nobody joins: its panic is seen by no one.                        *)
MutantOrphan(r) == phase[r] = "returned" /\ sampler[r] = "off"

(* join! gives drive back its hand when both halves have returned; a task   *)
(* that panicked is seen by the task that awaits it.                        *)
Joined(r) ==
  \/ phase[r] = "returned" /\ sampler[r] = "off"
  \/ phase[r] = "panicked"

(* finish and settle, one step under the lock: the run leaves the table and *)
(* the row takes the status it ended in, unless the lifecycle or the store  *)
(* refuses it, which is only logged.                                        *)
Finish(r) ==
  /\ app # "down" /\ Joined(r)
  /\ live' = 0
  /\ phase' = [phase EXCEPT ![r] = IF @ = "panicked" THEN "over" ELSE "finished"]
  /\ \/ WriteStatus(outcome[r])
     \/ (StoreFails \/ ~CanMove(row, outcome[r])) /\ UNCHANGED row
  /\ UNCHANGED <<control, sampler, outcome, calls, appVars, viewVars>>

(* The last event, outside the lock and outside the paced loop.             *)
LastEvent(r) ==
  /\ phase[r] = "finished" /\ app # "down"
  /\ phase' = [phase EXCEPT ![r] = "over"]
  /\ ApplyProgress(outcome[r], TRUE)
  /\ UNCHANGED <<row, live, control, sampler, outcome, calls, appVars, list>>

-----------------------------------------------------------------------------
(* The screen: reload asks campaign_list, which tells the rows and whether  *)
(* each is in the live table; the answer is installed when it arrives, and  *)
(* the readings that came meanwhile are overwritten.                        *)

Reload ==
  /\ app = "up" /\ list = "none" /\ row # "absent"
  /\ list' = Shown(live # 0)
  /\ UNCHANGED <<row, live, runVars, calls, appVars, screen>>

Install ==
  /\ app = "up" /\ list # "none"
  /\ screen' = list /\ list' = "none"
  /\ UNCHANGED <<row, live, runVars, calls, appVars>>

-----------------------------------------------------------------------------
(* The exit, a kill and a restart.                                          *)

(* ExitRequested: every campaign of the table is told to stop, and the      *)
(* sessions are then unbound, which takes a bounded while.                  *)
AppExit ==
  /\ Exits /\ app = "up" /\ app' = "exiting"
  /\ control' = IF live = 0 THEN control ELSE Told(live, "cancelled")
  /\ UNCHANGED <<row, live, phase, sampler, outcome, calls, restarts, viewVars>>

(* The end of the process, of its exit or killed.                           *)
Die ==
  /\ app # "down" /\ app' = "down" /\ live' = 0
  /\ phase' = [r \in Runs |-> IF phase[r] = "none" THEN "none" ELSE "killed"]
  /\ sampler' = [r \in Runs |-> "off"]
  /\ calls' = [c \in Commands |-> "idle"]
  /\ screen' = "absent" /\ list' = "none"
  /\ UNCHANGED <<row, control, outcome, restarts>>

Restart ==
  /\ app = "down" /\ restarts < MaxRestarts
  /\ app' = "up" /\ restarts' = restarts + 1
  /\ UNCHANGED <<row, live, runVars, calls, viewVars>>

TaskMoves(r) == Return(r) \/ SamplerReturns(r) \/ Finish(r) \/ LastEvent(r)

DeskNext ==
  \/ Create \/ Pause \/ Cancel \/ Reload \/ Install
  \/ AppExit \/ Die \/ Restart
  \/ \E c \in Commands :
       LookUp(c) \/ NotBound(c) \/ Start(c) \/ StartRefused(c) \/ Resume(c)
  \/ \E r \in Runs : TaskMoves(r) \/ Strand(r) \/ Panic(r) \/ Sample(r)

DeskSpec == DeskInit /\ [][DeskNext]_deskVars

(* A task is polled; a run that was cancelled returns, unless a submit of   *)
(* its own never does (RunEnds of Campaign); the sampler wakes at every     *)
(* interval.                                                                *)
DeskFairSpec ==
  /\ DeskSpec
  /\ \A r \in Runs :
       /\ WF_deskVars(control[r] = "cancelled" /\ Return(r))
       /\ WF_deskVars(SamplerReturns(r)) /\ WF_deskVars(Finish(r))
       /\ WF_deskVars(LastEvent(r)) /\ WF_deskVars(Sample(r))

-----------------------------------------------------------------------------
(* The types of the state.                                                  *)
DeskTypeOK ==
  /\ row \in Status \cup {"absent"} /\ live \in Runs \cup {0}
  /\ phase \in [Runs -> Phases]
  /\ control \in [Runs -> {"running", "paused", "cancelled"}]
  /\ sampler \in [Runs -> {"on", "off"}] /\ outcome \in [Runs -> Terminal]
  /\ calls \in [Commands -> {"idle", "resuming", "looked"}]
  /\ app \in {"up", "exiting", "down"} /\ restarts \in 0..MaxRestarts
  /\ screen \in {"absent", "live", "idle"} /\ list \in {"none", "live", "idle"}

(* Two runs of one campaign are never alive together, and what is alive is  *)
(* what the table says: a run whose task has not finished, and no other,    *)
(* holds the entry, and the row says that it sends or is paused             *)
(* (campaigns.rs, start: "it would put two runners on the same campaign").  *)
RunIsRegistered ==
  /\ live # 0 => live \in Unfinished
  /\ \A r \in Unfinished : live = r /\ row \in {"RUNNING", "PAUSED"}

(* The row and the gate of the feeder agree: as long as nobody stopped the  *)
(* run, the campaign reads PAUSED exactly when its feeder is suspended.     *)
GateMatchesRow ==
  \A r \in Unfinished :
    control[r] # "cancelled" => (row = "PAUSED" <=> control[r] = "paused")

(* A run that has not started has been told nothing: with it the gate of    *)
(* the feeder and the row agree from the first step of the run on.          *)
FreshControl == \A r \in Runs : phase[r] = "none" => control[r] = "running"

(* The inductive invariant: one run, registered, with its row and its gate. *)
DeskInv == DeskTypeOK /\ RunIsRegistered /\ FreshControl /\ GateMatchesRow

(* A campaign that ended stays as it ended, whatever call was already on    *)
(* its way (campaigns.rs, write_status: the stale copy "would be written    *)
(* back to PAUSED"); and a run whose task is past its end publishes nothing *)
(* beside its last event: its sampler stopped before it (CA-010-11).        *)
EndStands ==
  [][/\ row \in Terminal => row' = row
     /\ \A r \in Runs : phase[r] \in {"finished", "over"} =>
          sampler[r] = "off" /\ sampler'[r] = "off"]_deskVars

(* CAMPAIGN_BUSY outlasts a run that was told to stop only when its session *)
(* was shut down under one of its submits: in every other case the run      *)
(* gives its place in the table back, however its task ended.               *)
CancelFrees ==
  \A r \in Runs :
    live = r /\ control[r] = "cancelled" ~> live # r \/ phase[r] = "stranded"

(* A campaign that sends is shown as live, paused, stranded or not, so that *)
(* its controls can be reached whatever the list said before.               *)
LiveIsShown ==
  \A r \in Runs :
    UnderWay(r) ~> screen \in {"live", "absent"} \/ ~UnderWay(r)

=============================================================================
