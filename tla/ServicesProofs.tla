--------------------------- MODULE ServicesProofs ---------------------------
(* The two services of the desktop shell.                                   *)
(* - Desk, for any number of commands, runs and restarts: one run at a      *)
(*   time, in the table and in the row, and an end that stands.             *)
(* - Registry, for any number of profiles, commands, binds and state        *)
(*   changes: one bind at a time, and no last state left untold.            *)
EXTENDS Desk, Registry, TLAPS

-----------------------------------------------------------------------------
(* The campaigns of the desk.                                               *)

LEMMA RunsNotZero == \A r \in Runs : r # 0 /\ r \in Nat
BY DeskAssumption DEF Runs

LEMMA ToldType ==
  ASSUME DeskTypeOK, NEW r \in Runs, NEW o \in {"running", "paused", "cancelled"}
  PROVE  /\ Told(r, o) \in [Runs -> {"running", "paused", "cancelled"}]
         /\ \A q \in Runs : q # r => Told(r, o)[q] = control[q]
         /\ Told(r, o)[r] = IF control[r] = "cancelled" THEN "cancelled" ELSE o
BY DEF Told, DeskTypeOK

LEMMA DeskInitInv == DeskInit => DeskInv
BY DeskAssumption, RunsNotZero
   DEF DeskInit, DeskInv, DeskTypeOK, RunIsRegistered, FreshControl, GateMatchesRow,
       Unfinished, UnderWay, Status, Terminal, Phases

-----------------------------------------------------------------------------
(* The types.                                                               *)

LEMMA StepType == ASSUME DeskTypeOK, [DeskNext]_deskVars PROVE DeskTypeOK'
<1> USE DEF DeskTypeOK, Status, Terminal, Phases, UnderWay, runVars, appVars, viewVars
<1>1. CASE Create
  BY <1>1 DEF Create
<1>2. CASE Pause
  <2>1. control' \in [Runs -> {"running", "paused", "cancelled"}]
    BY <1>2, ToldType DEF Pause
  <2> QED BY <1>2, <2>1 DEF Pause, WriteStatus
<1>3. CASE Cancel
  <2>1. control' \in [Runs -> {"running", "paused", "cancelled"}]
    BY <1>3, ToldType DEF Cancel
  <2> QED BY <1>3, <2>1 DEF Cancel, WriteStatus
<1>4. CASE Reload
  BY <1>4 DEF Reload, Shown
<1>5. CASE Install
  BY <1>5 DEF Install
<1>6. CASE AppExit
  <2>1. control' \in [Runs -> {"running", "paused", "cancelled"}]
    BY <1>6, ToldType DEF AppExit
  <2> QED BY <1>6, <2>1 DEF AppExit
<1>7. CASE Die
  BY <1>7, RunsNotZero DEF Die
<1>8. CASE Restart
  BY <1>8, DeskAssumption DEF Restart
<1>9. ASSUME NEW c \in Commands, LookUp(c) \/ NotBound(c) \/ StartRefused(c)
      PROVE  DeskTypeOK'
  BY <1>9 DEF LookUp, NotBound, StartRefused
<1>10. ASSUME NEW c \in Commands, Start(c) PROVE DeskTypeOK'
  BY <1>10 DEF Start, WriteStatus
<1>11. ASSUME NEW c \in Commands, Resume(c) PROVE DeskTypeOK'
  <2>1. control' \in [Runs -> {"running", "paused", "cancelled"}]
    BY <1>11, ToldType DEF Resume
  <2> QED BY <1>11, <2>1 DEF Resume, WriteStatus
<1>12. ASSUME NEW r \in Runs, Return(r) PROVE DeskTypeOK'
  BY <1>12 DEF Return
<1>13. ASSUME NEW r \in Runs, Finish(r) PROVE DeskTypeOK'
  BY <1>13 DEF Finish, WriteStatus
<1>14. ASSUME NEW r \in Runs, SamplerReturns(r) \/ LastEvent(r) \/ Sample(r)
       PROVE  DeskTypeOK'
  BY <1>14 DEF SamplerReturns, LastEvent, Sample, ApplyProgress, Shown
<1>15. ASSUME NEW r \in Runs, Strand(r) \/ Panic(r) PROVE DeskTypeOK'
  BY <1>15 DEF Strand, Panic, Abnormal
<1>16. CASE UNCHANGED deskVars
  BY <1>16 DEF deskVars
<1> QED
  BY <1>1, <1>2, <1>3, <1>4, <1>5, <1>6, <1>7, <1>8, <1>9, <1>10, <1>11, <1>12,
     <1>13, <1>14, <1>15, <1>16 DEF DeskNext, TaskMoves

-----------------------------------------------------------------------------
(* One run, its row and its gate.                                           *)

(* While a run is unfinished the table names it; a table that names none    *)
(* leaves no run unfinished.                                                *)
LEMMA NoneLive == ASSUME DeskInv, live = 0 PROVE Unfinished = {}
BY RunsNotZero DEF DeskInv, RunIsRegistered, Unfinished

LEMMA LiveRuns == ASSUME DeskInv, live # 0 PROVE live \in Unfinished
BY DEF DeskInv, RunIsRegistered

(* The others have been joined or never started.                            *)
LEMMA OthersDone ==
  ASSUME DeskInv, NEW r \in Runs, live # r PROVE r \notin Unfinished
BY DEF DeskInv, RunIsRegistered

LEMMA StepInv == ASSUME DeskInv, [DeskNext]_deskVars PROVE DeskInv'
<1>0. DeskTypeOK'
  BY StepType DEF DeskInv
<1> USE DEF DeskInv, DeskTypeOK, RunIsRegistered, FreshControl, GateMatchesRow,
            Unfinished, UnderWay, runVars, appVars, viewVars
<1>1. CASE Create
  BY <1>0, <1>1 DEF Create
<1>2. CASE Pause
  <2>1. CASE live = 0
    BY <1>0, <1>2, <2>1, NoneLive DEF Pause, WriteStatus
  <2>2. CASE live # 0
    BY <1>0, <1>2, <2>2, ToldType, OthersDone, LiveRuns DEF Pause, WriteStatus
  <2> QED BY <2>1, <2>2
<1>3. CASE Cancel
  <2>1. CASE live = 0
    BY <1>0, <1>3, <2>1, NoneLive DEF Cancel, WriteStatus
  <2>2. CASE live # 0
    BY <1>0, <1>3, <2>2, ToldType, OthersDone, LiveRuns DEF Cancel
  <2> QED BY <2>1, <2>2
<1>4. CASE Reload \/ Install \/ Restart
  BY <1>0, <1>4 DEF Reload, Install, Restart
<1>6. CASE AppExit
  <2>1. CASE live = 0
    BY <1>0, <1>6, <2>1, NoneLive DEF AppExit
  <2>2. CASE live # 0
    BY <1>0, <1>6, <2>2, ToldType, OthersDone, LiveRuns DEF AppExit
  <2> QED BY <2>1, <2>2
<1>7. CASE Die
  BY <1>0, <1>7 DEF Die
<1>9. ASSUME NEW c \in Commands, LookUp(c) \/ NotBound(c) \/ StartRefused(c)
      PROVE  DeskInv'
  BY <1>0, <1>9 DEF LookUp, NotBound, StartRefused
<1>10. ASSUME NEW c \in Commands, Start(c) PROVE DeskInv'
  <2>1. Unfinished = {}
    BY <1>10, NoneLive DEF Start, Busy
  <2> QED BY <1>0, <1>10, <2>1 DEF Start, WriteStatus
<1>11. ASSUME NEW c \in Commands, Resume(c) PROVE DeskInv'
  <2>1. CASE live = 0
    BY <1>0, <1>11, <2>1, NoneLive DEF Resume, WriteStatus
  <2>2. CASE live # 0
    BY <1>0, <1>11, <2>2, ToldType, OthersDone, LiveRuns DEF Resume, WriteStatus
  <2> QED BY <2>1, <2>2
<1>12. ASSUME NEW r \in Runs, Return(r) \/ Strand(r) \/ Panic(r) PROVE DeskInv'
  BY <1>0, <1>12 DEF Return, Strand, Panic
<1>13. ASSUME NEW r \in Runs, Finish(r) PROVE DeskInv'
  <2>1. Unfinished' = {}
    BY <1>13 DEF Finish, Joined
  <2> QED BY <1>0, <1>13, <2>1 DEF Finish, Joined
<1>14. ASSUME NEW r \in Runs, SamplerReturns(r) \/ LastEvent(r) \/ Sample(r)
       PROVE  DeskInv'
  <2>1. CASE SamplerReturns(r) \/ Sample(r)
    BY ZenonT(40), <1>0, <2>1 DEF SamplerReturns, Sample
  <2>2. CASE LastEvent(r)
    <3>1. Unfinished' = Unfinished /\ UNCHANGED <<row, live, control>>
      BY <2>2 DEF LastEvent
    <3> QED BY <1>0, <2>2, <3>1 DEF LastEvent
  <2> QED BY <1>14, <2>1, <2>2
<1>16. CASE UNCHANGED deskVars
  BY <1>0, <1>16 DEF deskVars
<1> QED
  BY <1>1, <1>2, <1>3, <1>4, <1>6, <1>7, <1>9, <1>10, <1>11, <1>12, <1>13, <1>14,
     <1>16 DEF DeskNext, TaskMoves

(* One run of a campaign at a time, whatever commands race, fail or restart *)
(* the application: it is the one the table names, the row says that it     *)
(* sends or is paused, and its feeder is suspended exactly when the row     *)
(* says so.                                                                 *)
THEOREM DeskInvariant == DeskSpec => []DeskInv
<1>1. DeskInv /\ [DeskNext]_deskVars => DeskInv'
  BY StepInv
<1> QED BY DeskInitInv, <1>1, PTL DEF DeskSpec

-----------------------------------------------------------------------------
(* What ended stays ended.                                                  *)

(* A sampler that loops belongs to a run that has not been joined.          *)
SamplerStops ==
  \A r \in Runs : phase[r] \notin {"going", "stranded", "returned"} => sampler[r] = "off"

LEMMA StepSampler ==
  ASSUME DeskInv, SamplerStops, [DeskNext]_deskVars PROVE SamplerStops'
<1> USE DEF DeskInv, DeskTypeOK, SamplerStops, runVars, appVars, viewVars
<1>1. CASE Create \/ Pause \/ Cancel \/ Reload \/ Install \/ AppExit \/ Die \/ Restart
  BY <1>1 DEF Create, Pause, Cancel, Reload, Install, AppExit, Die, Restart
<1>2. ASSUME NEW c \in Commands,
             LookUp(c) \/ NotBound(c) \/ Start(c) \/ StartRefused(c) \/ Resume(c)
      PROVE  SamplerStops'
  BY <1>2 DEF LookUp, NotBound, Start, StartRefused, Resume
<1>3. ASSUME NEW r \in Runs, TaskMoves(r) \/ Strand(r) \/ Panic(r) \/ Sample(r)
      PROVE  SamplerStops'
  BY ZenonT(40), <1>3 DEF TaskMoves, Return, Strand, SamplerReturns, Finish, Joined, LastEvent, Panic, Sample, UnderWay
<1>4. CASE UNCHANGED deskVars
  BY <1>4 DEF deskVars
<1> QED BY <1>1, <1>2, <1>3, <1>4 DEF DeskNext

(* The lifecycle lets nobody leave a terminal status.                       *)
LEMMA EndIsKept ==
  ASSUME DeskInv, [DeskNext]_deskVars, row \in Terminal PROVE row' = row
<1> USE DEF Terminal, WriteStatus, CanMove, runVars, appVars, viewVars
<1>1. CASE Create \/ Pause \/ Cancel \/ Reload \/ Install \/ AppExit \/ Die \/ Restart
  BY <1>1 DEF Create, Pause, Cancel, Reload, Install, AppExit, Die, Restart
<1>2. ASSUME NEW c \in Commands,
             LookUp(c) \/ NotBound(c) \/ Start(c) \/ StartRefused(c) \/ Resume(c)
      PROVE  row' = row
  BY <1>2 DEF LookUp, NotBound, Start, StartRefused, Resume
<1>3. ASSUME NEW r \in Runs, TaskMoves(r) \/ Strand(r) \/ Panic(r) \/ Sample(r)
      PROVE  row' = row
  BY <1>3 DEF TaskMoves, Return, Strand, SamplerReturns, Finish, LastEvent, Panic, Sample, UnderWay
<1>4. CASE UNCHANGED deskVars
  BY <1>4 DEF deskVars
<1> QED BY <1>1, <1>2, <1>3, <1>4 DEF DeskNext

(* A joined run never starts to sample again: a run is spawned once.        *)
LEMMA JoinedIsQuiet ==
  ASSUME DeskInv, SamplerStops, [DeskNext]_deskVars,
         NEW r \in Runs, phase[r] \in {"finished", "over"}
  PROVE  sampler[r] = "off" /\ sampler'[r] = "off"
<1> USE DEF DeskInv, DeskTypeOK, SamplerStops, runVars, appVars, viewVars
<1>0. sampler[r] = "off"
  OBVIOUS
<1>1. CASE Create \/ Pause \/ Cancel \/ Reload \/ Install \/ AppExit \/ Die \/ Restart
  BY <1>0, <1>1 DEF Create, Pause, Cancel, Reload, Install, AppExit, Die, Restart
<1>2. ASSUME NEW c \in Commands,
             LookUp(c) \/ NotBound(c) \/ Start(c) \/ StartRefused(c) \/ Resume(c)
      PROVE  sampler'[r] = "off"
  BY <1>0, <1>2 DEF LookUp, NotBound, Start, StartRefused, Resume
<1>3. ASSUME NEW q \in Runs, TaskMoves(q) \/ Strand(q) \/ Panic(q) \/ Sample(q)
      PROVE  sampler'[r] = "off"
  BY <1>0, <1>3 DEF TaskMoves, Return, Strand, SamplerReturns, Finish, LastEvent, Panic, Sample, UnderWay
<1>4. CASE UNCHANGED deskVars
  BY <1>0, <1>4 DEF deskVars
<1> QED BY <1>0, <1>1, <1>2, <1>3, <1>4 DEF DeskNext

(* A campaign that ended is never brought back, by a command with a stale   *)
(* copy of its row or by a run that ends after it; and a run that is over   *)
(* has nothing left to publish.                                             *)
THEOREM DeskEndStands == DeskSpec => EndStands
<1>1. DeskInit => SamplerStops
  BY DEF DeskInit, SamplerStops
<1>2. DeskInv /\ SamplerStops /\ [DeskNext]_deskVars => SamplerStops'
  BY StepSampler
<1>3. DeskInv /\ SamplerStops /\ [DeskNext]_deskVars =>
        [/\ row \in Terminal => row' = row
         /\ \A r \in Runs : phase[r] \in {"finished", "over"} =>
              sampler[r] = "off" /\ sampler'[r] = "off"]_deskVars
  BY EndIsKept, JoinedIsQuiet
<1> QED BY <1>1, <1>2, <1>3, DeskInvariant, PTL DEF DeskSpec, EndStands

-----------------------------------------------------------------------------
(* The registry of sessions.                                                *)

USE DEF Sessions, Gone, callVars, taskVars

LEMMA SessionsAreNumbers == 0 \notin Sessions /\ Sessions \subseteq Nat
BY RegistryAssumption

LEMMA InitInv == Init => RegistryInv
<1> SUFFICES ASSUME Init PROVE RegistryInv
  OBVIOUS
<1>1. (CHOOSE p \in Profiles : TRUE) \in Profiles
  BY RegistryAssumption
<1>2. TypeOK
  <2>1. owner \in [Sessions -> Profiles]
    BY <1>1 DEF Init
  <2>2. /\ version \in [Sessions -> 0 .. (MaxChanges + 1)]
        /\ seen \in [Sessions -> 0 .. (MaxChanges + 1)]
        /\ told \in [Sessions -> 0 .. Gone]
    BY RegistryAssumption DEF Init
  <2>3. /\ table \in [Profiles -> Sessions \cup {0}] /\ lock \in Callers \cup {"free"}
        /\ life \in [Sessions -> {"none", "open", "closing", "ended"}]
    BY DEF Init
  <2>4. /\ at \in [Callers -> {"idle", "rebind", "unbind", "answer"}]
        /\ old \in [Callers -> Sessions \cup {0}]
        /\ forward \in [Sessions -> {"none", "watch", "publish", "last", "sleep", "done"}]
        /\ leaving \subseteq Sessions \cup {0}
    BY DEF Init
  <2> QED BY <2>1, <2>2, <2>3, <2>4 DEF TypeOK
<1> QED
  BY <1>2, RegistryAssumption
     DEF Init, RegistryInv, TableIsLive, RebindHolds, ClosingIsAwaited, ForwarderFollows

-----------------------------------------------------------------------------
(* What the helpers do.                                                     *)

LEMMA ClosingType ==
  ASSUME TypeOK, NEW S
  PROVE  /\ Closing(S) \in [Sessions -> {"none", "open", "closing", "ended"}]
         /\ \A s \in Sessions :
              /\ Closing(S)[s] = "open" <=> life[s] = "open" /\ s \notin S
              /\ Closing(S)[s] = "closing" <=> life[s] = "closing" \/ (life[s] = "open" /\ s \in S)
              /\ Closing(S)[s] \in {"none", "ended"} => Closing(S)[s] = life[s]
              /\ life[s] \in {"none", "ended"} => Closing(S)[s] = life[s]
BY DEF TypeOK, Closing

LEMMA PublishedType ==
  ASSUME RegistryInv, NEW s \in Sessions, life[s] # "ended"
  PROVE  /\ Published(s) \in [Sessions -> 0 .. MaxChanges + 1]
         /\ Published(s)[s] = version[s] + 1
         /\ \A q \in Sessions : q # s => Published(s)[q] = version[q]
BY SMTT(20), RegistryAssumption DEF RegistryInv, TypeOK, ForwarderFollows, Published

LEMMA PublishTells ==
  ASSUME RegistryInv, Publish
  PROVE  /\ told' \in [Sessions -> 0 .. Gone]
         /\ \A s \in Sessions : life[s] # "none" => told'[s] >= version[s]
         /\ \A s \in Sessions : life[s] = "none" => told'[s] \in {told[s], version[s]}
BY SMTT(20), RegistryAssumption, SessionsAreNumbers DEF RegistryInv, TypeOK, Publish, TableIsLive

(* After it the interface knows of everything any forwarder has seen.       *)
LEMMA ToldCovers ==
  ASSUME RegistryInv, Publish, NEW s \in Sessions
  PROVE  told'[s] \in Nat /\ told'[s] >= seen[s] /\ told'[s] >= version[s]
<1>1. told'[s] \in Nat /\ version[s] \in Nat /\ seen[s] \in Nat /\ seen[s] <= version[s]
  <2>1. told'[s] \in Nat
    BY PublishTells, RegistryAssumption
  <2>2. version[s] \in Nat /\ seen[s] \in Nat
    BY RegistryAssumption DEF RegistryInv, TypeOK
  <2>3. seen[s] <= version[s]
    BY DEF RegistryInv, ForwarderFollows
  <2> QED BY <2>1, <2>2, <2>3
<1>2. life[s] = "none" => version[s] = 0
  BY DEF RegistryInv, ForwarderFollows
<1>3. told'[s] >= version[s]
  BY <1>1, <1>2, PublishTells
<1> QED BY <1>1, <1>3

-----------------------------------------------------------------------------
(* Each step keeps the invariant.                                           *)

(* An empty registry has no open session.                                   *)
LEMMA NoneOpen ==
  ASSUME RegistryInv, \A p \in Profiles : table[p] = 0
  PROVE  \A s \in Sessions : life[s] # "open"
BY SessionsAreNumbers DEF RegistryInv, TypeOK, TableIsLive

(* Whoever waits in a rebind holds the registry.                            *)
LEMMA FreeMeansNoRebind ==
  ASSUME RegistryInv, Free
  PROVE  \A k \in Callers : at[k] # "rebind"
BY RegistryAssumption DEF RegistryInv, RebindHolds, Free

LEMMA SpawnKeeps ==
  ASSUME RegistryInv, NEW k \in Callers, NEW p \in Profiles, Spawn(k, p),
         at[k] \in {"idle", "rebind"}, lock \in {"free", k},
         \A q \in Profiles : table[q] = 0,
         at[k] = "rebind" => life[old[k]] = "ended"
  PROVE  RegistryInv'
<1>1. PICK s \in Unused :
        /\ table' = [table EXCEPT ![p] = s] /\ owner' = [owner EXCEPT ![s] = p]
        /\ life' = [life EXCEPT ![s] = "open"]
        /\ forward' = [forward EXCEPT ![s] = "watch"]
        /\ at' = [at EXCEPT ![k] = "answer"] /\ lock' = "free"
        /\ old' = [old EXCEPT ![k] = 0]
        /\ UNCHANGED <<version, seen, told, leaving>>
  BY DEF Spawn
<1>2. s \in Sessions /\ life[s] = "none" /\ s # 0
  BY SessionsAreNumbers DEF Unused
<1>3. TypeOK'
  BY <1>1, <1>2 DEF RegistryInv, TypeOK
<1>4. TableIsLive'
  BY <1>1, <1>2, NoneOpen DEF RegistryInv, TypeOK, TableIsLive
<1>5. RebindHolds'
  <2>1. \A j \in Callers : at'[j] # "rebind"
    BY <1>1, RegistryAssumption DEF RegistryInv, TypeOK, RebindHolds
  <2> QED BY <1>1, <2>1 DEF RebindHolds
<1>6. ClosingIsAwaited'
  <2> SUFFICES ASSUME NEW q \in Sessions, life'[q] = "closing", Running
               PROVE  \E j \in Callers : at'[j] \in {"rebind", "unbind"} /\ old'[j] = q
    BY <1>1 DEF ClosingIsAwaited, Running
  <2>1. life[q] = "closing"
    BY <1>1, <1>2 DEF RegistryInv, TypeOK
  <2>2. PICK j \in Callers : at[j] \in {"rebind", "unbind"} /\ old[j] = q
    BY <2>1 DEF RegistryInv, ClosingIsAwaited
  <2>3. j # k
    BY <2>1, <2>2
  <2> QED BY <1>1, <2>2, <2>3 DEF RegistryInv, TypeOK
<1>7. ForwarderFollows'
  <2>1. told[s] \in Nat /\ seen[s] \in Nat /\ version[s] = 0 /\ seen[s] = 0
    BY <1>2, RegistryAssumption DEF RegistryInv, TypeOK, ForwarderFollows
  <2> QED BY <1>1, <1>2, <2>1 DEF RegistryInv, TypeOK, ForwarderFollows
<1> QED BY <1>3, <1>4, <1>5, <1>6, <1>7 DEF RegistryInv

LEMMA RebindKeeps ==
  ASSUME RegistryInv, NEW k \in Callers, NEW p \in Profiles, Rebind(k, p)
  PROVE  RegistryInv'
<1> USE DEF Rebind, Taken
<1>0. table[p] \in Sessions
  BY DEF RegistryInv, TypeOK
<1>1. TypeOK'
  <2>1. life' \in [Sessions -> {"none", "open", "closing", "ended"}]
    BY ClosingType DEF RegistryInv
  <2>2. /\ table' \in [Profiles -> Sessions \cup {0}] /\ lock' \in Callers \cup {"free"}
        /\ at' \in [Callers -> {"idle", "rebind", "unbind", "answer"}]
        /\ old' \in [Callers -> Sessions \cup {0}]
    BY DEF RegistryInv, TypeOK
  <2>3. UNCHANGED <<owner, version, taskVars, told, leaving>>
    OBVIOUS
  <2> HIDE DEF Rebind, Taken
  <2> QED BY <2>1, <2>2, <2>3 DEF RegistryInv, TypeOK, taskVars
<1>2. \A q \in Profiles : table'[q] = 0
  BY DEF RegistryInv, TypeOK, TableIsLive
<1>3. TableIsLive'
  <2>1. ASSUME NEW s \in Sessions, life'[s] = "open" PROVE FALSE
    <3>1. life[s] = "open" /\ s # table[p]
      BY <2>1, ClosingType DEF RegistryInv
    <3>2. table[owner[s]] = s /\ owner[s] \in Profiles /\ s # 0
      BY <3>1, SessionsAreNumbers DEF RegistryInv, TypeOK, TableIsLive
    <3> QED BY <1>0, <3>1, <3>2, SessionsAreNumbers DEF RegistryInv, TableIsLive
  <2> QED BY <1>2, <2>1 DEF TableIsLive
<1>4. RebindHolds'
  <2>1. \A j \in Callers : at'[j] = "rebind" => j = k
    BY RegistryAssumption DEF RegistryInv, TypeOK, RebindHolds, Free
  <2>2. old'[k] # 0 /\ lock' = k /\ Running'
    BY DEF RegistryInv, TypeOK, Running
  <2> QED BY <1>2, <2>1, <2>2 DEF RebindHolds
<1>5. ClosingIsAwaited'
  <2> SUFFICES ASSUME NEW q \in Sessions, life'[q] = "closing", Running
               PROVE  \E j \in Callers : at'[j] \in {"rebind", "unbind"} /\ old'[j] = q
    BY DEF ClosingIsAwaited, Running
  <2>1. CASE q = table[p]
    BY <2>1 DEF RegistryInv, TypeOK
  <2>2. CASE q # table[p]
    <3>1. life[q] = "closing"
      BY <2>2, ClosingType DEF RegistryInv
    <3>2. PICK j \in Callers : at[j] \in {"rebind", "unbind"} /\ old[j] = q
      BY <3>1 DEF RegistryInv, ClosingIsAwaited
    <3> QED BY <3>2 DEF RegistryInv, TypeOK
  <2> QED BY <2>1, <2>2
<1>6. ForwarderFollows'
  BY ClosingType DEF RegistryInv, ForwarderFollows
<1> QED BY <1>1, <1>3, <1>4, <1>5, <1>6 DEF RegistryInv

LEMMA UnbindKeeps ==
  ASSUME RegistryInv, NEW k \in Callers, NEW p \in Profiles, Unbind(k, p)
  PROVE  RegistryInv'
<1> USE DEF Unbind, Taken
<1>1. TypeOK'
  <2>1. life' \in [Sessions -> {"none", "open", "closing", "ended"}]
    BY ClosingType DEF RegistryInv
  <2>2. /\ table' \in [Profiles -> Sessions \cup {0}] /\ lock' \in Callers \cup {"free"}
        /\ at' \in [Callers -> {"idle", "rebind", "unbind", "answer"}]
        /\ old' \in [Callers -> Sessions \cup {0}]
    BY DEF RegistryInv, TypeOK
  <2>3. UNCHANGED <<owner, version, taskVars, told, leaving>>
    OBVIOUS
  <2> HIDE DEF Unbind, Taken
  <2> QED BY <2>1, <2>2, <2>3 DEF RegistryInv, TypeOK, taskVars
<1>3. TableIsLive'
  <2>1. \A q \in Profiles : table'[q] = IF q = p THEN 0 ELSE table[q]
    BY DEF RegistryInv, TypeOK
  <2>2. \A s \in Sessions : life'[s] = "open" <=> life[s] = "open" /\ s # table[p]
    BY ClosingType DEF RegistryInv
  <2>3. ASSUME NEW q \in Profiles, table'[q] # 0
        PROVE  owner[table'[q]] = q /\ life'[table'[q]] \in {"open", "ended"}
    <3>1. q # p /\ table'[q] = table[q] /\ table[q] \in Sessions
      BY <2>1, <2>3 DEF RegistryInv, TypeOK
    <3>2. owner[table[q]] = q /\ life[table[q]] \in {"open", "ended"} /\ table[q] # table[p]
      BY <2>3, <3>1 DEF RegistryInv, TableIsLive
    <3> QED BY <3>1, <3>2, <2>2, ClosingType DEF RegistryInv
  <2>4. ASSUME NEW s \in Sessions, life'[s] = "open" PROVE table'[owner[s]] = s
    <3>1. table[owner[s]] = s /\ owner[s] \in Profiles /\ s # table[p]
      BY ZenonT(40), <2>2, <2>4 DEF RegistryInv, TypeOK, TableIsLive
    <3> QED BY <2>1, <3>1
  <2>5. \A q, r \in Profiles : table'[q] # 0 /\ table'[r] # 0 => q = r
    BY <2>1 DEF RegistryInv, TableIsLive
  <2> QED BY <2>3, <2>4, <2>5 DEF TableIsLive
<1>4. RebindHolds'
  <2>1. \A j \in Callers : at'[j] # "rebind"
    BY FreeMeansNoRebind DEF RegistryInv, TypeOK
  <2>2. lock' = "free"
    BY DEF Free
  <2> QED BY <2>1, <2>2 DEF RebindHolds
<1>5. ClosingIsAwaited'
  <2> SUFFICES ASSUME NEW q \in Sessions, life'[q] = "closing", Running
               PROVE  \E j \in Callers : at'[j] \in {"rebind", "unbind"} /\ old'[j] = q
    BY DEF ClosingIsAwaited, Running
  <2>1. CASE q = table[p]
    BY <2>1, SessionsAreNumbers DEF RegistryInv, TypeOK
  <2>2. CASE q # table[p]
    <3>1. life[q] = "closing"
      BY <2>2, ClosingType DEF RegistryInv
    <3>2. PICK j \in Callers : at[j] \in {"rebind", "unbind"} /\ old[j] = q
      BY <3>1 DEF RegistryInv, ClosingIsAwaited
    <3> QED BY <3>2 DEF RegistryInv, TypeOK
  <2> QED BY <2>1, <2>2
<1>6. ForwarderFollows'
  BY ClosingType DEF RegistryInv, ForwarderFollows
<1> QED BY <1>1, <1>3, <1>4, <1>5, <1>6 DEF RegistryInv

LEMMA UnboundKeeps ==
  ASSUME RegistryInv, NEW k \in Callers, Unbound(k)
  PROVE  RegistryInv'
<1> USE DEF Unbound, Closed
<1>1. TypeOK' /\ TableIsLive' /\ ForwarderFollows'
  BY DEF RegistryInv, TypeOK, TableIsLive, ForwarderFollows
<1>2. RebindHolds'
  <2>1. \A j \in Callers : at'[j] = "rebind" => at[j] = "rebind" /\ old'[j] = old[j]
    BY DEF RegistryInv, TypeOK
  <2>2. Running' = Running /\ lock' = lock /\ table' = table
    BY DEF Running
  <2> QED BY <2>1, <2>2 DEF RegistryInv, RebindHolds
<1>3. ClosingIsAwaited'
  <2> SUFFICES ASSUME NEW q \in Sessions, life'[q] = "closing", Running
               PROVE  \E j \in Callers : at'[j] \in {"rebind", "unbind"} /\ old'[j] = q
    BY DEF ClosingIsAwaited, Running
  <2>2. PICK j \in Callers : at[j] \in {"rebind", "unbind"} /\ old[j] = q
    BY DEF RegistryInv, ClosingIsAwaited
  <2>3. j # k
    BY <2>2
  <2> QED BY <2>2, <2>3 DEF RegistryInv, TypeOK
<1> QED BY <1>1, <1>2, <1>3 DEF RegistryInv

LEMMA ExitKeeps == ASSUME RegistryInv, Exit PROVE RegistryInv'
<1> USE DEF Exit
<1>1. TypeOK'
  BY ClosingType DEF RegistryInv, TypeOK
<1>2. 0 \notin leaving' /\ ~Running'
  BY DEF Running
<1>3. \A s \in Sessions : life'[s] # "open"
  <2> SUFFICES ASSUME NEW s \in Sessions, life'[s] = "open" PROVE FALSE
    OBVIOUS
  <2>1. life[s] = "open" /\ s \notin leaving'
    BY ClosingType DEF RegistryInv
  <2>2. table[owner[s]] = s /\ owner[s] \in Profiles /\ s # 0
    BY <2>1, SessionsAreNumbers DEF RegistryInv, TypeOK, TableIsLive
  <2> QED BY <2>1, <2>2
<1>4. TableIsLive' /\ RebindHolds'
  BY <1>3, FreeMeansNoRebind DEF TableIsLive, RebindHolds, Free
<1>5. ClosingIsAwaited'
  BY <1>2 DEF ClosingIsAwaited
<1>6. ForwarderFollows'
  BY ClosingType DEF RegistryInv, ForwarderFollows
<1> QED BY <1>1, <1>4, <1>5, <1>6 DEF RegistryInv

LEMMA SessionKeeps ==
  ASSUME RegistryInv, NEW s \in Sessions, Change(s) \/ End(s)
  PROVE  RegistryInv'
<1>1. life[s] # "ended" /\ life[s] # "none" /\ version' = Published(s)
  BY DEF Change, End
<1>2. UNCHANGED <<table, lock, owner, callVars, taskVars, told, leaving>>
  BY DEF Change, End
<1>3. /\ life' \in [Sessions -> {"none", "open", "closing", "ended"}]
      /\ \A q \in Sessions : q # s => life'[q] = life[q]
      /\ life'[s] = life[s] \/ life'[s] = "ended"
  BY DEF Change, End, RegistryInv, TypeOK
<1>4. TypeOK'
  BY <1>1, <1>2, <1>3, PublishedType DEF RegistryInv, TypeOK
<1>5. TableIsLive'
  BY <1>2, <1>3 DEF RegistryInv, TypeOK, TableIsLive
<1>6. RebindHolds' /\ ClosingIsAwaited'
  BY <1>2, <1>3 DEF RegistryInv, RebindHolds, ClosingIsAwaited, Running
<1>7. ForwarderFollows'
  <2>1. life'[s] # "ended" => version[s] < MaxChanges
    BY <1>1 DEF Change, End, RegistryInv, TypeOK
  <2>2. forward[s] \notin {"last", "done"}
    BY <1>1 DEF RegistryInv, ForwarderFollows
  <2>3. version[s] \in Nat /\ seen[s] \in Nat /\ MaxChanges \in Nat
    BY RegistryAssumption DEF RegistryInv, TypeOK
  <2> QED BY <1>1, <1>2, <1>3, <2>1, <2>2, <2>3, PublishedType DEF RegistryInv, ForwarderFollows
<1> QED BY <1>4, <1>5, <1>6, <1>7 DEF RegistryInv

LEMMA AnswerKeeps ==
  ASSUME RegistryInv, NEW k \in Callers, Answer(k)
  PROVE  RegistryInv'
<1> USE DEF Answer
<1>1. TypeOK'
  BY PublishTells DEF RegistryInv, TypeOK
<1>2. TableIsLive' /\ RebindHolds' /\ ClosingIsAwaited'
  BY DEF RegistryInv, TypeOK, TableIsLive, RebindHolds, ClosingIsAwaited, Running
<1>3. ForwarderFollows'
  <2> SUFFICES ASSUME NEW s \in Sessions
               PROVE  /\ forward[s] \in {"watch", "sleep"} => told'[s] >= seen[s]
                      /\ forward[s] = "done" => told'[s] >= version[s]
    BY DEF RegistryInv, ForwarderFollows
  <2> QED BY ToldCovers DEF RegistryInv, ForwarderFollows
<1> QED BY <1>1, <1>2, <1>3 DEF RegistryInv

LEMMA ForwarderKeeps ==
  ASSUME RegistryInv, NEW s \in Sessions, Forwards(s)
  PROVE  RegistryInv'
<1>1. UNCHANGED <<table, lock, owner, life, version, callVars, leaving>>
  BY DEF Forwards, Wake, Forward, Slept
<1>2. TableIsLive' /\ RebindHolds' /\ ClosingIsAwaited'
  BY <1>1 DEF RegistryInv, TableIsLive, RebindHolds, ClosingIsAwaited, Running
<1>3. TypeOK' /\ ForwarderFollows'
  <2>1. CASE Wake(s)
    <3> USE <2>1 DEF Wake
    <3>1. TypeOK'
      BY DEF RegistryInv, TypeOK
    <3>2. /\ \A q \in Sessions : q # s => forward'[q] = forward[q] /\ seen'[q] = seen[q]
          /\ seen'[s] = version[s] /\ forward'[s] \in {"publish", "last"}
          /\ forward'[s] = "last" => life[s] = "ended"
      BY DEF SenderGone, RegistryInv, TypeOK
    <3>3. \A q \in Sessions : version[q] \in Nat
      BY RegistryAssumption DEF RegistryInv, TypeOK
    <3>4. ForwarderFollows'
      <4> SUFFICES ASSUME NEW q \in Sessions
                   PROVE  /\ seen'[q] <= version[q]
                          /\ forward'[q] \in {"watch", "sleep"} => told[q] >= seen'[q]
                          /\ forward'[q] \in {"last", "done"} => life[q] = "ended"
                          /\ forward'[q] = "done" => told[q] >= version[q]
        BY DEF RegistryInv, ForwarderFollows
      <4> QED BY <3>2, <3>3 DEF RegistryInv, ForwarderFollows
    <3> QED BY <3>1, <3>4
  <2>2. CASE Slept(s)
    BY <2>2 DEF Slept, AfterPause, RegistryInv, TypeOK, ForwarderFollows
  <2>3. CASE Forward(s)
    <3>1. TypeOK'
      BY <2>3, PublishTells DEF Forward, RegistryInv, TypeOK
    <3>2. ForwarderFollows'
      <4>1. \A q \in Sessions : told'[q] >= seen[q] /\ told'[q] >= version[q]
        BY <2>3, ToldCovers DEF Forward
      <4>2. \A q \in Sessions :
              forward'[q] \in {"last", "done"} => forward[q] \in {"last", "done"}
        BY <2>3 DEF Forward, RegistryInv, TypeOK
      <4> QED BY <2>3, <4>1, <4>2 DEF Forward, RegistryInv, ForwarderFollows
    <3> QED BY <3>1, <3>2
  <2> QED BY <2>1, <2>2, <2>3 DEF Forwards
<1> QED BY <1>2, <1>3 DEF RegistryInv

(* A spawn only happens on an empty registry, by a call that nothing waits  *)
(* behind any more.                                                         *)
LEMMA Spawns ==
  ASSUME RegistryInv, NEW k \in Callers
  PROVE  /\ Rebound(k) => /\ Spawn(k, owner[old[k]]) /\ owner[old[k]] \in Profiles
                          /\ lock = k /\ \A q \in Profiles : table[q] = 0
         /\ \A p \in Profiles : Bind(k, p) => \A q \in Profiles : table[q] = 0
BY RegistryAssumption DEF RegistryInv, TypeOK, RebindHolds, Rebound, Bind, Admitted

LEMMA NextKeepsInv == ASSUME RegistryInv, [Next]_vars PROVE RegistryInv'
<1>1. CASE Exit
  BY <1>1, ExitKeeps
<1>2. ASSUME NEW k \in Callers, CallMoves(k) PROVE RegistryInv'
  <2>1. CASE Rebound(k)
    BY <2>1, Spawns, SpawnKeeps DEF Rebound, Closed
  <2> QED BY <1>2, <2>1, UnboundKeeps, AnswerKeeps DEF CallMoves
<1>3. ASSUME NEW k \in Callers, NEW p \in Profiles, Bind(k, p) \/ Rebind(k, p) \/ Unbind(k, p)
      PROVE  RegistryInv'
  <2>1. CASE Bind(k, p)
    BY <2>1, Spawns, SpawnKeeps DEF Bind, Free
  <2> QED BY <1>3, <2>1, RebindKeeps, UnbindKeeps
<1>4. ASSUME NEW s \in Sessions, Change(s) \/ End(s) \/ Forwards(s) PROVE RegistryInv'
  BY <1>4, SessionKeeps, ForwarderKeeps
<1>5. CASE UNCHANGED vars
  BY <1>5 DEF vars, RegistryInv, TypeOK, TableIsLive, RebindHolds, ClosingIsAwaited,
     ForwarderFollows, Running
<1> QED BY <1>1, <1>2, <1>3, <1>4, <1>5 DEF Next

-----------------------------------------------------------------------------
(* The table names the sessions that are open and nothing else, whatever    *)
(* commands race for it, for any number of them.                            *)
THEOREM RegistryInvariant == Spec => []RegistryInv
<1>1. RegistryInv /\ [Next]_vars => RegistryInv'
  BY NextKeepsInv
<1> QED BY InitInv, <1>1, PTL DEF Spec

(* The last state a session reaches is told, however its changes are paced. *)
THEOREM RegistryTellsLast == Spec => []LastStateIsTold
<1>1. RegistryInv => LastStateIsTold
  BY DEF RegistryInv, ForwarderFollows, LastStateIsTold
<1> QED BY <1>1, RegistryInvariant, PTL

(* A new bind finds every earlier session ended, or being closed by an      *)
(* unbind that still waits for it.                                          *)
THEOREM RegistryClosedFirst == Spec => ClosedFirst
<1> DEFINE Alone ==
      \A s \in Sessions : life[s] = "none" /\ life'[s] = "open" =>
        \A other \in Sessions : life[other] \in {"open", "closing"} =>
          \E k \in Callers : at[k] = "unbind" /\ old[k] = other
<1>1. ASSUME RegistryInv, [Next]_vars PROVE [Alone]_vars
  <2> USE <1>1
  <2> SUFFICES ASSUME NEW s \in Sessions, life[s] = "none", life'[s] = "open",
                      NEW other \in Sessions, life[other] \in {"open", "closing"}
               PROVE  \E k \in Callers : at[k] = "unbind" /\ old[k] = other
    OBVIOUS
  <2>1. PICK k \in Callers : Rebound(k) \/ \E p \in Profiles : Bind(k, p)
    <3>0. TypeOK /\ life'[s] # life[s] /\ life'[s] # "ended"
      BY DEF RegistryInv
    <3>1. \A S : Closing(S)[s] = life[s]
      BY <3>0, ClosingType
    <3>2. ~Exit
      BY <3>0, <3>1 DEF Exit
    <3>3. \A k \in Callers, p \in Profiles : ~Rebind(k, p) /\ ~Unbind(k, p)
      BY <3>0, <3>1 DEF Rebind, Unbind
    <3>4. \A k \in Callers : ~Unbound(k) /\ ~Answer(k)
      BY <3>0 DEF Unbound, Answer
    <3>5. \A q \in Sessions : ~Change(q) /\ ~Forwards(q)
      BY <3>0 DEF Change, Forwards, Wake, Forward, Slept
    <3>6. \A q \in Sessions : ~End(q)
      BY <3>0 DEF End, TypeOK
    <3>7. ~UNCHANGED vars
      BY <3>0 DEF vars
    <3> QED BY <3>2, <3>3, <3>4, <3>5, <3>6, <3>7 DEF Next, CallMoves
  <2>2. /\ \A q \in Profiles : table[q] = 0
        /\ lock \in {"free", k} /\ Running
        /\ lock = k => at[k] = "rebind" /\ life[old[k]] = "ended"
    <3>1. CASE Rebound(k)
      BY <3>1, Spawns DEF Rebound, Closed, RegistryInv, RebindHolds
    <3>2. CASE \E p \in Profiles : Bind(k, p)
      BY <3>2, Spawns, RegistryAssumption DEF Bind, Free
    <3> QED BY <2>1, <3>1, <3>2
  <2>3. life[other] = "closing"
    BY <2>2, NoneOpen
  <2>4. PICK j \in Callers : at[j] \in {"rebind", "unbind"} /\ old[j] = other
    BY <2>2, <2>3 DEF RegistryInv, ClosingIsAwaited
  <2>5. at[j] # "rebind"
    <3> SUFFICES ASSUME at[j] = "rebind" PROVE FALSE
      OBVIOUS
    <3>1. lock = j
      BY DEF RegistryInv, RebindHolds
    <3> QED BY <3>1, <2>2, <2>3, <2>4, RegistryAssumption
  <2> QED BY <2>4, <2>5
<1>2. RegistryInv /\ [Next]_vars => [Alone]_vars
  BY <1>1
<1> QED BY <1>2, RegistryInvariant, PTL DEF ClosedFirst, Spec
=============================================================================
