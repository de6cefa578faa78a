------------------------------- MODULE Launch ------------------------------
(***************************************************************************)
(* From the form of a campaign to its run                                  *)
(* (ui/src/views/Send/Campaign, ui/src/store/campaign.ts,                  *)
(* src-tauri/src/commands/campaign.rs, crates/messaging/src/campaign).     *)
(*                                                                         *)
(* What the operator composes is stored as a document and read again,      *)
(* under the same rules, each time the campaign is started: after a        *)
(* restart, and by a later version of the client.  The panel offers what   *)
(* may be done to the campaign from the row it was last told of.  The      *)
(* races of the commands and the run itself are Desk's and Campaign's.     *)
(***************************************************************************)
EXTENDS Waits

CONSTANTS
  NotSet,   \* no value: `null` and `None`
  Zones,    \* how far east of UTC the operator may be
  MaxEdits  \* (bound) fields that differ from a form that may be submitted

\* No value is neither an instant nor hours, and the hours that are typed below
\* are hours of a day.
ASSUME LaunchAssumption ==
  /\ Zones \subseteq Int /\ MaxEdits \in Nat /\ 4 < Day
  /\ NotSet \notin Int
  /\ NotSet \notin [open : Int \union {NotSet}, close : Int, offset : Int]

VARIABLES
  brief,    \* the form
  office,   \* [zone, asked, refusal, bound, members]: the screen and its world
  campaign, \* the row of the campaign
  panel,    \* [status, live]: the row, as the screen was last told of it
  launched  \* [plan, resuming]: the last run, and whether it reads the journal

launchVars == <<brief, office, campaign, panel, launched>>

-----------------------------------------------------------------------------
(* The form.                                                               *)

\* `EMPTY`, with what the button asks for.
NewDraft ==
  [name |-> "spring", template |-> "whole", session |-> "s1", list |-> NotSet, source |-> NotSet,
   encoding |-> "automatic", substitute |-> FALSE, value |-> "", abandon |-> FALSE,
   tries |-> 2, base |-> 2, max |-> 5, backoff |-> "exponential",
   startAt |-> NotSet, windowed |-> FALSE, open |-> 1, close |-> 3, offset |-> 0]

\* A zone is half a day west of UTC to a little more than half a day east.
Offsets == -(Day \div 2) .. Day \div 2 + 1

\* What may be entered in a field.  A box of a number that is left empty is 0.
Entries ==
  [name |-> {""}, template |-> {"", "unclosed"}, session |-> {NotSet}, list |-> {"list"},
   source |-> {"sender", "oversized"}, encoding |-> {"ucs2"}, substitute |-> {TRUE},
   value |-> {"friend"}, abandon |-> {TRUE}, tries |-> {0, MaxTries, MaxTries + 1}, base |-> {0},
   max |-> {1, MaxSeconds + 1}, backoff |-> {"fixed"}, startAt |-> {0, 3},
   windowed |-> {TRUE}, open |-> {NotSet, 3, 4}, close |-> {2},
   offset |-> {-(Day \div 2) - 1, -1, Day \div 2 + 1}]

Ready(d) == d.name # "" /\ d.template # "" /\ d.session # NotSet

\* `instant`: a local time, read where the operator is.  One that cannot be read
\* is none.  The mutant takes it for UTC.
MutantInstant(typed, zone) == IF typed \in Int THEN typed ELSE NotSet
Instant(typed, zone) == IF typed \in Int THEN typed - zone ELSE NotSet

\* `submit`: the document of a form.
DocumentOf(d, zone) ==
  [session |-> d.session, list |-> d.list, source |-> d.source, encoding |-> d.encoding,
   onMissing |-> IF d.substitute THEN <<d.value>> ELSE <<>>,
   onUnanswered |-> IF d.abandon THEN "abandon" ELSE "reemit",
   retry |-> [tries |-> d.tries, base |-> d.base, max |-> d.max, backoff |-> d.backoff],
   schedule |-> [start |-> Instant(d.startAt, zone),
                 window |-> IF d.windowed
                            THEN [open |-> d.open, close |-> d.close, offset |-> d.offset]
                            ELSE NotSet]]

-----------------------------------------------------------------------------
(* The stored document.                                                    *)

\* What `#[serde(default)]` puts in place of a key that is not there.
DefaultInput ==
  [session |-> NotSet, list |-> NotSet, source |-> NotSet, encoding |-> "automatic",
   onMissing |-> <<>>, onUnanswered |-> "reemit",
   retry |-> [tries |-> 2, base |-> 2, max |-> 5, backoff |-> "exponential"],
   schedule |-> [start |-> NotSet, window |-> NotSet]]

\* Documents of an older version, or edited by hand: one key is missing, or
\* one field of the retry policy, for which there is no default.
OlderDocuments ==
  LET whole == DocumentOf(NewDraft, 0)
  IN  {Restrict(whole, DOMAIN whole \ {key}) : key \in DOMAIN whole}
      \union {[whole EXCEPT !.retry = NotSet]}

Readable(doc) == "retry" \in DOMAIN doc => doc.retry # NotSet

ReadDocument(doc) ==
  [key \in DOMAIN DefaultInput |-> IF key \in DOMAIN doc THEN doc[key] ELSE DefaultInput[key]]

\* `DailyWindow::parse`.
IsWindow(w) == w.offset \in Offsets /\ {w.open, w.close} \subseteq Int /\ w.open # w.close

\* `CampaignSendConfigInput::parse`: the first field it refuses.
ConfigRefusal(doc, template) ==
  LET config == ReadDocument(doc)
  IN  IF config.session = NotSet THEN "sessionId"
      ELSE IF template = "unclosed" THEN "template"
      ELSE IF config.source = "oversized" THEN "source"
      ELSE IF config.retry \notin RetryPolicies THEN "retry"
      ELSE IF config.schedule.window # NotSet /\ ~IsWindow(config.schedule.window) THEN "window"
      ELSE "none"

\* `CampaignPlan::new` and what is put on it: all but the session.
CampaignPlan(doc, template) ==
  LET config == ReadDocument(doc)
  IN  [template |-> template, selection |-> config.list, source |-> config.source,
       encoding |-> config.encoding, onMissing |-> config.onMissing,
       unanswered |-> config.onUnanswered, retry |-> config.retry, schedule |-> config.schedule]

\* `Schedule::decide`.
SendsAt(schedule, now) ==
  LET start == IF schedule.start = NotSet THEN now ELSE schedule.start
  IN  IF schedule.window = NotSet THEN Higher(start, now) ELSE Decide(start, schedule.window, now)

-----------------------------------------------------------------------------
(* Creating, and starting.                                                 *)

Ended == {"COMPLETED", "CANCELLED", "FAILED"}

Row(doc, template, status, typed, ran) ==
  [doc |-> doc, template |-> template, status |-> status, live |-> FALSE,
   typed |-> typed, ran |-> ran]

\* No row.
NoCampaign == Row(DefaultInput, "", "NONE", NotSet, FALSE)

NewOffices ==
  [zone : Zones, asked : {NotSet}, refusal : {"none"}, bound : {TRUE}, members : {0}]

\* No campaign, or one that another version stored; the row of a campaign that
\* ran may have been edited back to CREATED.
StoredCampaigns ==
  {NoCampaign} \union
  {Row(doc, "whole", status, NotSet, status # "VALIDATED") :
     doc \in OlderDocuments,
     status \in {"CREATED", "VALIDATED", "RUNNING", "PAUSED"} \union Ended}

LaunchInit ==
  /\ brief = NewDraft
  /\ panel = NotSet /\ launched = NotSet

EditDraft ==
  /\ campaign = NoCampaign /\ office.asked = NotSet
  /\ \E field \in DOMAIN brief : \E entry \in Entries[field] :
       brief' = [brief EXCEPT ![field] = entry]
  /\ Cardinality({field \in DOMAIN brief : brief'[field] # NewDraft[field]}) <= MaxEdits
  /\ UNCHANGED <<office, campaign, panel, launched>>

\* The button, off while a creation is in flight.
Submit ==
  /\ campaign = NoCampaign /\ office.asked = NotSet /\ Ready(brief)
  /\ office' = [office EXCEPT !.asked = brief, !.refusal = "none"]
  /\ UNCHANGED <<brief, campaign, panel, launched>>

\* `campaign_create`, of the document that was sent.
CreateCampaign ==
  LET doc     == DocumentOf(office.asked, office.zone)
      refused == ConfigRefusal(doc, office.asked.template)
      counted == IF doc.list = NotSet THEN 1 ELSE office.members
      refusal == IF refused = "none" /\ counted = 0 THEN "no recipients" ELSE refused
  IN  /\ office.asked # NotSet
      /\ office' = [office EXCEPT !.asked = NotSet, !.refusal = refusal]
      /\ IF refusal = "none"
         THEN /\ campaign' = Row(doc, office.asked.template, "VALIDATED", office.asked, FALSE)
              /\ panel' = [status |-> "VALIDATED", live |-> FALSE]
         ELSE UNCHANGED <<campaign, panel>>
      /\ UNCHANGED <<brief, launched>>

\* The list fills, the session is lost and bound again.
WorldMoves ==
  /\ \/ office.members = 0 /\ office' = [office EXCEPT !.members = 1]
     \/ office' = [office EXCEPT !.bound = ~@]
  /\ UNCHANGED <<brief, campaign, panel, launched>>

\* `reload`, between two readings.
ReloadCampaigns ==
  /\ campaign # NoCampaign
  /\ panel' = [status |-> campaign.status, live |-> campaign.live]
  /\ UNCHANGED <<brief, office, campaign, launched>>

\* `STARTABLE`: what the panel takes for a campaign that never ran.
Startable == {"VALIDATED", "CREATED"}

\* The buttons of the panel: a row says RUNNING of a run that was killed.
Buttons(s) ==
  CASE s.status \in Ended -> {}
    [] s.status \notin Ended /\ s.live ->
         {IF s.status = "PAUSED" THEN "resume" ELSE "pause", "cancel"}
    [] s.status \notin Ended /\ ~s.live /\ s.status \notin Startable -> {"resume", "cancel"}
    [] OTHER -> {"start", "cancel"}

\* What refuses a control: the document, the session, the table, the lifecycle.
\* Only a row that was validated is started.  The mutant also starts the other.
MutantStarts == campaign.status \notin Ended
Starts == campaign.status \notin Ended \union {"CREATED"}

LaunchRefusal ==
  IF ~Readable(campaign.doc) THEN "config"
  ELSE IF ConfigRefusal(campaign.doc, campaign.template) # "none"
    THEN ConfigRefusal(campaign.doc, campaign.template)
  ELSE IF ~office.bound THEN "session not bound"
  ELSE IF campaign.live THEN "busy"
  ELSE IF ~Starts THEN "transition"
  ELSE "none"

ControlRefusal(control) ==
  IF control = "start" \/ (control = "resume" /\ ~campaign.live) THEN LaunchRefusal
  ELSE IF \/ control = "pause" /\ campaign.status \notin {"RUNNING", "PAUSED"}
          \/ control \in {"cancel", "resume"} /\ campaign.status \in Ended
    THEN "transition"
  ELSE "none"

\* `launch`: the document is read again under the rules of the creation.
LaunchRun(resuming) ==
  /\ launched' = [plan |-> CampaignPlan(campaign.doc, campaign.template), resuming |-> resuming,
                  ran |-> campaign.ran]
  /\ campaign' = [campaign EXCEPT !.status = "RUNNING", !.live = TRUE, !.ran = TRUE]

\* A button is pressed, and nothing refuses its command.
Pressed(control) ==
  /\ campaign # NoCampaign /\ panel # NotSet
  /\ control \in Buttons(panel) /\ ControlRefusal(control) = "none"
  /\ UNCHANGED <<brief, office, panel>>

MovesTo(status) ==
  campaign' = [campaign EXCEPT !.status = status] /\ UNCHANGED launched

PressStart == Pressed("start") /\ LaunchRun(FALSE)

PressPause == Pressed("pause") /\ MovesTo("PAUSED")

\* A run of this process is told to carry on, another is picked up.
PressResume ==
  /\ Pressed("resume")
  /\ IF campaign.live THEN MovesTo("RUNNING") ELSE LaunchRun(TRUE)

\* A run that is cancelled ends on its own.
PressCancel ==
  /\ Pressed("cancel")
  /\ MovesTo(IF campaign.live THEN campaign.status ELSE "CANCELLED")

\* A run returns, and its last reading says so.
RunReturns ==
  /\ campaign # NoCampaign /\ campaign.live
  /\ \E status \in Ended :
       /\ campaign' = [campaign EXCEPT !.status = status, !.live = FALSE]
       /\ panel' = IF panel = NotSet THEN panel ELSE [status |-> status, live |-> FALSE]
  /\ UNCHANGED <<brief, office, launched>>

\* The application is killed and started again.
Restarted ==
  /\ campaign # NoCampaign
  /\ campaign' = [campaign EXCEPT !.live = FALSE] /\ panel' = NotSet
  /\ UNCHANGED <<brief, office, launched>>

LaunchNext ==
  \/ EditDraft \/ Submit \/ CreateCampaign \/ WorldMoves \/ ReloadCampaigns \/ RunReturns
  \/ Restarted \/ PressStart \/ PressPause \/ PressResume \/ PressCancel

-----------------------------------------------------------------------------
(* What must hold of it.                                                   *)

\* What a form means, field by field, whatever the document is.
Means(plan, d) ==
  /\ plan.template = d.template /\ plan.selection = d.list /\ plan.source = d.source
  /\ plan.encoding = d.encoding /\ plan.retry \in RetryPolicies
  /\ (plan.onMissing = <<>>) = ~d.substitute
  /\ d.substitute => plan.onMissing = <<d.value>>
  /\ (plan.unanswered = "abandon") = d.abandon
  /\ plan.retry.tries = d.tries /\ plan.retry.backoff = d.backoff
  /\ plan.retry.base = d.base /\ plan.retry.max = d.max

\* A run sends at the first moment that is neither past, nor before what the
\* operator typed on the clock of the wall, nor outside the hours.
StartsAsTyped(plan, d, zone) ==
  \A now \in 0 .. Day :
    LET typed == IF d.startAt \in Int THEN Higher(d.startAt - zone, now) ELSE now
        IsOpen(t) == ~d.windowed \/ (t + d.offset) % Day \in
                                      OpenHours([open |-> d.open, close |-> d.close])
    IN  SendsAt(plan.schedule, now) = Min({t \in typed .. typed + Day : IsOpen(t)})

RunsAreAsTyped ==
  launched # NotSet /\ campaign.typed # NotSet =>
    /\ Means(launched.plan, campaign.typed)
    /\ StartsAsTyped(launched.plan, campaign.typed, office.zone)

\* A row of an older version runs as a form nobody touched, and one that has
\* lost its session, or a field with no default, or that was edited back to
\* CREATED, does not run.
OlderRowsRun ==
  campaign # NoCampaign /\ campaign.typed = NotSet =>
    /\ launched # NotSet => launched.plan = CampaignPlan(DocumentOf(NewDraft, 0), "whole")
    /\ \/ "session" \notin DOMAIN campaign.doc \/ ~Readable(campaign.doc)
       \/ campaign.status = "CREATED"
       => launched = NotSet

\* A first run asks the journal of nobody; a campaign that ran is picked up.
FreshOnce == launched # NotSet /\ launched.ran => launched.resuming

\* The panel of a row that is as told offers nothing the lifecycle refuses but the
\* start of a row that was edited back to CREATED.  A campaign that has not ended
\* can be stopped, and told to run when it does not.
ButtonsAreGood ==
  campaign # NoCampaign /\ panel = [status |-> campaign.status, live |-> campaign.live] =>
    /\ \A control \in Buttons(panel) :
         ControlRefusal(control) \in {"busy", "transition"} =>
           control = "start" /\ panel.status = "CREATED"
    /\ panel.status \notin Ended =>
         /\ "cancel" \in Buttons(panel)
         /\ Buttons(panel) \intersect {"start", "resume", IF panel.live THEN "pause" ELSE "start"}
              # {}

\* A creation that is refused stores nothing, and is refused for a reason.
RefusalsHaveReasons ==
  office.refusal # "none" =>
    /\ campaign = NoCampaign
    /\ office.refusal \in {"no recipients", "template", "source", "retry", "window"}

(* A campaign runs as it was typed, when it was typed, whenever it is      *)
(* started and by whichever version; a run that follows another always     *)
(* asks the journal; and the panel offers what can be done                 *)
(* (CampaignForm.tsx, CampaignPanel.tsx, commands/campaign.rs).            *)
LaunchedAsComposed ==
  RunsAreAsTyped /\ OlderRowsRun /\ FreshOnce /\ ButtonsAreGood /\ RefusalsHaveReasons
=============================================================================
