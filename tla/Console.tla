------------------------------ MODULE Console ------------------------------
(***************************************************************************)
(* What the client computes beside the traffic, one tool in use at a time: *)
(* the message editor and its segments (Segments), the template of a       *)
(* campaign (Templates), the PDU log and the log screen (Logs), the waits  *)
(* and rates (Waits), the address book with its screen (Book), the form of *)
(* a profile and the sessions screen (Profiles), the form of a message and *)
(* the send screen (Compose), the form of a campaign and its panel         *)
(* (Launch), and the octets of a connection (Frames).                      *)
(* These parts share no state that matters to one another: a behaviour     *)
(* exercises one, and the others stay as they are.                         *)
(***************************************************************************)
EXTENDS Segments, Templates, Logs, Launch, Book, Profiles, Compose, Frames

CONSTANT Tools   \* (bound) the tools a run exercises

AllTools == {"editor", "template", "logs", "link", "retry", "hours", "rate", "book",
             "form", "sessions", "fields", "send", "frames", "campaign"}

ASSUME ConsoleAssumption == Tools \subseteq AllTools

VARIABLE focus   \* the tool in use

consoleVars ==
  <<vars, editor, template, link, retry, hours, rate, bookVars, formVars, screenVars,
    composeVars, sendVars, framesVars, launchVars, focus>>

\* A tool that is not in use stays where one of its uses would start.
From(tool, starts) == IF focus = tool THEN starts ELSE {CHOOSE start \in starts : TRUE}

Init ==
  /\ focus \in Tools
  /\ editor \in From("editor", NewTexts)
  /\ template = <<>>
  /\ LogsInit
  /\ link \in From("link", NewLinks)
  /\ retry \in From("retry", NewMessages)
  /\ hours \in From("hours", NewCampaigns)
  /\ rate = NewRate
  /\ BookInit
  /\ ProfilesInit
  /\ rows \in From("sessions", StoredRows)
  /\ ComposeInit
  /\ stream \in From("frames", NewStreams)
  /\ LaunchInit
  /\ office \in From("campaign", NewOffices)
  /\ campaign \in From("campaign", StoredCampaigns)

\* The other tools, of which each action says nothing.
Rests(tool, state) == IF focus = tool THEN TRUE ELSE UNCHANGED state

Others ==
  /\ Rests("editor", editor) /\ Rests("template", template) /\ Rests("logs", vars)
  /\ Rests("link", link) /\ Rests("retry", retry) /\ Rests("hours", hours)
  /\ Rests("rate", rate) /\ Rests("book", bookVars)
  /\ Rests("form", formVars) /\ Rests("sessions", screenVars)
  /\ Rests("fields", composeVars) /\ Rests("send", sendVars)
  /\ Rests("frames", framesVars) /\ Rests("campaign", launchVars) /\ UNCHANGED focus

Next ==
  \/ focus = "editor" /\ Type /\ Others
  \/ focus = "template" /\ TypeTemplate /\ Others
  \/ focus = "logs" /\ LogsNext /\ Others
  \/ focus = "link" /\ LinkNext /\ Others
  \/ focus = "retry" /\ RetryNext /\ Others
  \/ focus = "hours" /\ HourPasses /\ Others
  \/ focus = "rate" /\ RateNext /\ Others
  \/ focus = "book" /\ BookNext /\ Others
  \/ focus = "form" /\ Edit /\ Others
  \/ focus = "sessions" /\ ScreenNext /\ Others
  \/ focus = "fields" /\ Fill /\ Others
  \/ focus = "send" /\ SendNext /\ Others
  \/ focus = "frames" /\ FramesNext /\ Others
  \/ focus = "campaign" /\ LaunchNext /\ Others

Spec == Init /\ [][Next]_consoleVars

-----------------------------------------------------------------------------
(* What each tool promises, while it is the one in use: at rest it is      *)
(* where one of its uses starts.                                           *)

(* The segments of a text are what the counter says, and read back whole;  *)
(* a template reads back as what was rendered (segmentation.rs, preview.rs,*)
(* template.rs).                                                           *)
TextsAreFaithful ==
  /\ focus = "editor" => SegmentationIsFaithful
  /\ focus = "template" => ReadBackFindsNothing

(* The log holds, and its screen shows, what was seen, once and in order   *)
(* (pdu_log.rs, journal.rs, page.rs).                                      *)
LogsAreWhole == focus = "logs" => LogIsWhole

(* Reconnections, retries, daily windows and rates are those of the policy *)
(* (reconnect.rs, retry.rs, schedule.rs, progress.rs).                     *)
DelaysAreRight == focus \in {"link", "retry", "hours", "rate"} => WaitsAreRight

(* The contacts screen shows the selection it was given (contacts.ts).     *)
BookIsTheSelection == focus = "book" => TableIsTheSelection

(* A profile stays what was accepted (profile.rs, sessions.ts).            *)
ProfilesStand == focus \in {"form", "sessions"} => ProfilesAreKept

(* A message is sent, counted and followed as composed (message.rs,        *)
(* submit.rs, send.ts).                                                    *)
MessagesAreAsComposed == focus \in {"fields", "send"} => SentAsComposed

(* A campaign runs as it was composed (CampaignForm.tsx, CampaignPanel.tsx,*)
(* commands/campaign.rs).                                                  *)
CampaignsAreAsComposed == focus = "campaign" => LaunchedAsComposed

(* The PDUs of a connection are those that were sent (framing.rs,          *)
(* codec.rs).                                                              *)
PdusAreFramed == focus = "frames" => FramesStayAligned
=============================================================================
