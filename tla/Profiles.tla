------------------------------ MODULE Profiles ------------------------------
(***************************************************************************)
(* The connection profiles and the sessions screen                         *)
(* (crates/smpp-session/src/profile.rs, reconnect.rs,                      *)
(* persistence/src/repositories/session_profiles.rs,                       *)
(* src-tauri/src/commands/session.rs, ui/src/store/sessions.ts,            *)
(* ui/src/views/Sessions).                                                 *)
(*                                                                         *)
(* A draft crosses the bridge, is validated as a whole, is projected on a  *)
(* row, and comes back from it to be shown or bound.  On the screen, each  *)
(* command is answered later, step by step, and what it changes is read    *)
(* back by a list that may be overtaken when the screen is opened again.   *)
(***************************************************************************)
EXTENDS Pages

CONSTANTS
  SessionIds,   \* the identifiers minted
  Absent,       \* no value: `None`, NULL, and a profile that is refused
  MaxFields,    \* (bound) fields of a draft that differ from the blank profile
  MaxOpened,    \* (bound) times the screen is opened
  MaxUses       \* (bound) commands the operator gives

\* The JSON of a reconnection policy, as its keys and their values.
Documents ==
  [enabled : BOOLEAN, min_backoff_s : Nat, max_backoff_s : Nat, jitter : BOOLEAN]

ASSUME ProfilesAssumption ==
  /\ MaxFields \in Nat /\ MaxOpened \in Nat /\ MaxUses \in Nat
  /\ Absent \notin Documents

VARIABLES
  draft,    \* the form
  rows,     \* `session_profiles`, by rowid: [id, columns]
  live,     \* the live session, [id, profile], or Absent
  journal,  \* a message: the profile it was sent under, its `session_id`, and
            \* whether that profile was deleted since
  board,    \* the store of the screen, and how often it was opened
  commands  \* the commands that are not answered yet

formVars == <<draft>>
screenVars == <<rows, live, journal, board, commands>>

-----------------------------------------------------------------------------
(* A profile, from the form to its row and back.                           *)

\* A text field: its octets, and whether one of them is NUL.
Text(octets) == [octets |-> octets, nul |-> FALSE]

\* `blankProfile`, with the texts an operator would fill in.
Blank ==
  [name |-> Text(5), host |-> Text(9), systemId |-> Text(4), systemType |-> Text(0),
   port |-> 2775, bindType |-> "transceiver", interfaceVersion |-> "v5.0",
   windowSize |-> 50, throughputTps |-> 100, minTps |-> 1,
   enquireLinkS |-> 30, responseTimeoutS |-> 10,
   reconnectEnabled |-> TRUE, minBackoffS |-> 1, maxBackoffS |-> 60, jitter |-> TRUE,
   gsm7Packing |-> "unpacked", gsm7Charset |-> "gsm0338",
   dlrIdMatching |-> "relaxed", bindCount |-> 1]

\* The least and the most each field may hold (the constants of profile.rs and
\* of reconnect.rs).
TextBounds ==
  [name |-> <<1, 64>>, host |-> <<1, 255>>, systemId |-> <<1, 15>>, systemType |-> <<0, 12>>]
NumberBounds ==
  [port |-> <<1, 65535>>, windowSize |-> <<1, 1000>>, enquireLinkS |-> <<0, 3600>>,
   responseTimeoutS |-> <<1, 300>>, bindCount |-> <<1, 16>>, minTps |-> <<1, 100000>>,
   throughputTps |-> <<0, 100000>>]

\* What an operator may put in a field: each side of its bounds, or a choice.
Candidates(field) ==
  CASE field \in DOMAIN TextBounds ->
         {[octets |-> n, nul |-> nul] :
            n \in {0, 1, TextBounds[field][2], TextBounds[field][2] + 1}, nul \in BOOLEAN}
    [] field = "port" -> {0, 1, 65535}
    [] field \in DOMAIN NumberBounds ->
         {0, 1, 10, NumberBounds[field][2], NumberBounds[field][2] + 1}
    [] field = "bindType" -> {"transmitter", "receiver", "transceiver"}
    [] field = "interfaceVersion" -> {"v3.4", "v5.0"}
    [] field \in {"minBackoffS", "maxBackoffS"} -> {0, 1, 60, 3600, 3601}
    [] field = "gsm7Packing" -> {"unpacked", "packed"}
    [] field = "gsm7Charset" -> {"gsm0338", "latin1"}
    [] field = "dlrIdMatching" -> {"exact", "relaxed", "bases"}
    [] OTHER -> BOOLEAN

Deviating(d) == {field \in DOMAIN Blank : d[field] # Blank[field]}

\* `set` and `number`: the form carries any value of a field, and checks none.
Edit ==
  \E field \in DOMAIN Blank : \E value \in Candidates(field) :
    /\ draft' = [draft EXCEPT ![field] = value]
    /\ Cardinality(Deviating(draft')) <= MaxFields

CheckText(text, bounds) == bounds[1] <= text.octets /\ text.octets <= bounds[2] /\ ~text.nul
CheckRange(value, bounds) == bounds[1] <= value /\ value <= bounds[2]

\* `ReconnectPolicy::new`.
PolicyOf(enabled, least, most, jitter) ==
  IF least < 1 \/ most > 3600 \/ most < least THEN Absent
  ELSE [enabled |-> enabled, minBackoff |-> least, maxBackoff |-> most, jitter |-> jitter]

KeepaliveTimesOut(f) == f.enquireLinkS # 0 => f.responseTimeoutS < f.enquireLinkS

\* `ProfileBuilder::build`, of the fields `f` and the policy that was read.
Build(f, policy) ==
  IF /\ policy # Absent
     /\ \A field \in DOMAIN TextBounds : CheckText(f[field], TextBounds[field])
     /\ \A field \in DOMAIN NumberBounds : CheckRange(f[field], NumberBounds[field])
     /\ f.throughputTps # 0 => f.minTps <= f.throughputTps
     /\ ~(f.gsm7Charset = "latin1" /\ f.gsm7Packing = "packed")
     /\ KeepaliveTimesOut(f)
  THEN [fields |-> f, reconnect |-> policy]
  ELSE Absent

\* `SessionProfileDto::parse`, of a draft.
OfPolicy == {"reconnectEnabled", "minBackoffS", "maxBackoffS", "jitter"}
Without(d) == [field \in DOMAIN d \ OfPolicy |-> d[field]]
Accepted(d) ==
  Build(Without(d), PolicyOf(d.reconnectEnabled, d.minBackoffS, d.maxBackoffS, d.jitter))

\* `From<&SessionProfile>`: what the screen is given.
Shown(profile) ==
  LET r == profile.reconnect
  IN  [field \in DOMAIN Blank |->
         CASE field = "reconnectEnabled" -> r.enabled
           [] field = "minBackoffS" -> r.minBackoff
           [] field = "maxBackoffS" -> r.maxBackoff
           [] field = "jitter" -> r.jitter
           [] OTHER -> profile.fields[field]]

\* `reconnect_document`: the JSON column.
Document(policy) ==
  [enabled |-> policy.enabled, min_backoff_s |-> policy.minBackoff,
   max_backoff_s |-> policy.maxBackoff, jitter |-> policy.jitter]

\* `reconnect_from_document`: a column that is absent, or a key that is, reads
\* as the default.
ReadPolicy(document) ==
  LET defaults == [enabled |-> TRUE, min_backoff_s |-> 1, max_backoff_s |-> 60, jitter |-> TRUE]
      held == IF document = Absent THEN {} ELSE DOMAIN document
      Read(key) == IF key \in held THEN document[key] ELSE defaults[key]
  IN  PolicyOf(Read("enabled"), Read("min_backoff_s"), Read("max_backoff_s"), Read("jitter"))

\* `store_interface_version`, `bind_type_of` and `bind_mode_of`: what is not
\* named is the last.
StoredVersion(version) == IF version = "v3.4" THEN "v3.4" ELSE "v5.0"
StoredBindType(mode) == IF mode \in {"transmitter", "receiver"} THEN mode ELSE "transceiver"

\* `SessionProfile::to_record`, and the columns it is stored in.
Columns(profile) ==
  [fields    |-> [profile.fields EXCEPT !.interfaceVersion = StoredVersion(@),
                                        !.bindType = StoredBindType(@)],
   reconnect |-> Document(profile.reconnect)]

\* `SessionProfile::from_record`: validated again.
FromRecord(columns) ==
  Build([columns.fields EXCEPT !.bindType = StoredBindType(@)], ReadPolicy(columns.reconnect))

-----------------------------------------------------------------------------
(* The screen and its commands.                                            *)

\* What the operator types here: a profile, an edited one, and one whose
\* keep-alive could never time out; and the rows a version without the
\* reconnection policy left in the file, one of them under looser rules.
Typed ==
  {Blank, [Blank EXCEPT !.jitter = FALSE], [Blank EXCEPT !.enquireLinkS = 10]}
OlderRows ==
  {[fields |-> Without(d), reconnect |-> Absent] :
     d \in {Blank, [Blank EXCEPT !.enquireLinkS = 10]}}

StoredRows ==
  {<<>>} \union {<<[id |-> id, columns |-> row]>> : id \in SessionIds, row \in OlderRows}

ProfilesInit ==
  /\ draft = Blank
  /\ rows \in StoredRows
  /\ live = Absent
  /\ journal = [of |-> Absent, column |-> Absent, deleted |-> FALSE]
  /\ board = [profiles |-> <<>>, busy |-> FALSE, listed |-> FALSE, opened |-> 0, used |-> 0,
              minted |-> {rows[i].id : i \in DOMAIN rows}]
  /\ commands = {}

\* A call leaves the screen, which is busy until one is answered.
Called(op, id, input, n) ==
  [op |-> op, id |-> id, input |-> input, n |-> n, step |-> "called", read |-> <<>>]

\* `refresh`, by the screen that opens: whatever is in flight.
OpenSessions ==
  /\ board.opened < MaxOpened
  /\ board' = [board EXCEPT !.opened = @ + 1, !.busy = TRUE]
  /\ commands' = commands \union {Called("list", Absent, Absent, -board.opened)}
  /\ UNCHANGED <<rows, live, journal>>

\* `save`, `remove`, `bind` and `unbind`, by buttons that a busy screen
\* disables.  A profile the screen does not hold is given an identifier.
Use ==
  /\ board.opened > 0 /\ ~board.busy /\ board.used < MaxUses
  /\ \E op \in {"save", "remove", "bind", "unbind"} :
     \E id \in SessionIds : \E input \in IF op = "save" THEN Typed ELSE {Absent} :
       LET new == op = "save" /\ id \notin board.minted
       IN  /\ new \/ \E i \in DOMAIN board.profiles : board.profiles[i].id = id
           /\ commands' = commands \union {Called(op, id, input, board.used + 1)}
           /\ board' = [board EXCEPT !.busy = TRUE, !.used = @ + 1,
                                     !.minted = IF new THEN @ \union {id} ELSE @]
  /\ UNCHANGED <<rows, live, journal>>

Step(c, next) == commands' = (commands \ {c}) \union {next}
Moves(c, step) == Step(c, [c EXCEPT !.step = step])

\* Where its row is, if it has one.
RowOf(id) == {i \in DOMAIN rows : rows[i].id = id}

\* `ON DELETE SET NULL`.
Detached(id) == IF journal.column = id THEN [journal EXCEPT !.column = Absent] ELSE journal

MutantUpsert(id, columns) ==
  /\ rows' = Append(Picked(rows, DOMAIN rows \ RowOf(id)), [id |-> id, columns |-> columns])
  /\ journal' = Detached(id)

\* `upsert_session_profile`: a row that is there keeps its place and the
\* messages that refer to it.
Upsert(id, columns) ==
  /\ rows' = IF RowOf(id) = {} THEN Append(rows, [id |-> id, columns |-> columns])
             ELSE [i \in DOMAIN rows |->
                     IF rows[i].id = id THEN [rows[i] EXCEPT !.columns = columns] ELSE rows[i]]
  /\ UNCHANGED journal

\* `session_create` and `session_update`.
Save(c) ==
  /\ c.op = "save"
  /\ IF Accepted(c.input) = Absent THEN UNCHANGED <<rows, journal>> /\ Moves(c, "refused")
     ELSE Upsert(c.id, Columns(Accepted(c.input))) /\ Moves(c, "done")
  /\ UNCHANGED <<live, board>>

\* `session_delete`: the session is closed first.
CloseFirst(c) ==
  /\ c.op = "remove" /\ c.step = "called"
  /\ live' = IF live # Absent /\ live.id = c.id THEN Absent ELSE live
  /\ Moves(c, "closed")
  /\ UNCHANGED <<rows, journal, board>>

\* `delete_session_profile`.
DeleteRow(c) ==
  /\ c.op = "remove" /\ c.step = "closed"
  /\ rows' = Picked(rows, DOMAIN rows \ RowOf(c.id))
  /\ journal' = [Detached(c.id) EXCEPT !.deleted = @ \/ journal.of = c.id]
  /\ Moves(c, "done")
  /\ UNCHANGED <<live, board>>

\* `session_bind`: the profile is read, and validated again.
FindProfile(c) ==
  /\ c.op = "bind" /\ c.step = "called"
  /\ \/ \E i \in RowOf(c.id) :
          /\ FromRecord(rows[i].columns) # Absent
          /\ Step(c, [c EXCEPT !.step = "found", !.read = <<FromRecord(rows[i].columns)>>])
     \/ /\ \A i \in RowOf(c.id) : FromRecord(rows[i].columns) = Absent
        /\ Moves(c, "refused")
  /\ UNCHANGED <<rows, live, journal, board>>

\* `bind_observed`: a rebind replaces its session, and another is refused.
Bind(c) ==
  /\ c.op = "bind" /\ c.step = "found"
  /\ IF live = Absent \/ live.id = c.id
       THEN live' = [id |-> c.id, profile |-> c.read[1]] /\ Moves(c, "done")
       ELSE UNCHANGED live /\ Moves(c, "refused")
  /\ UNCHANGED <<rows, journal, board>>

\* `session_unbind`.
Unbind(c) ==
  /\ c.op = "unbind"
  /\ live' = IF live # Absent /\ live.id = c.id THEN Absent ELSE live
  /\ Moves(c, "done")
  /\ UNCHANGED <<rows, journal, board>>

\* `session_list`: one row that does not validate refuses them all.
List(c) ==
  /\ c.op = "list"
  /\ LET read == [i \in DOMAIN rows |-> FromRecord(rows[i].columns)]
     IN  IF \E i \in DOMAIN rows : read[i] = Absent THEN Moves(c, "refused")
         ELSE Step(c, [c EXCEPT !.step = "done",
                                !.read = [i \in DOMAIN rows |->
                                            [id |-> rows[i].id, profile |-> Shown(read[i])]]])
  /\ UNCHANGED <<rows, live, journal, board>>

\* A storage that does not answer, or a session that ended badly.
Fails(c) == Moves(c, "refused") /\ UNCHANGED <<rows, live, journal, board>>

Works ==
  \E c \in commands :
    \/ c.step = "called" /\ (Save(c) \/ CloseFirst(c) \/ FindProfile(c) \/ Unbind(c) \/ List(c))
    \/ DeleteRow(c) \/ Bind(c)
    \/ c.step \in {"called", "closed"} /\ Fails(c)

\* The answer reaches the screen: what was saved or deleted is listed again.
IsAnswered ==
  \E c \in commands :
    /\ c.step \in {"done", "refused"}
    /\ LET again == c.op \in {"save", "remove"} /\ c.step = "done"
           next  == Called("list", Absent, Absent, c.n)
       IN  /\ commands' = (commands \ {c}) \union (IF again THEN {next} ELSE {})
           /\ board' =
                [board EXCEPT
                   !.busy = again,
                   !.listed = IF c.op = "list" THEN c.step = "done" ELSE @,
                   !.profiles = IF c.op = "list" /\ c.step = "done" THEN c.read ELSE @]
    /\ UNCHANGED <<rows, live, journal>>

\* The live session writes a message ahead of sending it, under its profile:
\* the reference needs the row.
WriteAhead ==
  /\ live # Absent /\ RowOf(live.id) # {} /\ journal.of = Absent
  /\ journal' = [of |-> live.id, column |-> live.id, deleted |-> FALSE]
  /\ UNCHANGED <<rows, live, board, commands>>

ScreenNext == OpenSessions \/ Use \/ Works \/ IsAnswered \/ WriteAhead

-----------------------------------------------------------------------------
(***************************************************************************)
(* A profile that is accepted is the one that is listed, edited and bound  *)
(* afterwards, to the last field: what `build` accepts, `from_record` reads*)
(* back from the row as the same profile, so that no saved profile refuses *)
(* the list or the bind, and the screen shows what was typed (profile.rs,  *)
(* "the round trip is covered by a test"; the one it has is of one policy).*)
(***************************************************************************)
AcceptedReadsBack ==
  LET profile == Accepted(draft)
  IN  profile # Absent =>
        /\ FromRecord(Columns(profile)) = profile
        /\ Shown(profile) = draft

(***************************************************************************)
(* Whatever was saved, edited, left by an older version or deleted under   *)
(* it, a live session keeps alive with a period its timeout fits in, and   *)
(* sends with a layout that loses no bit (profile.rs, "the session sits    *)
(* BOUND on a socket that carries nothing").                               *)
(***************************************************************************)
LiveIsSound ==
  live # Absent =>
    LET f == live.profile.fields
    IN  /\ f.enquireLinkS = 0 \/ f.responseTimeoutS < f.enquireLinkS
        /\ ~(f.gsm7Charset = "latin1" /\ f.gsm7Packing = "packed")
        /\ live.profile.reconnect.minBackoff <= live.profile.reconnect.maxBackoff

(***************************************************************************)
(* Only the deletion of its profile takes a message from it, an edit never *)
(* does (session_profiles.rs, "editing a profile's port would quietly      *)
(* orphan its whole history").                                             *)
(***************************************************************************)
HistoryIsKept == journal.column = journal.of \/ journal.deleted

(***************************************************************************)
(* On a screen opened once, whose buttons wait for the last answer: when   *)
(* all is answered and the last list was, the screen holds the rows, oldest*)
(* first, whichever of the commands before it failed and at which step.    *)
(***************************************************************************)
ScreenShowsTheRows ==
  board.opened <= 1 /\ commands = {} /\ board.listed =>
    board.profiles = [i \in DOMAIN rows |->
                        [id |-> rows[i].id, profile |-> Shown(FromRecord(rows[i].columns))]]

(* A profile stays what was accepted: in its row, in the session that is   *)
(* bound under it, on the screen, and in the messages that refer to it.    *)
ProfilesAreKept == AcceptedReadsBack /\ LiveIsSound /\ HistoryIsKept /\ ScreenShowsTheRows
=============================================================================
