------------------------------ MODULE Compose -------------------------------
(***************************************************************************)
(* The send screen and what it puts on the wire                            *)
(* (ui/src/views/Send, ui/src/store/send.ts,                               *)
(* src-tauri/src/commands/message.rs, crates/messaging/src/addressing.rs   *)
(* and submit.rs).                                                         *)
(*                                                                         *)
(* The fields of the form are parsed, refused by name or carried into a    *)
(* `submit_sm`.  Meanwhile the counter of the editor is asked of the       *)
(* backend at each keystroke, and the badge of the last message follows an *)
(* answer and events that race.                                            *)
(***************************************************************************)
EXTENDS Pages

CONSTANTS
  Hosts,       \* the sessions that may be bound
  Unset,       \* no value: `null` and `None`
  MinDigits, MaxDigits, MaxSender,   \* (scaled) lengths of an address
  MaxChoices,  \* (bound) keys and choices that make a form
  MaxRequests  \* (bound) previews asked and messages sent

VARIABLES
  fields,    \* the form, but for its text
  hosts,     \* the alphabet each bound session uses, or Unset
  writing,   \* the store of the screen
  previews,  \* the previews that are not answered yet
  outbox,    \* the messages that were sent, by number
  news       \* the updates emitted, in order

composeVars == <<fields>>
sendVars == <<hosts, writing, previews, outbox, news>>

-----------------------------------------------------------------------------
(* The addresses: a digit, a letter, and what may stand around them.       *)

Keys == {"7", "A", "+", " ", ".", "("}
Separators == {" ", "("}

ASSUME ComposeAssumption ==
  /\ MinDigits \in Nat \ {0} /\ MaxDigits \in Nat /\ MaxSender \in Nat
  /\ MinDigits <= MaxDigits /\ MaxSender < MaxDigits
  /\ Hosts # {} /\ Unset \notin Seq(Keys) /\ Unset \notin Seq({15, 255})
  /\ Unset \notin [value : Seq(Keys), ton : Nat, npi : Nat]

\* `chars().filter`.
LessKeys(raw, keys) == Picked(raw, {i \in DOMAIN raw : raw[i] \notin keys})

\* `trim_matches`.
TrimOf(raw, keys) ==
  LET kept == {i \in DOMAIN raw : raw[i] \notin keys}
  IN  IF kept = {} THEN <<>> ELSE SubSeq(raw, Min(kept), Max(kept))

\* `strip_prefix('+')`.
NoPlus(raw) == IF raw # <<>> /\ raw[1] = "+" THEN Tail(raw) ELSE raw

\* `Msisdn::parse`.
NumberOf(raw) ==
  LET digits == LessKeys(NoPlus(TrimOf(raw, Separators)), Separators \union {"."})
  IN  IF Range(digits) \subseteq {"7"} /\ Len(digits) \in MinDigits .. MaxDigits
      THEN digits ELSE Unset

\* `Ton` and `Npi`, by their octets.
Ton == [unknown |-> 0, international |-> 1, national |-> 2, networkSpecific |-> 3,
        subscriberNumber |-> 4, alphanumeric |-> 5, abbreviated |-> 6]
Npi == [unknown |-> 0, isdn |-> 1, data |-> 3, telex |-> 4, landMobile |-> 6,
        national |-> 8, private |-> 9]

Address(value, ton, npi) == [value |-> value, ton |-> Ton[ton], npi |-> Npi[npi]]

\* `Destination::parse_with`: a blank recipient is refused too.
DestinationOf(f) ==
  LET number == NumberOf(f.destination)
  IN  IF number = Unset THEN Unset ELSE Address(number, f.destTon, f.destNpi)

IsNumeric(sender) == Range(NoPlus(sender)) \subseteq {"7"}

\* `SourceAddress::parse`: what it is, and how it is announced.
SenderOf(sender) ==
  IF IsNumeric(sender)
  THEN IF NumberOf(sender) = Unset THEN Unset
       ELSE Address(NumberOf(sender), "international", "isdn")
  ELSE IF Range(sender) \subseteq {"7", "A", " ", "."} /\ Len(sender) <= MaxSender
       THEN Address(sender, "alphanumeric", "unknown")
       ELSE Unset

\* `with_ton` and `with_npi`, of what the operator chose.
Announced(sender, f) ==
  [value |-> sender.value,
   ton |-> IF f.sourceTon = Unset THEN sender.ton ELSE Ton[f.sourceTon],
   npi |-> IF f.sourceNpi = Unset THEN sender.npi ELSE Npi[f.sourceNpi]]

\* The sender of `MessageSendInput::parse`, and that of `CommonFields::build`
\* for a message that lets the message centre choose.
SourceOf(f) ==
  LET typed == TrimOf(f.source, {" "})
  IN  IF typed = <<>> THEN Address(<<>>, "unknown", "unknown")
      ELSE IF SenderOf(typed) = Unset THEN Unset
      ELSE Announced(SenderOf(typed), f)

\* `TlvDto::parse`: two digits an octet, of which the first may be a sign.
OctetsOf(hex) ==
  LET bare == LessKeys(hex, {" "})
      Pair(i) == SubSeq(bare, 2 * i - 1, 2 * i)
      count == Len(bare) \div 2
  IN  IF Len(bare) = 2 * count /\ \A i \in 1 .. count : Pair(i) \in {<<"F", "F">>, <<"+", "F">>}
      THEN [i \in 1 .. count |-> IF Pair(i) = <<"F", "F">> THEN 255 ELSE 15]
      ELSE Unset

-----------------------------------------------------------------------------
(* The form, and the PDU it becomes.                                       *)

Blanks == {"serviceType", "scheduleDeliveryTime", "validityPeriod"}

\* `blankForm`, with a recipient, and the segment a body is sent in.
NewFields ==
  [destination |-> [i \in 1 .. MinDigits |-> "7"],
   destTon |-> "international", destNpi |-> "isdn",
   source |-> <<>>, sourceTon |-> Unset, sourceNpi |-> Unset,
   serviceType |-> 0, scheduleDeliveryTime |-> 0, validityPeriod |-> 0,
   protocolId |-> 0, priorityFlag |-> 0, smDefaultMsgId |-> 0,
   registeredDelivery |-> "onAnyOutcome", replaceIfPresent |-> FALSE,
   tlv |-> Unset, segment |-> "whole"]

\* `clampOctet`: an octet, whatever is typed.
ClampOctet(typed) == IF typed = Unset THEN 0 ELSE Min({255, Max({0, typed})})

\* What is typed as the tag and the value of a parameter: a tag nobody knows, or one
\* that the segmenter uses, which nothing refuses.
Hexes == {<<"F", " ", "F">>, <<"F">>, <<"+", "F">>}
Tlvs == [tag : {"vendor", "sar", "payload"}, hex : Hexes]

\* What a drop-down offers beside the default, which is "derived" for a sender.
AddressTypes ==
  [destTon |-> {"national", "alphanumeric"}, destNpi |-> {"private"},
   sourceTon |-> {"national"}, sourceNpi |-> {"private"}]

\* What may be chosen in a field that is not typed key by key.
Offered(field) ==
  CASE field \in DOMAIN AddressTypes -> AddressTypes[field]
    [] field = "serviceType" -> {5, 6}
    [] field \in {"scheduleDeliveryTime", "validityPeriod"} -> {15, 16}
    [] field \in {"protocolId", "smDefaultMsgId"} -> {ClampOctet(300), ClampOctet(Unset)}
    [] field = "priorityFlag" -> {ClampOctet(3), ClampOctet(4), ClampOctet(-1)}
    [] field = "registeredDelivery" -> {"onFailure", "none"}
    [] field = "replaceIfPresent" -> {TRUE}
    [] field = "tlv" -> Tlvs
    [] field = "segment" -> {"header", "sar", "payload"}
    [] OTHER -> {}

\* How far a form is from the blank one.
Cost(f) ==
  (IF f.destination = <<>> THEN 1 ELSE Len(f.destination) - MinDigits) + Len(f.source)
  + Cardinality({field \in DOMAIN f \ {"destination", "source"} : f[field] # NewFields[field]})

Fill ==
  /\ \/ \E key \in Keys :
          \/ fields' = [fields EXCEPT !.source = Append(@, key)]
          \/ /\ fields.destination # <<>>
             /\ \/ fields' = [fields EXCEPT !.destination = Append(@, key)]
                \/ fields' = [fields EXCEPT !.destination = <<key>> \o @]
     \/ fields' = [fields EXCEPT !.destination = <<>>]
     \/ \E field \in DOMAIN fields : \E value \in Offered(field) :
          fields' = [fields EXCEPT ![field] = value]
  /\ Cost(fields') <= MaxChoices

\* `MessageSendInput::parse` and `CommonFields::build`, by the code of the
\* first field they refuse.
Refusal(f) ==
  IF DestinationOf(f) = Unset THEN "destination"
  ELSE IF SourceOf(f) = Unset THEN "source"
  ELSE IF f.tlv # Unset /\ OctetsOf(f.tlv.hex) = Unset THEN "tlv"
  ELSE IF f.priorityFlag > 3 \/ f.serviceType > 5
          \/ {f.scheduleDeliveryTime, f.validityPeriod} \ {0, 16} # {} THEN "field"
  ELSE "none"

Owned(tag, value) == [tag |-> tag, value |-> value]

\* The operator's parameters go in first, those of the segmenter last.
TlvsOf(f) ==
  (IF f.tlv = Unset THEN <<>> ELSE <<Owned(f.tlv.tag, OctetsOf(f.tlv.hex))>>)
  \o CASE f.segment = "sar" -> <<Owned("sar", "reference")>>
       [] f.segment = "payload" -> <<Owned("payload", "body")>>
       [] OTHER -> <<>>

\* `RegisteredDelivery`, by its octet.
Registered == [none |-> 0, onAnyOutcome |-> 1, onFailure |-> 2]

\* `build_submit_sm`; `build_submit_multi` differs by its list of recipients.
SubmitOf(f) ==
  [destination |-> DestinationOf(f), source |-> SourceOf(f),
   asIs |-> [field \in Blanks \union {"protocolId", "priorityFlag", "smDefaultMsgId",
                                      "replaceIfPresent"} |-> f[field]],
   registeredDelivery |-> Registered[f.registeredDelivery],
   shortMessage |-> f.segment # "payload", udhi |-> f.segment = "header",
   tlvs |-> TlvsOf(f)]

\* `SimpleForm` warns of a sender that is not a number.
Warned(f) ==
  LET typed == TrimOf(f.source, {" "})
  IN  typed # <<>> /\ (NoPlus(typed) = <<>> \/ ~IsNumeric(typed))

-----------------------------------------------------------------------------
(* The screen: the counter and the badge.                                  *)

Texts == {"plain", "accented"}
Alphabets == {"gsm0338", "latin1"}

ComposeInit ==
  /\ fields = NewFields
  /\ hosts = [s \in Hosts |-> "gsm0338"]
  /\ writing = [session |-> CHOOSE s \in Hosts : TRUE, text |-> "plain", choice |-> "automatic",
                open |-> TRUE, armed |-> TRUE, generation |-> 0, rebound |-> FALSE,
                preview |-> Unset, sending |-> FALSE, result |-> Unset, progress |-> Unset]
  /\ previews = {}
  /\ outbox = <<>>
  /\ news = <<>>

\* The text, the encoding or the mode changes: the timer starts again.
Keystroke ==
  /\ writing.open
  /\ \E text \in Texts, choice \in {"automatic", "gsm7Bit"} :
       /\ <<text, choice>> # <<writing.text, writing.choice>>
       /\ writing' = [writing EXCEPT !.text = text, !.choice = choice, !.armed = TRUE]
  /\ UNCHANGED <<hosts, previews, outbox, news>>

CanAsk == writing.generation + Len(outbox) < MaxRequests

\* `refreshPreview`, of the store `w`.
RefreshPreview(w) ==
  /\ CanAsk
  /\ writing' = [w EXCEPT !.generation = @ + 1, !.rebound = FALSE]
  /\ previews' = previews \union
       {[n |-> w.generation + 1, text |-> w.text, choice |-> w.choice, session |-> w.session,
         step |-> "asked", answer |-> Unset]}

\* 60 ms after the last key.
Elapse ==
  /\ writing.armed
  /\ RefreshPreview([writing EXCEPT !.armed = FALSE])
  /\ UNCHANGED <<hosts, outbox, news>>

\* `chooseSession`, among the bound ones.
ChooseSession ==
  /\ writing.open
  /\ \E s \in Hosts \union {Unset} :
       /\ s # writing.session
       /\ s # Unset => hosts[s] # Unset
       /\ RefreshPreview([writing EXCEPT !.session = s])
  /\ UNCHANGED <<hosts, outbox, news>>

\* The screen is left, with its timer and its listener, and opened again.
Leave ==
  /\ writing' = [writing EXCEPT !.open = ~@, !.armed = ~writing.open]
  /\ UNCHANGED <<hosts, previews, outbox, news>>

\* A session ends, or is bound again, maybe under an edited profile.
Rebind ==
  /\ \E s \in Hosts, alphabet \in Alphabets \union {Unset} :
       /\ hosts[s] # alphabet /\ (hosts[s] # Unset => alphabet = Unset)
       /\ hosts' = [hosts EXCEPT ![s] = alphabet]
       /\ writing' = [writing EXCEPT !.rebound = @ \/ s = writing.session]
  /\ UNCHANGED <<previews, outbox, news>>

\* The alphabet a preview is computed under.
AlphabetOf(session) ==
  IF session # Unset /\ hosts[session] # Unset THEN hosts[session] ELSE "gsm0338"

\* `message_preview`.
ComputePreview ==
  /\ \E p \in previews :
       /\ p.step = "asked"
       /\ LET alphabet == AlphabetOf(p.session)
              written  == p.text = "plain" \/ p.choice = "automatic" \/ alphabet = "latin1"
          IN  previews' =
                (previews \ {p}) \union
                {[p EXCEPT !.step = "answered",
                           !.answer = IF written
                                      THEN [text |-> p.text, choice |-> p.choice,
                                            session |-> p.session, alphabet |-> alphabet]
                                      ELSE Unset]}
  /\ UNCHANGED <<hosts, writing, outbox, news>>

MutantIsLatest(p) == TRUE
IsLatest(p) == writing.generation = p.n

AdoptPreview ==
  /\ \E p \in previews :
       /\ p.step = "answered"
       /\ previews' = previews \ {p}
       /\ writing' = IF IsLatest(p) THEN [writing EXCEPT !.preview = p.answer] ELSE writing
  /\ UNCHANGED <<hosts, outbox, news>>

\* `send`, by a button that is ready.
Send ==
  /\ writing.open /\ ~writing.sending /\ writing.session # Unset
  /\ \E s \in Hosts : hosts[s] # Unset
  /\ CanAsk
  /\ outbox' = Append(outbox, [state |-> "NEW", session |-> writing.session, call |-> "made"])
  /\ writing' = [writing EXCEPT !.sending = TRUE, !.result = Unset, !.progress = Unset]
  /\ UNCHANGED <<hosts, previews, news>>

Told(i, state) == news' = Append(news, [of |-> i, state |-> state])

\* `message_send` finds its session, or refuses; a store may refuse the row.
Enqueue(i) ==
  /\ outbox[i].call = "made" /\ outbox[i].state = "NEW"
  /\ \/ /\ hosts[outbox[i].session] # Unset
        /\ outbox' = [outbox EXCEPT ![i].state = "QUEUED"]
        /\ Told(i, "QUEUED")
     \/ outbox' = [outbox EXCEPT ![i].call = "refused"] /\ UNCHANGED news

\* The send path tells each transition, and reports the last: a message that
\* is not answered stays as it was.
Advance(i) ==
  /\ outbox[i].call = "made"
  /\ \/ /\ outbox[i].state = "QUEUED"
        /\ outbox' = [outbox EXCEPT ![i].state = "SENT"]
        /\ Told(i, "SENT")
     \/ /\ outbox[i].state = "SENT"
        /\ \E state \in {"SENT", "ACCEPTED", "FAILED"} :
             /\ outbox' = [outbox EXCEPT ![i].state = state, ![i].call = state]
             /\ Told(i, state)

\* A receipt is correlated: it may be before the command has answered.
Deliver(i) ==
  /\ outbox[i].state = "ACCEPTED"
  /\ outbox' = [outbox EXCEPT ![i].state = "DELIVERED"]
  /\ Told(i, "DELIVERED")

Posts ==
  /\ \E i \in DOMAIN outbox : Enqueue(i) \/ Advance(i) \/ Deliver(i)
  /\ UNCHANGED <<hosts, writing, previews>>

\* The answer of `message_send` reaches the store, mounted or not.
SendAnswers ==
  /\ \E i \in DOMAIN outbox :
       /\ outbox[i].call \in {"SENT", "ACCEPTED", "FAILED", "refused"}
       /\ outbox' = [outbox EXCEPT ![i].call = "over"]
       /\ writing' =
            IF outbox[i].call = "refused" THEN [writing EXCEPT !.sending = FALSE]
            ELSE [writing EXCEPT !.sending = FALSE, !.result = i,
                                 !.progress = [of |-> i, state |-> outbox[i].call]]
  /\ UNCHANGED <<hosts, previews, news>>

\* `adopt`, by a screen that is open: another message is not this one.
Hear ==
  /\ news # <<>>
  /\ news' = Tail(news)
  /\ writing' = IF writing.open /\ writing.result \in {Unset, Head(news).of}
                THEN [writing EXCEPT !.progress = Head(news)] ELSE writing
  /\ UNCHANGED <<hosts, previews, outbox>>

SendNext ==
  \/ Keystroke \/ Elapse \/ ChooseSession \/ Leave \/ Rebind
  \/ ComputePreview \/ AdoptPreview
  \/ Send \/ Posts \/ SendAnswers \/ Hear

-----------------------------------------------------------------------------
(***************************************************************************)
(* What the screen shows is what travels: a recipient of the digits that   *)
(* were typed, each of the two types of the sender as chosen, whether or   *)
(* not the other was, and derived exactly as the screen warned otherwise   *)
(* (commands/message.rs, "silently discard a choice that was made").       *)
(***************************************************************************)
SendersAreAsShown ==
  LET pdu == SubmitOf(fields)
      blank == TrimOf(fields.source, {" "}) = <<>>
  IN  Refusal(fields) = "none" =>
        /\ pdu.destination.value = LessKeys(fields.destination, Keys \ {"7"})
        /\ blank => pdu.source = Address(<<>>, "unknown", "unknown")
        /\ ~blank =>
             /\ pdu.source.value # <<>> /\ Len(pdu.source.value) <= MaxDigits
             /\ fields.sourceTon # Unset => pdu.source.ton = Ton[fields.sourceTon]
             /\ fields.sourceNpi # Unset => pdu.source.npi = Npi[fields.sourceNpi]
             /\ fields.sourceTon = Unset => (pdu.source.ton = Ton.alphanumeric) = Warned(fields)
             /\ fields.sourceNpi = Unset => (pdu.source.npi = Npi.unknown) = Warned(fields)

(***************************************************************************)
(* Nothing typed by hand shadows what reassembles a message: the last      *)
(* parameter of a tag the segmenter uses is its own, and the body is in    *)
(* one place only, unless the operator typed a `message_payload` by hand   *)
(* (submit.rs, `CommonFields::build`).  A value without a sign is on the   *)
(* wire digit by digit.                                                    *)
(***************************************************************************)
InPayload(pdu) == \E i \in DOMAIN pdu.tlvs : pdu.tlvs[i].tag = "payload"

SegmenterHasTheLastWord ==
  LET pdu == SubmitOf(fields)
      Lasts(tag) == pdu.tlvs[Max({i \in DOMAIN pdu.tlvs : pdu.tlvs[i].tag = tag})].value
  IN  Refusal(fields) = "none" =>
        /\ fields.segment = "sar" => Lasts("sar") = "reference"
        /\ fields.segment = "payload" => Lasts("payload") = "body"
        /\ pdu.shortMessage \/ InPayload(pdu)
        /\ pdu.shortMessage /\ InPayload(pdu) => fields.tlv.tag = "payload"
        /\ fields.tlv # Unset /\ "+" \notin Range(fields.tlv.hex) =>
             2 * Len(pdu.tlvs[1].value) = Len(LessKeys(fields.tlv.hex, {" "}))

(***************************************************************************)
(* A refusal names a field that is wrong whatever the others hold          *)
(* (submit.rs, "every variant names a field").                             *)
(***************************************************************************)
RefusalNamesTheField ==
  LET Alone(kept) == [field \in DOMAIN fields |->
                        IF field \in kept THEN fields[field] ELSE NewFields[field]]
      code == Refusal(fields)
      kept == CASE code = "destination" -> {"destination"}
                [] code = "source" -> {"source"}
                [] code = "tlv" -> {"tlv"}
                [] OTHER -> Blanks \union {"priorityFlag"}
  IN  code # "none" => Refusal(Alone(kept)) = code

(***************************************************************************)
(* When the timer is at rest and the last preview was answered, the counter*)
(* on screen is of the text, of its encoding and of the session that are   *)
(* on screen, under the alphabet this session has, unless it was bound     *)
(* again since; whatever the order of the answers (CA-006-09).             *)
(***************************************************************************)
CounterIsOfTheText ==
  /\ writing.open /\ ~writing.armed /\ writing.preview # Unset
  /\ \A p \in previews : ~IsLatest(p)
  => LET counter == writing.preview
     IN  /\ <<counter.text, counter.choice>> = <<writing.text, writing.choice>>
         /\ counter.session = writing.session
         /\ writing.rebound \/ counter.alphabet = AlphabetOf(writing.session)

(***************************************************************************)
(* Beside a result, the badge is a state its message was told to be in, and*)
(* of no other message, whatever was heard while it was being sent (send.ts*)
(* `adopt`, "must not overwrite this panel").                              *)
(***************************************************************************)
BadgeIsItsOwn == writing.result # Unset => writing.progress.of = writing.result

(* What is composed is what is counted, what is refused, what is sent and  *)
(* what is followed.                                                       *)
SentAsComposed ==
  /\ SendersAreAsShown /\ SegmenterHasTheLastWord /\ RefusalNamesTheField
  /\ CounterIsOfTheText /\ BadgeIsItsOwn
=============================================================================
