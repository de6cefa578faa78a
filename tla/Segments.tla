------------------------------ MODULE Segments ------------------------------
(***************************************************************************)
(* The message editor's counter and the segments it announces              *)
(* (crates/messaging/src/encoding/*.rs, segmentation.rs): which encoding a *)
(* text is given, how many segments it takes, where they are cut, what     *)
(* they look like on the wire and how a receiver puts them back together.  *)
(*                                                                         *)
(* The operator types one character at a time and the counter follows.     *)
(* Lengths are scaled: a body holds Body octets instead of 140 and a       *)
(* concatenation header Header instead of 6, chosen so that the septet     *)
(* arithmetic has the same awkward case, one count short of the budget.    *)
(* An octet body is the units it carries and its length in octets.         *)
(***************************************************************************)
EXTENDS Integers, SequencesExt

CONSTANTS
  Body,         \* octets of a segment's body
  Header,       \* octets of the concatenation header
  Payload,      \* octets of the message_payload TLV
  MaxSegments,  \* segments a concatenated message may have
  Layouts,      \* the session and campaign settings examined
  MaxText,      \* (bound) characters of a text
  MaxUnusual    \* (bound) characters of a text that are not plain letters

ASSUME SegmentsAssumption ==
  /\ Body \in Nat \ {0} /\ Header \in 1 .. Body - 1
  /\ Payload \in Nat \ {0} /\ MaxSegments \in Nat \ {0}
  /\ MaxText \in Nat /\ MaxUnusual \in Nat

VARIABLE editor   \* [text, layout]: what is being written, under which settings

(* The letter e, whose septet is also the second half of the euro sign's    *)
(* pair; a carriage return, the padding of a packed body; a Greek capital,  *)
(* which ISO-8859-1 has not; a Latin-1 letter the GSM alphabet has not; a   *)
(* character outside the basic plane.                                       *)
Characters == {"e", "cr", "delta", "euro", "otilde", "emoji"}
Unusual    == Characters \ {"e"}

Encodings == {"gsm", "latin1", "ucs2"}
AllLayouts ==
  [choice : {"automatic"} \union Encodings, mode : {"udh", "sar", "payload"},
   packed : BOOLEAN, charset : {"gsm0338", "latin1"}]

ASSUME LayoutsAssumption == Layouts \subseteq AllLayouts

SeptetBits == 7
OctetBits  == 8

CeilDiv(n, d) == (n + d - 1) \div d

\* What has no units in an encoding has no place in it.
NoUnits == <<>>

\* `sequence_in`: the septets of a character, escapes expanded.
SequenceIn(c, charset) ==
  CASE c \in {"e", "cr"}                       -> <<c>>
    [] c = "delta" /\ charset = "gsm0338"      -> <<c>>
    [] c = "euro" /\ charset = "gsm0338"       -> <<"escape", "e">>
    [] OTHER                                   -> NoUnits

\* `unit_cost_in`, as the units themselves: septets, octets or code units.
UnitsOf(encoding, c, charset) ==
  CASE encoding = "gsm"    -> SequenceIn(c, charset)
    [] encoding = "latin1" -> IF c \in {"e", "cr", "otilde"} THEN <<c>> ELSE NoUnits
    [] encoding = "ucs2"   -> IF c = "emoji" THEN <<"high", "low">> ELSE <<c>>

CostOf(encoding, c, charset) == Len(UnitsOf(encoding, c, charset))

CanRepresent(encoding, text, charset) ==
  \A i \in DOMAIN text : UnitsOf(encoding, text[i], charset) # NoUnits

\* `resolve_in` and `detect_in`.
Resolve(text, layout) ==
  IF layout.choice # "automatic" THEN layout.choice
  ELSE IF CanRepresent("gsm", text, layout.charset) THEN "gsm" ELSE "ucs2"

-----------------------------------------------------------------------------
(* Septets in octets.                                                      *)

PackedLen(septets, fill) == CeilDiv(fill + septets * SeptetBits, OctetBits)

FillAfter(octets) == CeilDiv(octets * OctetBits, SeptetBits) * SeptetBits - octets * OctetBits

\* What a receiver that only knows the octets divides them into.
SeptetsIn(octets, fill) ==
  IF octets * OctetBits <= fill THEN 0 ELSE (octets * OctetBits - fill) \div SeptetBits

Recoverable(septets, fill) == SeptetsIn(PackedLen(septets, fill), fill) = septets

\* `pack`: seven spare bits are filled with a carriage return.
Pack(septets, fill) ==
  [units |-> IF Recoverable(Len(septets), fill) THEN septets ELSE Append(septets, "cr"),
   octets |-> PackedLen(Len(septets), fill)]

-----------------------------------------------------------------------------
(* The plan: how many segments, and how full.                              *)

Budget(encoding) ==
  CASE encoding = "gsm"    -> [single |-> (Body * OctetBits) \div SeptetBits,
                               concatenated |-> ((Body - Header) * OctetBits
                                                   - FillAfter(Header)) \div SeptetBits]
    [] encoding = "latin1" -> [single |-> Body, concatenated |-> Body - Header]
    [] encoding = "ucs2"   -> [single |-> Body \div 2, concatenated |-> (Body - Header) \div 2]

PayloadCapacity(encoding, packed) ==
  CASE encoding = "gsm"    -> IF packed THEN (Payload * OctetBits) \div SeptetBits ELSE Payload
    [] encoding = "latin1" -> Payload
    [] encoding = "ucs2"   -> Payload \div 2

Capacities(encoding, layout) ==
  IF layout.mode = "payload"
    THEN LET most == PayloadCapacity(encoding, layout.packed)
         IN  [single |-> most, concatenated |-> most]
    ELSE Budget(encoding)

OctetsFor(encoding, units, header, packed) ==
  CASE encoding = "gsm" /\ packed  -> PackedLen(units, FillAfter(header))
    [] encoding = "ucs2"           -> 2 * units
    [] OTHER                       -> units

NoFill == -1

\* `SegmentFiller::new` and, for packed septets, `requiring_recoverable_septets`.
FillerFor(budget, encoding, layout) ==
  [budget |-> budget, used |-> 0, segments |-> 1, last |-> 0,
   fill |-> IF encoding # "gsm" \/ ~layout.packed THEN NoFill
            ELSE IF layout.mode = "udh" THEN FillAfter(Header) ELSE 0]

\* A closing segment keeps its last character whatever its count.
MutantGivenBack(filler) == 0

\* `units_to_give_back`: what a closing segment hands to the next.
GivenBack(filler) ==
  IF \/ filler.fill = NoFill
     \/ Recoverable(filler.used, filler.fill)
     \/ filler.last = 0
     \/ filler.used <= filler.last
    THEN 0 ELSE filler.last

Fits(filler, cost) == filler.used + cost <= filler.budget

\* `SegmentFiller::accept`: a character is never split.
Accept(filler, cost) ==
  IF Fits(filler, cost)
    THEN [filler EXCEPT !.used = @ + cost, !.last = cost]
    ELSE [filler EXCEPT !.segments = @ + 1, !.used = GivenBack(filler) + cost, !.last = cost]

Sum(counts) == FoldLeft(LAMBDA total, n : total + n, 0, counts)

Costs(text, encoding, charset) ==
  [i \in DOMAIN text |-> CostOf(encoding, text[i], charset)]

Refused(why) == [refused |-> why, encoding |-> "none", segments |-> 0, budget |-> 0,
                 total |-> 0, last |-> 0]

Planned(encoding, segments, budget, total, last) ==
  [refused |-> "no", encoding |-> encoding, segments |-> segments, budget |-> budget,
   total |-> total, last |-> last]

PlanOf(text, layout, encoding, room, costs) ==
  LET total  == Sum(costs)
      filled == FoldLeft(Accept, FillerFor(room.concatenated, encoding, layout), costs)
  IN  IF layout.packed /\ layout.charset = "latin1" THEN Refused("layout")
      ELSE IF ~CanRepresent(encoding, text, layout.charset) THEN Refused("character")
      ELSE IF total <= room.single THEN Planned(encoding, 1, room.single, total, total)
      ELSE IF layout.mode = "payload" THEN Refused("payload")
      ELSE IF filled.segments > MaxSegments THEN Refused("segments")
      ELSE Planned(encoding, filled.segments, room.concatenated, total, filled.used)

PlanIn(text, layout, encoding) ==
  PlanOf(text, layout, encoding, Capacities(encoding, layout),
         Costs(text, encoding, layout.charset))

\* `plan`.
Plan(text, layout) == PlanIn(text, layout, Resolve(text, layout))

\* `preview`: what the counter shows.
Preview(text, plan) ==
  [refused |-> plan.refused, encoding |-> plan.encoding, characters |-> Len(text),
   used |-> plan.total, remaining |-> plan.budget - plan.last, segments |-> plan.segments]

-----------------------------------------------------------------------------
(* The segments on the wire.                                               *)

\* `cut_offsets`: the unit each segment starts at.
CutOffsets(text, plan, layout) ==
  LET place(state, cost) ==
        LET filler == Accept(state.filler, cost)
        IN  [filler  |-> filler,
             offset  |-> state.offset + cost,
             offsets |-> IF Fits(state.filler, cost) THEN state.offsets
                         ELSE Append(state.offsets, state.offset - GivenBack(state.filler))]
      start == [filler |-> FillerFor(plan.budget, plan.encoding, layout),
                offset |-> 0, offsets |-> <<0>>]
  IN  IF plan.segments <= 1 THEN <<0>>
      ELSE FoldLeft(place, start, Costs(text, plan.encoding, layout.charset)).offsets

\* `EncodedUnits::encode`: the whole text, in the unit its encoding counts in.
Encoded(text, encoding, charset) ==
  FoldLeft(LAMBDA units, c : units \o UnitsOf(encoding, c, charset), <<>>, text)

\* `EncodedUnits::write`: the units of one segment, in wire form.
Written(units, encoding, header, layout) ==
  IF encoding = "gsm" /\ layout.packed THEN Pack(units, FillAfter(header))
  ELSE [units |-> units, octets |-> OctetsFor(encoding, Len(units), header, layout.packed)]

\* Where the i-th segment ends.
EndOf(i, cuts, plan) == IF i < Len(cuts) THEN cuts[i + 1] ELSE plan.total

HeaderOf(plan, layout) == IF plan.segments > 1 /\ layout.mode = "udh" THEN Header ELSE 0

SegmentsAt(cuts, units, plan, layout, header) ==
  [i \in 1 .. plan.segments |->
     [sequence |-> i, total |-> plan.segments, encoding |-> plan.encoding,
      packed |-> layout.packed, charset |-> layout.charset, header |-> header,
      sar |-> plan.segments > 1 /\ layout.mode = "sar",
      content |-> EndOf(i, cuts, plan) - cuts[i],
      body |-> Written(SubSeq(units, cuts[i] + 1, EndOf(i, cuts, plan)), plan.encoding,
                       header, layout)]]

\* `segment`, given that the text is not refused.
Segmented(text, plan, layout) ==
  SegmentsAt(CutOffsets(text, plan, layout), Encoded(text, plan.encoding, layout.charset),
             plan, layout, HeaderOf(plan, layout))

-----------------------------------------------------------------------------
(* And back.                                                               *)

Malformed == <<"malformed">>

\* `strip_padding_septet`.
Stripped(septets, segment, fill) ==
  IF /\ segment.sequence = segment.total
     /\ septets # <<>> /\ Last(septets) = "cr"
     /\ ~Recoverable(Len(septets) - 1, fill)
    THEN Front(septets) ELSE septets

\* `decode` of septets: an escape and the code behind it, or a plain code.
DecodeSeptets(septets, charset) ==
  LET read(state, septet) ==
        IF state.escaped THEN [escaped |-> FALSE, text |-> Append(state.text, "euro")]
        ELSE IF septet = "escape" /\ charset = "gsm0338"
          THEN [state EXCEPT !.escaped = TRUE]
        ELSE [state EXCEPT !.text = Append(@, septet)]
  IN  FoldLeft(read, [escaped |-> FALSE, text |-> <<>>], septets).text

\* `ucs2::decode`: half a surrogate pair does not decode.
DecodeCodeUnits(units) ==
  LET read(state, unit) ==
        CASE state.bad                          -> state
          [] unit = "high" /\ ~state.high       -> [state EXCEPT !.high = TRUE]
          [] unit = "low" /\ state.high         -> [state EXCEPT !.high = FALSE,
                                                                 !.text = Append(@, "emoji")]
          [] unit \notin {"high", "low"} /\ ~state.high
                                                -> [state EXCEPT !.text = Append(@, unit)]
          [] OTHER                              -> [state EXCEPT !.bad = TRUE]
      end == FoldLeft(read, [bad |-> FALSE, high |-> FALSE, text |-> <<>>], units)
  IN  IF end.bad \/ end.high THEN Malformed ELSE end.text

DecodeGsm(septets, charset) ==
  IF septets # <<>> /\ Last(septets) = "escape" THEN Malformed
  ELSE DecodeSeptets(septets, charset)

\* `unpack`, then without the padding.
Unpacked(segment, fill) ==
  Stripped(SubSeq(segment.body.units, 1, SeptetsIn(segment.body.octets, fill)), segment, fill)

\* `decode_segment`.
DecodeSegment(segment) ==
  CASE segment.encoding = "gsm" ->
         DecodeGsm(IF segment.packed THEN Unpacked(segment, FillAfter(segment.header))
                   ELSE segment.body.units, segment.charset)
    [] segment.encoding = "latin1" -> segment.body.units
    [] segment.encoding = "ucs2"   -> DecodeCodeUnits(segment.body.units)

Joined(ordered, parts) ==
  IF \/ ordered = <<>>
     \/ Len(ordered) # ordered[1].total
     \/ \E i \in DOMAIN ordered :
          \/ ordered[i].sequence # i
          \/ ordered[i].total # ordered[1].total
          \/ ordered[i].encoding # ordered[1].encoding
          \/ parts[i] = Malformed
    THEN Malformed
    ELSE FoldLeft(LAMBDA text, part : text \o part, <<>>, parts)

InOrder(ordered) == Joined(ordered, [i \in DOMAIN ordered |-> DecodeSegment(ordered[i])])

\* `reassemble`: the segments in any order, read by sequence number.
Reassembled(segments) ==
  InOrder(SortSeq(segments, LAMBDA s, t : s.sequence < t.sequence))

-----------------------------------------------------------------------------
(* The editor.                                                             *)

NewTexts == [text : {<<>>}, layout : Layouts]

\* A keystroke.
Type ==
  /\ Len(editor.text) < MaxText
  /\ \E c \in Characters :
       /\ c \in Unusual => Cardinality({i \in DOMAIN editor.text :
                                          editor.text[i] \in Unusual}) < MaxUnusual
       /\ editor' = [editor EXCEPT !.text = Append(@, c)]

\* A segment as the message centre sends it over the air: packed, and behind a
\* concatenation header however it was announced.
OnAir(segment) ==
  LET header == IF segment.total > 1 THEN Header ELSE 0
  IN  header + OctetsFor(segment.encoding, segment.content, header, TRUE)

(***************************************************************************)
(* What the counter announced is what is sent: as many segments, holding   *)
(* together the units it counted, the last as full as it said, each short  *)
(* enough for the air even when the parts announce themselves without a    *)
(* header (preview.rs, CA-004-09: "the preview and the real segmentation   *)
(* always agree"; encoding/mod.rs, `SegmentBudget::concatenated`).         *)
(***************************************************************************)
PreviewIsTheWire(shown, budget, segments) ==
  /\ Len(segments) = shown.segments
  /\ Sum([i \in DOMAIN segments |-> segments[i].content]) = shown.used
  /\ Last(segments).content = budget - shown.remaining
  /\ \A i \in DOMAIN segments :
       /\ segments[i].content <= budget
       /\ Len(segments) > 1 => segments[i].content > 0
       /\ IF editor.layout.mode = "payload"
            THEN segments[i].body.octets <= Payload
            ELSE OnAir(segments[i]) <= Body

\* A last carriage return that fills its packed body exactly is taken for the
\* padding: the ambiguity TS 23.038 has and segmentation.rs documents.
LooksLikePadding(text, segments) ==
  LET final == Last(segments)
  IN  /\ final.encoding = "gsm" /\ final.packed
      /\ text # <<>> /\ Last(text) = "cr"
      /\ ~Recoverable(final.content - 1, FillAfter(final.header))

(***************************************************************************)
(* A receiver that has nothing but the octets reads back what was typed,   *)
(* in whatever order the segments arrive: no character is cut, shifted or  *)
(* added, the documented last carriage return apart (segmentation.rs,      *)
(* CA-004-05 and CA-004-08; gsm0338.rs, the recoverable counts).           *)
(***************************************************************************)
ReassemblesToText(segments, received) ==
  \/ received = editor.text
  \/ LooksLikePadding(editor.text, segments) /\ received = Front(editor.text)

\* The fewest pieces of at most `budget` units the costs can be cut into.
FewestPieces(costs, budget) ==
  LET n == Len(costs)
      pieces[i \in 1 .. n + 1] ==
        IF Sum(SubSeq(costs, i, n)) <= budget THEN 1
        ELSE 1 + Min({pieces[j + 1] :
                        j \in {k \in i .. n - 1 : Sum(SubSeq(costs, i, k)) <= budget}})
  IN  pieces[1]

(***************************************************************************)
(* The greedy fill is never wasteful: no way of cutting the text without   *)
(* splitting a character takes fewer segments, so a text is refused as too *)
(* long only when it is (preview.rs, `SegmentFiller` and `plan`).  Packed  *)
(* septets are apart: there the fill may give a character back.            *)
(***************************************************************************)
FewestSegments(plan, encoding, fewest) ==
  \/ encoding = "gsm" /\ editor.layout.packed
  \/ /\ (plan.refused = "no" /\ plan.segments > 1) => plan.segments = fewest
     /\ plan.refused = "segments" => fewest > MaxSegments

Sent(plan, segments) ==
  /\ PreviewIsTheWire(Preview(editor.text, plan), plan.budget, segments)
  /\ ReassemblesToText(segments, Reassembled(Reverse(segments)))

Faithful(plan, encoding) ==
  /\ plan.refused = "no" => Sent(plan, Segmented(editor.text, plan, editor.layout))
  /\ FewestSegments(plan, encoding,
                    FewestPieces(Costs(editor.text, encoding, editor.layout.charset),
                                 Capacities(encoding, editor.layout).concatenated))

(***************************************************************************)
(* What the editor shows, what is sent and what is read back agree, for    *)
(* every text typed and every layout (preview.rs `preview` against         *)
(* segmentation.rs `segment`, CA-004-09; `segment` against `reassemble`,   *)
(* CA-004-05 and -08).                                                     *)
(***************************************************************************)
SegmentationIsFaithful ==
  Faithful(Plan(editor.text, editor.layout), Resolve(editor.text, editor.layout))
=============================================================================
