----------------------------- MODULE Templates -----------------------------
(***************************************************************************)
(* A campaign's message template (crates/messaging/src/template.rs): how   *)
(* it is parsed once, when the campaign is validated, and rendered once    *)
(* per recipient from the contact's attributes.  The operator types it one *)
(* character at a time: a brace of either side, a letter or a blank.       *)
(***************************************************************************)
EXTENDS Integers, SequencesExt

CONSTANTS
  MaxTemplate,  \* (bound) characters of a template
  MaxBlanked,   \* (bound) characters of a template that holds a blank
  MaxBlanks     \* (bound) blanks among them

ASSUME TemplatesAssumption == MaxTemplate \in Nat /\ MaxBlanked \in Nat /\ MaxBlanks \in Nat

VARIABLE template   \* what has been typed

Opening == <<"{", "{">>
Closing == <<"}", "}">>
Braces  == {"{", "}"}

\* Whether `pair` stands at `i`, and where it first stands from `i` on: 0 if
\* nowhere.
PairAt(text, pair, i) == i < Len(text) /\ SubSeq(text, i, i + 1) = pair
Find(text, pair, i) ==
  LET places == {k \in i .. Len(text) - 1 : PairAt(text, pair, k)}
  IN  IF places = {} THEN 0 ELSE Min(places)

Trim(text) ==
  LET solid == {i \in DOMAIN text : text[i] # " "}
  IN  IF solid = {} THEN <<>> ELSE SubSeq(text, Min(solid), Max(solid))

HoldsBrace(text) == \E i \in DOMAIN text : text[i] \in Braces

\* `holds_placeholder_shape`: an opening with a closing anywhere behind it.
HoldsPlaceholder(text) ==
  LET opening == Find(text, Opening, 1)
  IN  opening # 0 /\ Find(text, Closing, opening + 2) # 0

Segment(kind, text) == [kind |-> kind, text |-> text]
Literal(text) == IF text = <<>> THEN <<>> ELSE <<Segment("literal", text)>>

\* The loop of `Template::parse`: the segments from each place on, an error
\* being the last of them.
SegmentsFrom(source) ==
  LET n == Len(source)
      from[i \in 1 .. n + 1] ==
        LET opening == Find(source, Opening, i)
            behind  == opening + 2
            closing == Find(source, Closing, behind)
            name    == Trim(SubSeq(source, behind, closing - 1))
            before  == Literal(SubSeq(source, i, opening - 1))
        IN  IF opening = 0 THEN Literal(SubSeq(source, i, n))
            ELSE IF PairAt(source, Opening, behind)
              THEN before \o <<Segment("escape", Opening)>> \o from[behind + 2]
            ELSE IF closing = 0 THEN <<Segment("error", <<"unterminated">>)>>
            ELSE IF name = <<>> THEN <<Segment("error", <<"empty name">>)>>
            ELSE IF HoldsBrace(name) THEN <<Segment("error", <<"illegal name">>)>>
            ELSE before \o <<Segment("variable", name)>> \o from[closing + 2]
  IN  from[1]

TextOf(segments) == FoldLeft(LAMBDA text, s : text \o s.text, <<>>, segments)

\* The text with the values taken out, from the first escape on.
Skeleton(segments) ==
  LET escapes == {i \in DOMAIN segments : segments[i].kind = "escape"}
  IN  IF escapes = {} THEN <<>>
      ELSE TextOf(SelectSeq(SubSeq(segments, Min(escapes), Len(segments)),
                            LAMBDA s : s.kind # "variable"))

Failed(segments) == segments # <<>> /\ Last(segments).kind = "error"

\* `WouldReadAsPlaceholder`: a closing anywhere behind the first escape.
WouldRead(segments) == HoldsPlaceholder(Skeleton(segments))

\* `Template::parse`.
Parse(source) ==
  LET segments == SegmentsFrom(source)
  IN  IF Failed(segments) THEN [refused |-> Last(segments).text, segments |-> <<>>]
      ELSE IF WouldRead(segments) THEN [refused |-> <<"would read">>, segments |-> <<>>]
      ELSE [refused |-> <<>>, segments |-> segments]

NoValue == <<>>

\* `Variables::from_attributes` and `insert`: a blank value is no value.
Valued(cell) == IF Trim(cell) = <<>> THEN NoValue ELSE cell

MutantHoldsMark(value) == Find(value, Opening, 1) # 0

\* `BraceInValue`.
HoldsMark(value) == HoldsBrace(value)

Reject == [reject |-> TRUE, text |-> <<>>]
Substitute(text) == [reject |-> FALSE, text |-> text]

\* `Template::render`, up to the reading back: the text, or what refuses it.
Rendered(segments, value, policy) ==
  LET shown(s) == IF s.kind # "variable" THEN s.text
                  ELSE IF value # NoValue THEN value ELSE policy.text
      used == IF value # NoValue THEN value ELSE policy.text
      text == FoldLeft(LAMBDA all, s : all \o shown(s), <<>>, segments)
  IN  IF \A i \in DOMAIN segments : segments[i].kind # "variable"
        THEN [refused |-> "no", text |-> text]
      ELSE IF value = NoValue /\ policy.reject THEN [refused |-> "missing", text |-> <<>>]
      ELSE IF HoldsMark(used) THEN [refused |-> "brace", text |-> <<>>]
      ELSE [refused |-> "no", text |-> text]

\* `Template::render`.
Render(segments, value, policy) ==
  LET rendered == Rendered(segments, value, policy)
  IN  IF rendered.refused = "no" /\ HoldsPlaceholder(rendered.text)
        THEN [refused |-> "placeholder", text |-> <<>>]
        ELSE rendered

\* A keystroke in the template.
TypeTemplate ==
  /\ \E c \in {"{", "}", "x", " "} : template' = Append(template, c)
  /\ LET blanks == {i \in DOMAIN template' : template'[i] = " "}
     IN  /\ Cardinality(blanks) <= MaxBlanks
         /\ Len(template') <= IF blanks = {} THEN MaxTemplate ELSE MaxBlanked

\* What a contact's attribute and the campaign's policy may hold.
Cells    == {<<>>, <<" ">>, <<"x">>, <<"}">>, <<"{", "{">>, <<"x", "}", "}">>}
Policies == {Reject, Substitute(<<>>), Substitute(<<"x">>), Substitute(<<"}", "}">>)}

(***************************************************************************)
(* A template that passed validation never turns out, for some recipient,  *)
(* to read as a placeholder: the reading back of the finished text, the    *)
(* third mechanism of CA-010-06, never has anything to refuse (template.rs,*)
(* "unreachable while the first two are correct"), even where a variable   *)
(* is substituted by nothing and its neighbours meet.                      *)
(***************************************************************************)
ReadBackFindsNothing ==
  LET parsed == Parse(template)
  IN  parsed.refused = <<>> =>
        \A cell \in Cells, policy \in Policies :
          Render(parsed.segments, Valued(cell), policy).refused # "placeholder"

=============================================================================
