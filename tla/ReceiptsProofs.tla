---------------------------- MODULE ReceiptsProofs ----------------------------
(* What holds of Receipts for any messages, identifiers, receipts and queue  *)
(* capacities: the announcements follow the journal, and an end stands.      *)
EXTENDS Receipts, FiniteSetTheorems, SequenceTheorems, WellFoundedInduction, TLAPS

-----------------------------------------------------------------------------
(* Numbers and sequences                                                     *)

LEMMA LeastExists ==
  ASSUME NEW S \in SUBSET Nat, S # {}
  PROVE  \E x \in S : \A y \in S : x <= y
<1> DEFINE R == OpToRel(<, Nat)
<1>1. \A x, y \in Nat : x < y => <<x, y>> \in R
  BY DEF OpToRel
<1>2. \E x \in S : \A y \in S : <<y, x>> \notin R
  <2> HIDE DEF R
  <2>1. IsWellFoundedOn(R, Nat)
    BY NatLessThanWellFounded DEF R
  <2> QED BY <2>1, WFMin
<1>3. PICK x \in S : \A y \in S : <<y, x>> \notin R
  BY <1>2
<1> HIDE DEF R
<1>4. ASSUME NEW y \in S PROVE x <= y
  <2>1. ~(y < x)
    BY <1>1, <1>3
  <2> QED BY <2>1
<1> QED BY <1>4

LEMMA GreatestExists ==
  ASSUME NEW n \in Nat, NEW S \in SUBSET (1 .. n), S # {}
  PROVE  \E x \in S : \A y \in S : y <= x
<1> DEFINE T == {n - x : x \in S}
<1>1. T \in SUBSET Nat /\ T # {}
  <2>1. \A x \in S : n - x \in Nat
    OBVIOUS
  <2> QED BY <2>1
<1>2. PICK t \in T : \A u \in T : t <= u
  BY <1>1, LeastExists
<1>3. PICK x \in S : t = n - x
  BY <1>2
<1>4. \A y \in S : n - x <= n - y
  BY <1>2, <1>3
<1> QED BY <1>4

(* The last of the written transitions is one of them.                       *)
LastOf(S) == CHOOSE i \in S : \A j \in S : j <= i

LEMMA LastIsIn ==
  ASSUME NEW n \in Nat, NEW S \in SUBSET (1 .. n), S # {}
  PROVE  LastOf(S) \in S /\ \A j \in S : j <= LastOf(S)
BY GreatestExists DEF LastOf

(* Every flag is one or the other.                                           *)
LEMMA FlagsAreCounted ==
  ASSUME flags \in Seq(BOOLEAN)
  PROVE  NoOf(TRUE) \in Nat /\ NoOf(FALSE) \in Nat /\ NoOf(TRUE) + NoOf(FALSE) = Len(flags)
<1> DEFINE T == {i \in DOMAIN flags : flags[i] = TRUE}
           F == {i \in DOMAIN flags : flags[i] = FALSE}
<1>1. Len(flags) \in Nat /\ DOMAIN flags = 1 .. Len(flags)
      /\ \A i \in DOMAIN flags : flags[i] \in BOOLEAN
  OBVIOUS
<1>2. IsFiniteSet(DOMAIN flags) /\ Cardinality(DOMAIN flags) = Len(flags)
  BY <1>1, FS_Interval
<1>3. T \subseteq DOMAIN flags /\ F \subseteq DOMAIN flags
  OBVIOUS
<1>4. IsFiniteSet(T) /\ IsFiniteSet(F)
  BY <1>2, <1>3, FS_Subset
<1>5. T \cup F = DOMAIN flags /\ T \cap F = {}
  BY <1>1
<1> HIDE DEF T, F
<1>6. Cardinality(T) \in Nat /\ Cardinality(F) \in Nat /\ Cardinality({}) = 0
  BY <1>4, FS_CardinalityType, FS_EmptySet
<1>7. Cardinality(T) + Cardinality(F) = Len(flags)
  <2>1. Cardinality(T \cup F) = Cardinality(T) + Cardinality(F) - Cardinality(T \cap F)
    BY <1>4, FS_Union
  <2>2. Cardinality(T \cup F) = Len(flags) /\ Cardinality(T \cap F) = 0
    BY <1>2, <1>5, <1>6
  <2> QED BY <1>6, <2>1, <2>2
<1> QED BY <1>6, <1>7 DEF NoOf, T, F

-----------------------------------------------------------------------------
(* Identifiers                                                               *)

LEMMA TextIs ==
  ASSUME NEW h \in 0 .. 255, NEW padded \in BOOLEAN, NEW upper \in BOOLEAN
  PROVE  Text(h, padded, upper) \in Texts /\ Text(h, padded, upper).hex = h
<1>1. HasLetters(h) \in BOOLEAN
  BY DEF HasLetters
<1>2. (upper /\ HasLetters(h)) \in BOOLEAN
  BY <1>1
<1> QED BY <1>2 DEF Text, Texts

LEMMA NoTextIs == NoText \in Texts /\ NoText.hex = 0 /\ ~NoText.padded /\ ~NoText.upper
<1>1. 0 \in 0 .. 255
  OBVIOUS
<1>2. ~HasLetters(0)
  BY DEF HasLetters, High, Low
<1> QED BY <1>1, <1>2, TextIs DEF NoText, Text

SameHex(t) == {u \in Texts : u.hex = t.hex}

(* The spellings of an identifier are all of one number, and include every   *)
(* other way to write it that differs in the case or has no padding.         *)
LEMMA SpellingsAre ==
  ASSUME NEW t \in Texts
  PROVE  /\ <<t, Upper(t), Lower(t)>> \in Seq(SameHex(t)) /\ Unpadded(t) \in Seq(SameHex(t))
         /\ Upper(t).hex = t.hex /\ Lower(t).hex = t.hex
<1>1. t.hex \in 0 .. 255 /\ t.padded \in BOOLEAN /\ t.upper \in BOOLEAN /\ (t.upper => HasLetters(t.hex))
  BY DEF Texts
<1>2. Upper(t) \in SameHex(t) /\ Lower(t) \in SameHex(t) /\ t \in SameHex(t)
  BY <1>1, TextIs DEF Upper, Lower, SameHex
<1>3. [t EXCEPT !.padded = FALSE] \in SameHex(t)
  BY <1>1 DEF SameHex, Texts
<1>4. Unpadded(t) \in Seq(SameHex(t))
  BY <1>3 DEF Unpadded
<1>5. <<t, Upper(t), Lower(t)>> \in Seq(SameHex(t))
  BY <1>2
<1> QED BY <1>2, <1>4, <1>5 DEF SameHex

LEMMA BasesAre ==
  ASSUME NEW t \in Texts
  PROVE  FromDecimal(t) \in Seq(Texts) /\ FromHexadecimal(t) \in Seq(Texts)
<1>1. t.hex \in 0 .. 255
  BY DEF Texts
<1>4. /\ <<>> \in Seq(Texts) /\ \A u \in Texts : <<u>> \in Seq(Texts)
      /\ \A u, v \in Texts : <<u, v>> \in Seq(Texts)
  OBVIOUS
<1>2. FromDecimal(t) \in Seq(Texts)
  <2>1. CASE HasLetters(t.hex)
    BY <1>4, <2>1 DEF FromDecimal
  <2>2. CASE ~HasLetters(t.hex)
    <3> DEFINE n == 10 * High(t.hex) + Low(t.hex)
    <3>1. n \in 0 .. 255
      BY <1>1, <2>2 DEF HasLetters, High, Low
    <3> HIDE DEF n
    <3>2. Text(n, FALSE, FALSE) \in Texts /\ Text(n, FALSE, TRUE) \in Texts
      BY <3>1, TextIs
    <3>3. <<Text(n, FALSE, FALSE), Text(n, FALSE, TRUE)>> \in Seq(Texts)
      BY <1>4, <3>2, Zenon
    <3> QED BY <2>2, <3>3, Zenon DEF FromDecimal, n
  <2> QED BY <2>1, <2>2
<1>3. FromHexadecimal(t) \in Seq(Texts)
  <2>1. CASE t.hex > 99
    BY <1>4, <2>1, Zenon DEF FromHexadecimal
  <2>2. CASE ~(t.hex > 99)
    <3> DEFINE n == 16 * (t.hex \div 10) + (t.hex % 10)
    <3>1. n \in 0 .. 255
      BY <1>1, <2>2
    <3> HIDE DEF n
    <3>2. Text(n, FALSE, FALSE) \in Texts
      BY <3>1, TextIs
    <3>3. <<Text(n, FALSE, FALSE)>> \in Seq(Texts)
      BY <1>4, <3>2, Zenon
    <3> QED BY <2>2, <3>3, Zenon DEF FromHexadecimal, n
  <2> QED BY <2>1, <2>2
<1> QED BY <1>2, <1>3

(* What is tried first is a spelling of the same number, and nothing else is *)
(* tried but under the policy of bases.                                      *)
LEMMA CandidatesAre ==
  ASSUME NEW t \in Texts
  PROVE  /\ Candidates(Matching, t) \in Seq(Texts)
         /\ Matching # "bases" => Candidates(Matching, t) \in Seq(SameHex(t))
<1> DEFINE spellings == <<t, Upper(t), Lower(t)>> \o Unpadded(t)
<1>1. SameHex(t) \subseteq Texts /\ t \in SameHex(t)
  BY DEF SameHex
<1>2. spellings \in Seq(SameHex(t))
  BY SpellingsAre, ConcatProperties
<1>3. spellings \in Seq(Texts) /\ <<t>> \in Seq(SameHex(t)) /\ <<t>> \in Seq(Texts)
  BY <1>1, <1>2, SeqMonotonic
<1> HIDE DEF spellings
<1>4. spellings \o FromDecimal(t) \in Seq(Texts)
  BY <1>3, BasesAre, ConcatProperties
<1>5. (spellings \o FromDecimal(t)) \o FromHexadecimal(t) \in Seq(Texts)
  BY <1>4, BasesAre, ConcatProperties
<1>6. CASE Matching = "exact"
  BY <1>3, <1>6 DEF Candidates
<1>7. CASE Matching = "relaxed"
  BY <1>2, <1>3, <1>7 DEF Candidates, spellings
<1>8. CASE Matching = "bases"
  <2>1. Candidates(Matching, t) = (spellings \o FromDecimal(t)) \o FromHexadecimal(t)
    BY <1>8 DEF Candidates, spellings
  <2> QED BY <1>5, <1>8, <2>1
<1> QED BY <1>6, <1>7, <1>8, ReceiptsAssumption DEF Policies3

(* What is found carries one of the identifiers that were tried.             *)
LEMMA FoundCarries ==
  ASSUME NEW t \in Texts, Found(t) # Nobody
  PROVE  \E i \in DOMAIN Candidates(Matching, t) : Found(t) \in RowsOf(Candidates(Matching, t)[i])
<1> DEFINE tried == Candidates(Matching, t)
           hits  == {i \in DOMAIN tried : RowsOf(tried[i]) # {}}
           first == CHOOSE i \in hits : \A j \in hits : i <= j
<1>1. hits \in SUBSET Nat
  <2>1. tried \in Seq(Texts)
    BY CandidatesAre
  <2> HIDE DEF tried
  <2> QED BY <2>1
<1>2. hits # {} /\ Found(t) = CHOOSE m \in RowsOf(tried[first]) : TRUE
  BY DEF Found
<1>3. first \in hits
  <2> HIDE DEF hits
  <2> QED BY <1>1, <1>2, LeastExists
<1>4. RowsOf(tried[first]) # {}
  <2> HIDE DEF first, tried
  <2> QED BY <1>3
<1>5. Found(t) \in RowsOf(tried[first])
  BY <1>2, <1>4
<1> QED BY <1>3, <1>5

LEMMA FoundWhenTried ==
  ASSUME NEW t \in Texts, NEW i \in DOMAIN Candidates(Matching, t),
         RowsOf(Candidates(Matching, t)[i]) # {}
  PROVE  Found(t) # Nobody
<1> DEFINE tried == Candidates(Matching, t)
           hits  == {j \in DOMAIN tried : RowsOf(tried[j]) # {}}
           first == CHOOSE j \in hits : \A k \in hits : j <= k
<1>1. hits \in SUBSET Nat
  <2>1. tried \in Seq(Texts)
    BY CandidatesAre
  <2> HIDE DEF tried
  <2> QED BY <2>1
<1>2. hits # {}
  OBVIOUS
<1>3. first \in hits
  <2> HIDE DEF hits
  <2> QED BY <1>1, <1>2, LeastExists
<1>4. RowsOf(tried[first]) # {}
  <2> HIDE DEF first, tried
  <2> QED BY <1>3
<1>5. Found(t) \in RowsOf(tried[first])
  BY <1>2, <1>4 DEF Found
<1> QED BY <1>5, ReceiptsAssumption DEF RowsOf

-----------------------------------------------------------------------------
(* The inductive invariant                                                   *)

(* The receipts the loop can have read, and the transitions they call for.   *)
Given == {Classify(p) : p \in {q \in Pdus : q.type # "message"}}
Moved == {"ACCEPTED", "DELIVERED", "EXPIRED", "FAILED"}
Moves == {u \in Updates : u.to \in Moved /\ u.of = u.about /\ u.of \notin Doomed}

ReceiptsAreGiven ==
  /\ loop = "sending" => hand \in Given
  /\ inbox \in Seq(Given) /\ pending \in Seq(Given) /\ updates \in Seq(Moves)

(* A row has no identifier while the centre has the message, nor after it    *)
(* when the message failed in part, and a message in the batch has one.      *)
RowsAreOwned ==
  /\ \A m \in Messages :
       /\ row[m].id \in {NoText, IdOf[m]}
       /\ row[m].state = "SENT" \/ m \in Doomed <=> row[m].id = NoText
       /\ told[m] # "none" => row[m].state # "SENT"
  /\ \A i \in DOMAIN updates : row[updates[i].of].state # "SENT"

(* Where the batch stands.                                                   *)
Committing == {"writing", "replaying", "closing"}
Phases ==
  /\ pipe \notin Committing => flags = <<>>
  /\ pipe \notin Committing \cup {"correlating"} => updates = <<>>
  /\ Len(flags) <= Len(updates)
  /\ pipe \notin {"collecting", "correlating"} => pending = <<>>
  /\ pipe = "writing" => updates # <<>>
  /\ pipe = "replaying" => Len(flags) < Len(updates)
  /\ pipe = "closing" => Len(flags) = Len(updates)
  /\ pipe = "collecting" => waited = timer /\ timer <= MaxDelay

(* The last state of a message that the batch has written so far.            *)
Noted(m)    == {i \in DOMAIN flags : flags[i] /\ updates[i].of = m}
Standing(m) == IF Noted(m) = {} THEN told[m] ELSE updates[LastOf(Noted(m))].to

(* The open transaction is the journal with what it has taken.               *)
DraftIsAhead ==
  /\ ~InTransaction => draft = row
  /\ \A m \in Messages :
       /\ draft[m].id = row[m].id
       /\ row[m].state \in Terminal => draft[m] = row[m]
       /\ pipe = "writing" =>
            draft[m].state = IF Noted(m) = {} THEN row[m].state ELSE Standing(m)

(* What is announced of a message, against its row.                          *)
Agrees(m, state) ==
  /\ state \in Terminal \/ (state # "none" /\ m \notin unheard) => state = row[m].state
  /\ row[m].state \in {"DELIVERED", "EXPIRED"} /\ m \notin unheard => state = row[m].state

(* A transition of the batch that a replay is still to write again.          *)
Owed(m) == \E i \in DOMAIN updates : i > Len(flags) /\ updates[i].of = m /\ updates[i].to = row[m].state

StandingAgrees ==
  \A m \in Messages :
    IF pipe \in {"replaying", "closing"}
    THEN /\ Standing(m) \in Terminal => Standing(m) = row[m].state
         /\ m \in unheard \/ Owed(m) \/ Agrees(m, Standing(m))
    ELSE Agrees(m, told[m])

BatchInv == ReceiptsAreGiven /\ RowsAreOwned /\ Phases /\ DraftIsAhead /\ StandingAgrees
AllInv   == TypeOK /\ Accounted /\ BatchInv

-----------------------------------------------------------------------------
(* What a receipt says, and whose it is                                      *)

LEMMA ReadIdIs == ASSUME NEW p \in Pdus PROVE ReadId(p) \in Texts
<1>1. p.tlvId \in Texts /\ p.body \in Seq(Tokens)
  BY ReceiptsAssumption
<1>2. BodyId(p.body) \in Texts
  <2> DEFINE S == Readable(p.body, "id")
  <2>1. CASE S = {}
    BY <2>1, NoTextIs DEF BodyId
  <2>2. CASE S # {}
    <3>1. S \in SUBSET Nat /\ S \subseteq DOMAIN p.body
      BY <1>1 DEF Readable
    <3>2. FirstOf(p.body, "id") \in S
      <4> DEFINE first == CHOOSE i \in S : \A j \in S : i <= j
      <4>1. FirstOf(p.body, "id") = first
        BY DEF FirstOf
      <4> HIDE DEF S
      <4>2. first \in S
        BY <2>2, <3>1, LeastExists
      <4> QED BY <4>1, <4>2
    <3>3. p.body[FirstOf(p.body, "id")] \in Tokens
      BY <1>1, <3>1, <3>2
    <3> QED BY <2>2, <3>3 DEF BodyId, Tokens
  <2> QED BY <2>1, <2>2
<1> QED BY <1>1, <1>2 DEF ReadId

LEMMA GivenAre ==
  ASSUME NEW r \in Given
  PROVE  /\ r \in Receipt /\ r.to \in Moved \cup {"none"}
         /\ \E p \in Pdus : p.type # "message" /\ r.id = ReadId(p) /\ r.about = p.about
<1>1. PICK p \in Pdus : p.type # "message" /\ r = Classify(p)
  BY DEF Given
<1>2. r = [id |-> ReadId(p), to |-> ReadState(p), about |-> p.about]
  BY <1>1 DEF Classify
<1>3. ReadState(p) \in Moved \cup {"none"}
  BY DEF ReadState, StateOf, Moved
<1>4. Moved \subseteq RowStates
  BY DEF Moved, RowStates, Alive, Terminal
<1>5. p.about \in Messages \cup {Nobody}
  BY ReceiptsAssumption
<1>6. ReadState(p) \in States
  BY <1>3, <1>4 DEF States
<1>7. r \in Receipt
  BY <1>2, <1>5, <1>6, ReadIdIs DEF Receipt
<1> QED BY <1>1, <1>2, <1>3, <1>7

(* The message a receipt is matched with is the one it is about, of this     *)
(* session, answered, and not one that failed in part.                       *)
LEMMA FoundIsIts ==
  ASSUME RowsAreOwned, NEW r \in Given, Found(r.id) # Nobody
  PROVE  /\ Found(r.id) \in Own /\ Found(r.id) \notin Doomed
         /\ Found(r.id) = r.about /\ row[Found(r.id)].state # "SENT"
<1>1. PICK p \in Pdus : p.type # "message" /\ r.id = ReadId(p) /\ r.about = p.about
  BY GivenAre
<1> DEFINE t == r.id
           m == Found(r.id)
<1>2. t \in Texts
  BY <1>1, ReadIdIs
<1>3. PICK i \in DOMAIN Candidates(Matching, t) : m \in RowsOf(Candidates(Matching, t)[i])
  BY <1>2, FoundCarries
<1>4. m \in Own /\ row[m].id = Candidates(Matching, t)[i] /\ row[m].id # NoText
  BY <1>3 DEF RowsOf
<1>5. m \in Messages /\ row[m].id = IdOf[m] /\ m \notin Doomed /\ row[m].state # "SENT"
  BY <1>4, ReceiptsAssumption DEF RowsAreOwned
<1>6. IdOf[m] = Candidates(Matching, t)[i]
  BY <1>4, <1>5
<1>7. p.about = m
  <2>1. CASE Matching = "bases"
    BY <1>1, <1>3, <1>4, <1>6, <2>1, IdentifiersAssumption
  <2>2. CASE Matching # "bases"
    <3>1. Candidates(Matching, t) \in Seq(SameHex(t))
      BY <1>2, <2>2, CandidatesAre
    <3>2. Candidates(Matching, t)[i] \in SameHex(t)
      BY <3>1
    <3>3. IdOf[m].hex = t.hex
      BY <1>6, <3>2 DEF SameHex
    <3> QED BY <1>1, <1>4, <3>3, IdentifiersAssumption
  <2> QED BY <2>1, <2>2
<1> QED BY <1>1, <1>4, <1>5, <1>7

-----------------------------------------------------------------------------
(* The helpers                                                               *)

LEMMA CountedIs ==
  ASSUME tally \in [Outcomes -> Nat], NEW o \in Outcomes
  PROVE  /\ Counted(o) \in [Outcomes -> Nat] /\ Sum \in Nat
         /\ tally' = Counted(o) => Sum' = Sum + 1
BY DEF Outcomes, Counted, Sum

LEMMA WrittenIs ==
  ASSUME NEW rows \in [Messages -> JournalRows], NEW u \in Moves
  PROVE  /\ Written(rows, u) \in [Messages -> JournalRows] /\ Taken(rows, u) \in BOOLEAN
         /\ \A m \in Messages \ {u.of} : Written(rows, u)[m] = rows[m]
         /\ Written(rows, u)[u.of].id = rows[u.of].id
         /\ Written(rows, u)[u.of].state = IF Taken(rows, u) THEN u.to ELSE rows[u.of].state
         /\ rows[u.of].state \in Terminal => Written(rows, u)[u.of] = rows[u.of]
         /\ rows[u.of].state = u.to => Taken(rows, u)
<1>1. u.of \in Messages /\ u.to \in RowStates /\ rows[u.of] \in JournalRows
  BY DEF Moves, Updates
<1> DEFINE new == [rows[u.of] EXCEPT !.state = u.to]
<1>2. new \in JournalRows /\ new.id = rows[u.of].id /\ new.state = u.to
      /\ (rows[u.of].state = u.to => new = rows[u.of])
  BY <1>1 DEF JournalRows
<1>3. Written(rows, u) = IF Taken(rows, u) THEN [rows EXCEPT ![u.of] = new] ELSE rows
  BY DEF Written
<1>4. Taken(rows, u) \in BOOLEAN
  <2>1. (rows[u.of].state = u.to) \in BOOLEAN
    OBVIOUS
  <2> QED BY <2>1, Zenon DEF Taken, CanMoveTo
<1>5. rows[u.of].state \in Terminal /\ Taken(rows, u) => rows[u.of].state = u.to
  BY DEF Taken, CanMoveTo, Terminal, Alive
<1>6. rows[u.of].state = u.to => Taken(rows, u)
  BY DEF Taken, CanMoveTo
<1> HIDE DEF new
<1> QED BY <1>1, <1>2, <1>3, <1>4, <1>5, <1>6

(* A batch that has written nothing yet announces nothing new.               *)
LEMMA NothingNoted == ASSUME flags = <<>>, NEW m PROVE Noted(m) = {} /\ Standing(m) = told[m]
BY DEF Noted, Standing

-----------------------------------------------------------------------------
(* The steps                                                                 *)

LEMMA InitAll == ASSUME Init PROVE AllInv
<1>1. row \in [Messages -> JournalRows] /\ draft = row
      /\ \A m \in Messages : row[m] = IF m \in Own THEN Unanswered ELSE Answer(m)
  <2>1. Unanswered \in JournalRows /\ \A m \in Messages : Answer(m) \in JournalRows
    BY NoTextIs, ReceiptsAssumption DEF Unanswered, Answer, JournalRows, RowStates, Alive, Terminal
  <2> QED BY <2>1 DEF Init
<1>2. hand \in Receipt
  BY NoTextIs DEF Init, Receipt, States
<1>3. LinkTypeOK
  BY <1>2, ReceiptsAssumption DEF Init, LinkTypeOK
<1>4. PipeTypeOK
  <2>1. told \in [Messages -> States] /\ tally \in [Outcomes -> Nat]
    BY DEF Init, States
  <2>2. pending \in Seq(Receipt) /\ updates \in Seq(Updates) /\ flags \in Seq(BOOLEAN)
    BY EmptySeq DEF Init
  <2> QED BY <2>1, <2>2 DEF Init, PipeTypeOK
<1>5. Accounted
  BY DEF Init, Accounted, Sum, Outcomes
<1>6. ReceiptsAreGiven
  BY DEF Init, ReceiptsAreGiven
<1>7. RowsAreOwned
  <2>1. \A m \in Messages : Answer(m).id \in {NoText, IdOf[m]} /\ Answer(m).state # "SENT"
                            /\ (Answer(m).id = NoText <=> m \in Doomed)
    BY ReceiptsAssumption DEF Answer
  <2> QED BY <1>1, <2>1, ReceiptsAssumption DEF Init, RowsAreOwned, Unanswered
<1>8. Phases
  BY DEF Init, Phases, Committing
<1>9. DraftIsAhead
  BY <1>1 DEF Init, DraftIsAhead
<1>10. StandingAgrees
  BY <1>1 DEF Init, StandingAgrees, Agrees, Terminal, Unanswered, Answer
<1> QED BY <1>1, <1>3, <1>4, <1>5, <1>6, <1>7, <1>8, <1>9, <1>10 DEF AllInv, BatchInv, TypeOK

(* A step that touches neither the journal nor the batch in commit.          *)
LEMMA BatchStands ==
  ASSUME AllInv, UNCHANGED <<pipe, pending, clockVars, batchVars, row, told>>
  PROVE  RowsAreOwned' /\ Phases' /\ DraftIsAhead' /\ StandingAgrees'
<1>1. UNCHANGED <<pipe, pending, timer, waited, updates, flags, draft, unheard, row, told>>
  BY DEF clockVars, batchVars
<1>2. RowsAreOwned' /\ Phases'
  BY <1>1 DEF AllInv, BatchInv, RowsAreOwned, Phases
<1>3. \A m : Noted(m)' = Noted(m) /\ Standing(m)' = Standing(m) /\ (Owed(m)' <=> Owed(m))
  BY <1>1 DEF Noted, Standing, Owed
<1>4. DraftIsAhead'
  BY <1>1, <1>3 DEF AllInv, BatchInv, DraftIsAhead, InTransaction
<1>5. StandingAgrees'
  BY <1>1, <1>3 DEF AllInv, BatchInv, StandingAgrees, Agrees
<1> QED BY <1>2, <1>4, <1>5

LEMMA PushStep == ASSUME AllInv, NEW p \in Pdus, Push(p) PROVE AllInv'
<1> USE DEF AllInv, BatchInv, TypeOK
<1>1. /\ UNCHANGED <<pipe, pending, clockVars, batchVars, row, told, open, loop, hand, inbox>>
      /\ arrived' = arrived + 1
      /\ \/ queue' = Append(queue, p) /\ tally' = tally
         \/ queue' = queue /\ tally' = Counted("dropped")
  BY DEF Push, PipeFrame, loopVars
<1>2. "dropped" \in Outcomes
  BY DEF Outcomes
<1>3. /\ tally \in [Outcomes -> Nat] /\ queue \in Seq(Pdus) /\ inbox \in Seq(Receipt)
      /\ pending \in Seq(Receipt) /\ updates \in Seq(Updates) /\ strays \in Nat /\ arrived \in Nat
  BY DEF LinkTypeOK, PipeTypeOK
<1>4. Counted("dropped") \in [Outcomes -> Nat] /\ Sum \in Nat
      /\ (tally' = Counted("dropped") => Sum' = Sum + 1) /\ (tally' = tally => Sum' = Sum)
  BY <1>2, <1>3, CountedIs DEF Sum
<1>5. LinkTypeOK' /\ PipeTypeOK' /\ UNCHANGED <<row, draft>>
  <2>1. LinkTypeOK'
    <3>1. queue' \in Seq(Pdus)
      <4>1. queue' = Append(queue, p) \/ queue' = queue
        BY <1>1
      <4>2. queue \in Seq(Pdus) /\ Append(queue, p) \in Seq(Pdus)
        BY <1>3, AppendProperties
      <4> QED BY <4>1, <4>2
    <3>2. arrived' \in Nat
      BY <1>1, <1>3
    <3>3. UNCHANGED <<open, loop, hand, inbox>>
      BY <1>1
    <3> QED BY <3>1, <3>2, <3>3 DEF LinkTypeOK
  <2>2. tally' \in [Outcomes -> Nat]
    BY <1>1, <1>3, <1>4
  <2>3. PipeTypeOK'
    BY <1>1, <2>2 DEF PipeTypeOK, clockVars, batchVars
  <2> QED BY <1>1, <2>1, <2>3 DEF batchVars
<1>6. Accounted'
  <2>1. /\ Len(queue) \in Nat /\ Len(inbox) \in Nat /\ Len(pending) \in Nat /\ Len(updates) \in Nat
        /\ (queue' = Append(queue, p) => Len(queue') = Len(queue) + 1)
    BY <1>3
  <2>2. UNCHANGED <<loop, inbox, pending, updates, strays>>
    BY <1>1 DEF batchVars
  <2>3. Sum' + Len(queue') = Sum + Len(queue) + 1 /\ Sum' \in Nat /\ Len(queue') \in Nat
    <3> DEFINE S == Sum  T == Sum'  Q == Len(queue)  R == Len(queue')
    <3>1. S \in Nat /\ Q \in Nat
      BY <1>4, <2>1
    <3>2. (R = Q + 1 /\ T = S) \/ (R = Q /\ T = S + 1)
      BY <1>1, <1>4, <2>1, Zenon
    <3> HIDE DEF S, T, Q, R
    <3>3. T + R = S + Q + 1 /\ T \in Nat /\ R \in Nat
      BY <3>1, <3>2
    <3> QED BY <3>3, Zenon DEF S, T, Q, R
  <2> DEFINE held == IF loop = "sending" THEN 1 ELSE 0
  <2>4. held \in Nat /\ held' = held
    BY <2>2
  <2>5. arrived = Sum + Len(queue) + held + Len(inbox) + Len(pending) + Len(updates) + strays
    BY Zenon DEF Accounted
  <2> HIDE DEF held
  <2>6. arrived + 1 = Sum' + Len(queue') + held + Len(inbox) + Len(pending) + Len(updates) + strays
    <3>1. Sum \in Nat /\ strays \in Nat /\ arrived \in Nat
      BY <1>3, <1>4
    <3>2. Len(queue) \in Nat /\ Len(inbox) \in Nat /\ Len(pending) \in Nat /\ Len(updates) \in Nat
      BY <2>1
    <3> DEFINE S == Sum  T == Sum'  Q == Len(queue)  R == Len(queue')
               I == Len(inbox)  P == Len(pending)  U == Len(updates)
    <3>3. /\ S \in Nat /\ T \in Nat /\ Q \in Nat /\ R \in Nat /\ I \in Nat /\ P \in Nat /\ U \in Nat
          /\ arrived = S + Q + held + I + P + U + strays /\ T + R = S + Q + 1
      BY <3>1, <3>2, <2>3, <2>5
    <3> HIDE DEF S, T, Q, R, I, P, U
    <3>4. arrived + 1 = T + R + held + I + P + U + strays
      BY <3>1, <2>4, <3>3
    <3> QED BY <3>4, Zenon DEF S, T, Q, R, I, P, U
  <2>7. arrived' = arrived + 1
    BY <1>1
  <2>8. arrived' = Sum' + Len(queue') + held' + Len(inbox') + Len(pending') + Len(updates') + strays'
    BY <2>2, <2>4, <2>6, <2>7, Zenon
  <2> QED BY <2>8, Zenon DEF Accounted, held
<1>7. ReceiptsAreGiven'
  BY <1>1 DEF ReceiptsAreGiven, batchVars
<1> QED BY <1>1, <1>5, <1>6, <1>7, BatchStands

LEMMA LoopStep == ASSUME AllInv, SessionEnds \/ Loop PROVE AllInv'
<1> USE DEF AllInv, BatchInv, TypeOK
<1>1. UNCHANGED <<pipe, pending, clockVars, batchVars, row, told, arrived>>
  BY DEF SessionEnds, Loop, LoopReads, LoopSends, LoopEnds, LoopFrame, PipeFrame
<1>2. "mobile" \in Outcomes
  BY DEF Outcomes
<1>3. /\ tally \in [Outcomes -> Nat] /\ queue \in Seq(Pdus) /\ inbox \in Seq(Receipt) /\ hand \in Receipt
      /\ pending \in Seq(Receipt) /\ updates \in Seq(Updates) /\ strays \in Nat /\ arrived \in Nat
      /\ loop \in {"reading", "sending", "ended"} /\ Len(inbox) <= ReceiptCapacity
      /\ inbox \in Seq(Given) /\ pending \in Seq(Given) /\ updates \in Seq(Moves)
      /\ (loop = "sending" => hand \in Given)
  BY DEF LinkTypeOK, PipeTypeOK, ReceiptsAreGiven
<1>4. Counted("mobile") \in [Outcomes -> Nat] /\ Sum \in Nat
      /\ (tally' = Counted("mobile") => Sum' = Sum + 1) /\ (tally' = tally => Sum' = Sum)
  BY <1>2, <1>3, CountedIs DEF Sum
<1>5. Len(queue) \in Nat /\ Len(inbox) \in Nat /\ Len(pending) \in Nat /\ Len(updates) \in Nat
  BY <1>3
<1>6. ASSUME open' \in BOOLEAN, queue' \in Seq(Pdus), loop' \in {"reading", "sending", "ended"},
             hand' \in Receipt, inbox' \in Seq(Receipt), Len(inbox') <= ReceiptCapacity,
             tally' \in [Outcomes -> Nat], inbox' \in Seq(Given), loop' = "sending" => hand' \in Given,
             Accounted'
      PROVE  AllInv'
  <2>1. LinkTypeOK' /\ PipeTypeOK' /\ UNCHANGED <<row, draft>>
    BY <1>1, <1>6 DEF LinkTypeOK, PipeTypeOK, clockVars, batchVars
  <2>2. ReceiptsAreGiven'
    BY <1>1, <1>6 DEF ReceiptsAreGiven, batchVars
  <2> QED BY <1>1, <1>6, <2>1, <2>2, BatchStands
<1>7. CASE SessionEnds \/ LoopEnds
  <2>1. UNCHANGED <<queue, hand, inbox, tally>>
    BY <1>7 DEF SessionEnds, LoopEnds, loopVars
  <2>2. loop' \in {loop, "ended"} /\ open' \in BOOLEAN /\ (loop' = "ended" => loop # "sending")
    <3>1. CASE SessionEnds
      BY <1>3, <3>1 DEF SessionEnds, loopVars, LinkTypeOK, Accounted
    <3>2. CASE LoopEnds
      BY <3>2 DEF LoopEnds, LoopFrame, LinkTypeOK
    <3> QED BY <1>7, <3>1, <3>2
  <2>3. Accounted'
    BY <1>1, <1>3, <1>4, <1>5, <2>1, <2>2 DEF Accounted, batchVars
  <2> QED BY <1>3, <1>6, <2>1, <2>2, <2>3
<1>8. CASE LoopReads
  <2>1. /\ queue # <<>> /\ loop = "reading" /\ queue' = Tail(queue) /\ UNCHANGED <<open, inbox>>
        /\ Head(queue) \in Pdus /\ Tail(queue) \in Seq(Pdus) /\ Len(Tail(queue)) = Len(queue) - 1
    BY <1>3, <1>8, HeadTailProperties DEF LoopReads, LoopFrame
  <2>2. \/ tally' = Counted("mobile") /\ UNCHANGED <<loop, hand>>
        \/ hand' \in Given /\ loop' = "sending" /\ tally' = tally
    BY <1>8, <2>1 DEF LoopReads, loopVars, Given
  <2>3. Accounted'
    BY SMTT(20), <1>1, <1>3, <1>4, <1>5, <2>1, <2>2 DEF Accounted, batchVars
  <2>4. \A r \in Given : r \in Receipt
    BY GivenAre
  <2>5. open' \in BOOLEAN
    BY <2>1 DEF LinkTypeOK
  <2> QED BY <1>3, <1>4, <1>6, <2>1, <2>2, <2>3, <2>4, <2>5
<1>9. CASE LoopSends
  <2>1. /\ loop = "sending" /\ loop' = "reading" /\ inbox' = Append(inbox, hand)
        /\ UNCHANGED <<open, queue, hand, tally>> /\ Len(inbox) < ReceiptCapacity
    BY <1>9 DEF LoopSends, LoopFrame, Room
  <2>2. /\ inbox' \in Seq(Receipt) /\ inbox' \in Seq(Given) /\ Len(inbox') = Len(inbox) + 1
    BY <1>3, <2>1
  <2>3. Accounted'
    BY <1>1, <1>3, <1>4, <1>5, <2>1, <2>2 DEF Accounted, batchVars
  <2>4. Len(inbox') <= ReceiptCapacity /\ open' \in BOOLEAN
    BY <1>5, <2>1, <2>2, ReceiptsAssumption DEF LinkTypeOK
  <2> QED BY <1>3, <1>6, <2>1, <2>2, <2>3, <2>4
<1> QED BY <1>7, <1>8, <1>9 DEF Loop

(* A step of the pipeline before it writes.                                  *)
LEMMA Collects ==
  ASSUME AllInv, UNCHANGED <<flags, draft, unheard, row, told>>, pipe \notin Committing,
         pipe' # "replaying"
  PROVE  DraftIsAhead' /\ StandingAgrees'
<1>1. flags = <<>> /\ flags' = <<>> /\ draft = row
  BY DEF AllInv, BatchInv, Phases, DraftIsAhead, InTransaction
<1>2. \A m \in Messages : Agrees(m, told[m])
  BY DEF AllInv, BatchInv, StandingAgrees, Committing
<1>3. \A m : Noted(m)' = {} /\ Standing(m)' = told[m]
  BY <1>1 DEF Noted, Standing
<1>4. DraftIsAhead'
  BY <1>1, <1>3 DEF DraftIsAhead, InTransaction
<1>5. StandingAgrees'
  BY <1>2, <1>3 DEF StandingAgrees, Agrees
<1> QED BY <1>4, <1>5

LEMMA CollectStep ==
  ASSUME AllInv, First \/ Another \/ Deadline \/ ChannelClosed \/ Tick
  PROVE  AllInv'
<1> USE DEF AllInv, BatchInv, TypeOK
<1>1. /\ UNCHANGED <<open, arrived, queue, loop, hand, updates, flags, draft, strays, unheard>>
      /\ UNCHANGED <<row, told, tally>>
  BY DEF First, Another, Deadline, ChannelClosed, Tick, CollectFrame, linkVars, loopVars, batchVars
<1>2. /\ inbox \in Seq(Receipt) /\ pending \in Seq(Receipt) /\ Len(inbox) <= ReceiptCapacity
      /\ inbox \in Seq(Given) /\ pending \in Seq(Given) /\ updates \in Seq(Updates)
      /\ timer \in Nat /\ waited \in Nat /\ closed \in BOOLEAN /\ strays \in Nat /\ arrived \in Nat
      /\ tally \in [Outcomes -> Nat] /\ queue \in Seq(Pdus)
  BY DEF LinkTypeOK, PipeTypeOK, ReceiptsAreGiven
<1>3. pipe \in {"idle", "collecting", "ended"} /\ flags = <<>> /\ updates = <<>>
  BY DEF First, Another, Deadline, ChannelClosed, Tick, Phases, PipeTypeOK, Committing
<1>4. pipe' \in {"idle", "collecting", "correlating", "ended"}
  BY <1>3 DEF First, Another, Deadline, ChannelClosed, Tick, AfterReceipt, AfterClosed
<1>5. \/ UNCHANGED <<inbox, pending>>
      \/ inbox # <<>> /\ inbox' = Tail(inbox) /\ pending' = <<Head(inbox)>> /\ pipe = "idle"
      \/ inbox # <<>> /\ inbox' = Tail(inbox) /\ pending' = Append(pending, Head(inbox))
  BY DEF First, Another, Deadline, ChannelClosed, Tick
<1>6. pipe = "idle" => pending = <<>>
  BY DEF Phases
<1>7. /\ inbox' \in Seq(Receipt) /\ pending' \in Seq(Receipt)
      /\ inbox' \in Seq(Given) /\ pending' \in Seq(Given)
      /\ Len(inbox') <= ReceiptCapacity /\ Len(inbox') + Len(pending') = Len(inbox) + Len(pending)
      /\ Len(inbox') \in Nat /\ Len(pending') \in Nat
  <2>1. CASE UNCHANGED <<inbox, pending>>
    BY <1>2, <2>1
  <2>2. CASE inbox # <<>> /\ inbox' = Tail(inbox)
    <3>1. /\ Head(inbox) \in Given /\ Head(inbox) \in Receipt /\ Len(inbox) \in Nat \ {0}
          /\ Tail(inbox) \in Seq(Given) /\ Tail(inbox) \in Seq(Receipt) /\ Len(Tail(inbox)) = Len(inbox) - 1
      BY <1>2, <2>2, HeadTailProperties, EmptySeq
    <3>2. CASE pending' = <<Head(inbox)>> /\ pipe = "idle"
      <4>1. /\ <<Head(inbox)>> \in Seq(Given) /\ <<Head(inbox)>> \in Seq(Receipt)
            /\ Len(<<Head(inbox)>>) = 1 /\ Len(pending) = 0
        BY <1>6, <3>1, <3>2
      <4> QED BY <1>2, <2>2, <3>1, <3>2, <4>1, ReceiptsAssumption
    <3>3. CASE pending' = Append(pending, Head(inbox))
      <4>1. /\ pending' \in Seq(Given) /\ pending' \in Seq(Receipt)
            /\ Len(pending') = Len(pending) + 1 /\ Len(pending) \in Nat
        BY <1>2, <3>1, <3>3, AppendProperties
      <4> QED BY <1>2, <2>2, <3>1, <4>1, ReceiptsAssumption
    <3> QED BY <1>5, <2>2, <3>2, <3>3
  <2> QED BY <1>5, <2>1, <2>2
<1>8. timer' \in Nat /\ waited' \in Nat /\ closed' \in BOOLEAN
      /\ (pipe' = "collecting" => waited' = timer' /\ timer' <= MaxDelay)
  <2>1. CASE First
    <3>1. timer' = 0 /\ waited' = 0 /\ closed' = FALSE
      BY <2>1 DEF First
    <3>2. closed' \in BOOLEAN
      BY <3>1, Zenon
    <3> QED BY <3>1, <3>2, ReceiptsAssumption
  <2>2. CASE Another
    BY <1>2, <2>2 DEF Another, NextTimer, Phases
  <2>3. CASE Deadline
    BY <1>2, <2>3 DEF Deadline, clockVars
  <2>4. CASE ChannelClosed
    BY <1>2, <2>4 DEF ChannelClosed, AfterClosed
  <2>5. CASE Tick
    BY <1>2, <2>5, ReceiptsAssumption DEF Tick, Phases
  <2> QED BY <2>1, <2>2, <2>3, <2>4, <2>5
<1>9. TypeOK'
  BY <1>1, <1>4, <1>7, <1>8 DEF LinkTypeOK, PipeTypeOK
<1>10. Accounted'
  <2>1. Sum' = Sum /\ Sum \in Nat
    <3>1. "dropped" \in Outcomes
      BY DEF Outcomes
    <3>2. Sum \in Nat
      BY <1>2, <3>1, CountedIs
    <3>3. Sum' = Sum
      BY <1>1 DEF Sum
    <3> QED BY <3>2, <3>3
  <2>2. Len(queue) \in Nat /\ Len(updates) \in Nat /\ Len(inbox) \in Nat /\ Len(pending) \in Nat
    BY <1>2
  <2> QED BY <1>1, <1>2, <1>7, <2>1, <2>2 DEF Accounted
<1>11. ReceiptsAreGiven' /\ RowsAreOwned'
  BY <1>1, <1>7 DEF ReceiptsAreGiven, RowsAreOwned
<1>12. Phases'
  <2>1. pipe' \in {"idle", "ended"} => pending' = <<>>
    BY <1>3, <1>6 DEF First, Another, Deadline, ChannelClosed, Tick, AfterReceipt, AfterClosed
  <2>2. Len(flags') = 0 /\ Len(updates') = 0 /\ flags' = <<>> /\ updates' = <<>>
    BY <1>1, <1>3
  <2> QED BY <1>4, <1>8, <2>1, <2>2 DEF Phases, Committing
<1>13. DraftIsAhead' /\ StandingAgrees'
  BY <1>1, <1>3, <1>4, Collects DEF Committing
<1> QED BY <1>9, <1>10, <1>11, <1>12, <1>13

(* What a step of the send path or of a transaction leaves alone.            *)
LEMMA StillAccounted ==
  ASSUME Accounted, UNCHANGED <<arrived, queue, loop, inbox, pending, updates, strays, tally>>
  PROVE  Accounted'
BY DEF Accounted, Sum

LEMMA VerdictStep == ASSUME AllInv, NEW m \in Messages, Verdict(m) PROVE AllInv'
<1>1. /\ row[m].state = "SENT" /\ ~InTransaction
      /\ row' = [row EXCEPT ![m] = Answer(m)] /\ draft' = row'
      /\ UNCHANGED <<open, arrived, queue, loop, hand, inbox, pipe, pending, timer, waited, closed>>
      /\ UNCHANGED <<updates, flags, strays, unheard, told, tally>>
  BY DEF Verdict, linkVars, loopVars, clockVars
<1>2. row \in [Messages -> JournalRows] /\ draft \in [Messages -> JournalRows] /\ LinkTypeOK /\ PipeTypeOK
      /\ Accounted /\ ReceiptsAreGiven /\ RowsAreOwned /\ Phases /\ DraftIsAhead /\ StandingAgrees
  BY DEF AllInv, TypeOK, BatchInv
<1>3. /\ Answer(m) \in JournalRows /\ Answer(m).id \in {NoText, IdOf[m]}
      /\ Answer(m).state \in {"ACCEPTED", "FAILED"} /\ (Answer(m).id = NoText <=> m \in Doomed)
  BY NoTextIs, ReceiptsAssumption DEF Answer, JournalRows, RowStates, Alive, Terminal
<1>4. row' \in [Messages -> JournalRows] /\ row'[m] = Answer(m)
      /\ \A n \in Messages \ {m} : row'[n] = row[n]
  BY <1>1, <1>2, <1>3
<1>5. TypeOK'
  BY <1>1, <1>2, <1>4 DEF TypeOK, LinkTypeOK, PipeTypeOK
<1>6. Accounted'
  BY <1>1, <1>2, StillAccounted
<1>7. ReceiptsAreGiven' /\ Phases'
  BY <1>1, <1>2 DEF ReceiptsAreGiven, Phases
<1>8. \A i \in DOMAIN updates : updates[i].of \in Messages
  <2>1. updates \in Seq(Updates)
    BY <1>2 DEF PipeTypeOK
  <2>2. \A i \in DOMAIN updates : updates[i] \in Updates
    BY <2>1
  <2> QED BY <2>2 DEF Updates
<1>9. RowsAreOwned'
  <2>1. \A i \in DOMAIN updates' : row'[updates'[i].of].state # "SENT"
    BY <1>1, <1>2, <1>3, <1>4, <1>8 DEF RowsAreOwned
  <2>2. ASSUME NEW n \in Messages
        PROVE  /\ row'[n].id \in {NoText, IdOf[n]}
               /\ row'[n].state = "SENT" \/ n \in Doomed <=> row'[n].id = NoText
               /\ told'[n] # "none" => row'[n].state # "SENT"
    <3>1. CASE n = m
      BY <1>3, <1>4, <3>1
    <3>2. CASE n # m
      BY <1>1, <1>2, <1>4, <3>2 DEF RowsAreOwned
    <3> QED BY <3>1, <3>2
  <2> QED BY <2>1, <2>2 DEF RowsAreOwned
<1>10. DraftIsAhead'
  <2>1. ASSUME pipe = "writing", NEW n PROVE Noted(n)' = {}
    BY <1>1, <2>1 DEF InTransaction, Noted
  <2> QED BY <1>1, <2>1 DEF DraftIsAhead
<1>11. \A n : Standing(n)' = Standing(n)
  BY <1>1 DEF Standing, Noted
<1>12. StandingAgrees'
  <2>1. told[m] = "none" /\ Standing(m) = told[m]
    <3>1. told[m] = "none"
      BY <1>1, <1>2 DEF RowsAreOwned
    <3>2. DOMAIN flags \subseteq DOMAIN updates
      BY <1>2 DEF PipeTypeOK, Phases
    <3>3. Noted(m) = {}
      BY <1>1, <1>2, <3>2 DEF Noted, RowsAreOwned
    <3> QED BY <3>1, <3>3 DEF Standing
  <2>2. Agrees(m, "none")'
    BY <1>3, <1>4 DEF Agrees, Terminal
  <2>3. "none" \notin Terminal
    BY DEF Terminal
  <2>4. ASSUME NEW n \in Messages \ {m}
        PROVE  (Owed(n)' <=> Owed(n)) /\ \A s : Agrees(n, s)' <=> Agrees(n, s)
    BY <1>1, <1>4 DEF Owed, Agrees
  <2>5. ASSUME NEW n \in Messages
        PROVE  IF pipe \in {"replaying", "closing"}
               THEN /\ Standing(n) \in Terminal => Standing(n) = row'[n].state
                    /\ n \in unheard \/ Owed(n)' \/ Agrees(n, Standing(n))'
               ELSE Agrees(n, told[n])'
    <3>1. CASE n = m
      BY <1>1, <1>11, <2>1, <2>2, <2>3, <3>1 DEF Agrees
    <3>2. CASE n # m
      BY <1>1, <1>2, <1>4, <1>11, <2>4, <3>2 DEF StandingAgrees, Agrees
    <3> QED BY <3>1, <3>2
  <2> QED BY <1>1, <1>11, <2>5 DEF StandingAgrees
<1> QED BY <1>5, <1>6, <1>7, <1>9, <1>10, <1>12 DEF AllInv, BatchInv

(* One receipt of the batch looked up.                                       *)
LEMMA CorrelateStep == ASSUME AllInv, Correlate PROVE AllInv'
<1> DEFINE r == Head(pending)
           m == IF r.id = NoText THEN Nobody ELSE Found(r.id)
<1>1. /\ pipe = "correlating" /\ pending # <<>> /\ pending' = Tail(pending)
      /\ pipe' = IF pending' # <<>> THEN "correlating" ELSE IF updates' = <<>> THEN "closing" ELSE "writing"
      /\ UNCHANGED <<open, arrived, queue, loop, hand, inbox, timer, waited, closed>>
      /\ UNCHANGED <<flags, draft, unheard, row, told>>
  BY DEF Correlate, CommitFrame, linkVars, loopVars, clockVars
<1>2. LinkTypeOK /\ PipeTypeOK /\ Accounted /\ ReceiptsAreGiven /\ RowsAreOwned /\ Phases
      /\ row \in [Messages -> JournalRows] /\ draft \in [Messages -> JournalRows]
  BY DEF AllInv, TypeOK, BatchInv
<1>3. /\ pending \in Seq(Given) /\ pending \in Seq(Receipt) /\ updates \in Seq(Moves)
      /\ tally \in [Outcomes -> Nat] /\ strays \in Nat /\ flags = <<>>
  BY <1>1, <1>2 DEF ReceiptsAreGiven, PipeTypeOK, Phases, Committing
<1>4. /\ r \in Given /\ Len(pending) \in Nat /\ Len(Tail(pending)) = Len(pending) - 1
      /\ Tail(pending) \in Seq(Given) /\ Tail(pending) \in Seq(Receipt)
  BY <1>1, <1>3, HeadTailProperties
<1>5. \/ strays' = strays + 1 /\ updates' = updates /\ tally' = tally
      \/ /\ m # Nobody /\ r.to # "none" /\ updates' = Append(updates, Transition(r, m))
         /\ strays' = strays /\ tally' = tally
      \/ \E o \in {"noted", "failed"} : tally' = Counted(o) /\ updates' = updates /\ strays' = strays
  BY DEF Correlate
<1>6. ASSUME m # Nobody, r.to # "none"
      PROVE  Transition(r, m) \in Moves /\ Transition(r, m).of = m /\ row[m].state # "SENT"
  <2>1. m = Found(r.id) /\ Found(r.id) # Nobody
    BY <1>6
  <2>2. m \in Own /\ m \notin Doomed /\ m = r.about /\ row[m].state # "SENT"
    BY <1>2, <1>4, <2>1, FoundIsIts
  <2>3. r.to \in Moved /\ m \in Messages
    BY <1>4, <1>6, <2>2, GivenAre, ReceiptsAssumption
  <2>4. Moved \subseteq RowStates
    BY DEF Moved, RowStates, Alive, Terminal
  <2> HIDE DEF r, m
  <2> QED BY <2>2, <2>3, <2>4 DEF Transition, Moves, Updates
<1> HIDE DEF r, m
<1>7. /\ updates' \in Seq(Moves) /\ strays' \in Nat /\ tally' \in [Outcomes -> Nat]
      /\ Len(updates') \in Nat /\ Len(updates) \in Nat /\ Sum \in Nat
      /\ Sum' + Len(updates') + strays' = Sum + Len(updates) + strays + 1 /\ Sum' \in Nat
      /\ \A i \in DOMAIN updates' : row[updates'[i].of].state # "SENT"
  <2>1. {"noted", "failed"} \subseteq Outcomes
    BY DEF Outcomes
  <2>2. Sum \in Nat /\ (tally' = tally => Sum' = Sum)
    <3>1. "noted" \in Outcomes
      BY <2>1
    <3> QED BY <1>3, <3>1, CountedIs DEF Sum
  <2>3. Len(updates) \in Nat /\ \A i \in DOMAIN updates : row[updates[i].of].state # "SENT"
    BY <1>2, <1>3 DEF RowsAreOwned
  <2>4. CASE strays' = strays + 1 /\ updates' = updates /\ tally' = tally
    <3>1. Sum' = Sum /\ Len(updates') = Len(updates) /\ strays' = strays + 1 /\ strays \in Nat
      BY <1>3, <2>2, <2>4
    <3>2. Sum' + Len(updates') + strays' = Sum + Len(updates) + strays + 1
      BY <2>2, <2>3, <3>1
    <3>3. tally' \in [Outcomes -> Nat] /\ updates' \in Seq(Moves) /\ UNCHANGED updates
      BY <1>3, <2>4
    <3> QED BY <2>2, <2>3, <3>1, <3>2, <3>3
  <2>5. CASE /\ m # Nobody /\ r.to # "none" /\ updates' = Append(updates, Transition(r, m))
             /\ strays' = strays /\ tally' = tally
    <3>1. Transition(r, m) \in Moves /\ row[Transition(r, m).of].state # "SENT"
      BY <1>6, <2>5
    <3>2. updates' \in Seq(Moves) /\ Len(updates') = Len(updates) + 1
          /\ \A i \in 1 .. Len(updates) + 1 :
               updates'[i] = IF i <= Len(updates) THEN updates[i] ELSE Transition(r, m)
      BY <1>3, <2>5, <3>1, AppendProperties
    <3>3. DOMAIN updates' = 1 .. Len(updates) + 1 /\ DOMAIN updates = 1 .. Len(updates)
      BY <1>3, <3>2
    <3>4. \A i \in DOMAIN updates' : row[updates'[i].of].state # "SENT"
      BY <2>3, <3>1, <3>2, <3>3
    <3>5. strays' = strays /\ tally' = tally
      BY <2>5
    <3> QED BY <1>3, <2>2, <2>3, <3>2, <3>4, <3>5
  <2>6. CASE \E o \in {"noted", "failed"} : tally' = Counted(o) /\ updates' = updates /\ strays' = strays
    <3>1. PICK o \in {"noted", "failed"} : tally' = Counted(o) /\ updates' = updates /\ strays' = strays
      BY <2>6
    <3>2. Sum' = Sum + 1 /\ tally' \in [Outcomes -> Nat]
      BY <1>3, <2>1, <3>1, CountedIs
    <3> QED BY <1>3, <2>2, <2>3, <3>1, <3>2
  <2> QED BY <1>5, <2>4, <2>5, <2>6
<1>8. pipe' \in {"correlating", "closing", "writing"}
  BY <1>1
<1>9. TypeOK'
  <2>1. \A u \in Moves : u \in Updates
    BY DEF Moves
  <2>2. updates' \in Seq(Updates) /\ pending' \in Seq(Receipt)
    BY <1>1, <1>4, <1>7, <2>1, SeqMonotonic
  <2>3. LinkTypeOK'
    BY <1>1, <1>2 DEF LinkTypeOK
  <2>4. PipeTypeOK'
    BY <1>1, <1>2, <1>7, <1>8, <2>2 DEF PipeTypeOK
  <2> QED BY <1>1, <1>2, <2>3, <2>4 DEF TypeOK
<1>10. Accounted'
  <2> DEFINE held == IF loop = "sending" THEN 1 ELSE 0
             S == Sum  T == Sum'  Q == Len(queue)  I == Len(inbox)
             P == Len(pending)  R == Len(pending')  U == Len(updates)  V == Len(updates')
  <2>1. Q \in Nat /\ I \in Nat /\ held \in Nat /\ held' = held
    BY <1>1, <1>2 DEF LinkTypeOK
  <2>2. arrived = S + Q + held + I + P + U + strays
    BY <1>2 DEF Accounted
  <2>3. /\ S \in Nat /\ T \in Nat /\ P \in Nat /\ R = P - 1 /\ U \in Nat /\ V \in Nat
        /\ T + V + strays' = S + U + strays + 1
    BY <1>1, <1>4, <1>7
  <2> HIDE DEF held, S, T, Q, I, P, R, U, V
  <2>4. arrived = T + Q + held + I + R + V + strays'
    <3>1. strays \in Nat /\ strays' \in Nat
      BY <1>3, <1>7
    <3>2. R \in Int /\ P = R + 1
      BY <2>3
    <3>3. arrived = S + U + strays + 1 + (Q + held + I + R)
      BY <2>1, <2>2, <2>3, <3>1, <3>2
    <3>4. T + V + strays' + (Q + held + I + R) = T + Q + held + I + R + V + strays'
      BY <2>1, <2>3, <3>1, <3>2
    <3> QED BY <2>3, <3>3, <3>4
  <2> QED BY <1>1, <2>1, <2>4, Zenon DEF Accounted, held, S, T, Q, I, P, R, U, V
<1>11. ReceiptsAreGiven' /\ RowsAreOwned'
  <2>1. ReceiptsAreGiven'
    BY <1>1, <1>2, <1>4, <1>7 DEF ReceiptsAreGiven
  <2>2. RowsAreOwned'
    BY <1>1, <1>2, <1>7 DEF RowsAreOwned
  <2> QED BY <2>1, <2>2
<1>12. Phases'
  <2>1. flags' = <<>> /\ Len(flags') = 0 /\ Len(updates') \in Nat /\ (updates' = <<>> => Len(updates') = 0)
    BY <1>1, <1>3, <1>7
  <2> QED BY <1>1, <1>8, <2>1 DEF Phases, Committing
<1>13. DraftIsAhead' /\ StandingAgrees'
  BY <1>1, <1>8, Collects DEF Committing
<1> QED BY <1>9, <1>10, <1>11, <1>12, <1>13 DEF AllInv, BatchInv

(* A transition written, or not, stands for its message from then on.        *)
LEMMA Noting ==
  ASSUME flags \in Seq(BOOLEAN), NEW b \in BOOLEAN, flags' = Append(flags, b), UNCHANGED <<updates, told>>,
         NEW m
  PROVE  /\ Len(flags') = Len(flags) + 1
         /\ b /\ NextUpdate.of = m => Noted(m)' # {} /\ Standing(m)' = NextUpdate.to
         /\ ~b \/ NextUpdate.of # m => Noted(m)' = Noted(m) /\ Standing(m)' = Standing(m)
<1>1. /\ Len(flags) \in Nat /\ DOMAIN flags = 1 .. Len(flags)
      /\ DOMAIN flags' = 1 .. Len(flags) + 1 /\ Len(flags') = Len(flags) + 1
      /\ flags'[Len(flags) + 1] = b /\ \A i \in 1 .. Len(flags) : flags'[i] = flags[i]
  BY AppendProperties
<1>2. CASE b /\ NextUpdate.of = m
  <2>1. Noted(m)' \in SUBSET (1 .. Len(flags) + 1) /\ Len(flags) + 1 \in Noted(m)'
    BY <1>1, <1>2 DEF Noted, NextUpdate
  <2>2. LastOf(Noted(m)') \in Noted(m)' /\ \A j \in Noted(m)' : j <= LastOf(Noted(m)')
    <3> DEFINE S == Noted(m)'  n == Len(flags) + 1
    <3>1. n \in Nat /\ S \in SUBSET (1 .. n) /\ S # {}
      BY <1>1, <2>1
    <3> HIDE DEF S, n
    <3>2. LastOf(S) \in S /\ \A j \in S : j <= LastOf(S)
      BY <3>1, LastIsIn
    <3> QED BY <3>2 DEF S
  <2>3. LastOf(Noted(m)') = Len(flags) + 1
    BY <1>1, <2>1, <2>2
  <2>4. Standing(m)' = updates'[LastOf(Noted(m)')].to
    BY <2>1 DEF Standing, LastOf
  <2> QED BY <1>1, <1>2, <2>1, <2>3, <2>4 DEF NextUpdate
<1>3. CASE ~b \/ NextUpdate.of # m
  <2>1. Noted(m)' = Noted(m)
    BY <1>1, <1>3 DEF Noted, NextUpdate
  <2> QED BY <1>1, <1>3, <2>1 DEF Standing, LastOf
<1> QED BY <1>1, <1>2, <1>3

(* The transition that is written next is one of the batch.                  *)
LEMMA NextIs ==
  ASSUME updates \in Seq(Moves), flags \in Seq(BOOLEAN), Len(flags) < Len(updates)
  PROVE  /\ NextUpdate \in Moves /\ NextUpdate.of \in Messages /\ NextUpdate.to \in Moved
         /\ Len(flags) + 1 \in DOMAIN updates
<1>1. Len(flags) \in Nat /\ Len(updates) \in Nat /\ DOMAIN updates = 1 .. Len(updates)
  OBVIOUS
<1>2. Len(flags) + 1 \in DOMAIN updates
  BY <1>1
<1>3. NextUpdate \in Moves
  BY <1>2 DEF NextUpdate
<1> QED BY <1>2, <1>3 DEF Moves, Updates

LEMMA StatementStep == ASSUME AllInv, Statement PROVE AllInv'
<1>1. /\ pipe = "writing" /\ Len(flags) < Len(updates)
      /\ draft' = Written(draft, NextUpdate) /\ flags' = Append(flags, Taken(draft, NextUpdate))
      /\ UNCHANGED <<open, arrived, queue, loop, hand, inbox, timer, waited, closed>>
      /\ UNCHANGED <<pipe, pending, updates, strays, unheard, row, told, tally>>
  BY DEF Statement, CommitFrame, linkVars, loopVars, clockVars
<1>2. LinkTypeOK /\ PipeTypeOK /\ Accounted /\ ReceiptsAreGiven /\ RowsAreOwned /\ Phases /\ DraftIsAhead
      /\ StandingAgrees /\ row \in [Messages -> JournalRows] /\ draft \in [Messages -> JournalRows]
  BY DEF AllInv, TypeOK, BatchInv
<1>3. updates \in Seq(Moves) /\ flags \in Seq(BOOLEAN)
  BY <1>2 DEF ReceiptsAreGiven, PipeTypeOK
<1> DEFINE u == NextUpdate
           b == Taken(draft, NextUpdate)
<1>4. u \in Moves /\ u.of \in Messages
  BY <1>1, <1>3, NextIs
<1> HIDE DEF u, b
<1>5. /\ draft' \in [Messages -> JournalRows] /\ b \in BOOLEAN
      /\ \A m \in Messages \ {u.of} : draft'[m] = draft[m]
      /\ draft'[u.of].id = draft[u.of].id
      /\ draft'[u.of].state = IF b THEN u.to ELSE draft[u.of].state
      /\ draft[u.of].state \in Terminal => draft'[u.of] = draft[u.of]
  <2>1. draft' = Written(draft, u) /\ b = Taken(draft, u)
    BY <1>1 DEF u, b
  <2> QED BY <1>2, <1>4, <2>1, WrittenIs
<1>6. flags' = Append(flags, b)
  BY <1>1 DEF b
<1>7. \A m : /\ Len(flags') = Len(flags) + 1
             /\ b /\ u.of = m => Noted(m)' # {} /\ Standing(m)' = u.to
             /\ ~b \/ u.of # m => Noted(m)' = Noted(m) /\ Standing(m)' = Standing(m)
  BY <1>1, <1>3, <1>5, <1>6, Noting DEF u
<1>8. flags' \in Seq(BOOLEAN) /\ Len(flags) \in Nat /\ Len(updates) \in Nat /\ flags' # <<>>
  BY <1>3, <1>5, <1>6, AppendProperties
<1>9. TypeOK'
  BY <1>1, <1>2, <1>5, <1>8 DEF TypeOK, LinkTypeOK, PipeTypeOK
<1>10. Accounted'
  BY <1>1, <1>2, StillAccounted
<1>11. ReceiptsAreGiven' /\ RowsAreOwned'
  BY <1>1, <1>2 DEF ReceiptsAreGiven, RowsAreOwned
<1>12. Phases'
  <2>1. Len(flags') <= Len(updates)
    BY <1>1, <1>7, <1>8
  <2>2. pipe' = "writing" /\ pending' = <<>> /\ updates' # <<>>
    BY <1>1, <1>2 DEF Phases
  <2> QED BY <1>1, <2>1, <2>2 DEF Phases, Committing
<1>13. DraftIsAhead'
  <2>1. InTransaction'
    BY <1>1, <1>8 DEF InTransaction
  <2>2. ASSUME NEW m \in Messages
        PROVE  /\ draft'[m].id = row[m].id
               /\ row[m].state \in Terminal => draft'[m] = row[m]
               /\ draft'[m].state = IF Noted(m)' = {} THEN row[m].state ELSE Standing(m)'
    <3>1. /\ draft[m].id = row[m].id /\ (row[m].state \in Terminal => draft[m] = row[m])
          /\ draft[m].state = IF Noted(m) = {} THEN row[m].state ELSE Standing(m)
      BY <1>1, <1>2 DEF DraftIsAhead
    <3>2. CASE m = u.of
      BY <1>5, <1>7, <3>1, <3>2
    <3>3. CASE m # u.of
      BY <1>5, <1>7, <3>1, <3>3
    <3> QED BY <3>2, <3>3
  <2> QED BY <1>1, <2>1, <2>2 DEF DraftIsAhead
<1>14. StandingAgrees'
  BY <1>1, <1>2 DEF StandingAgrees, Agrees
<1> QED BY <1>9, <1>10, <1>11, <1>12, <1>13, <1>14 DEF AllInv, BatchInv

(* The last transition written of a message is one of the batch.             *)
LEMMA NotedIs ==
  ASSUME updates \in Seq(Moves), flags \in Seq(BOOLEAN), Len(flags) <= Len(updates), NEW m, Noted(m) # {}
  PROVE  /\ LastOf(Noted(m)) \in DOMAIN updates /\ LastOf(Noted(m)) > 0
         /\ updates[LastOf(Noted(m))].of = m /\ updates[LastOf(Noted(m))].to \in Moved
         /\ Standing(m) = updates[LastOf(Noted(m))].to
<1> DEFINE S == Noted(m)
<1>1. Len(flags) \in Nat /\ Len(updates) \in Nat /\ DOMAIN flags = 1 .. Len(flags)
      /\ DOMAIN updates = 1 .. Len(updates)
  OBVIOUS
<1>2. S \in SUBSET (1 .. Len(flags)) /\ S # {} /\ \A i \in S : updates[i].of = m
  BY <1>1 DEF Noted
<1>3. Standing(m) = updates[LastOf(S)].to
  BY DEF Standing
<1> HIDE DEF S
<1>4. LastOf(S) \in S
  BY <1>1, <1>2, LastIsIn
<1>5. LastOf(S) \in DOMAIN updates /\ LastOf(S) > 0
  <2> DEFINE a == Len(flags)  b == Len(updates)  k == LastOf(S)
  <2>1. a \in Nat /\ b \in Nat /\ a <= b /\ k \in 1 .. a
    BY <1>1, <1>2, <1>4
  <2> HIDE DEF a, b, k
  <2>2. k \in 1 .. b /\ k > 0
    BY <2>1
  <2> QED BY <1>1, <2>2, Zenon DEF b, k
<1>6. updates[LastOf(S)] \in Moves
  BY <1>5
<1> QED BY <1>2, <1>3, <1>4, <1>5, <1>6 DEF S, Moves

LEMMA CommitStep == ASSUME AllInv, Commit PROVE AllInv'
<1>1. /\ pipe = "writing" /\ Len(flags) = Len(updates) /\ row' = draft
      /\ \/ pipe' = "closing" /\ flags' = flags
         \/ pipe' = "replaying" /\ flags' = <<>>
      /\ UNCHANGED <<open, arrived, queue, loop, hand, inbox, timer, waited, closed>>
      /\ UNCHANGED <<pending, updates, draft, strays, unheard, told, tally>>
  BY DEF Commit, Attributed, CommitFrame, linkVars, loopVars, clockVars
<1>2. LinkTypeOK /\ PipeTypeOK /\ Accounted /\ ReceiptsAreGiven /\ RowsAreOwned /\ Phases /\ DraftIsAhead
      /\ StandingAgrees /\ row \in [Messages -> JournalRows] /\ draft \in [Messages -> JournalRows]
  BY DEF AllInv, TypeOK, BatchInv
<1>3. updates \in Seq(Moves) /\ flags \in Seq(BOOLEAN)
  BY <1>2 DEF ReceiptsAreGiven, PipeTypeOK
<1>4. Len(flags) \in Nat /\ Len(updates) \in Nat /\ updates # <<>> /\ Len(updates) > 0
      /\ DOMAIN updates = 1 .. Len(updates)
  BY <1>1, <1>2, <1>3, EmptySeq DEF Phases
<1>5. ASSUME NEW m \in Messages
      PROVE  /\ draft[m].id = row[m].id /\ (row[m].state \in Terminal => draft[m] = row[m])
             /\ Noted(m) = {} => draft[m].state = row[m].state /\ Standing(m) = told[m]
             /\ Noted(m) # {} => draft[m].state = Standing(m) /\ Standing(m) \in Moved
                                 /\ row[m].state # "SENT"
             /\ Agrees(m, told[m])
  <2>1. /\ draft[m].id = row[m].id /\ (row[m].state \in Terminal => draft[m] = row[m])
        /\ draft[m].state = IF Noted(m) = {} THEN row[m].state ELSE Standing(m)
    BY <1>1, <1>2 DEF DraftIsAhead
  <2>2. Agrees(m, told[m])
    BY <1>1, <1>2 DEF StandingAgrees
  <2>3. Noted(m) # {} => Standing(m) \in Moved /\ row[m].state # "SENT"
    BY <1>1, <1>2, <1>3, <1>4, NotedIs DEF RowsAreOwned
  <2> QED BY <2>1, <2>2, <2>3 DEF Standing
<1>6. TypeOK'
  <2>1. flags' \in Seq(BOOLEAN)
    BY <1>1, <1>3, EmptySeq
  <2> QED BY <1>1, <1>2, <2>1 DEF TypeOK, LinkTypeOK, PipeTypeOK
<1>7. Accounted'
  BY <1>1, <1>2, StillAccounted
<1>8. ReceiptsAreGiven'
  BY <1>1, <1>2 DEF ReceiptsAreGiven
<1>9. "SENT" \notin Moved
  BY DEF Moved
<1>10. RowsAreOwned'
  <2>1. \A m \in Messages : row'[m].id = row[m].id /\ (row'[m].state = "SENT" <=> row[m].state = "SENT")
    BY <1>1, <1>5, <1>9
  <2>2. \A i \in DOMAIN updates : updates[i] \in Moves
    BY <1>3
  <2>3. \A i \in DOMAIN updates : updates[i].of \in Messages
    BY <2>2 DEF Moves, Updates
  <2> QED BY <1>1, <1>2, <2>1, <2>3 DEF RowsAreOwned
<1>11. Phases'
  <2>1. pending = <<>>
    BY <1>1, <1>2 DEF Phases
  <2>2. flags' = <<>> => Len(flags') = 0
    OBVIOUS
  <2> QED BY <1>1, <1>4, <2>1, <2>2 DEF Phases, Committing
<1>12. DraftIsAhead'
  BY <1>1 DEF DraftIsAhead
<1>13. StandingAgrees'
  <2> SUFFICES ASSUME NEW m \in Messages
               PROVE  /\ Standing(m)' \in Terminal => Standing(m)' = row'[m].state
                      /\ m \in unheard \/ Owed(m)' \/ Agrees(m, Standing(m))'
    BY <1>1 DEF StandingAgrees
  <2>1. CASE pipe' = "closing" /\ flags' = flags
    <3>1. Standing(m)' = Standing(m)
      BY <1>1, <2>1 DEF Standing, Noted
    <3>2. CASE Noted(m) = {}
      BY <1>1, <1>5, <3>1, <3>2 DEF Agrees
    <3>3. CASE Noted(m) # {}
      BY <1>1, <1>5, <3>1, <3>3 DEF Agrees
    <3> QED BY <3>2, <3>3
  <2>2. CASE pipe' = "replaying" /\ flags' = <<>>
    <3>1. Standing(m)' = told[m] /\ Len(flags') = 0
      BY <1>1, <2>2 DEF Standing, Noted
    <3>2. told[m] \in Terminal => told[m] = row'[m].state
      BY <1>1, <1>5 DEF Agrees
    <3>3. CASE Noted(m) = {}
      BY <1>1, <1>5, <3>1, <3>2, <3>3 DEF Agrees
    <3>4. CASE Noted(m) # {}
      <4>1. Owed(m)'
        BY <1>1, <1>3, <1>4, <1>5, <3>1, <3>4, NotedIs DEF Owed
      <4> QED BY <3>1, <3>2, <4>1
    <3> QED BY <3>3, <3>4
  <2> QED BY <1>1, <2>1, <2>2
<1> QED BY <1>6, <1>7, <1>8, <1>10, <1>11, <1>12, <1>13 DEF AllInv, BatchInv

LEMMA RollBackStep == ASSUME AllInv, RollBack PROVE AllInv'
<1>1. /\ pipe = "writing" /\ Len(flags) = Len(updates) /\ draft' = row /\ row' = row
      /\ pipe' = "replaying" /\ flags' = <<>>
      /\ UNCHANGED <<open, arrived, queue, loop, hand, inbox, timer, waited, closed>>
      /\ UNCHANGED <<pending, updates, strays, unheard, told, tally>>
  BY DEF RollBack, CommitFrame, linkVars, loopVars, clockVars
<1>2. LinkTypeOK /\ PipeTypeOK /\ Accounted /\ ReceiptsAreGiven /\ RowsAreOwned /\ Phases
      /\ StandingAgrees /\ row \in [Messages -> JournalRows]
  BY DEF AllInv, TypeOK, BatchInv
<1>3. updates \in Seq(Updates) /\ flags' \in Seq(BOOLEAN) /\ Len(flags') = 0
  BY <1>1, <1>2, EmptySeq DEF PipeTypeOK
<1>4. TypeOK'
  BY <1>1, <1>2, <1>3 DEF TypeOK, LinkTypeOK, PipeTypeOK
<1>5. Accounted'
  BY <1>1, <1>2, StillAccounted
<1>6. ReceiptsAreGiven' /\ RowsAreOwned'
  BY <1>1, <1>2 DEF ReceiptsAreGiven, RowsAreOwned
<1>7. Phases'
  <2>1. pending = <<>> /\ updates # <<>>
    BY <1>1, <1>2 DEF Phases
  <2>2. Len(updates) \in Nat /\ Len(updates) > 0
    BY <1>3, <2>1, EmptySeq
  <2> QED BY <1>1, <1>3, <2>1, <2>2 DEF Phases, Committing
<1>8. DraftIsAhead'
  BY <1>1 DEF DraftIsAhead
<1>9. StandingAgrees'
  <2>1. \A m : Standing(m)' = told[m]
    BY <1>1 DEF Standing, Noted
  <2>2. \A m \in Messages : Agrees(m, told[m])
    BY <1>1, <1>2 DEF StandingAgrees
  <2> QED BY <1>1, <2>1, <2>2 DEF StandingAgrees, Agrees
<1> QED BY <1>4, <1>5, <1>6, <1>7, <1>8, <1>9 DEF AllInv, BatchInv

LEMMA ReplayStep == ASSUME AllInv, Replay PROVE AllInv'
<1> DEFINE u == NextUpdate
           b == Taken(row, NextUpdate)
<1>1. /\ pipe = "replaying" /\ draft' = row'
      /\ \/ row' = Written(row, u) /\ flags' = Append(flags, b) /\ unheard' = unheard
         \/ row' = row /\ flags' = Append(flags, FALSE) /\ unheard' = unheard \cup {u.of}
      /\ pipe' = IF Len(flags') < Len(updates) THEN "replaying" ELSE "closing"
      /\ UNCHANGED <<open, arrived, queue, loop, hand, inbox, timer, waited, closed>>
      /\ UNCHANGED <<pending, updates, strays, told, tally>>
  BY DEF Replay, CommitFrame, linkVars, loopVars, clockVars
<1>2. LinkTypeOK /\ PipeTypeOK /\ Accounted /\ ReceiptsAreGiven /\ RowsAreOwned /\ Phases
      /\ StandingAgrees /\ row \in [Messages -> JournalRows]
  BY DEF AllInv, TypeOK, BatchInv
<1>3. updates \in Seq(Moves) /\ flags \in Seq(BOOLEAN) /\ Len(flags) < Len(updates)
  BY <1>1, <1>2 DEF ReceiptsAreGiven, PipeTypeOK, Phases
<1>4. u \in Moves /\ u.of \in Messages /\ u.to \in Moved /\ Len(flags) + 1 \in DOMAIN updates
      /\ updates[Len(flags) + 1] = u
  BY <1>3, NextIs DEF NextUpdate
<1>5. /\ Written(row, u) \in [Messages -> JournalRows] /\ b \in BOOLEAN
      /\ \A m \in Messages \ {u.of} : Written(row, u)[m] = row[m]
      /\ Written(row, u)[u.of].id = row[u.of].id
      /\ Written(row, u)[u.of].state = IF b THEN u.to ELSE row[u.of].state
      /\ row[u.of].state = u.to => b
  BY <1>2, <1>4, WrittenIs
<1> HIDE DEF u, b
<1>6. PICK flag \in BOOLEAN :
        /\ flags' = Append(flags, flag) /\ (flag => row' = Written(row, u) /\ b)
        /\ \/ row' = Written(row, u) /\ flag = b /\ unheard' = unheard
           \/ row' = row /\ ~flag /\ unheard' = unheard \cup {u.of}
  BY <1>1, <1>5, Zenon
<1>7. \A m : /\ Len(flags') = Len(flags) + 1
             /\ flag /\ u.of = m => Noted(m)' # {} /\ Standing(m)' = u.to
             /\ ~flag \/ u.of # m => Noted(m)' = Noted(m) /\ Standing(m)' = Standing(m)
  BY <1>1, <1>3, <1>6, Noting DEF u
<1>8. flags' \in Seq(BOOLEAN) /\ Len(flags) \in Nat /\ Len(updates) \in Nat
      /\ DOMAIN updates = 1 .. Len(updates)
  BY <1>3, <1>6, AppendProperties
<1>9. /\ row' \in [Messages -> JournalRows] /\ \A m \in Messages \ {u.of} : row'[m] = row[m]
      /\ row'[u.of].id = row[u.of].id /\ row'[u.of].state = IF flag THEN u.to ELSE row[u.of].state
      /\ unheard' \in SUBSET Messages /\ unheard \subseteq unheard'
  BY <1>2, <1>4, <1>5, <1>6 DEF PipeTypeOK
<1>10. row[u.of].state # "SENT" /\ u.to # "SENT"
  BY <1>2, <1>4 DEF RowsAreOwned, Moved
<1>11. TypeOK'
  BY <1>1, <1>2, <1>8, <1>9 DEF TypeOK, LinkTypeOK, PipeTypeOK
<1>12. Accounted'
  BY <1>1, <1>2, StillAccounted
<1>13. ReceiptsAreGiven'
  BY <1>1, <1>2 DEF ReceiptsAreGiven
<1>14. RowsAreOwned'
  <2>1. \A m \in Messages : row'[m].id = row[m].id /\ (row'[m].state = "SENT" <=> row[m].state = "SENT")
    BY <1>9, <1>10
  <2>2. \A i \in DOMAIN updates : updates[i] \in Moves
    BY <1>3
  <2>3. \A i \in DOMAIN updates : updates[i].of \in Messages
    BY <2>2 DEF Moves, Updates
  <2> QED BY <1>1, <1>2, <2>1, <2>3 DEF RowsAreOwned
<1>15. Phases'
  <2>1. pending = <<>>
    BY <1>1, <1>2 DEF Phases
  <2>2. Len(flags') = Len(flags) + 1
    BY <1>7
  <2>3. Len(flags') <= Len(updates) /\ (pipe' = "replaying" => Len(flags') < Len(updates))
        /\ (pipe' = "closing" => Len(flags') = Len(updates)) /\ pipe' \in {"replaying", "closing"}
    <3> DEFINE have == Len(flags)  want == Len(updates)  now == Len(flags')
    <3>1. /\ have \in Nat /\ want \in Nat /\ now = have + 1 /\ have < want
          /\ pipe' = IF now < want THEN "replaying" ELSE "closing"
      BY <1>1, <1>3, <1>8, <2>2
    <3> HIDE DEF have, want, now
    <3>2. /\ now <= want /\ (pipe' = "replaying" => now < want) /\ (pipe' = "closing" => now = want)
          /\ pipe' \in {"replaying", "closing"}
      BY <3>1
    <3> QED BY <1>1, <3>2 DEF want, now
  <2> QED BY <1>1, <2>1, <2>3 DEF Phases, Committing
<1>16. DraftIsAhead'
  <2>1. pipe' # "writing"
    BY <1>1
  <2> QED BY <1>1, <2>1 DEF DraftIsAhead
<1>17. StandingAgrees'
  <2> SUFFICES ASSUME NEW m \in Messages
               PROVE  /\ Standing(m)' \in Terminal => Standing(m)' = row'[m].state
                      /\ m \in unheard' \/ Owed(m)' \/ Agrees(m, Standing(m))'
    BY <1>1 DEF StandingAgrees
  <2>1. /\ Standing(m) \in Terminal => Standing(m) = row[m].state
        /\ m \in unheard \/ Owed(m) \/ Agrees(m, Standing(m))
    BY <1>1, <1>2 DEF StandingAgrees
  <2>2. CASE flag /\ u.of = m
    BY <1>7, <1>9, <2>2 DEF Agrees
  <2>3. CASE ~flag \/ u.of # m
    <3>1. Standing(m)' = Standing(m) /\ row'[m].state = row[m].state
      BY <1>7, <1>9, <2>3
    <3>2. CASE m \in unheard'
      BY <2>1, <3>1, <3>2
    <3>3. CASE m \notin unheard'
      <4>1. m \notin unheard /\ (u.of = m => flag = b /\ ~b)
        BY <1>6, <1>9, <2>3, <3>3
      <4>2. CASE Owed(m)
        <5>1. PICK i \in DOMAIN updates : i > Len(flags) /\ updates[i].of = m /\ updates[i].to = row[m].state
          BY <4>2 DEF Owed
        <5>2. i # Len(flags) + 1
          BY <1>4, <1>5, <4>1, <5>1
        <5>3. i > Len(flags')
          <6>1. Len(flags') = Len(flags) + 1 /\ i \in Nat
            BY <1>7, <1>8
          <6> QED BY <1>8, <5>1, <5>2, <6>1
        <5>4. Owed(m)'
          BY <1>1, <3>1, <5>1, <5>3 DEF Owed
        <5> QED BY <2>1, <3>1, <5>4
      <4>3. CASE Agrees(m, Standing(m))
        BY <2>1, <3>1, <4>1, <4>3 DEF Agrees
      <4> QED BY <2>1, <4>1, <4>2, <4>3
    <3> QED BY <3>2, <3>3
  <2> QED BY <2>2, <2>3
<1> QED BY <1>11, <1>12, <1>13, <1>14, <1>15, <1>16, <1>17 DEF AllInv, BatchInv

LEMMA CloseStep == ASSUME AllInv, CloseBatch PROVE AllInv'
<1>1. /\ pipe = "closing" /\ updates' = <<>> /\ flags' = <<>> /\ strays' = 0
      /\ pipe' = IF closed THEN "ended" ELSE "idle"
      /\ told' = [m \in Messages |-> IF NotesOf(m) = {} THEN told[m] ELSE updates[LastNote(m)].to]
      /\ \E o \in {"orphaned", "lost"} :
           tally' = [tally EXCEPT !["applied"] = @ + NoOf(TRUE), !["refused"] = @ + NoOf(FALSE),
                                  ![o] = @ + strays]
      /\ UNCHANGED <<open, arrived, queue, loop, hand, inbox, timer, waited, closed>>
      /\ UNCHANGED <<pending, draft, unheard, row>>
  <2>1. \E kept \in BOOLEAN :
          tally' = [tally EXCEPT !["applied"] = @ + NoOf(TRUE), !["refused"] = @ + NoOf(FALSE),
                                 ![IF kept THEN "orphaned" ELSE "lost"] = @ + strays]
    BY DEF CloseBatch
  <2>2. \A kept \in BOOLEAN : (IF kept THEN "orphaned" ELSE "lost") \in {"orphaned", "lost"}
    OBVIOUS
  <2>3. \E o \in {"orphaned", "lost"} :
          tally' = [tally EXCEPT !["applied"] = @ + NoOf(TRUE), !["refused"] = @ + NoOf(FALSE),
                                 ![o] = @ + strays]
    BY <2>1, <2>2, Zenon
  <2> QED BY <2>3 DEF CloseBatch, CommitFrame, linkVars, loopVars, clockVars
<1>2. LinkTypeOK /\ PipeTypeOK /\ Accounted /\ ReceiptsAreGiven /\ RowsAreOwned /\ Phases
      /\ StandingAgrees /\ row \in [Messages -> JournalRows] /\ draft \in [Messages -> JournalRows]
      /\ DraftIsAhead
  BY DEF AllInv, TypeOK, BatchInv
<1>3. /\ updates \in Seq(Moves) /\ flags \in Seq(BOOLEAN) /\ Len(flags) = Len(updates) /\ pending = <<>>
      /\ tally \in [Outcomes -> Nat] /\ strays \in Nat /\ told \in [Messages -> States]
  BY <1>1, <1>2 DEF ReceiptsAreGiven, PipeTypeOK, Phases
<1>4. \A m : Noted(m) = NotesOf(m)
  <2>1. DOMAIN flags = DOMAIN updates
    BY <1>3
  <2> QED BY <2>1 DEF Noted, NotesOf
<1>5. \A m \in Messages : told'[m] = Standing(m)
  <2>1. \A m : LastNote(m) = LastOf(NotesOf(m))
    BY Zenon DEF LastNote, LastOf
  <2>2. \A m : Standing(m) = IF NotesOf(m) = {} THEN told[m] ELSE updates[LastNote(m)].to
    BY <1>4, <2>1 DEF Standing
  <2> QED BY <1>1, <2>2
<1>6. ASSUME NEW m \in Messages
      PROVE  Standing(m) \in States /\ (Standing(m) # "none" => row[m].state # "SENT")
  <2>1. CASE Noted(m) = {}
    BY <1>2, <1>3, <2>1 DEF Standing, RowsAreOwned
  <2>2. CASE Noted(m) # {}
    <3>1. /\ LastOf(Noted(m)) \in DOMAIN updates /\ updates[LastOf(Noted(m))].of = m
          /\ Standing(m) \in Moved
      BY <1>3, <2>2, NotedIs
    <3>2. Moved \subseteq States
      BY DEF Moved, States, RowStates, Alive, Terminal
    <3> QED BY <1>2, <3>1, <3>2 DEF RowsAreOwned
  <2> QED BY <2>1, <2>2
<1>7. tally' \in [Outcomes -> Nat] /\ Sum \in Nat /\ Sum' = Sum + Len(updates) + strays
  <2>1. PICK o \in {"orphaned", "lost"} :
          tally' = [tally EXCEPT !["applied"] = @ + NoOf(TRUE), !["refused"] = @ + NoOf(FALSE),
                                 ![o] = @ + strays]
    BY <1>1
  <2> DEFINE T == NoOf(TRUE)  F == NoOf(FALSE)  U == Len(updates)
  <2>2. T \in Nat /\ F \in Nat /\ T + F = U
    BY <1>3, FlagsAreCounted
  <2>3. tally' = [tally EXCEPT !["applied"] = @ + T, !["refused"] = @ + F, ![o] = @ + strays]
    BY <2>1
  <2> HIDE DEF T, F, U
  <2>4. tally' \in [Outcomes -> Nat] /\ Sum \in Nat /\ Sum' = Sum + U + strays
    <3>1. tally \in [Outcomes -> Nat] /\ strays \in Nat /\ o \in Outcomes
      BY <1>3 DEF Outcomes
    <3>2. /\ DOMAIN tally' = Outcomes
          /\ \A k \in Outcomes :
               tally'[k] = IF k = o THEN tally[k] + strays
                           ELSE IF k = "refused" THEN tally[k] + F
                           ELSE IF k = "applied" THEN tally[k] + T ELSE tally[k]
          /\ tally' = [k \in Outcomes |-> tally'[k]]
      BY <2>3, <3>1
    <3>3. tally' \in [Outcomes -> Nat]
      <4>1. \A k \in Outcomes : tally'[k] \in Nat
        BY <2>2, <3>1, <3>2
      <4> QED BY <3>2, <4>1
    <3>4. Sum \in Nat /\ Sum' = Sum + U + strays
      <4>1. Outcomes = {"dropped", "mobile", "applied", "refused", "orphaned", "noted", "failed", "lost"}
        BY DEF Outcomes
      <4>2. \A k \in Outcomes : tally[k] \in Nat
        BY <3>1
      <4>3. CASE o = "orphaned"
        BY <2>2, <3>1, <3>2, <4>1, <4>2, <4>3 DEF Sum
      <4>4. CASE o = "lost"
        BY <2>2, <3>1, <3>2, <4>1, <4>2, <4>4 DEF Sum
      <4> QED BY <4>3, <4>4
    <3> QED BY <3>3, <3>4
  <2> QED BY <2>4 DEF U
<1>8. TypeOK'
  <2>1. told' \in [Messages -> States]
    BY <1>1, <1>5, <1>6
  <2>2. updates' \in Seq(Updates) /\ flags' \in Seq(BOOLEAN)
    BY <1>1, EmptySeq
  <2>3. pipe' \in {"idle", "ended"}
    BY <1>1
  <2>4. LinkTypeOK'
    BY <1>1, <1>2 DEF LinkTypeOK
  <2>5. PipeTypeOK'
    BY <1>1, <1>2, <1>7, <2>1, <2>2, <2>3 DEF PipeTypeOK
  <2> QED BY <1>1, <1>2, <2>4, <2>5 DEF TypeOK
<1>9. Accounted'
  <2> DEFINE held == IF loop = "sending" THEN 1 ELSE 0
             S == Sum  T == Sum'  Q == Len(queue)  I == Len(inbox)  U == Len(updates)
  <2>1. /\ Q \in Nat /\ I \in Nat /\ U \in Nat /\ S \in Nat /\ held \in Nat /\ held' = held
        /\ T = S + U + strays
    BY <1>1, <1>2, <1>3, <1>7 DEF LinkTypeOK
  <2>2. arrived = S + Q + held + I + 0 + U + strays
    BY <1>2, <1>3 DEF Accounted
  <2> HIDE DEF held, S, T, Q, I, U
  <2>3. arrived = T + Q + held + I + 0 + 0 + 0
    BY <1>3, <2>1, <2>2
  <2>4. Len(pending') = 0 /\ Len(updates') = 0
    BY <1>1, <1>3
  <2> QED BY <1>1, <2>1, <2>3, <2>4, Zenon DEF Accounted, held, S, T, Q, I, U
<1>10. ReceiptsAreGiven' /\ RowsAreOwned'
  <2>1. ReceiptsAreGiven'
    BY <1>1, <1>2 DEF ReceiptsAreGiven
  <2>2. RowsAreOwned'
    BY <1>1, <1>2, <1>5, <1>6 DEF RowsAreOwned
  <2> QED BY <2>1, <2>2
<1>11. Phases'
  BY <1>1, <1>3 DEF Phases, Committing
<1>12. DraftIsAhead'
  <2>1. draft = row
    BY <1>1, <1>2 DEF DraftIsAhead, InTransaction
  <2> QED BY <1>1, <2>1 DEF DraftIsAhead
<1>13. StandingAgrees'
  <2> SUFFICES ASSUME NEW m \in Messages PROVE Agrees(m, told[m])'
    BY <1>1 DEF StandingAgrees
  <2>1. /\ Standing(m) \in Terminal => Standing(m) = row[m].state
        /\ m \in unheard \/ Owed(m) \/ Agrees(m, Standing(m))
    BY <1>1, <1>2 DEF StandingAgrees
  <2>2. ~Owed(m)
    BY <1>3 DEF Owed
  <2> QED BY <1>1, <1>5, <2>1, <2>2 DEF Agrees
<1> QED BY <1>8, <1>9, <1>10, <1>11, <1>12, <1>13 DEF AllInv, BatchInv

-----------------------------------------------------------------------------
(* Which identifiers are tried                                               *)

LEMMA PrefixIsTried ==
  ASSUME NEW s \in Seq(Texts), NEW rest \in Seq(Texts)
  PROVE  /\ s \o rest \in Seq(Texts)
         /\ \A i \in DOMAIN s : i \in DOMAIN (s \o rest) /\ (s \o rest)[i] = s[i]
<1>1. s \o rest \in Seq(Texts) /\ Len(s \o rest) = Len(s) + Len(rest)
      /\ \A i \in 1 .. Len(s) + Len(rest) : (s \o rest)[i] = IF i <= Len(s) THEN s[i] ELSE rest[i - Len(s)]
  BY ConcatProperties
<1>2. Len(s) \in Nat /\ Len(rest) \in Nat /\ DOMAIN s = 1 .. Len(s) /\ DOMAIN (s \o rest) = 1 .. Len(s \o rest)
  BY <1>1
<1> QED BY <1>1, <1>2

(* But for the exact policy, an identifier is also tried in either case and  *)
(* without its padding.                                                      *)
LEMMA SpellingsAreTried ==
  ASSUME NEW t \in Texts, Matching # "exact"
  PROVE  /\ \E i \in DOMAIN Candidates(Matching, t) : Candidates(Matching, t)[i] = Upper(t)
         /\ \E i \in DOMAIN Candidates(Matching, t) : Candidates(Matching, t)[i] = Lower(t)
         /\ t.hex # 0 =>
              \E i \in DOMAIN Candidates(Matching, t) :
                Candidates(Matching, t)[i] = [t EXCEPT !.padded = FALSE]
<1> DEFINE three == <<t, Upper(t), Lower(t)>>
           four  == three \o Unpadded(t)
           five  == four \o FromDecimal(t)
<1>1. SameHex(t) \subseteq Texts
  BY DEF SameHex
<1>2. three \in Seq(Texts) /\ Unpadded(t) \in Seq(Texts)
  BY <1>1, SpellingsAre, SeqMonotonic
<1>3. three[2] = Upper(t) /\ three[3] = Lower(t) /\ DOMAIN three = 1 .. 3 /\ Len(three) = 3
  OBVIOUS
<1>4. t.hex # 0 => Len(Unpadded(t)) = 1 /\ Unpadded(t)[1] = [t EXCEPT !.padded = FALSE]
  BY DEF Unpadded
<1> HIDE DEF three
<1>5. four \in Seq(Texts) /\ \A i \in DOMAIN three : i \in DOMAIN four /\ four[i] = three[i]
  BY <1>2, PrefixIsTried
<1>6. t.hex # 0 => 4 \in DOMAIN four /\ four[4] = [t EXCEPT !.padded = FALSE]
  <2>1. /\ Len(four) = Len(three) + Len(Unpadded(t))
        /\ \A i \in 1 .. Len(three) + Len(Unpadded(t)) :
             four[i] = IF i <= Len(three) THEN three[i] ELSE Unpadded(t)[i - Len(three)]
    BY <1>2, ConcatProperties
  <2>2. DOMAIN four = 1 .. Len(four)
    BY <1>5
  <2> QED BY <1>3, <1>4, <2>1, <2>2
<1> HIDE DEF four
<1>7. five \in Seq(Texts) /\ \A i \in DOMAIN four : i \in DOMAIN five /\ five[i] = four[i]
  BY <1>5, BasesAre, PrefixIsTried
<1> HIDE DEF five
<1>8. \A i \in DOMAIN four :
        i \in DOMAIN Candidates(Matching, t) /\ Candidates(Matching, t)[i] = four[i]
  <2>1. CASE Matching = "relaxed"
    BY <2>1 DEF Candidates, four, three
  <2>2. CASE Matching = "bases"
    <3>1. Candidates(Matching, t) = five \o FromHexadecimal(t)
      BY <2>2 DEF Candidates, five, four, three
    <3>2. \A i \in DOMAIN five : i \in DOMAIN (five \o FromHexadecimal(t)) /\ (five \o FromHexadecimal(t))[i] = five[i]
      BY <1>7, BasesAre, PrefixIsTried
    <3> QED BY <1>7, <3>1, <3>2
  <2> QED BY <2>1, <2>2, ReceiptsAssumption DEF Policies3
<1>9. 2 \in DOMAIN three /\ 3 \in DOMAIN three
  BY <1>3
<1> QED BY <1>3, <1>5, <1>6, <1>8, <1>9

(* A legible identifier is found once it is journalled.                      *)
LEMMA LegibleIsFound ==
  ASSUME NEW r, r.id \in Texts, NEW n \in Own, Legible(r, n), Matching # "exact",
         row[n].id = IdOf[n]
  PROVE  r.id # NoText /\ Found(r.id) # Nobody
<1> DEFINE t == r.id  d == IdOf[n]
<1>1. t \in Texts /\ d \in Texts /\ d # NoText /\ n \in Messages
  BY ReceiptsAssumption
<1>2. /\ t.hex = d.hex /\ (t.padded \/ ~d.padded) /\ (t.padded = d.padded \/ t.upper = d.upper)
  BY DEF Legible
<1>3. \A u \in Texts : /\ u.hex \in 0 .. 255 /\ u.padded \in BOOLEAN /\ u.upper \in BOOLEAN
                       /\ (u.upper => HasLetters(u.hex))
                       /\ u = [hex |-> u.hex, padded |-> u.padded, upper |-> u.upper]
  BY DEF Texts
<1> HIDE DEF t, d
<1>4. d.hex = 0 => d.padded
  <2>1. NoText = [hex |-> 0, padded |-> FALSE, upper |-> FALSE]
    BY <1>3, NoTextIs
  <2>2. ~HasLetters(0)
    BY DEF HasLetters, High, Low
  <2> SUFFICES ASSUME d.hex = 0, ~d.padded PROVE FALSE
    OBVIOUS
  <2>3. d.upper = FALSE /\ d.padded = FALSE
    BY <1>1, <1>3, <2>2
  <2>4. d = [hex |-> 0, padded |-> FALSE, upper |-> FALSE]
    BY <1>1, <1>3, <2>3
  <2> QED BY <1>1, <2>1, <2>4
<1>5. t # NoText
  BY <1>2, <1>4, NoTextIs
<1>6. \E i \in DOMAIN Candidates(Matching, t) : Candidates(Matching, t)[i] = d
  <2>1. CASE t.padded = d.padded
    <3>1. /\ Upper(t) \in Texts /\ Upper(t).hex = d.hex /\ Upper(t).padded = d.padded
          /\ (HasLetters(d.hex) => Upper(t).upper = TRUE)
          /\ Lower(t) \in Texts /\ Lower(t).hex = d.hex /\ Lower(t).padded = d.padded /\ Lower(t).upper = FALSE
      <4>1. Upper(t) \in Texts /\ Lower(t) \in Texts
        BY <1>1, <1>3, TextIs DEF Upper, Lower
      <4>2. (TRUE /\ TRUE) = TRUE /\ \A x : (FALSE /\ x) = FALSE
        BY Zenon
      <4> QED BY <1>2, <2>1, <4>1, <4>2 DEF Upper, Lower, Text
    <3>2. CASE d.upper
      <4>1. HasLetters(d.hex) /\ d.upper = TRUE
        BY <1>1, <1>3, <3>2
      <4>2. Upper(t) = d
        BY <1>1, <1>3, <3>1, <4>1
      <4> QED BY <1>1, <4>2, SpellingsAreTried
    <3>3. CASE ~d.upper
      <4>1. d.upper = FALSE
        BY <1>1, <1>3, <3>3
      <4>2. Lower(t) = d
        BY <1>1, <1>3, <3>1, <4>1
      <4> QED BY <1>1, <4>2, SpellingsAreTried
    <3> QED BY <3>2, <3>3
  <2>2. CASE t.padded # d.padded
    <3>1. t.padded /\ ~d.padded /\ t.upper = d.upper /\ t.hex # 0
      BY <1>1, <1>2, <1>3, <1>4, <2>2
    <3>2. d.padded = FALSE
      BY <1>1, <1>3, <3>1
    <3>3. /\ [t EXCEPT !.padded = FALSE] \in Texts /\ [t EXCEPT !.padded = FALSE].hex = d.hex
          /\ [t EXCEPT !.padded = FALSE].padded = d.padded /\ [t EXCEPT !.padded = FALSE].upper = d.upper
      BY <1>1, <1>2, <3>1, <3>2 DEF Texts
    <3>4. [t EXCEPT !.padded = FALSE] = d
      <4> DEFINE v == [t EXCEPT !.padded = FALSE]
      <4>1. v \in Texts /\ v.hex = d.hex /\ v.padded = d.padded /\ v.upper = d.upper
        BY <3>3
      <4> HIDE DEF v
      <4>2. v = d
        BY <1>1, <1>3, <4>1
      <4> QED BY <4>2 DEF v
    <3>5. t.hex # 0
      BY <3>1
    <3>6. \E i \in DOMAIN Candidates(Matching, t) : Candidates(Matching, t)[i] = [t EXCEPT !.padded = FALSE]
      BY <1>1, <3>5, SpellingsAreTried, Zenon
    <3> QED BY <3>4, <3>6, Zenon
  <2> QED BY <2>1, <2>2
<1>7. PICK i \in DOMAIN Candidates(Matching, t) : Candidates(Matching, t)[i] = d
  BY <1>6
<1>8. n \in RowsOf(Candidates(Matching, t)[i])
  BY <1>1, <1>7 DEF RowsOf, d
<1>9. Found(t) # Nobody
  BY <1>1, <1>7, <1>8, FoundWhenTried
<1> QED BY <1>5, <1>9 DEF t

-----------------------------------------------------------------------------
(* Every step, and the theorems                                              *)

LEMMA NextAll == ASSUME AllInv, [Next]_vars PROVE AllInv'
<1>1. CASE UNCHANGED vars
  <2>1. UNCHANGED <<open, arrived, queue, loop, hand, inbox, pipe, pending, clockVars, batchVars, row, told, tally>>
    BY <1>1 DEF vars, linkVars, loopVars
  <2>2. UNCHANGED <<timer, waited, closed, updates, flags, draft, strays, unheard>>
    BY <2>1 DEF clockVars, batchVars
  <2>3. TypeOK'
    BY <2>1, <2>2 DEF AllInv, TypeOK, LinkTypeOK, PipeTypeOK
  <2>4. Accounted' /\ ReceiptsAreGiven'
    BY <2>1, <2>2, StillAccounted DEF AllInv, BatchInv, ReceiptsAreGiven
  <2> QED BY <2>1, <2>3, <2>4, BatchStands DEF AllInv, BatchInv
<1>2. CASE Next
  BY <1>2, PushStep, VerdictStep, LoopStep, CollectStep, CorrelateStep, StatementStep, CommitStep,
     RollBackStep, ReplayStep, CloseStep DEF Next, Pipeline
<1> QED BY <1>1, <1>2

THEOREM ReceiptsAlways == Spec => []AllInv
<1>1. Init => AllInv
  BY InitAll
<1>2. AllInv /\ [Next]_vars => AllInv'
  BY NextAll
<1> QED BY <1>1, <1>2, PTL DEF Spec

(* Every receipt is accounted for and in time, moves only the message it is  *)
(* about, and what was announced of a message outside a commit is what its   *)
(* row says (correlation.rs commit, attribute; dlr.rs).                      *)
THEOREM ReceiptsInvariant == Spec => []ReceiptsInv
<1>1. AllInv => ReceiptsInv
  <2> SUFFICES ASSUME AllInv PROVE ReceiptsInv
    OBVIOUS
  <2> USE DEF AllInv, BatchInv
  <2>1. CommitOnTime
    BY DEF CommitOnTime, Phases
  <2>2. CreditsItsOwn
    <3>1. updates \in Seq(Moves)
      BY DEF ReceiptsAreGiven
    <3>2. \A i \in DOMAIN updates : updates[i] \in Moves
      BY <3>1
    <3> QED BY <3>2 DEF CreditsItsOwn, Moves
  <2>3. ToldIsStanding
    BY DEF ToldIsStanding, StandingAgrees, Agrees
  <2> QED BY <2>1, <2>2, <2>3 DEF ReceiptsInv
<1> QED BY <1>1, ReceiptsAlways, PTL

(* A message that reached its end stays there, whatever receipts come later  *)
(* and whichever transactions fail (message.rs can_move_to; messages.rs      *)
(* update_states).                                                           *)
THEOREM ReceiptsEndsStand == Spec => EndsStand
<1>1. ASSUME AllInv, [Next]_vars
      PROVE  [\A m \in Messages : row[m].state \in Terminal => row'[m] = row[m]]_vars
  <2> SUFFICES ASSUME NEW m \in Messages, row[m].state \in Terminal, Next PROVE row'[m] = row[m]
    BY <1>1
  <2>1. CASE row' = row
    BY <2>1
  <2>2. ASSUME NEW n \in Messages, Verdict(n) PROVE row'[m] = row[m]
    BY <1>1, <2>2 DEF Verdict, AllInv, TypeOK, Terminal
  <2>3. CASE Commit
    BY <1>1, <2>3 DEF Commit, AllInv, BatchInv, DraftIsAhead
  <2>4. CASE Replay
    <3>1. row' = Written(row, NextUpdate) \/ row' = row
      BY <2>4 DEF Replay
    <3>2. updates \in Seq(Moves) /\ flags \in Seq(BOOLEAN) /\ Len(flags) < Len(updates)
          /\ row \in [Messages -> JournalRows]
      BY <1>1, <2>4 DEF Replay, AllInv, BatchInv, TypeOK, PipeTypeOK, ReceiptsAreGiven, Phases
    <3>3. NextUpdate \in Moves
      BY <3>2, NextIs
    <3>4. Written(row, NextUpdate)[m] = row[m]
      <4>1. CASE m = NextUpdate.of
        BY <3>2, <3>3, <4>1, WrittenIs
      <4>2. CASE m # NextUpdate.of
        BY <3>2, <3>3, <4>2, WrittenIs
      <4> QED BY <4>1, <4>2
    <3> QED BY <3>1, <3>4
  <2>5. \/ row' = row \/ (\E n \in Messages : Verdict(n)) \/ Commit \/ Replay
    BY DEF Next, Push, PipeFrame, SessionEnds, Loop, LoopReads, LoopSends, LoopEnds, LoopFrame, Pipeline,
       First, Another, Deadline, ChannelClosed, Tick, CollectFrame, Correlate, Statement, RollBack,
       CloseBatch
  <2> QED BY <2>1, <2>2, <2>3, <2>4, <2>5
<1> QED BY <1>1, ReceiptsAlways, PTL DEF Spec, EndsStand

(* A receipt is an orphan only if its identifier is none of this session's,  *)
(* but for its case or its padding, or came before the verdict was           *)
(* journalled (correlation.rs IdMatching, "an early receipt is a permanent   *)
(* orphan").                                                                 *)
THEOREM ReceiptsStraysAreStrangers == Spec => StraysAreStrangers
<1>1. ASSUME AllInv, [Next]_vars
      PROVE  [Matching # "exact" /\ strays' > strays =>
                LET r == Head(pending) IN
                  \A m \in Own \ Doomed : Legible(r, m) => row[m].state = "SENT"]_vars
  <2> SUFFICES ASSUME Next, Matching # "exact", strays' > strays, NEW m \in Own \ Doomed,
                      Legible(Head(pending), m)
               PROVE  row[m].state = "SENT"
    BY <1>1
  <2>1. strays \in Nat
    BY <1>1 DEF AllInv, TypeOK, PipeTypeOK
  <2>2. Correlate
    <3>1. ASSUME ~Correlate PROVE strays' \in {0, strays}
      <4>1. CASE Pipeline
        BY <3>1, <4>1 DEF Pipeline, First, Another, Deadline, ChannelClosed, Tick, CollectFrame, Statement,
           Commit, RollBack, Replay, CloseBatch, batchVars
      <4>2. CASE SessionEnds \/ Loop \/ \E p \in Pdus : Push(p)
        BY <4>2 DEF SessionEnds, Loop, LoopReads, LoopSends, LoopEnds, LoopFrame, Push, PipeFrame, batchVars
      <4>3. CASE \E n \in Messages : Verdict(n)
        BY <4>3 DEF Verdict
      <4> QED BY <4>1, <4>2, <4>3 DEF Next
    <3> QED BY <2>1, <3>1
  <2> DEFINE r == Head(pending)
  <2>3. r.id = NoText \/ Found(r.id) = Nobody
    BY <2>1, <2>2 DEF Correlate
  <2>4. r.id \in Texts
    <3>1. pending \in Seq(Receipt) /\ pending # <<>>
      BY <1>1, <2>2 DEF Correlate, AllInv, TypeOK, PipeTypeOK
    <3>2. r \in Receipt
      BY <3>1, HeadTailProperties
    <3> QED BY <3>2 DEF Receipt
  <2> HIDE DEF r
  <2>5. ASSUME row[m].state # "SENT" PROVE FALSE
    <3>1. m \in Messages /\ m \in Own /\ m \notin Doomed
      BY ReceiptsAssumption
    <3>2. row[m].id = IdOf[m]
      BY <1>1, <2>5, <3>1 DEF AllInv, BatchInv, RowsAreOwned
    <3>3. Legible(r, m)
      BY DEF r
    <3> QED BY <2>3, <2>4, <3>1, <3>2, <3>3, LegibleIsFound
  <2> QED BY <2>5
<1> QED BY <1>1, ReceiptsAlways, PTL DEF Spec, StraysAreStrangers

=============================================================================
