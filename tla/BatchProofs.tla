----------------------------- MODULE BatchProofs -----------------------------
(* What holds of Batch for any recipients, lists, policy, bound on the       *)
(* destinations and number of calls: its report is true, its duplicates are  *)
(* counted, and it keeps the contract of its messages.                       *)
EXTENDS Batch, FiniteSetTheorems, SequenceTheorems, TLAPS

-----------------------------------------------------------------------------
(* Lists of recipients                                                       *)

(* A list that holds the members of a set, once each.                        *)
ListOf(q, S) == q \in Seq(Recipients) /\ IsInjective(q) /\ ToSet(q) = S

LEMMA ListIs ==
  ASSUME NEW q, NEW S, ListOf(q, S)
  PROVE  /\ Len(q) \in Nat /\ DOMAIN q = 1 .. Len(q) /\ q \in Seq(Recipients)
         /\ \A i, j \in 1 .. Len(q) : q[i] = q[j] => i = j
         /\ \A i \in 1 .. Len(q) : q[i] \in S
         /\ \A x \in S : \E i \in 1 .. Len(q) : q[i] = x
<1>1. Len(q) \in Nat /\ DOMAIN q = 1 .. Len(q) /\ q \in Seq(Recipients)
  BY DEF ListOf
<1> QED BY <1>1 DEF ListOf, IsInjective, ToSet

LEMMA IsList ==
  ASSUME NEW q \in Seq(Recipients), NEW S,
         \A i, j \in 1 .. Len(q) : q[i] = q[j] => i = j,
         \A i \in 1 .. Len(q) : q[i] \in S,
         \A x \in S : \E i \in 1 .. Len(q) : q[i] = x
  PROVE  ListOf(q, S)
<1>1. DOMAIN q = 1 .. Len(q)
  OBVIOUS
<1> QED BY <1>1 DEF ListOf, IsInjective, ToSet

LEMMA EmptyList ==
  /\ ListOf(<<>>, {})
  /\ \A q, S : ListOf(q, S) => (q = <<>> <=> S = {})
<1>1. ListOf(<<>>, {})
  <2>1. <<>> \in Seq(Recipients) /\ DOMAIN <<>> = {}
    OBVIOUS
  <2> QED BY <2>1 DEF ListOf, IsInjective, ToSet
<1>2. ASSUME NEW q, NEW S, ListOf(q, S) PROVE q = <<>> <=> S = {}
  <2>1. q = <<>> => S = {}
    BY <1>2, ListIs
  <2>2. S = {} => Len(q) = 0
    BY <1>2, ListIs
  <2> QED BY <1>2, <2>1, <2>2, ListIs, EmptySeq
<1> QED BY <1>1, <1>2

LEMMA AppendList ==
  ASSUME NEW q, NEW S, ListOf(q, S), NEW s \in Recipients \ S
  PROVE  ListOf(Append(q, s), S \cup {s})
<1> DEFINE n == Len(q)  r == Append(q, s)
<1>1. /\ n \in Nat /\ q \in Seq(Recipients) /\ (\A i, j \in 1 .. n : q[i] = q[j] => i = j)
      /\ (\A i \in 1 .. n : q[i] \in S) /\ \A x \in S : \E i \in 1 .. n : q[i] = x
  BY ListIs
<1>2. r \in Seq(Recipients) /\ Len(r) = n + 1 /\ r[n + 1] = s /\ \A i \in 1 .. n : r[i] = q[i]
  BY <1>1, AppendProperties
<1> HIDE DEF n, r
<1>3. 1 .. Len(r) = (1 .. n) \cup {n + 1}
  BY <1>1, <1>2
<1>4. /\ \A i, j \in 1 .. Len(r) : r[i] = r[j] => i = j
      /\ \A i \in 1 .. Len(r) : r[i] \in S \cup {s}
      /\ \A x \in S \cup {s} : \E i \in 1 .. Len(r) : r[i] = x
  BY <1>1, <1>2, <1>3
<1>5. ListOf(r, S \cup {s})
  BY <1>2, <1>4, IsList
<1> QED BY <1>5 DEF r

LEMMA TailList ==
  ASSUME NEW q, NEW S, ListOf(q, S), q # <<>>
  PROVE  ListOf(Tail(q), S \ {Head(q)}) /\ Head(q) \in S /\ Head(q) \in Recipients
<1> DEFINE n == Len(q)  r == Tail(q)
<1>1. /\ n \in Nat /\ q \in Seq(Recipients) /\ (\A i, j \in 1 .. n : q[i] = q[j] => i = j)
      /\ (\A i \in 1 .. n : q[i] \in S) /\ \A x \in S : \E i \in 1 .. n : q[i] = x
  BY ListIs
<1>2. n > 0 /\ Head(q) = q[1] /\ Head(q) \in Recipients
  BY <1>1, HeadTailProperties, EmptySeq
<1>3. r \in Seq(Recipients) /\ Len(r) = n - 1 /\ \A i \in 1 .. n - 1 : r[i] = q[i + 1]
  BY <1>1, HeadTailProperties
<1> HIDE DEF n, r
<1>4. \A i, j \in 1 .. Len(r) : r[i] = r[j] => i = j
  BY <1>1, <1>2, <1>3
<1>5. ASSUME NEW i \in 1 .. Len(r) PROVE r[i] \in S \ {Head(q)}
  <2>1. i + 1 \in 1 .. n /\ i + 1 # 1 /\ 1 \in 1 .. n /\ i \in 1 .. n - 1
    BY <1>1, <1>2, <1>3
  <2>2. r[i] = q[i + 1] /\ q[i + 1] # q[1]
    BY <1>1, <1>3, <2>1
  <2> QED BY <1>1, <1>2, <2>1, <2>2
<1>6. ASSUME NEW x \in S \ {Head(q)} PROVE \E i \in 1 .. Len(r) : r[i] = x
  <2>1. PICK i \in 1 .. n : q[i] = x
    BY <1>1
  <2>2. i - 1 \in 1 .. n - 1 /\ (i - 1) + 1 = i
    BY <1>1, <1>2, <1>6, <2>1
  <2>3. r[i - 1] = x
    BY <1>3, <2>1, <2>2
  <2> QED BY <1>3, <2>2, <2>3
<1>7. ListOf(r, S \ {Head(q)})
  BY <1>3, <1>4, <1>5, <1>6, IsList
<1> QED BY <1>1, <1>2, <1>7 DEF r, n


(* A finite set is the contents of the sequence made of it.                  *)
LEMMA SetAsSequence ==
  ASSUME NEW S, IsFiniteSet(S)
  PROVE  /\ SetToSeq(S) \in [1 .. Cardinality(S) -> S] /\ Cardinality(S) \in Nat
         /\ \A x \in S : \E i \in 1 .. Cardinality(S) : SetToSeq(S)[i] = x
<1> DEFINE n == Cardinality(S)  f == SetToSeq(S)
<1>1. n \in Nat /\ ExistsBijection(1 .. n, S)
  BY FS_CardinalityType
<1>2. PICK g \in [1 .. n -> S] : IsInjective(g)
  BY <1>1 DEF ExistsBijection, Bijection, Injection
<1>3. f \in [1 .. n -> S] /\ IsInjective(f)
  BY <1>2, Zenon DEF SetToSeq
<1>4. f \in Injection(1 .. n, S)
  BY <1>3, Zenon DEF Injection
<1>5. IsFiniteSet(1 .. n) /\ Cardinality(1 .. n) = n
  BY <1>1, FS_Interval
<1>6. f \in Surjection(1 .. n, S)
  BY <1>4, <1>5, FS_Injection
<1> QED BY <1>1, <1>3, <1>6 DEF Surjection

LEMMA ListIsFinite == ASSUME NEW q \in Seq(Recipients) PROVE IsFiniteSet(ToSet(q))
<1>1. DOMAIN q = 1 .. Len(q) /\ Len(q) \in Nat
  OBVIOUS
<1>2. IsFiniteSet(DOMAIN q)
  BY <1>1, FS_Interval
<1>3. q \in Surjection(DOMAIN q, ToSet(q))
  BY <1>1 DEF Surjection, ToSet
<1> QED BY <1>2, <1>3, FS_Surjection

-----------------------------------------------------------------------------
(* Reading an answer                                                         *)

(* What a batch concludes of a recipient from the refusals the message       *)
(* centre quotes: a recipient it calls accepted was taken, and one it calls  *)
(* refused was not (match_refusals).                                         *)
LEMMA ReadingIsTrue ==
  ASSUME live \in Seq(Recipients),
         NEW refused \in [ToSet(live) -> {"taken", "busy", "fatal"}],
         NEW spelling \in {"own", "other"}, NEW twice \in BOOLEAN,
         NEW read, read = ReadRefusals(live, Quoted(refused, spelling, twice))
  PROVE  /\ read \in [Recipients -> Reports]
         /\ \A r \in ToSet(live) : /\ read[r] = "accepted" => refused[r] = "taken"
                                   /\ read[r] \in {"busy", "fatal"} => refused[r] # "taken"
         /\ \A r \in Recipients : read[r] \in {"accepted", "busy", "fatal", "unanswered"}
<1> DEFINE bad   == {r \in ToSet(live) : refused[r] # "taken"}
           names == SetToSeq(bad)
           n     == Cardinality(bad)
           list  == [i \in DOMAIN names |->
                       [number |-> IF spelling = "own" THEN NumberOf[names[i]] ELSE Garbled,
                        status |-> refused[names[i]]]]
           quote == Quoted(refused, spelling, twice)
<1>1. /\ names \in [1 .. n -> bad] /\ n \in Nat
      /\ \A x \in bad : \E i \in 1 .. n : names[i] = x
  <2>1. IsFiniteSet(bad)
    BY ListIsFinite, FS_Subset
  <2> HIDE DEF bad
  <2> QED BY <2>1, SetAsSequence
<1>2. quote = IF twice /\ list # <<>> THEN Append(list, Head(list)) ELSE list
  BY Zenon DEF Quoted
<1>3. \A x \in bad : x \in ToSet(live) /\ refused[x] \in {"busy", "fatal"}
  OBVIOUS
<1> HIDE DEF names, bad, n
<1>4. DOMAIN names = 1 .. n /\ \A i \in 1 .. n : names[i] \in bad
  BY <1>1
<1>5. /\ list \in Seq([number : {NumberOf[r] : r \in bad} \cup {Garbled}, status : {"busy", "fatal"}])
      /\ Len(list) = n /\ DOMAIN list = 1 .. n
      /\ \A i \in 1 .. n :
           /\ list[i].status = refused[names[i]]
           /\ list[i].number = IF spelling = "own" THEN NumberOf[names[i]] ELSE Garbled
  BY <1>1, <1>3, <1>4
<1> HIDE DEF list
(* Every refusal quoted is one of the list.                                  *)
<1>6. /\ DOMAIN quote = 1 .. Len(quote) /\ Len(quote) \in Nat /\ Len(quote) >= n
      /\ \A i \in 1 .. n : quote[i] = list[i]
      /\ \A k \in DOMAIN quote : \E i \in 1 .. n : quote[k] = list[i]
  <2>1. CASE twice /\ list # <<>>
    <3>1. n > 0 /\ Head(list) = list[1]
      BY <1>1, <1>5, <2>1, EmptySeq, HeadTailProperties
    <3>2. /\ quote = Append(list, list[1]) /\ Len(quote) = n + 1 /\ DOMAIN quote = 1 .. n + 1
          /\ \A i \in 1 .. n : quote[i] = list[i]
          /\ quote[n + 1] = list[1]
      BY <1>1, <1>2, <1>5, <2>1, <3>1
    <3> HIDE DEF quote
    <3>3. \A k \in 1 .. n + 1 : k \in 1 .. n \/ k = n + 1
      BY <1>1
    <3>4. \A k \in DOMAIN quote : \E i \in 1 .. n : quote[k] = list[i]
      <4> SUFFICES ASSUME NEW k \in 1 .. n + 1 PROVE \E i \in 1 .. n : quote[k] = list[i]
        BY <3>2
      <4>1. 1 \in 1 .. n
        BY <1>1, <3>1
      <4> QED BY <3>2, <3>3, <4>1
    <3>5. Len(quote) \in Nat /\ Len(quote) >= n
      BY <1>1, <3>2
    <3> QED BY <3>2, <3>4, <3>5, Zenon
  <2>2. CASE ~(twice /\ list # <<>>)
    <3>1. quote = list
      BY <1>2, <2>2
    <3> QED BY <1>1, <1>5, <3>1
  <2> QED BY <2>1, <2>2
<1> HIDE DEF quote
<1>7. read = [r \in Recipients |->
                IF ~Attributed(live, quote) THEN "unanswered"
                ELSE IF RefusedWith(live, quote, r) = {} THEN "accepted"
                ELSE CHOOSE s \in RefusedWith(live, quote, r) : TRUE]
  BY DEF ReadRefusals, quote
<1>8. \A k \in DOMAIN quote : quote[k].status \in {"busy", "fatal"}
  BY <1>3, <1>4, <1>5, <1>6
<1>9. \A r \in Recipients : RefusedWith(live, quote, r) \subseteq {"busy", "fatal"}
  BY <1>8 DEF RefusedWith
<1>10. ASSUME NEW r \in Recipients
       PROVE  /\ read[r] \in {"accepted", "busy", "fatal", "unanswered"}
              /\ read[r] = "accepted" => Attributed(live, quote) /\ RefusedWith(live, quote, r) = {}
              /\ read[r] \in {"busy", "fatal"} => Attributed(live, quote) /\ RefusedWith(live, quote, r) # {}
  <2>1. read[r] = IF ~Attributed(live, quote) THEN "unanswered"
                  ELSE IF RefusedWith(live, quote, r) = {} THEN "accepted"
                  ELSE CHOOSE s \in RefusedWith(live, quote, r) : TRUE
    BY <1>7
  <2>2. RefusedWith(live, quote, r) # {} =>
          (CHOOSE s \in RefusedWith(live, quote, r) : TRUE) \in {"busy", "fatal"}
    BY <1>9
  <2> QED BY <2>1, <2>2
(* A spelling no destination has is attributed to nobody.                    *)
<1>11. ASSUME Attributed(live, quote), NEW i \in 1 .. n
       PROVE  spelling = "own" /\ list[i].number = NumberOf[names[i]]
  <2>1. i \in DOMAIN quote /\ quote[i] = list[i]
    BY <1>1, <1>6
  <2>2. PICK j \in DOMAIN live : Naming(live, quote[i].number) = {j}
    BY <1>11, <2>1 DEF Attributed
  <2>3. NumberOf[live[j]] = list[i].number
    BY <2>1, <2>2 DEF Naming
  <2>4. live[j] \in Recipients
    OBVIOUS
  <2>5. list[i].number # Garbled
    BY <2>3, <2>4, BatchAssumption
  <2> QED BY <1>5, <2>5
<1>12. ASSUME NEW r \in ToSet(live), read[r] = "accepted" PROVE refused[r] = "taken"
  <2>1. r \in Recipients
    BY DEF ToSet
  <2>2. Attributed(live, quote) /\ RefusedWith(live, quote, r) = {}
    BY <1>10, <1>12, <2>1
  <2>3. CASE r \in bad
    <3>1. PICK i \in 1 .. n : names[i] = r
      BY <1>1, <2>3
    <3>2. quote[i].number = NumberOf[r] /\ i \in DOMAIN quote
      BY <1>1, <1>6, <1>11, <2>2, <3>1
    <3> QED BY <2>2, <3>2 DEF RefusedWith
  <2> QED BY <2>3 DEF bad
(* The number of a refusal names one destination: the one it was quoted for. *)
<1>13. ASSUME NEW r \in ToSet(live), read[r] \in {"busy", "fatal"} PROVE refused[r] # "taken"
  <2>1. r \in Recipients
    BY DEF ToSet
  <2>2. Attributed(live, quote) /\ RefusedWith(live, quote, r) # {}
    BY <1>10, <1>13, <2>1
  <2>3. PICK k \in DOMAIN quote : NumberOf[r] = quote[k].number
    BY <2>2 DEF RefusedWith
  <2>4. PICK i \in 1 .. n : quote[k] = list[i]
    BY <1>6
  <2>5. NumberOf[r] = NumberOf[names[i]] /\ names[i] \in bad
    BY <1>4, <1>11, <2>2, <2>3, <2>4
  <2>6. PICK j \in DOMAIN live : Naming(live, NumberOf[r]) = {j}
    BY <2>2, <2>3 DEF Attributed
  <2>7. PICK p \in DOMAIN live : live[p] = r
    BY DEF ToSet
  <2>8. PICK q \in DOMAIN live : live[q] = names[i]
    BY <1>3, <2>5 DEF ToSet
  <2>9. p = j /\ q = j
    BY <2>5, <2>6, <2>7, <2>8 DEF Naming
  <2> QED BY <2>5, <2>7, <2>8, <2>9 DEF bad
<1> QED
  <2>1. read \in [Recipients -> Reports]
    <3>1. \A r \in Recipients : read[r] \in Reports
      BY <1>10 DEF Reports
    <3> QED BY <1>7, <3>1
  <2> QED BY <1>10, <1>12, <1>13, <2>1
-----------------------------------------------------------------------------
(* Rows                                                                      *)

OpenStates == {"QUEUED", "SENT"}

LEMMA RowsAre ==
  /\ QueuedRow \in Rows /\ QueuedRow.state = "QUEUED" /\ NoRow.state = "NONE"
  /\ \A row \in Rows \cup {NoRow} :
       /\ row.state = "NONE" => row = NoRow
       /\ row # NoRow => row \in Rows
       /\ row.answered \in BOOLEAN
<1>1. /\ NoRow.state = "NONE" /\ NoRow.answered = FALSE
      /\ QueuedRow.state = "QUEUED" /\ "NONE" \notin RowStates
  BY DEF QueuedRow, NoRow, RowStates, Alive, Terminal
<1>2. "QUEUED" \in RowStates /\ FALSE \in BOOLEAN /\ 0 \in Nat
  BY DEF RowStates, Alive
<1>3. QueuedRow \in Rows
  BY <1>2, Zenon DEF QueuedRow, Rows
<1>4. \A row \in Rows : row.state \in RowStates /\ row.answered \in BOOLEAN
  BY Zenon DEF Rows
<1> QED BY <1>1, <1>2, <1>3, <1>4, Zenon

(* An open row takes any update that does not take it back, and keeps the    *)
(* status it had (messages.rs apply_update).                                 *)
LEMMA UpdateIs ==
  ASSUME NEW row \in Rows, row.state \in OpenStates, NEW s \in {"SENT", "ACCEPTED", "FAILED"},
         NEW answered \in BOOLEAN, NEW n \in Nat
  PROVE  LET now == ApplyUpdate(row, Update(s, answered, n))
         IN  now \in Rows /\ now.state = s /\ (row.answered => now.answered)
<1> DEFINE now == ApplyUpdate(row, Update(s, answered, n))
           flag == row.answered \/ answered
           most == Larger(row.attempts, n)
<1>1. row.state \in RowStates /\ row.answered \in BOOLEAN /\ row.attempts \in Nat
  BY DEF Rows
<1>2. CanMoveTo(row.state, s) /\ s \in RowStates
  BY DEF CanMoveTo, Rank, RowStates, Alive, Terminal, OpenStates
<1>3. most \in Nat /\ flag \in BOOLEAN /\ (row.answered => flag)
  <2>1. most \in Nat
    BY <1>1 DEF Larger
  <2>2. flag \in BOOLEAN /\ (row.answered => flag)
    BY <1>1, Zenon
  <2> QED BY <2>1, <2>2
<1>4. now = [state |-> s, answered |-> flag, attempts |-> most]
  BY <1>2, Zenon DEF ApplyUpdate, Update
<1> HIDE DEF now, flag, most
<1>5. now \in Rows /\ now.state = s /\ now.answered = flag
  BY <1>2, <1>3, <1>4 DEF Rows
<1>6. now \in Rows /\ now.state = s /\ (row.answered => now.answered)
  BY <1>3, <1>5, Zenon
<1> QED BY <1>6, Zenon DEF now

(* What is journalled of a report.                                           *)
LEMMA VerdictIs ==
  ASSUME TypeOK, NEW r \in Reports
  PROVE  \E s \in {"SENT", "ACCEPTED", "FAILED"}, answered \in BOOLEAN :
           /\ VerdictUpdate(r) = Update(s, answered, 0)
           /\ s = "ACCEPTED" <=> r = "accepted"
<1>1. Status(r) \in BOOLEAN /\ TRUE \in BOOLEAN
  BY DEF Status
<1>2. CASE r = "accepted"
  <2>1. VerdictUpdate(r) = Update("ACCEPTED", TRUE, 0)
    <3>1. ~Retryable(r)
      BY <1>2 DEF Retryable
    <3> QED BY <1>2, <3>1, Zenon DEF VerdictUpdate
  <2> QED BY <1>1, <1>2, <2>1
<1>3. CASE r # "accepted"
  <2>1. VerdictUpdate(r) \in {Update("SENT", Status(r), 0), Update("FAILED", Status(r), 0)}
    BY <1>3 DEF VerdictUpdate
  <2> QED BY <1>1, <1>3, <2>1
<1> QED BY <1>2, <1>3

(* The attempts of some recipients, and their verdicts.                      *)
LEMMA MarkedAre ==
  ASSUME TypeOK, NEW who \in SUBSET Recipients, \A r \in who : journal[r].state \in OpenStates
  PROVE  /\ AttemptOf(journal, who) \in [Recipients -> Rows \cup {NoRow}]
         /\ \A r \in Recipients \ who : AttemptOf(journal, who)[r] = journal[r]
         /\ \A r \in who : /\ AttemptOf(journal, who)[r].state = "SENT"
                           /\ journal[r].answered => AttemptOf(journal, who)[r].answered
<1>1. calls \in Nat /\ journal \in [Recipients -> Rows \cup {NoRow}]
  BY DEF TypeOK, CallTypeOK
<1>2. ASSUME NEW r \in who
      PROVE  LET now == ApplyUpdate(journal[r], Update("SENT", FALSE, calls))
             IN  now \in Rows /\ now.state = "SENT" /\ (journal[r].answered => now.answered)
  <2>1. journal[r] \in Rows
    BY <1>1, <1>2, RowsAre DEF OpenStates
  <2> QED BY <1>1, <2>1, UpdateIs
<1> QED BY <1>1, <1>2 DEF AttemptOf

LEMMA SettledAre ==
  ASSUME TypeOK, NEW who \in SUBSET Recipients, \A r \in who : journal[r].state \in OpenStates
  PROVE  /\ Settled(journal, who) \in [Recipients -> Rows \cup {NoRow}]
         /\ \A r \in Recipients \ who : Settled(journal, who)[r] = journal[r]
         /\ \A r \in who : /\ Settled(journal, who)[r].state \in {"SENT", "ACCEPTED", "FAILED"}
                           /\ Settled(journal, who)[r].state = "ACCEPTED" <=> report[r] = "accepted"
<1>1. report \in [Recipients -> Reports] /\ journal \in [Recipients -> Rows \cup {NoRow}]
  BY DEF TypeOK
<1>2. ASSUME NEW r \in who
      PROVE  LET now == ApplyUpdate(journal[r], VerdictUpdate(report[r]))
             IN  /\ now \in Rows /\ now.state \in {"SENT", "ACCEPTED", "FAILED"}
                 /\ now.state = "ACCEPTED" <=> report[r] = "accepted"
  <2>1. journal[r] \in Rows
    BY <1>1, <1>2, RowsAre DEF OpenStates
  <2>2. PICK s \in {"SENT", "ACCEPTED", "FAILED"}, answered \in BOOLEAN :
          VerdictUpdate(report[r]) = Update(s, answered, 0) /\ (s = "ACCEPTED" <=> report[r] = "accepted")
    BY <1>1, <1>2, VerdictIs
  <2> QED BY <2>1, <2>2, UpdateIs
<1> QED BY <1>1, <1>2 DEF Settled

(* A row in the way is left, or resumed: then it is open, and if somebody    *)
(* may have had the message the row says a status or the call counts it.     *)
LEMMA AdmissionIs ==
  ASSUME TypeOK, NEW r \in Recipients
  PROVE  /\ Admitted(r).kind = "skip" => journal[r].state \notin {"NONE", "QUEUED"}
         /\ Admitted(r).kind = "resume" =>
              /\ journal[r].state \in OpenStates
              /\ journal[r].state = "QUEUED" \/ journal[r].answered \/ Admitted(r).unanswered
BY DEF TypeOK, Admitted, Admission, Fresh, Skip, Resume, OpenStates, Rows, NoRow, RowStates, Alive, Terminal

-----------------------------------------------------------------------------
(* The invariant                                                             *)

(* Where a recipient of the call stands: nothing done for it yet; open in    *)
(* the journal and safe to send; with its attempt written; with an answer,   *)
(* which says what was taken; with its line of the report.                   *)
Untouched(r) == slots[r] = Pending /\ copies[r] = before[r]
Known(r)     == copies[r] > 0 => r \in counted \/ journal[r].answered = TRUE
Ready(r)     == Untouched(r) /\ journal[r].state \in OpenStates /\ Known(r)
Sendable(r)  == Ready(r) /\ journal[r].state = "SENT"

Answered(r) ==
  /\ journal[r].state = "SENT" /\ copies[r] \in {before[r], before[r] + 1}
  /\ report[r] = "accepted" => copies[r] = before[r] + 1
  /\ report[r] \notin {"accepted", "unanswered"} => copies[r] = before[r]

Reported(r) ==
  /\ copies[r] \in {before[r], before[r] + 1}
  /\ slots[r] = "accepted" => copies[r] = before[r] + 1
  /\ slots[r] \in {"rejected", "not_emitted", "present"} => copies[r] = before[r]
  /\ journal[r].state \notin {"NONE", "QUEUED"}

MultiPhases == {"insert", "attempts", "submit", "verdicts"}
OnePhases   == {"each", "attempt", "send", "verdict"}

(* While the recipients of the call are handled together.                    *)
MultiInv ==
  phase \in MultiPhases =>
    /\ ListOf(live, ToSet(live))
    /\ \A r \in ToSet(Order) :
         r \in ToSet(live) \/ (phase = "insert" /\ r \in ToSet(todo)) \/ Reported(r)
    /\ phase = "insert" =>
         /\ ListOf(todo, ToSet(todo)) /\ ToSet(todo) \cap ToSet(live) = {}
         /\ \A r \in ToSet(todo) : Untouched(r)
         /\ Len(live) + Len(todo) <= MaxDestinations
    /\ phase \in {"insert", "attempts"} => \A r \in ToSet(live) : Ready(r)
    /\ phase = "submit" => \A r \in ToSet(live) : Sendable(r)
    /\ phase = "verdicts" => \A r \in ToSet(live) : Answered(r)

(* While they are handled one at a time: the one in hand, and the others.    *)
InHand == IF phase = "each" THEN {} ELSE {Me}

OneInv ==
  phase \in OnePhases =>
    /\ ListOf(todo, ToSet(todo))
    /\ \A r \in ToSet(Order) : r \in ToSet(todo) \/ Reported(r)
    /\ \A r \in ToSet(todo) \ InHand : Untouched(r) /\ (again => Ready(r))
    /\ phase = "attempt" => Ready(Me)
    /\ phase = "send" => Sendable(Me)
    /\ phase = "verdict" => Answered(Me)

(* A call that runs has no result, and one that reported has a line for      *)
(* each of its recipients.                                                   *)
EndInv ==
  /\ phase # "idle" => result = "none"
  /\ result = "reported" => \A r \in ToSet(Order) : Reported(r)

(* Nothing was taken that the journal has not marked (write_ahead).          *)
MarkedBefore == \A r \in Recipients : copies[r] > 0 => journal[r].state \notin {"NONE", "QUEUED"}

AllInv == TypeOK /\ MultiInv /\ OneInv /\ EndInv /\ MarkedBefore
(* A recipient nothing was done for stands where it stood.                   *)
LEMMA Stands ==
  ASSUME NEW r \in Recipients, slots'[r] = slots[r], copies'[r] = copies[r], before' = before,
         journal'[r] = journal[r], counted \subseteq counted'
  PROVE  /\ Untouched(r) => Untouched(r)'
         /\ Ready(r) => Ready(r)'
         /\ Sendable(r) => Sendable(r)'
         /\ Reported(r) => Reported(r)'
BY DEF Untouched, Known, Ready, Sendable, Reported

LEMMA OrderIs == ASSUME TypeOK PROVE Order \in Seq(Recipients) /\ ToSet(Order) \subseteq Recipients
<1>1. Order \in Orders
  BY DEF TypeOK, CallTypeOK, Settings, Order
<1>2. Order \in Seq(Recipients)
  BY <1>1, BatchAssumption
<1> QED BY <1>2 DEF ToSet

LEMMA MembersAre == ASSUME NEW q \in Seq(Recipients) PROVE ToSet(q) \in SUBSET Recipients
BY DEF ToSet

LEMMA PhasesAre ==
  /\ MultiPhases \cup OnePhases \cup {"idle"} = Phases
  /\ MultiPhases \cap OnePhases = {} /\ "idle" \notin MultiPhases \cup OnePhases
BY DEF MultiPhases, OnePhases, Phases

(* A call that ends without a report leaves nothing to say of it.            *)
LEMMA EndsQuietly ==
  ASSUME TypeOK', MarkedBefore', phase' = "idle", result' # "reported"
  PROVE  AllInv'
BY PhasesAre DEF AllInv, MultiInv, OneInv, EndInv

LEMMA BlankIs ==
  ASSUME Blank
  PROVE  /\ live' = <<>> /\ again' = FALSE /\ counted' = {} /\ written' = TRUE
         /\ report' \in [Recipients -> Reports] /\ slots' \in [Recipients -> Outcomes]
         /\ \A r \in Recipients : slots'[r] = Pending
BY DEF Blank, Reports, Outcomes, Pending

LEMMA NobodyIsListed == ListOf(<<>>, {}) /\ ToSet(<<>>) = {} /\ Len(<<>>) = 0 /\ <<>> \in Seq(Recipients)
<1>1. ListOf(<<>>, {})
  BY EmptyList
<1> QED BY <1>1 DEF ListOf

LEMMA InitAll == ASSUME Init PROVE AllInv
<1>1. PICK o \in Orders :
        batch = [order |-> o, enabled |-> TRUE, foreign |-> FALSE, parts |-> 1, last |-> TRUE]
  BY DEF Init
<1>2. batch \in Settings
  BY <1>1 DEF Settings
<1>3. /\ calls = 0 /\ phase = "idle" /\ todo = <<>> /\ live = <<>> /\ again = FALSE
      /\ report = [r \in Recipients |-> "unanswered"] /\ slots = [r \in Recipients |-> Pending]
      /\ counted = {} /\ written = TRUE /\ latch = "unknown" /\ result = "none"
      /\ journal = [r \in Recipients |-> NoRow]
      /\ before = [r \in Recipients |-> 0] /\ copies = [r \in Recipients |-> 0]
  BY DEF Init
<1>4. CallTypeOK
  <2>1. /\ batch \in Settings /\ calls \in Nat /\ phase \in Phases /\ again \in BOOLEAN
        /\ phase \notin {"insert", "attempt", "send", "verdict"}
    BY <1>2, <1>3 DEF Phases
  <2>2. todo \in Seq(Recipients) /\ live \in Seq(Recipients) /\ Len(live) <= MaxDestinations
    BY <1>3, NobodyIsListed, BatchAssumption
  <2> QED BY <2>1, <2>2 DEF CallTypeOK
<1>5. TypeOK
  BY <1>3, <1>4 DEF TypeOK, Reports, Outcomes, Pending
<1>6. MarkedBefore
  BY <1>3 DEF MarkedBefore
<1> QED BY <1>3, <1>5, <1>6, PhasesAre DEF AllInv, MultiInv, OneInv, EndInv

LEMMA StartStep == ASSUME AllInv, Start PROVE AllInv'
<1>1. /\ phase = "idle" /\ batch' \in Settings /\ calls' = calls + 1
      /\ todo' = batch'.order /\ before' = copies /\ Blank
      /\ UNCHANGED <<latch, journal, copies>>
      /\ \/ phase' = "idle" /\ result' = "refused"
         \/ phase' = "each" /\ result' = "none" /\ ~WrongSize(Len(batch'.order))
         \/ phase' = "insert" /\ result' = "none" /\ ~WrongSize(Len(batch'.order))
  BY DEF Start, Ends
<1>2. TypeOK /\ MarkedBefore
  BY DEF AllInv
<1>3. batch'.order \in Orders
  BY <1>1 DEF Settings
<1>4. todo' \in Seq(Recipients) /\ IsInjective(todo')
  BY <1>1, <1>3, BatchAssumption
<1>5. ListOf(todo', ToSet(todo')) /\ ToSet(todo') \in SUBSET Recipients
  BY <1>4, MembersAre DEF ListOf
<1>6. /\ live' = <<>> /\ again' = FALSE /\ counted' = {} /\ written' = TRUE
      /\ report' \in [Recipients -> Reports] /\ slots' \in [Recipients -> Outcomes]
      /\ \A r \in Recipients : slots'[r] = Pending
  BY <1>1, BlankIs
<1>7. phase' # "idle" => todo' # <<>> /\ Len(live') + Len(todo') <= MaxDestinations
  <2> SUFFICES ASSUME phase' # "idle" PROVE todo' # <<>> /\ 0 + Len(todo') <= MaxDestinations
    BY <1>6, NobodyIsListed
  <2> DEFINE n == Len(todo')
  <2>1. n \in Nat /\ n # 0 /\ ~(n > MaxDestinations) /\ MaxDestinations \in Nat
    BY <1>1, <1>4, BatchAssumption DEF WrongSize
  <2>2. todo' # <<>>
    BY <2>1, NobodyIsListed
  <2> HIDE DEF n
  <2>3. 0 + n <= MaxDestinations
    BY <2>1
  <2> QED BY <2>2, <2>3 DEF n
<1>8. CallTypeOK'
  <2>1. Len(live') <= MaxDestinations
    BY <1>6, NobodyIsListed, BatchAssumption
  <2>2. calls' \in Nat
    BY <1>1, <1>2 DEF TypeOK, CallTypeOK
  <2>3. phase' \in {"idle", "each", "insert"}
    BY <1>1
  <2> QED BY <1>1, <1>4, <1>6, <1>7, <2>1, <2>2, <2>3, NobodyIsListed DEF CallTypeOK, Phases
<1>9. TypeOK'
  <2>1. result' \in {"none", "reported", "refused", "store_failed", "killed"}
    BY <1>1
  <2>2. counted' \in SUBSET Recipients /\ written' \in BOOLEAN
    BY <1>6
  <2> QED BY <1>1, <1>2, <1>6, <1>8, <2>1, <2>2 DEF TypeOK
<1>10. MarkedBefore'
  BY <1>1, <1>2 DEF MarkedBefore
<1>11. \A r \in Recipients : Untouched(r)'
  BY <1>1, <1>6 DEF Untouched
<1>12. CASE phase' = "idle"
  BY <1>1, <1>9, <1>10, <1>12, EndsQuietly
<1>13. CASE phase' = "insert"
  <2>1. ListOf(live', ToSet(live')) /\ ToSet(live') = {}
    BY <1>6, NobodyIsListed
  <2>2. ToSet(Order') = ToSet(todo') /\ ToSet(todo') \subseteq Recipients
    BY <1>1, <1>5 DEF Order
  <2>3. Len(live') + Len(todo') <= MaxDestinations
    BY <1>7, <1>13
  <2>4. MultiInv'
    BY <1>5, <1>11, <1>13, <2>1, <2>2, <2>3 DEF MultiInv
  <2> QED BY <1>1, <1>9, <1>10, <1>13, <2>4, PhasesAre DEF AllInv, OneInv, EndInv, MultiPhases, OnePhases
<1>14. CASE phase' = "each"
  <2>1. ToSet(Order') = ToSet(todo') /\ ToSet(todo') \subseteq Recipients
    BY <1>1, <1>5 DEF Order
  <2>2. OneInv'
    BY <1>5, <1>6, <1>11, <1>14, <2>1 DEF OneInv, InHand
  <2> QED BY <1>1, <1>9, <1>10, <1>14, <2>2, PhasesAre DEF AllInv, MultiInv, EndInv, MultiPhases, OnePhases
<1> QED BY <1>1, <1>12, <1>13, <1>14

LEMMA FailStep == ASSUME AllInv, StoreFailure \/ Kill PROVE AllInv'
<1>1. /\ phase' = "idle" /\ result' \in {"store_failed", "killed"} /\ Blank /\ todo' = <<>>
      /\ latch' \in {latch, "unknown"} /\ UNCHANGED <<callVars, journal, centreVars>>
  BY DEF StoreFailure, Kill, Ends
<1>2. TypeOK /\ MarkedBefore
  BY DEF AllInv
<1>3. /\ live' = <<>> /\ again' = FALSE /\ counted' = {} /\ written' = TRUE
      /\ report' \in [Recipients -> Reports] /\ slots' \in [Recipients -> Outcomes]
  BY <1>1, BlankIs
<1>4. CallTypeOK'
  <2>1. /\ batch' \in Settings /\ calls' \in Nat /\ phase' \in Phases /\ again' \in BOOLEAN
        /\ phase' \notin {"insert", "attempt", "send", "verdict"}
    BY <1>1, <1>2, <1>3 DEF TypeOK, CallTypeOK, callVars, Phases
  <2>2. todo' \in Seq(Recipients) /\ live' \in Seq(Recipients) /\ Len(live') <= MaxDestinations
    BY <1>1, <1>3, NobodyIsListed, BatchAssumption
  <2> QED BY <2>1, <2>2 DEF CallTypeOK
<1>5. TypeOK'
  BY <1>1, <1>2, <1>3, <1>4 DEF TypeOK, callVars, centreVars
<1>6. MarkedBefore'
  BY <1>1, <1>2 DEF MarkedBefore, centreVars
<1> QED BY <1>1, <1>5, <1>6, EndsQuietly
-----------------------------------------------------------------------------
(* One submit_multi for all                                                  *)

(* What admit and the insert leave of the one they are about.                *)
LEMMA AdmitsIs ==
  ASSUME TypeOK, NEW r \in Recipients, Untouched(r), Admits(r), UNCHANGED <<journal, centreVars>>,
         copies[r] > 0 => journal[r].state \notin {"NONE", "QUEUED"}
  PROVE  /\ Ready(r)' /\ slots' = slots
         /\ counted \subseteq counted' /\ counted' \in SUBSET Recipients
<1>1. /\ Admitted(r).kind = "resume" /\ counted' = counted \cup AtRisk(r) /\ slots' = slots
      /\ journal' = journal /\ copies' = copies /\ before' = before
  BY DEF Admits, centreVars
<1>2. /\ journal[r].state \in OpenStates
      /\ journal[r].state = "QUEUED" \/ journal[r].answered \/ Admitted(r).unanswered
  BY <1>1, AdmissionIs
<1>3. counted \in SUBSET Recipients /\ AtRisk(r) \subseteq {r}
  BY DEF TypeOK, AtRisk
<1>4. Admitted(r).unanswered => r \in AtRisk(r)
  BY DEF AtRisk
<1>5. copies[r] > 0 => r \in counted' \/ journal[r].answered = TRUE
  <2>1. journal[r].answered \in BOOLEAN
    BY RowsAre DEF TypeOK
  <2>2. copies[r] > 0 => journal[r].answered \/ Admitted(r).unanswered
    BY <1>2, Zenon
  <2>3. Admitted(r).unanswered => r \in counted'
    BY <1>1, <1>4
  <2> QED BY <2>1, <2>2, <2>3, Zenon
<1> QED BY <1>1, <1>2, <1>3, <1>5 DEF Ready, Known, Untouched

LEMMA LeavesIs ==
  ASSUME TypeOK, NEW r \in Recipients, Untouched(r), Leaves(r), UNCHANGED <<journal, centreVars>>
  PROVE  /\ Reported(r)' /\ counted' = counted /\ slots' \in [Recipients -> Outcomes]
         /\ \A x \in Recipients : x # r => slots'[x] = slots[x]
<1>1. /\ Admitted(r).kind = "skip" /\ slots' = [slots EXCEPT ![r] = "present"] /\ counted' = counted
      /\ journal' = journal /\ copies' = copies /\ before' = before
  BY DEF Leaves, centreVars
<1>2. journal[r].state \notin {"NONE", "QUEUED"}
  BY <1>1, AdmissionIs
<1>3. slots \in [Recipients -> Outcomes] /\ "present" \in Outcomes
  BY DEF TypeOK, Outcomes
<1> QED BY <1>1, <1>2, <1>3 DEF Reported, Untouched

LEMMA FreshIs ==
  ASSUME TypeOK, MarkedBefore, NEW r \in Recipients, Untouched(r), journal[r] = NoRow,
         journal' = [journal EXCEPT ![r] = QueuedRow], UNCHANGED <<slots, counted, centreVars>>
  PROVE  /\ Ready(r)' /\ journal' \in [Recipients -> Rows \cup {NoRow}]
         /\ \A x \in Recipients : x # r => journal'[x] = journal[x]
<1>1. journal \in [Recipients -> Rows \cup {NoRow}]
  BY DEF TypeOK
<1>2. journal'[r] = QueuedRow /\ \A x \in Recipients : x # r => journal'[x] = journal[x]
  BY <1>1
<1>3. ~(copies[r] > 0)
  BY RowsAre DEF MarkedBefore
<1>4. journal' \in [Recipients -> Rows \cup {NoRow}]
  BY <1>1, RowsAre
<1> QED BY <1>2, <1>3, <1>4, RowsAre DEF Ready, Known, Untouched, centreVars, OpenStates

(* The rows that are left alone stay as marked as they were.                 *)
LEMMA StaysMarked ==
  ASSUME MarkedBefore, copies' = copies,
         \A r \in Recipients : journal'[r] # journal[r] =>
           copies[r] = 0 \/ journal'[r].state \notin {"NONE", "QUEUED"}
  PROVE  MarkedBefore'
<1> SUFFICES ASSUME NEW r \in Recipients, copies[r] > 0
             PROVE  journal'[r].state \notin {"NONE", "QUEUED"}
  BY DEF MarkedBefore
<1>1. journal[r].state \notin {"NONE", "QUEUED"}
  BY DEF MarkedBefore
<1>2. copies[r] # 0
  OBVIOUS
<1> QED BY <1>1, <1>2

LEMMA InsertStep == ASSUME AllInv, InsertRow PROVE AllInv'
<1>1. TypeOK /\ MarkedBefore /\ MultiInv /\ EndInv /\ phase = "insert" /\ phase \in MultiPhases
  BY DEF AllInv, InsertRow, MultiPhases
<1>2. /\ ListOf(live, ToSet(live)) /\ ListOf(todo, ToSet(todo)) /\ ToSet(todo) \cap ToSet(live) = {}
      /\ \A r \in ToSet(Order) : r \in ToSet(live) \/ r \in ToSet(todo) \/ Reported(r)
      /\ \A r \in ToSet(todo) : Untouched(r)
      /\ Len(live) + Len(todo) <= MaxDestinations
      /\ \A r \in ToSet(live) : Ready(r)
  BY <1>1 DEF MultiInv
<1>3. /\ todo # <<>> /\ todo \in Seq(Recipients) /\ live \in Seq(Recipients) /\ result = "none"
      /\ batch \in Settings /\ calls \in Nat /\ again \in BOOLEAN
      /\ report \in [Recipients -> Reports] /\ slots \in [Recipients -> Outcomes]
      /\ counted \in SUBSET Recipients /\ journal \in [Recipients -> Rows \cup {NoRow}]
      /\ before \in [Recipients -> Nat] /\ copies \in [Recipients -> Nat]
  BY <1>1 DEF TypeOK, CallTypeOK, EndInv
<1>m. PICK m \in Recipients : m = Me
  BY <1>2, <1>3, TailList DEF Me
<1>4. /\ m \in ToSet(todo) /\ ListOf(Tail(todo), ToSet(Tail(todo)))
      /\ ToSet(Tail(todo)) = ToSet(todo) \ {m}
  <2>1. ListOf(Tail(todo), ToSet(todo) \ {m}) /\ m \in ToSet(todo)
    BY <1>2, <1>3, <1>m, TailList DEF Me
  <2> QED BY <2>1 DEF ListOf
<1>5. /\ todo' = Tail(todo) /\ UNCHANGED <<callVars, again, report, written, latch, centreVars>>
      /\ \/ todo' # <<>> /\ phase' = "insert" /\ result' = result
         \/ todo' = <<>> /\ live' = <<>> /\ phase' = "idle" /\ result' = "reported"
         \/ todo' = <<>> /\ live' # <<>> /\ phase' = "attempts" /\ result' = result
  BY <1>1 DEF InsertRow, Ends
<1>6. UNCHANGED <<batch, calls, before, copies>>
  BY <1>5 DEF callVars, centreVars
(* Either the one in hand joins the live ones, ready, or it has its line.    *)
<1>7. /\ counted \subseteq counted' /\ counted' \in SUBSET Recipients
      /\ slots' \in [Recipients -> Outcomes] /\ journal' \in [Recipients -> Rows \cup {NoRow}]
      /\ \A x \in Recipients : x # m => slots'[x] = slots[x] /\ journal'[x] = journal[x]
      /\ \/ live' = Append(live, m) /\ Ready(m)'
         \/ live' = live /\ Reported(m)'
      /\ journal'[m] = journal[m] \/ copies[m] = 0
  <2>1. Untouched(m) /\ (copies[m] > 0 => journal[m].state \notin {"NONE", "QUEUED"})
    BY <1>1, <1>2, <1>4 DEF MarkedBefore
  <2>2. CASE /\ journal[m] = NoRow /\ journal' = [journal EXCEPT ![m] = QueuedRow]
             /\ live' = Append(live, m) /\ UNCHANGED <<slots, counted>>
    <3>0. UNCHANGED <<slots, counted, centreVars>>
      BY <1>5, <2>2
    <3>1. /\ Ready(m)' /\ journal' \in [Recipients -> Rows \cup {NoRow}]
          /\ \A x \in Recipients : x # m => journal'[x] = journal[x]
      BY <1>1, <2>1, <2>2, <3>0, FreshIs
    <3>2. copies[m] = 0
      BY <1>3, <1>4, <2>1, <2>2, RowsAre
    <3> QED BY <1>3, <2>2, <3>1, <3>2
  <2>3. CASE Admits(m) /\ live' = Append(live, m) /\ UNCHANGED journal
    <3>1. /\ Ready(m)' /\ slots' = slots /\ counted \subseteq counted' /\ counted' \in SUBSET Recipients
      BY <1>1, <1>4, <1>6, <2>1, <2>3, <1>5, AdmitsIs
    <3> QED BY <1>3, <2>3, <3>1
  <2>4. CASE Leaves(m) /\ UNCHANGED <<live, journal>>
    <3>1. /\ Reported(m)' /\ counted' = counted /\ slots' \in [Recipients -> Outcomes]
          /\ \A x \in Recipients : x # m => slots'[x] = slots[x]
      BY <1>1, <1>4, <1>6, <2>1, <2>4, <1>5, LeavesIs
    <3> QED BY <1>3, <2>4, <3>1
  <2> QED BY <1>1, <1>m, <2>2, <2>3, <2>4 DEF InsertRow
<1>9. /\ ListOf(live', ToSet(live')) /\ ToSet(live') \subseteq ToSet(live) \cup {m}
      /\ ToSet(live) \subseteq ToSet(live')
      /\ (live' = Append(live, m) => m \in ToSet(live') /\ Len(live') = Len(live) + 1)
  <2>1. CASE live' = live
    <3>1. live # Append(live, m)
      <4>1. Len(Append(live, m)) = Len(live) + 1 /\ Len(live) \in Nat
        BY <1>3, <1>4, AppendProperties
      <4> QED BY <4>1
    <3> QED BY <1>2, <2>1, <3>1
  <2>2. CASE live' = Append(live, m)
    <3>1. ListOf(live', ToSet(live) \cup {m})
      BY <1>2, <1>4, <2>2, AppendList
    <3>2. Len(live') = Len(live) + 1
      BY <1>3, <1>4, <2>2, AppendProperties
    <3> QED BY <3>1, <3>2 DEF ListOf
  <2> QED BY <1>7, <2>1, <2>2
<1>10. Len(live') + Len(todo') <= MaxDestinations /\ Len(live') <= MaxDestinations
  <2> DEFINE a == Len(live)  b == Len(todo)  c == Len(live')  d == Len(todo')
  <2>1. a \in Nat /\ b \in Nat /\ d = b - 1 /\ b > 0 /\ (c = a \/ c = a + 1) /\ a + b <= MaxDestinations
        /\ MaxDestinations \in Nat
    <3>1. b \in Nat /\ d = b - 1
      BY <1>3, <1>5, HeadTailProperties
    <3>2. b # 0
      BY <1>3, EmptySeq
    <3>3. c = a \/ c = a + 1
      BY <1>7, <1>9
    <3> QED BY <1>2, <1>3, <3>1, <3>2, <3>3, BatchAssumption
  <2> HIDE DEF a, b, c, d
  <2>2. c + d <= MaxDestinations /\ c <= MaxDestinations
    BY <2>1
  <2> QED BY <2>2 DEF c, d
<1>11. TypeOK'
  <2>1. /\ phase' \in {"insert", "idle", "attempts"} /\ (phase' = "insert" => todo' # <<>>)
        /\ result' \in {"none", "reported"}
    BY <1>3, <1>5
  <2>2. todo' \in Seq(Recipients) /\ live' \in Seq(Recipients)
    BY <1>4, <1>5, <1>9 DEF ListOf
  <2>3. CallTypeOK'
    BY <1>3, <1>5, <1>6, <1>10, <2>1, <2>2 DEF CallTypeOK, Phases
  <2> QED BY <1>1, <1>3, <1>5, <1>6, <1>7, <2>1, <2>3 DEF TypeOK
<1>12. MarkedBefore'
  BY <1>1, <1>6, <1>7, StaysMarked
<1>13. \A r \in ToSet(live') : Ready(r)'
  <2> SUFFICES ASSUME NEW r \in ToSet(live') PROVE Ready(r)'
    OBVIOUS
  <2>1. CASE r = m
    <3>1. m \notin ToSet(live)
      BY <1>2, <1>4
    <3>2. live' # live
      BY <2>1, <3>1
    <3> QED BY <1>7, <2>1, <3>2
  <2>2. CASE r # m
    <3>1. r \in ToSet(live) /\ r \in Recipients
      BY <1>3, <1>9, <2>2, MembersAre
    <3>2. Ready(r)
      BY <1>2, <3>1
    <3> QED BY <1>6, <1>7, <2>2, <3>1, <3>2, Stands
  <2> QED BY <2>1, <2>2
<1>14. \A r \in ToSet(todo') : Untouched(r)' /\ r \notin ToSet(live')
  <2> SUFFICES ASSUME NEW r \in ToSet(todo') PROVE Untouched(r)' /\ r \notin ToSet(live')
    OBVIOUS
  <2>1. r \in ToSet(todo) /\ r # m /\ r \in Recipients
    BY <1>3, <1>4, <1>5, MembersAre
  <2>2. Untouched(r)
    BY <1>2, <2>1
  <2>3. Untouched(r)'
    BY <1>6, <1>7, <2>1, <2>2, Stands
  <2> QED BY <1>2, <1>9, <2>1, <2>3
<1>15. \A r \in ToSet(Order') : r \in ToSet(live') \/ r \in ToSet(todo') \/ Reported(r)'
  <2> SUFFICES ASSUME NEW r \in ToSet(Order) PROVE r \in ToSet(live') \/ r \in ToSet(todo') \/ Reported(r)'
    BY <1>6 DEF Order
  <2>1. r \in Recipients
    BY <1>1, OrderIs
  <2>2. CASE r = m
    BY <1>7, <1>9, <2>2
  <2>3. CASE r # m
    <3>1. Reported(r) => Reported(r)'
      BY <1>6, <1>7, <2>1, <2>3, Stands
    <3>2. r \in ToSet(live) \/ r \in ToSet(todo) \/ Reported(r)
      BY <1>2
    <3> QED BY <1>4, <1>5, <1>9, <2>3, <3>1, <3>2
  <2> QED BY <2>2, <2>3
<1>16. CASE phase' = "insert"
  <2>1. MultiInv'
    BY <1>4, <1>5, <1>9, <1>10, <1>13, <1>14, <1>15, <1>16 DEF MultiInv
  <2> QED BY <1>3, <1>5, <1>11, <1>12, <1>16, <2>1 DEF AllInv, OneInv, EndInv, OnePhases
<1>17. CASE phase' = "attempts"
  <2>1. todo' = <<>>
    BY <1>5, <1>17
  <2>2. MultiInv'
    BY <1>9, <1>13, <1>15, <1>17, <2>1, NobodyIsListed DEF MultiInv
  <2> QED BY <1>3, <1>5, <1>11, <1>12, <1>17, <2>2 DEF AllInv, OneInv, EndInv, OnePhases
<1>18. CASE phase' = "idle"
  <2>1. todo' = <<>> /\ live' = <<>>
    BY <1>5, <1>18
  <2>2. \A r \in ToSet(Order') : Reported(r)'
    BY <1>15, <2>1, NobodyIsListed
  <2> QED BY <1>11, <1>12, <1>18, <2>2 DEF AllInv, MultiInv, OneInv, EndInv, MultiPhases, OnePhases
<1> QED BY <1>5, <1>16, <1>17, <1>18

LEMMA AttemptsStep == ASSUME AllInv, MarkAttempts PROVE AllInv'
<1>1. /\ TypeOK /\ MarkedBefore /\ MultiInv /\ EndInv /\ phase = "attempts" /\ phase' = "submit"
      /\ journal' = AttemptOf(journal, ToSet(live))
      /\ UNCHANGED <<callVars, todo, live, again, report, slotVars, latch, result, centreVars>>
  BY DEF AllInv, MarkAttempts, MarkedRows
<1>2. /\ ListOf(live, ToSet(live)) /\ ToSet(live) \in SUBSET Recipients
      /\ \A r \in ToSet(Order) : r \in ToSet(live) \/ Reported(r)
      /\ \A r \in ToSet(live) : Ready(r)
      /\ ToSet(Order) \subseteq Recipients
  BY <1>1, MembersAre, OrderIs DEF MultiInv, MultiPhases, ListOf
<1>3. UNCHANGED <<batch, calls, slots, counted, written, before, copies>>
  BY <1>1 DEF callVars, slotVars, centreVars
<1>4. \A r \in ToSet(live) : journal[r].state \in OpenStates
  BY <1>2 DEF Ready
<1>5. /\ journal' \in [Recipients -> Rows \cup {NoRow}]
      /\ \A r \in Recipients \ ToSet(live) : journal'[r] = journal[r]
      /\ \A r \in ToSet(live) : /\ journal'[r].state = "SENT"
                                /\ journal[r].answered => journal'[r].answered
  BY <1>1, <1>2, <1>4, MarkedAre
<1>6. TypeOK'
  <2>1. CallTypeOK'
    BY <1>1, <1>3 DEF TypeOK, CallTypeOK, Phases
  <2> QED BY <1>1, <1>3, <1>5, <2>1 DEF TypeOK
<1>7. MarkedBefore'
  <2>1. \A r \in Recipients : journal'[r] # journal[r] => journal'[r].state = "SENT"
    BY <1>5
  <2> QED BY <1>1, <1>3, <2>1, StaysMarked
<1>8. ASSUME NEW r \in ToSet(live) PROVE Sendable(r)'
  <2>1. Ready(r) /\ journal'[r].state = "SENT" /\ (journal[r].answered => journal'[r].answered)
    BY <1>2, <1>5
  <2>2. journal[r].answered \in BOOLEAN /\ journal'[r].answered \in BOOLEAN
    BY <1>2, <1>5, RowsAre DEF TypeOK, AllInv
  <2>3. journal[r].answered = TRUE => journal'[r].answered = TRUE
    BY <2>1, <2>2, Zenon
  <2> QED BY <1>3, <2>1, <2>3 DEF Sendable, Ready, Untouched, Known, OpenStates
<1>9. ASSUME NEW r \in ToSet(Order) PROVE r \in ToSet(live) \/ Reported(r)'
  BY <1>2, <1>3, <1>5, Stands
<1>10. MultiInv'
  <2>1. ToSet(Order') = ToSet(Order) /\ live' = live
    BY <1>1, <1>3 DEF Order
  <2> QED BY <1>1, <1>2, <1>8, <1>9, <2>1 DEF MultiInv
<1> QED BY <1>1, <1>6, <1>7, <1>10 DEF AllInv, EndInv, OneInv, OnePhases

LEMMA TakenIs ==
  ASSUME TypeOK, NEW who \in SUBSET Recipients, copies' = Taken(who)
  PROVE  /\ copies' \in [Recipients -> Nat]
         /\ \A r \in Recipients : copies'[r] = (IF r \in who THEN copies[r] + 1 ELSE copies[r])
BY DEF Taken, TypeOK

(* What an answer to a submit_multi leaves, whatever it is.                  *)
AnswerIsRead ==
  /\ copies' \in [Recipients -> Nat] /\ report' \in [Recipients -> Reports]
  /\ latch' \in {"unknown", "supported", "unsupported"}
  /\ \A r \in Recipients : copies'[r] # copies[r] => r \in ToSet(live)
  /\ \A r \in ToSet(live) :
       /\ copies'[r] \in {copies[r], copies[r] + 1}
       /\ report'[r] = "accepted" => copies'[r] = copies[r] + 1
       /\ report'[r] \notin {"accepted", "unanswered"} => copies'[r] = copies[r]

LEMMA AnswerRead ==
  ASSUME TypeOK, MultiAnswered
  PROVE  AnswerIsRead
<1>0. ToSet(live) \in SUBSET Recipients /\ live \in Seq(Recipients)
  BY MembersAre DEF TypeOK, CallTypeOK
<1>1. copies \in [Recipients -> Nat] /\ latch \in {"unknown", "supported", "unsupported"}
  BY DEF TypeOK
<1>2. CASE /\ report' \in {Everyone("busy"), Everyone("fatal"), Everyone("unbound"), Everyone("barred")}
           /\ UNCHANGED <<copies, latch>>
  <2>1. PICK w \in {"busy", "fatal", "unbound", "barred"} : report' = [r \in Recipients |-> w]
    BY <1>2 DEF Everyone
  <2>2. report' \in [Recipients -> Reports] /\ \A r \in Recipients : report'[r] = w
    BY <2>1 DEF Reports
  <2> QED BY <1>0, <1>1, <1>2, <2>2 DEF AnswerIsRead
<1>3. CASE /\ \E who \in {{}, ToSet(live)} : copies' = Taken(who)
           /\ report' = Everyone("unanswered") /\ UNCHANGED latch
  <2>1. PICK who \in {{}, ToSet(live)} : copies' = Taken(who)
    BY <1>3
  <2>2. who \in SUBSET Recipients /\ who \subseteq ToSet(live)
    BY <1>0
  <2>3. /\ copies' \in [Recipients -> Nat]
        /\ \A r \in Recipients : copies'[r] = (IF r \in who THEN copies[r] + 1 ELSE copies[r])
    BY <2>1, <2>2, TakenIs
  <2>4. report' \in [Recipients -> Reports] /\ \A r \in Recipients : report'[r] = "unanswered"
    BY <1>3 DEF Everyone, Reports
  <2> QED BY <1>0, <1>1, <1>3, <2>2, <2>3, <2>4 DEF AnswerIsRead
<1>4. ASSUME NEW refused \in [ToSet(live) -> {"taken", "busy", "fatal"}],
             NEW spelling \in {"own", "other"}, NEW twice \in BOOLEAN,
             copies' = Taken({r \in ToSet(live) : refused[r] = "taken"}),
             report' = ReadRefusals(live, Quoted(refused, spelling, twice)),
             latch' \in {"supported", "unsupported"}
      PROVE  AnswerIsRead
  <2>1. PICK who \in SUBSET ToSet(live) : who = {r \in ToSet(live) : refused[r] = "taken"}
    OBVIOUS
  <2>2. /\ copies' \in [Recipients -> Nat]
        /\ \A r \in Recipients : copies'[r] = (IF r \in who THEN copies[r] + 1 ELSE copies[r])
    BY <1>0, <1>4, <2>1, TakenIs
  <2>3. /\ report' \in [Recipients -> Reports]
        /\ \A r \in ToSet(live) : /\ report'[r] = "accepted" => refused[r] = "taken"
                                  /\ report'[r] \in {"busy", "fatal"} => refused[r] # "taken"
        /\ \A r \in Recipients : report'[r] \in {"accepted", "busy", "fatal", "unanswered"}
    BY <1>0, <1>4, ReadingIsTrue
  <2>4. \A r \in ToSet(live) :
          /\ copies'[r] \in {copies[r], copies[r] + 1}
          /\ report'[r] = "accepted" => copies'[r] = copies[r] + 1
          /\ report'[r] \notin {"accepted", "unanswered"} => copies'[r] = copies[r]
    <3> SUFFICES ASSUME NEW r \in ToSet(live)
                 PROVE  /\ copies'[r] \in {copies[r], copies[r] + 1}
                        /\ report'[r] = "accepted" => copies'[r] = copies[r] + 1
                        /\ report'[r] \notin {"accepted", "unanswered"} => copies'[r] = copies[r]
      OBVIOUS
    <3>1. /\ r \in Recipients /\ (r \in who <=> refused[r] = "taken")
          /\ copies'[r] = (IF r \in who THEN copies[r] + 1 ELSE copies[r])
      BY <1>0, <2>1, <2>2
    <3>2. report'[r] \in {"accepted", "busy", "fatal", "unanswered"}
      BY <2>3, <3>1
    <3> QED BY <2>3, <3>1, <3>2
  <2>5. \A r \in Recipients : copies'[r] # copies[r] => r \in ToSet(live)
    BY <2>1, <2>2
  <2> QED BY <1>4, <2>2, <2>3, <2>4, <2>5 DEF AnswerIsRead
<1>5. CASE \E refused \in [ToSet(live) -> {"taken", "busy", "fatal"}] :
           \E spelling \in {"own", "other"}, twice \in BOOLEAN :
             LET refusals == Quoted(refused, spelling, twice)
             IN  /\ copies' = Taken({r \in ToSet(live) : refused[r] = "taken"})
                 /\ report' = ReadRefusals(live, refusals)
                 /\ latch' = IF Attributed(live, refusals) THEN "supported" ELSE "unsupported"
  <2>1. PICK refused \in [ToSet(live) -> {"taken", "busy", "fatal"}],
             spelling \in {"own", "other"}, twice \in BOOLEAN :
          /\ copies' = Taken({r \in ToSet(live) : refused[r] = "taken"})
          /\ report' = ReadRefusals(live, Quoted(refused, spelling, twice))
          /\ latch' \in {"supported", "unsupported"}
    BY <1>5, Zenon
  <2> QED BY <1>4, <2>1
<1> QED BY <1>2, <1>3, <1>5 DEF MultiAnswered

LEMMA SubmitStep == ASSUME AllInv, SubmitMulti PROVE AllInv'
<1>1. /\ TypeOK /\ MarkedBefore /\ MultiInv /\ EndInv /\ phase = "submit"
      /\ UNCHANGED <<callVars, live, slotVars, result, journal, before>>
      /\ MultiAnswered \/ MultiUnknown
  BY DEF AllInv, SubmitMulti
<1>2. /\ ListOf(live, ToSet(live)) /\ ToSet(live) \in SUBSET Recipients /\ live \in Seq(Recipients)
      /\ \A r \in ToSet(Order) : r \in ToSet(live) \/ Reported(r)
      /\ \A r \in ToSet(live) : Sendable(r)
      /\ ToSet(Order) \subseteq Recipients
  BY <1>1, MembersAre, OrderIs DEF MultiInv, MultiPhases, ListOf
<1>3. UNCHANGED <<batch, calls, live, slots, counted, written, result, journal, before>>
  BY <1>1 DEF callVars, slotVars
<1>4. ToSet(Order') = ToSet(Order)
  BY <1>3 DEF Order
<1>5. CASE MultiUnknown
  <2>1. /\ phase' = "each" /\ todo' = live /\ again' = TRUE /\ latch' = "unsupported"
        /\ UNCHANGED <<copies, report>>
    BY <1>5 DEF MultiUnknown
  <2>2. TypeOK'
    <3>1. CallTypeOK'
      BY <1>1, <1>2, <1>3, <2>1 DEF TypeOK, CallTypeOK, Phases
    <3> QED BY <1>1, <1>3, <2>1, <3>1 DEF TypeOK
  <2>3. MarkedBefore'
    BY <1>1, <1>3, <2>1 DEF MarkedBefore
  <2>4. ASSUME NEW r \in ToSet(live) PROVE Untouched(r)' /\ Ready(r)'
    <3>1. Ready(r) /\ Untouched(r) /\ r \in Recipients
      BY <1>2 DEF Sendable, Ready
    <3> QED BY <1>3, <2>1, <3>1, Stands
  <2>5. ASSUME NEW r \in ToSet(Order) PROVE r \in ToSet(live) \/ Reported(r)'
    BY <1>2, <1>3, <2>1, Stands
  <2>6. OneInv'
    BY <1>2, <1>4, <2>1, <2>4, <2>5 DEF OneInv, InHand
  <2> QED BY <1>1, <1>3, <2>1, <2>2, <2>3, <2>6 DEF AllInv, EndInv, MultiInv, MultiPhases
<1>6. CASE MultiAnswered
  <2>1. phase' = "verdicts" /\ UNCHANGED <<todo, again>>
    BY <1>6 DEF MultiAnswered
  <2>2. AnswerIsRead
    BY <1>1, <1>6, AnswerRead
  <2>3. TypeOK'
    <3>1. CallTypeOK'
      BY <1>1, <1>3, <2>1 DEF TypeOK, CallTypeOK, Phases
    <3> QED BY <1>1, <1>3, <2>2, <3>1 DEF TypeOK, AnswerIsRead
  <2>4. MarkedBefore'
    <3> SUFFICES ASSUME NEW r \in Recipients, copies'[r] > 0
                 PROVE  journal[r].state \notin {"NONE", "QUEUED"}
      BY <1>3 DEF MarkedBefore
    <3>1. CASE r \in ToSet(live)
      BY <1>2, <3>1 DEF Sendable
    <3>2. CASE r \notin ToSet(live)
      <4>1. copies'[r] = copies[r]
        BY <2>2, <3>2 DEF AnswerIsRead
      <4> QED BY <1>1, <4>1 DEF MarkedBefore
    <3> QED BY <3>1, <3>2
  <2>5. ASSUME NEW r \in ToSet(live) PROVE Answered(r)'
    <3>1. Sendable(r)
      BY <1>2
    <3>2. copies[r] = before[r] /\ journal[r].state = "SENT"
      BY <3>1 DEF Sendable, Ready, Untouched
    <3> QED BY <1>3, <2>2, <3>2 DEF Answered, AnswerIsRead
  <2>6. ASSUME NEW r \in ToSet(Order) PROVE r \in ToSet(live) \/ Reported(r)'
    <3>1. CASE r \notin ToSet(live)
      <4>1. r \in Recipients /\ copies'[r] = copies[r] /\ Reported(r)
        BY <1>2, <2>2, <3>1 DEF AnswerIsRead
      <4> QED BY <1>3, <4>1, Stands
    <3> QED BY <3>1
  <2>7. MultiInv'
    BY <1>2, <1>3, <1>4, <2>1, <2>5, <2>6 DEF MultiInv
  <2> QED BY <1>1, <1>3, <2>1, <2>3, <2>4, <2>7 DEF AllInv, EndInv, OneInv, OnePhases
<1> QED BY <1>1, <1>5, <1>6

(* A report that is written is true: what was answered is what the outcome   *)
(* says, of a submit_multi and of a submit_sm.                               *)
LEMMA OutcomeIsTrue ==
  ASSUME NEW r \in Recipients, Answered(r), UNCHANGED <<copies, before>>,
         slots'[r] \in {MultiOutcome(report[r]), UnitOutcome(report[r])},
         journal'[r].state \notin {"NONE", "QUEUED"}
  PROVE  Reported(r)'
<1>1. slots'[r] = "accepted" => report[r] = "accepted"
  BY DEF MultiOutcome, UnitOutcome
<1>2. slots'[r] # "present"
  BY DEF MultiOutcome, UnitOutcome
<1>3. slots'[r] \in {"rejected", "not_emitted"} => report[r] \notin {"accepted", "unanswered"}
  BY DEF MultiOutcome, UnitOutcome
<1> QED BY <1>1, <1>2, <1>3 DEF Answered, Reported

LEMMA OutcomesAre == \A r \in Reports : MultiOutcome(r) \in Outcomes /\ UnitOutcome(r) \in Outcomes
BY DEF MultiOutcome, UnitOutcome, Outcomes, Reports

LEMMA VerdictsStep == ASSUME AllInv, JournalVerdicts PROVE AllInv'
<1>1. /\ TypeOK /\ MarkedBefore /\ MultiInv /\ EndInv /\ phase = "verdicts"
      /\ journal' = Settled(journal, ToSet(live)) \/ journal' = journal
      /\ written' \in {written, FALSE}
      /\ slots' = [r \in Recipients |-> IF r \in ToSet(live) THEN MultiOutcome(report[r]) ELSE slots[r]]
      /\ phase' = "idle" /\ result' = "reported"
      /\ UNCHANGED <<callVars, todo, live, again, report, counted, latch, centreVars>>
  BY DEF AllInv, JournalVerdicts, Ends
<1>2. /\ ToSet(live) \in SUBSET Recipients
      /\ \A r \in ToSet(Order) : r \in ToSet(live) \/ Reported(r)
      /\ \A r \in ToSet(live) : Answered(r)
      /\ ToSet(Order) \subseteq Recipients
  BY <1>1, MembersAre, OrderIs DEF MultiInv, MultiPhases, ListOf
<1>3. UNCHANGED <<batch, calls, before, copies>>
  BY <1>1 DEF callVars, centreVars
<1>4. \A r \in ToSet(live) : journal[r].state \in OpenStates
  BY <1>2 DEF Answered, OpenStates
<1>5. /\ journal' \in [Recipients -> Rows \cup {NoRow}]
      /\ \A r \in Recipients \ ToSet(live) : journal'[r] = journal[r]
      /\ \A r \in ToSet(live) : journal'[r].state \notin {"NONE", "QUEUED"}
  <2>1. CASE journal' = Settled(journal, ToSet(live))
    BY <1>1, <1>2, <1>4, <2>1, SettledAre
  <2>2. CASE journal' = journal
    BY <1>1, <1>2, <2>2 DEF TypeOK, Answered
  <2> QED BY <1>1, <2>1, <2>2
<1>6. slots' \in [Recipients -> Outcomes]
  <2>1. report \in [Recipients -> Reports] /\ slots \in [Recipients -> Outcomes]
    BY <1>1 DEF TypeOK
  <2> QED BY <1>1, <2>1, OutcomesAre
<1>7. TypeOK'
  <2>1. CallTypeOK'
    BY <1>1, <1>3 DEF TypeOK, CallTypeOK, Phases
  <2> QED BY <1>1, <1>3, <1>5, <1>6, <2>1 DEF TypeOK
<1>8. MarkedBefore'
  <2>1. \A r \in Recipients : journal'[r] # journal[r] => journal'[r].state \notin {"NONE", "QUEUED"}
    BY <1>5
  <2> QED BY <1>1, <1>3, <2>1, StaysMarked
<1>9. ASSUME NEW r \in ToSet(Order) PROVE Reported(r)'
  <2>1. r \in Recipients
    BY <1>2
  <2>2. CASE r \in ToSet(live)
    <3>1. slots'[r] = MultiOutcome(report[r]) /\ Answered(r) /\ journal'[r].state \notin {"NONE", "QUEUED"}
      BY <1>1, <1>2, <1>5, <2>1, <2>2
    <3> QED BY <1>3, <2>1, <3>1, OutcomeIsTrue
  <2>3. CASE r \notin ToSet(live)
    <3>1. slots'[r] = slots[r] /\ journal'[r] = journal[r] /\ Reported(r) /\ counted' = counted
      BY <1>1, <1>2, <1>5, <2>1, <2>3
    <3> QED BY <1>3, <2>1, <3>1, Stands
  <2> QED BY <2>2, <2>3
<1>10. EndInv'
  BY <1>1, <1>3, <1>9 DEF EndInv, Order
<1> QED BY <1>1, <1>7, <1>8, <1>10 DEF AllInv, MultiInv, OneInv, MultiPhases, OnePhases

-----------------------------------------------------------------------------
(* One submit_sm each                                                        *)

(* What the one in hand and those after it have while a list is walked.      *)
LEMMA WalkIs ==
  ASSUME AllInv, phase \in OnePhases, NEW m, m = Me, todo # <<>>
  PROVE  /\ m \in ToSet(todo) /\ m \in Recipients
         /\ ToSet(todo) \in SUBSET Recipients /\ ToSet(Order) \in SUBSET Recipients
         /\ ListOf(todo, ToSet(todo)) /\ ListOf(Tail(todo), ToSet(Tail(todo)))
         /\ ToSet(Tail(todo)) = ToSet(todo) \ {m}
         /\ \A r \in ToSet(todo) : r # m => Untouched(r) /\ (again => Ready(r))
         /\ \A r \in ToSet(Order) : r \in ToSet(todo) \/ Reported(r)
<1>1. TypeOK /\ OneInv
  BY DEF AllInv
<1>2. /\ ListOf(todo, ToSet(todo)) /\ todo \in Seq(Recipients)
      /\ \A r \in ToSet(todo) \ InHand : Untouched(r) /\ (again => Ready(r))
      /\ \A r \in ToSet(Order) : r \in ToSet(todo) \/ Reported(r)
  BY <1>1 DEF OneInv, ListOf
<1>3. ListOf(Tail(todo), ToSet(todo) \ {m}) /\ m \in ToSet(todo) /\ m \in Recipients
  BY <1>2, TailList DEF Me
<1>4. InHand \subseteq {m}
  BY DEF InHand
<1> QED BY <1>1, <1>2, <1>3, <1>4, MembersAre, OrderIs DEF ListOf

(* A step of the one in hand leaves the others where they stand.             *)
OthersStand(m) ==
  /\ \A r \in Recipients : r # m =>
       slots'[r] = slots[r] /\ copies'[r] = copies[r] /\ journal'[r] = journal[r]
  /\ counted \subseteq counted' /\ before' = before /\ again' = again /\ batch' = batch

LEMMA WalkStands ==
  ASSUME AllInv, phase \in OnePhases, NEW m, m = Me, todo # <<>>, OthersStand(m)
  PROVE  /\ \A r \in ToSet(todo) : r # m => Untouched(r)' /\ (again' => Ready(r)')
         /\ \A r \in ToSet(Order') : r = m \/ r \in ToSet(todo) \/ Reported(r)'
<1>1. /\ ToSet(todo) \in SUBSET Recipients /\ ToSet(Order) \in SUBSET Recipients
      /\ \A r \in ToSet(todo) : r # m => Untouched(r) /\ (again => Ready(r))
      /\ \A r \in ToSet(Order) : r \in ToSet(todo) \/ Reported(r)
  BY WalkIs
<1>2. ASSUME NEW r \in ToSet(todo), r # m PROVE Untouched(r)' /\ (again' => Ready(r)')
  <2>1. r \in Recipients /\ Untouched(r) /\ (again => Ready(r)) /\ again' = again
    BY <1>1, <1>2 DEF OthersStand
  <2>2. (Untouched(r) => Untouched(r)') /\ (Ready(r) => Ready(r)')
    BY <1>2, <2>1, Stands DEF OthersStand
  <2> QED BY <2>1, <2>2
<1>3. ASSUME NEW r \in ToSet(Order) PROVE r = m \/ r \in ToSet(todo) \/ Reported(r)'
  <2>1. CASE r # m /\ r \notin ToSet(todo)
    BY <1>1, <1>3, <2>1, Stands DEF OthersStand
  <2> QED BY <2>1
<1>4. ToSet(Order') = ToSet(Order)
  BY DEF OthersStand, Order
<1> QED BY <1>2, <1>3, <1>4

(* The one in hand stays in hand.                                            *)
LEMMA HandStands ==
  ASSUME AllInv, phase \in OnePhases, NEW m, m = Me, todo # <<>>, OthersStand(m),
         TypeOK', MarkedBefore', result' = result, todo' = todo,
         phase' \in {"attempt", "send", "verdict"},
         phase' = "attempt" => Ready(m)', phase' = "send" => Sendable(m)',
         phase' = "verdict" => Answered(m)'
  PROVE  AllInv'
<1>1. ListOf(todo, ToSet(todo)) /\ m \in ToSet(todo)
  BY WalkIs
<1>2. /\ \A r \in ToSet(todo) : r # m => Untouched(r)' /\ (again' => Ready(r)')
      /\ \A r \in ToSet(Order') : r = m \/ r \in ToSet(todo) \/ Reported(r)'
  BY WalkStands
<1>3. Me' = m /\ InHand' = {m}
  BY DEF Me, InHand
<1>4. OneInv'
  BY <1>1, <1>2, <1>3 DEF OneInv
<1>5. EndInv'
  BY PhasesAre DEF EndInv, AllInv
<1> QED BY <1>4, <1>5 DEF AllInv, MultiInv, MultiPhases

(* The one in hand has its line, and the next one is taken.                  *)
LEMMA HandIsDone ==
  ASSUME AllInv, phase \in OnePhases, NEW m, m = Me, todo # <<>>, OthersStand(m),
         TypeOK', MarkedBefore', result' = result, todo' = Tail(todo), phase' = "each", Reported(m)'
  PROVE  AllInv'
<1>1. ListOf(Tail(todo), ToSet(Tail(todo))) /\ ToSet(Tail(todo)) = ToSet(todo) \ {m}
  BY WalkIs
<1>2. /\ \A r \in ToSet(todo) : r # m => Untouched(r)' /\ (again' => Ready(r)')
      /\ \A r \in ToSet(Order') : r = m \/ r \in ToSet(todo) \/ Reported(r)'
  BY WalkStands
<1>3. OneInv'
  BY <1>1, <1>2 DEF OneInv, InHand
<1>4. EndInv'
  BY PhasesAre DEF EndInv, AllInv
<1> QED BY <1>3, <1>4 DEF AllInv, MultiInv, MultiPhases

LEMMA BeginStep == ASSUME AllInv, BeginOne PROVE AllInv'
<1>1. /\ TypeOK /\ MarkedBefore /\ phase = "each" /\ phase \in OnePhases /\ todo # <<>>
      /\ UNCHANGED <<callVars, live, again, report, written, latch, centreVars>>
  BY DEF AllInv, BeginOne, OnePhases
<1>2. PICK m : m = Me
  OBVIOUS
<1>3. /\ m \in ToSet(todo) /\ m \in Recipients /\ ListOf(Tail(todo), ToSet(Tail(todo)))
      /\ ToSet(Tail(todo)) = ToSet(todo) \ {m}
  BY <1>1, <1>2, WalkIs
<1>4. /\ UNCHANGED <<batch, calls, before, copies, live, again, report, written, latch, centreVars>>
  BY <1>1 DEF callVars, centreVars
<1>5. Untouched(m) /\ (again => Ready(m))
  <2>1. InHand = {}
    BY <1>1 DEF InHand
  <2> QED BY <1>1, <1>3, <2>1 DEF AllInv, OneInv
<1>6. /\ batch \in Settings /\ calls \in Nat /\ again \in BOOLEAN /\ todo \in Seq(Recipients)
      /\ live \in Seq(Recipients) /\ Len(live) <= MaxDestinations
      /\ slots \in [Recipients -> Outcomes] /\ journal \in [Recipients -> Rows \cup {NoRow}]
      /\ counted \in SUBSET Recipients /\ Tail(todo) \in Seq(Recipients)
  BY <1>1, <1>3 DEF TypeOK, CallTypeOK, ListOf
<1>7. ASSUME slots' \in [Recipients -> Outcomes], journal' \in [Recipients -> Rows \cup {NoRow}],
             counted' \in SUBSET Recipients, result' \in {result, "refused"},
             \/ todo' = todo /\ phase' \in {"attempt", "idle"}
             \/ todo' = Tail(todo) /\ phase' = "each"
      PROVE  TypeOK'
  <2>1. CallTypeOK'
    BY <1>1, <1>4, <1>6, <1>7 DEF CallTypeOK, Phases
  <2> QED BY <1>1, <1>4, <1>7, <2>1 DEF TypeOK
<1>8. journal' = journal => MarkedBefore'
  BY <1>1, <1>4 DEF MarkedBefore
<1>9. CASE again /\ phase' = "attempt" /\ UNCHANGED <<todo, slots, counted, result, journal>>
  <2>1. OthersStand(m)
    BY <1>4, <1>9 DEF OthersStand
  <2>2. Ready(m)'
    BY <1>3, <1>4, <1>5, <1>9, Stands
  <2>3. TypeOK' /\ MarkedBefore'
    BY <1>6, <1>7, <1>8, <1>9
  <2> QED BY <1>1, <1>2, <1>9, <2>1, <2>2, <2>3, HandStands
<1>10. CASE Ends("refused") /\ UNCHANGED <<todo, slots, counted, journal>>
  <2>1. phase' = "idle" /\ result' = "refused"
    BY <1>10 DEF Ends
  <2>2. TypeOK' /\ MarkedBefore'
    BY <1>6, <1>7, <1>8, <1>10, <2>1
  <2> QED BY <2>1, <2>2, EndsQuietly
<1>11. CASE /\ journal[m] = NoRow /\ journal' = [journal EXCEPT ![m] = QueuedRow]
            /\ phase' = "attempt" /\ UNCHANGED <<todo, slots, counted, result>>
  <2>0. UNCHANGED <<slots, counted, centreVars>>
    BY <1>4, <1>11
  <2>1. /\ Ready(m)' /\ journal' \in [Recipients -> Rows \cup {NoRow}]
        /\ \A x \in Recipients : x # m => journal'[x] = journal[x]
    BY <1>1, <1>3, <1>5, <1>11, <2>0, FreshIs
  <2>2. OthersStand(m)
    BY <1>4, <1>11, <2>1 DEF OthersStand
  <2>3. TypeOK'
    BY <1>6, <1>7, <1>11, <2>1
  <2>4. MarkedBefore'
    <3>1. ~(copies[m] > 0) /\ copies[m] \in Nat
      BY <1>1, <1>3, <1>11, RowsAre DEF MarkedBefore, TypeOK
    <3> QED BY <1>1, <1>4, <2>1, <3>1, StaysMarked
  <2> QED BY <1>1, <1>2, <1>11, <2>1, <2>2, <2>3, <2>4, HandStands
<1>12. CASE Admits(m) /\ phase' = "attempt" /\ UNCHANGED <<todo, result, journal>>
  <2>0. UNCHANGED <<journal, centreVars>>
    BY <1>4, <1>12
  <2>1. /\ Ready(m)' /\ slots' = slots /\ counted \subseteq counted' /\ counted' \in SUBSET Recipients
    BY <1>1, <1>3, <1>5, <1>12, <2>0, AdmitsIs DEF MarkedBefore
  <2>2. OthersStand(m)
    BY <1>4, <1>12, <2>1 DEF OthersStand
  <2>3. TypeOK' /\ MarkedBefore'
    BY <1>6, <1>7, <1>8, <1>12, <2>1
  <2> QED BY <1>1, <1>2, <1>12, <2>1, <2>2, <2>3, HandStands
<1>13. CASE Leaves(m) /\ todo' = Tail(todo) /\ UNCHANGED <<phase, result, journal>>
  <2>0. UNCHANGED <<journal, centreVars>>
    BY <1>4, <1>13
  <2>1. /\ Reported(m)' /\ counted' = counted /\ slots' \in [Recipients -> Outcomes]
        /\ \A x \in Recipients : x # m => slots'[x] = slots[x]
    BY <1>1, <1>3, <1>5, <1>13, <2>0, LeavesIs
  <2>2. OthersStand(m)
    BY <1>4, <1>13, <2>1 DEF OthersStand
  <2>3. TypeOK' /\ MarkedBefore'
    BY <1>1, <1>6, <1>7, <1>8, <1>13, <2>1
  <2> QED BY <1>1, <1>2, <1>13, <2>1, <2>2, <2>3, HandIsDone
<1> QED BY <1>2, <1>9, <1>10, <1>11, <1>12, <1>13 DEF BeginOne

(* The types of a step of the one in hand.                                   *)
LEMMA HandType ==
  ASSUME TypeOK, todo # <<>>, UNCHANGED <<batch, calls, live, again, counted, latch, result, before>>,
         report' \in [Recipients -> Reports], slots' \in [Recipients -> Outcomes],
         journal' \in [Recipients -> Rows \cup {NoRow}], copies' \in [Recipients -> Nat],
         written' \in BOOLEAN,
         \/ todo' = todo /\ phase' \in {"attempt", "send", "verdict"}
         \/ todo' = Tail(todo) /\ Tail(todo) \in Seq(Recipients) /\ phase' = "each"
  PROVE  TypeOK'
<1>1. CallTypeOK'
  BY DEF TypeOK, CallTypeOK, Phases
<1> QED BY <1>1 DEF TypeOK

LEMMA MarkStep == ASSUME AllInv, MarkOne PROVE AllInv'
<1>1. /\ TypeOK /\ MarkedBefore /\ OneInv /\ phase = "attempt" /\ phase \in OnePhases
      /\ phase' = "send" /\ todo' = todo
      /\ UNCHANGED <<callVars, todo, live, again, report, slotVars, latch, result, centreVars>>
  BY DEF AllInv, MarkOne, OnePhases
<1>2. PICK m : m = Me
  OBVIOUS
<1>3. todo # <<>> /\ m \in Recipients /\ Ready(m)
  <2>1. todo # <<>> /\ Ready(Me)
    BY <1>1 DEF OneInv, TypeOK, CallTypeOK
  <2> QED BY <1>1, <1>2, <2>1, WalkIs
<1>4. UNCHANGED <<batch, calls, slots, counted, written, before, copies>>
  BY <1>1 DEF callVars, slotVars, centreVars
<1>5. /\ journal' \in [Recipients -> Rows \cup {NoRow}]
      /\ \A r \in Recipients : r # m => journal'[r] = journal[r]
      /\ journal'[m].state = "SENT" /\ (journal[m].answered => journal'[m].answered)
  <2>1. journal' = AttemptOf(journal, {m})
    BY <1>2 DEF MarkOne
  <2>2. {m} \in SUBSET Recipients /\ \A r \in {m} : journal[r].state \in OpenStates
    BY <1>3 DEF Ready
  <2> QED BY <1>1, <2>1, <2>2, MarkedAre
<1>6. TypeOK'
  <2>1. /\ report' \in [Recipients -> Reports] /\ slots' \in [Recipients -> Outcomes]
        /\ copies' \in [Recipients -> Nat] /\ written' \in BOOLEAN
    BY <1>1, <1>4 DEF TypeOK
  <2> QED BY <1>1, <1>3, <1>4, <1>5, <2>1, HandType
<1>7. MarkedBefore'
  BY <1>1, <1>4, <1>5, StaysMarked
<1>8. Sendable(m)'
  <2>1. journal[m].answered \in BOOLEAN /\ journal'[m].answered \in BOOLEAN
    BY <1>1, <1>3, <1>5, RowsAre DEF TypeOK
  <2>2. journal[m].answered = TRUE => journal'[m].answered = TRUE
    BY <1>5, <2>1, Zenon
  <2> QED BY <1>3, <1>4, <1>5, <2>2 DEF Sendable, Ready, Untouched, Known, OpenStates
<1>9. OthersStand(m)
  BY <1>1, <1>4, <1>5 DEF OthersStand
<1> QED BY <1>1, <1>2, <1>3, <1>6, <1>7, <1>8, <1>9, HandStands

LEMMA SubmitOneStep == ASSUME AllInv, SubmitOne PROVE AllInv'
<1>1. /\ TypeOK /\ MarkedBefore /\ OneInv /\ phase = "send" /\ phase \in OnePhases
      /\ phase' = "verdict" /\ todo' = todo
      /\ UNCHANGED <<callVars, todo, live, again, slotVars, latch, result, journal, before>>
  BY DEF AllInv, SubmitOne, OnePhases
<1>2. PICK m : m = Me
  OBVIOUS
<1>3. todo # <<>> /\ m \in Recipients /\ Sendable(m)
  <2>1. todo # <<>> /\ Sendable(Me)
    BY <1>1 DEF OneInv, TypeOK, CallTypeOK
  <2> QED BY <1>1, <1>2, <2>1, WalkIs
<1>4. UNCHANGED <<batch, calls, slots, counted, written, before, journal>>
  BY <1>1 DEF callVars, slotVars
<1>5. /\ report \in [Recipients -> Reports] /\ copies \in [Recipients -> Nat]
      /\ batch \in Settings /\ batch.parts \in 1 .. 2
  BY <1>1 DEF TypeOK, CallTypeOK, Settings
<1>6. PICK n \in 0 .. batch.parts, failure \in Reports \ {"accepted"} :
        /\ report' = [report EXCEPT ![m] = UnitReport(n, failure)]
        /\ \/ n = batch.parts /\ copies' = Taken({m})
           \/ n < batch.parts /\ copies' = copies
           \/ n = batch.parts - 1 /\ failure = "unanswered" /\ copies' = Taken({m})
  BY <1>2 DEF SubmitOne
<1>7. /\ report' \in [Recipients -> Reports]
      /\ report'[m] = (IF n = batch.parts THEN "accepted" ELSE failure)
  BY <1>3, <1>5, <1>6 DEF UnitReport, Reports
<1>8. /\ copies' \in [Recipients -> Nat] /\ copies'[m] \in {copies[m], copies[m] + 1}
      /\ \A r \in Recipients : r # m => copies'[r] = copies[r]
      /\ n = batch.parts => copies'[m] = copies[m] + 1
      /\ n # batch.parts /\ failure # "unanswered" => copies'[m] = copies[m]
  <2>1. {m} \in SUBSET Recipients
    BY <1>3
  <2>2. copies' = Taken({m}) =>
          /\ copies' \in [Recipients -> Nat] /\ copies'[m] = copies[m] + 1
          /\ \A r \in Recipients : r # m => copies'[r] = copies[r]
    BY <1>1, <1>3, <2>1, TakenIs
  <2>3. batch.parts \in Nat /\ ~(batch.parts < batch.parts) /\ batch.parts # batch.parts - 1
    BY <1>5
  <2> QED BY <1>5, <1>6, <2>2, <2>3
<1>9. TypeOK'
  <2>1. slots' \in [Recipients -> Outcomes] /\ journal' \in [Recipients -> Rows \cup {NoRow}]
        /\ written' \in BOOLEAN
    BY <1>1, <1>4 DEF TypeOK
  <2> QED BY <1>1, <1>3, <1>4, <1>7, <1>8, <2>1, HandType
<1>10. MarkedBefore'
  <2> SUFFICES ASSUME NEW r \in Recipients, copies'[r] > 0
               PROVE  journal[r].state \notin {"NONE", "QUEUED"}
    BY <1>4 DEF MarkedBefore
  <2>1. CASE r = m
    BY <1>3, <2>1 DEF Sendable
  <2>2. CASE r # m
    <3>1. copies'[r] = copies[r]
      BY <1>8, <2>2
    <3> QED BY <1>1, <3>1 DEF MarkedBefore
  <2> QED BY <2>1, <2>2
<1>11. Answered(m)'
  <2>1. copies[m] = before[m] /\ journal[m].state = "SENT"
    BY <1>3 DEF Sendable, Ready, Untouched
  <2> QED BY <1>4, <1>6, <1>7, <1>8, <2>1 DEF Answered
<1>12. OthersStand(m)
  BY <1>1, <1>4, <1>8 DEF OthersStand
<1> QED BY <1>1, <1>2, <1>3, <1>9, <1>10, <1>11, <1>12, HandStands

LEMMA VerdictOneStep == ASSUME AllInv, VerdictOne PROVE AllInv'
<1>1. /\ TypeOK /\ MarkedBefore /\ OneInv /\ phase = "verdict" /\ phase \in OnePhases
      /\ phase' = "each" /\ todo' = Tail(todo) /\ written' \in {written, FALSE}
      /\ UNCHANGED <<callVars, live, again, report, counted, latch, result, centreVars>>
  BY DEF AllInv, VerdictOne, OnePhases
<1>2. PICK m : m = Me
  OBVIOUS
<1>3. todo # <<>> /\ m \in Recipients /\ Answered(m) /\ Tail(todo) \in Seq(Recipients)
  <2>1. todo # <<>> /\ Answered(Me)
    BY <1>1 DEF OneInv, TypeOK, CallTypeOK
  <2> QED BY <1>1, <1>2, <2>1, WalkIs DEF ListOf
<1>4. UNCHANGED <<batch, calls, before, copies>>
  BY <1>1 DEF callVars, centreVars
<1>5. report \in [Recipients -> Reports] /\ slots \in [Recipients -> Outcomes]
      /\ journal \in [Recipients -> Rows \cup {NoRow}]
  BY <1>1 DEF TypeOK
<1>6. /\ journal' \in [Recipients -> Rows \cup {NoRow}]
      /\ \A r \in Recipients : r # m => journal'[r] = journal[r]
      /\ journal'[m].state \notin {"NONE", "QUEUED"}
  <2>1. CASE journal' = Settled(journal, {m})
    <3>1. {m} \in SUBSET Recipients /\ \A r \in {m} : journal[r].state \in OpenStates
      BY <1>3 DEF Answered, OpenStates
    <3> QED BY <1>1, <2>1, <3>1, SettledAre
  <2>2. CASE journal' = journal
    BY <1>3, <1>5, <2>2 DEF Answered
  <2> QED BY <1>2, <2>1, <2>2 DEF VerdictOne
<1>7. /\ slots' \in [Recipients -> Outcomes] /\ slots'[m] = UnitOutcome(report[m])
      /\ \A r \in Recipients : r # m => slots'[r] = slots[r]
  <2>1. slots' = [slots EXCEPT ![m] = UnitOutcome(report[m])]
    BY <1>2 DEF VerdictOne
  <2>2. UnitOutcome(report[m]) \in Outcomes
    BY <1>3, <1>5, OutcomesAre
  <2> QED BY <1>3, <1>5, <2>1, <2>2
<1>8. TypeOK'
  <2>1. report' \in [Recipients -> Reports] /\ copies' \in [Recipients -> Nat] /\ written' \in BOOLEAN
    BY <1>1, <1>4 DEF TypeOK
  <2> QED BY <1>1, <1>3, <1>4, <1>6, <1>7, <2>1, HandType
<1>9. MarkedBefore'
  BY <1>1, <1>4, <1>6, StaysMarked
<1>10. Reported(m)'
  BY <1>3, <1>4, <1>6, <1>7, OutcomeIsTrue
<1>11. OthersStand(m)
  BY <1>1, <1>4, <1>6, <1>7 DEF OthersStand
<1> QED BY <1>1, <1>2, <1>3, <1>8, <1>9, <1>10, <1>11, HandIsDone

LEMMA AllSentStep == ASSUME AllInv, AllSent PROVE AllInv'
<1>1. /\ TypeOK /\ MarkedBefore /\ OneInv /\ phase = "each" /\ phase \in OnePhases /\ todo = <<>>
      /\ phase' = "idle" /\ result' = "reported"
      /\ UNCHANGED <<callVars, todo, live, again, report, slotVars, latch, journal, centreVars>>
  BY DEF AllInv, AllSent, OnePhases, Ends
<1>2. UNCHANGED <<batch, calls, slots, counted, written, before, copies>>
  BY <1>1 DEF callVars, slotVars, centreVars
<1>3. \A r \in ToSet(Order) : Reported(r)
  BY <1>1, NobodyIsListed DEF OneInv
<1>4. ToSet(Order') = ToSet(Order) /\ ToSet(Order) \subseteq Recipients
  BY <1>1, <1>2, OrderIs DEF Order
<1>5. ASSUME NEW r \in ToSet(Order) PROVE Reported(r)'
  BY <1>1, <1>2, <1>3, <1>4, Stands
<1>6. TypeOK'
  <2>1. CallTypeOK'
    BY <1>1, <1>2 DEF TypeOK, CallTypeOK, Phases
  <2> QED BY <1>1, <1>2, <2>1 DEF TypeOK
<1>7. MarkedBefore'
  BY <1>1, <1>2 DEF MarkedBefore
<1>8. EndInv'
  BY <1>1, <1>4, <1>5 DEF EndInv
<1> QED BY <1>1, <1>6, <1>7, <1>8 DEF AllInv, MultiInv, OneInv, MultiPhases, OnePhases

-----------------------------------------------------------------------------
(* The theorems                                                              *)

LEMMA NextAll == ASSUME AllInv, [Next]_vars PROVE AllInv'
<1>1. CASE UNCHANGED vars
  <2>1. /\ UNCHANGED <<batch, calls, phase, todo, live, again, report, slots, counted>>
        /\ UNCHANGED <<written, latch, result, journal, before, copies>>
    BY <1>1 DEF vars, callVars, slotVars, centreVars
  <2>2. TypeOK' /\ MarkedBefore'
    BY <2>1 DEF AllInv, TypeOK, CallTypeOK, MarkedBefore
  <2>3. \A r \in ToSet(Order) \cup ToSet(live) \cup ToSet(todo) : r \in Recipients
    BY MembersAre, OrderIs DEF AllInv, TypeOK, CallTypeOK
  <2>4. MultiInv' /\ OneInv' /\ EndInv'
    BY <2>1 DEF AllInv, MultiInv, OneInv, EndInv, Order, InHand, Me, Untouched, Ready, Known, Sendable,
       Answered, Reported
  <2> QED BY <2>2, <2>4 DEF AllInv
<1> QED BY <1>1, StartStep, InsertStep, AttemptsStep, SubmitStep, VerdictsStep, BeginStep, MarkStep,
           SubmitOneStep, VerdictOneStep, AllSentStep, FailStep DEF Next

THEOREM BatchAlways == Spec => []AllInv
<1>1. Init => AllInv
  BY InitAll
<1>2. AllInv /\ [Next]_vars => AllInv'
  BY NextAll
<1> QED BY <1>1, <1>2, PTL DEF Spec

(* The types of a batch, and no submit_multi of more than MAX_DESTINATIONS.  *)
THEOREM BatchTypeOK == Spec => []TypeOK
<1>1. AllInv => TypeOK
  BY DEF AllInv
<1> QED BY <1>1, BatchAlways, PTL

(* The report of a call is true of each of its recipients (CA-010-08).       *)
THEOREM BatchReportIsTrue == Spec => []ReportIsTrue
<1>1. AllInv => ReportIsTrue
  <2> SUFFICES ASSUME AllInv, result = "reported", NEW r \in ToSet(Order)
               PROVE  /\ slots[r] = "accepted" => TakenNow(r) = 1
                      /\ slots[r] \in {"rejected", "not_emitted", "present"} => TakenNow(r) = 0
                      /\ TakenNow(r) <= 1
                      /\ journal[r].state \notin {"NONE", "QUEUED"}
    BY DEF ReportIsTrue
  <2>1. Reported(r) /\ r \in Recipients
    BY OrderIs DEF AllInv, EndInv
  <2>2. before[r] \in Nat /\ copies[r] \in {before[r], before[r] + 1} /\ TakenNow(r) = copies[r] - before[r]
    BY <2>1 DEF AllInv, TypeOK, Reported, TakenNow
  <2> QED BY <2>1, <2>2 DEF Reported
<1> QED BY <1>1, BatchAlways, PTL

(* Whoever is taken a second time was counted as a duplicate risk, or the    *)
(* row already had a status (BatchReport::reemitted_unanswered).             *)
THEOREM BatchDuplicatesCounted == Spec => DuplicatesCounted
<1>1. AllInv /\ [Next]_vars =>
        [\A r \in Recipients :
           copies'[r] > copies[r] /\ copies[r] > 0 => r \in counted \/ journal[r].answered]_vars
  <2> SUFFICES ASSUME AllInv, Next, NEW r \in Recipients, copies'[r] > copies[r], copies[r] > 0
               PROVE  r \in counted \/ journal[r].answered
    OBVIOUS
  <2>1. TypeOK /\ copies[r] \in Nat /\ copies' # copies
    <3>1. TypeOK /\ copies[r] \in Nat
      BY DEF AllInv, TypeOK
    <3> QED BY <3>1
  <2>2. Known(r)
    <3>1. CASE SubmitMulti
      <4>1. phase = "submit" /\ MultiAnswered
        BY <2>1, <3>1 DEF SubmitMulti, MultiUnknown
      <4>2. \A x \in ToSet(live) : Sendable(x)
        BY <4>1 DEF AllInv, MultiInv, MultiPhases
      <4>3. r \in ToSet(live)
        BY <2>1, <4>1, AnswerRead DEF AnswerIsRead
      <4> QED BY <4>2, <4>3 DEF Sendable, Ready
    <3>2. CASE SubmitOne
      <4>1. phase = "send" /\ todo # <<>> /\ Sendable(Me)
        BY <2>1, <3>2 DEF SubmitOne, AllInv, OneInv, OnePhases, TypeOK, CallTypeOK
      <4>2. PICK m : m = Me
        OBVIOUS
      <4>3. copies' \in {copies, Taken({m})}
        BY <3>2, <4>2 DEF SubmitOne
      <4>4. r = m
        <5>1. copies' = Taken({m})
          BY <2>1, <4>3
        <5>2. copies'[r] = (IF r \in {m} THEN copies[r] + 1 ELSE copies[r])
          BY <5>1 DEF Taken
        <5> QED BY <2>1, <5>2
      <4> QED BY <4>1, <4>2, <4>4 DEF Sendable, Ready
    <3>3. CASE ~(SubmitMulti \/ SubmitOne)
      <4>1. UNCHANGED copies
        BY <3>3 DEF Next, Start, InsertRow, MarkAttempts, JournalVerdicts, BeginOne, MarkOne, VerdictOne,
           AllSent, StoreFailure, Kill, centreVars
      <4> QED BY <2>1, <4>1
    <3> QED BY <3>1, <3>2, <3>3
  <2> QED BY <2>2, Zenon DEF Known
<1> QED BY <1>1, BatchAlways, PTL DEF Spec, DuplicatesCounted

(* How a row's verdict reads.                                                *)
LEMMA VerdictReads ==
  /\ \A row : row.state = "NONE" => VerdictOf(row) = "none"
  /\ \A row : row.state \in OpenStates => VerdictOf(row) = "open"
  /\ \A row : row.state = "ACCEPTED" => VerdictOf(row) = "accepted"
  /\ \A row : row.state = "FAILED" => VerdictOf(row) = "failed"
BY DEF VerdictOf, OpenStates

(* A recipient whose row and copies a step leaves makes no move.             *)
LEMMA NoMove ==
  ASSUME NEW r \in Recipients, journal'[r] = journal[r], copies'[r] = copies[r]
  PROVE  Contract!Moves(r)
BY DEF Contract!Moves, Verdicts

LEMMA OpenMove ==
  ASSUME NEW r \in Recipients, journal[r].state = "NONE" \/ journal[r].state \in OpenStates,
         journal'[r].state \in OpenStates, copies'[r] = copies[r]
  PROVE  Contract!Moves(r)
<1>1. Verdicts[r] \in {"none", "open"} /\ Verdicts'[r] = "open"
  BY VerdictReads DEF Verdicts
<1> QED BY <1>1 DEF Contract!Moves

LEMMA TakeMove ==
  ASSUME NEW r \in Recipients, journal[r].state \in OpenStates, journal' = journal,
         copies'[r] \in {copies[r], copies[r] + 1}
  PROVE  Contract!Moves(r)
<1>1. Verdicts[r] = "open" /\ Verdicts'[r] = "open"
  BY VerdictReads DEF Verdicts
<1> QED BY <1>1 DEF Contract!Moves

LEMMA DecideMove ==
  ASSUME TypeOK, NEW r \in Recipients, Answered(r), copies' = copies,
         journal'[r].state \in {"SENT", "ACCEPTED", "FAILED"},
         journal'[r].state = "ACCEPTED" => report[r] = "accepted"
  PROVE  Contract!Moves(r)
<1>1. Verdicts[r] = "open"
  BY VerdictReads DEF Verdicts, Answered, OpenStates
<1>2. Verdicts'[r] \in {"open", "accepted", "failed"}
      /\ (Verdicts'[r] = "accepted" => journal'[r].state = "ACCEPTED")
  BY VerdictReads DEF Verdicts, OpenStates
<1>3. report[r] = "accepted" => copies[r] > 0
  BY DEF Answered, TypeOK
<1> QED BY <1>1, <1>2, <1>3 DEF Contract!Moves

LEMMA StepMoves ==
  ASSUME AllInv, Next, NEW r \in Recipients
  PROVE  Contract!Moves(r)
<1>1. TypeOK
  BY DEF AllInv
<1>2. CASE InsertRow \/ BeginOne
  <2>1. copies' = copies /\ \/ journal' = journal
                            \/ journal[Me] = NoRow /\ journal' = [journal EXCEPT ![Me] = QueuedRow]
    BY <1>2 DEF InsertRow, BeginOne, centreVars
  <2>2. CASE journal'[r] = journal[r]
    BY <2>1, <2>2, NoMove
  <2>3. CASE journal'[r] # journal[r]
    <3>1. journal[r] = NoRow /\ journal'[r] = QueuedRow
      BY <1>1, <2>1, <2>3 DEF TypeOK
    <3> QED BY <2>1, <3>1, RowsAre, OpenMove DEF OpenStates
  <2> QED BY <2>2, <2>3
<1>3. CASE MarkAttempts
  <2>1. /\ journal' = AttemptOf(journal, ToSet(live)) /\ copies' = copies
        /\ ToSet(live) \in SUBSET Recipients /\ \A x \in ToSet(live) : journal[x].state \in OpenStates
    BY <1>1, <1>3, MembersAre
    DEF MarkAttempts, MarkedRows, centreVars, AllInv, MultiInv, MultiPhases, Ready, TypeOK, CallTypeOK
  <2>2. CASE r \in ToSet(live)
    BY <1>1, <2>1, <2>2, MarkedAre, OpenMove DEF OpenStates
  <2>3. CASE r \notin ToSet(live)
    BY <1>1, <2>1, <2>3, MarkedAre, NoMove
  <2> QED BY <2>2, <2>3
<1>4. CASE SubmitMulti
  <2>1. journal' = journal /\ phase = "submit" /\ ToSet(live) \in SUBSET Recipients
    BY <1>1, <1>4, MembersAre DEF SubmitMulti, TypeOK, CallTypeOK
  <2>2. \A x \in ToSet(live) : Sendable(x)
    BY <2>1 DEF AllInv, MultiInv, MultiPhases
  <2>3. CASE MultiUnknown
    BY <2>1, <2>3, NoMove DEF MultiUnknown
  <2>4. CASE MultiAnswered
    <3>1. /\ copies'[r] # copies[r] => r \in ToSet(live)
          /\ r \in ToSet(live) => copies'[r] \in {copies[r], copies[r] + 1}
      BY <1>1, <2>4, AnswerRead DEF AnswerIsRead
    <3>2. CASE r \in ToSet(live)
      BY <2>1, <2>2, <3>1, <3>2, TakeMove DEF Sendable, OpenStates
    <3>3. CASE r \notin ToSet(live)
      BY <2>1, <3>1, <3>3, NoMove
    <3> QED BY <3>2, <3>3
  <2> QED BY <1>4, <2>3, <2>4 DEF SubmitMulti
<1>5. CASE JournalVerdicts
  <2>1. /\ journal' = Settled(journal, ToSet(live)) \/ journal' = journal
        /\ copies' = copies /\ ToSet(live) \in SUBSET Recipients
        /\ \A x \in ToSet(live) : Answered(x)
    BY <1>1, <1>5, MembersAre
    DEF JournalVerdicts, centreVars, AllInv, MultiInv, MultiPhases, TypeOK, CallTypeOK
  <2>2. CASE journal' = journal \/ r \notin ToSet(live)
    <3>1. journal'[r] = journal[r]
      <4>1. \A x \in ToSet(live) : journal[x].state \in OpenStates
        BY <2>1 DEF Answered, OpenStates
      <4> QED BY <1>1, <2>1, <2>2, <4>1, SettledAre
    <3> QED BY <2>1, <3>1, NoMove
  <2>3. CASE journal' = Settled(journal, ToSet(live)) /\ r \in ToSet(live)
    <3>1. \A x \in ToSet(live) : journal[x].state \in OpenStates
      BY <2>1 DEF Answered, OpenStates
    <3> QED BY <1>1, <2>1, <2>3, <3>1, SettledAre, DecideMove
  <2> QED BY <2>1, <2>2, <2>3
<1>6. CASE MarkOne \/ SubmitOne \/ VerdictOne
  <2>1. phase \in {"attempt", "send", "verdict"} /\ todo # <<>>
    BY <1>1, <1>6 DEF MarkOne, SubmitOne, VerdictOne, TypeOK, CallTypeOK
  <2>2. PICK m \in Recipients : m = Me
    BY <2>1, WalkIs DEF OnePhases
  <2>3. /\ phase = "attempt" => Ready(m)
        /\ phase = "send" => Sendable(m)
        /\ phase = "verdict" => Answered(m)
    BY <2>1, <2>2 DEF AllInv, OneInv, OnePhases
  <2>4. CASE MarkOne
    <3>1. journal' = AttemptOf(journal, {m}) /\ copies' = copies /\ journal[m].state \in OpenStates
      BY <2>2, <2>3, <2>4 DEF MarkOne, centreVars, Ready
    <3>2. /\ \A x \in Recipients \ {m} : journal'[x] = journal[x]
          /\ journal'[m].state = "SENT"
      BY <1>1, <3>1, MarkedAre
    <3>3. CASE r = m
      BY <3>1, <3>2, <3>3, OpenMove DEF OpenStates
    <3>4. CASE r # m
      BY <3>1, <3>2, <3>4, NoMove
    <3> QED BY <3>3, <3>4
  <2>5. CASE SubmitOne
    <3>1. journal' = journal /\ copies' \in {copies, Taken({m})} /\ Sendable(m)
      BY <2>2, <2>3, <2>5 DEF SubmitOne
    <3>2. copies'[r] = copies[r] \/ (r = m /\ copies'[r] = copies[r] + 1)
      <4>1. copies' = Taken({m}) => copies'[r] = (IF r \in {m} THEN copies[r] + 1 ELSE copies[r])
        BY DEF Taken
      <4> QED BY <3>1, <4>1
    <3>3. CASE r = m
      BY <3>1, <3>2, <3>3, TakeMove DEF Sendable, OpenStates
    <3>4. CASE r # m
      BY <3>1, <3>2, <3>4, NoMove
    <3> QED BY <3>3, <3>4
  <2>6. CASE VerdictOne
    <3>1. /\ journal' = Settled(journal, {m}) \/ journal' = journal
          /\ copies' = copies /\ Answered(m)
      BY <2>2, <2>3, <2>6 DEF VerdictOne, centreVars
    <3>2. CASE journal' = journal
      BY <3>1, <3>2, NoMove
    <3>3. CASE journal' = Settled(journal, {m})
      <4>1. /\ \A x \in Recipients \ {m} : journal'[x] = journal[x]
            /\ journal'[m].state \in {"SENT", "ACCEPTED", "FAILED"}
            /\ journal'[m].state = "ACCEPTED" <=> report[m] = "accepted"
        <5>1. journal[m].state \in OpenStates
          BY <3>1 DEF Answered, OpenStates
        <5> QED BY <1>1, <3>3, <5>1, SettledAre
      <4>2. CASE r = m
        BY <1>1, <3>1, <4>1, <4>2, DecideMove
      <4>3. CASE r # m
        BY <3>1, <4>1, <4>3, NoMove
      <4> QED BY <4>2, <4>3
    <3> QED BY <3>1, <3>2, <3>3
  <2> QED BY <1>6, <2>4, <2>5, <2>6
<1>7. CASE Start \/ AllSent \/ StoreFailure \/ Kill
  <2>1. journal' = journal /\ copies' = copies
    BY <1>7 DEF Start, AllSent, StoreFailure, Kill, centreVars
  <2> QED BY <2>1, NoMove
<1> QED BY <1>2, <1>3, <1>4, <1>5, <1>6, <1>7 DEF Next

(* A batch implements the contract of its messages: none is taken before it  *)
(* is open or after its verdict, and none is ACCEPTED that was not taken     *)
(* (resume.rs, "The invariant").                                             *)
THEOREM BatchKeepsContract == Spec => KeepsMessageContract
<1>1. Init => Contract!ContractInit
  BY RowsAre, VerdictReads DEF Init, Contract!ContractInit, Verdicts
<1>2. AllInv /\ [Next]_vars => [\A r \in Recipients : Contract!Moves(r)]_<<Verdicts, copies>>
  <2>1. ASSUME AllInv, Next PROVE \A r \in Recipients : Contract!Moves(r)
    BY <2>1, StepMoves
  <2>2. ASSUME UNCHANGED vars PROVE UNCHANGED <<Verdicts, copies>>
    BY <2>2 DEF vars, centreVars, Verdicts
  <2> QED BY <2>1, <2>2
<1> QED BY <1>1, <1>2, BatchAlways, PTL DEF Spec, KeepsMessageContract, Contract!TogetherSpec
=============================================================================
