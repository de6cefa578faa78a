----------------------------- MODULE ImportProofs -----------------------------
(* What holds of Import for any files, options, capacities and batches: one   *)
(* import runs at a time, and a report tells what the database holds.         *)
EXTENDS Import, FiniteSetTheorems, SequenceTheorems, TLAPS

-----------------------------------------------------------------------------
(* Numbers                                                                   *)

(* A set of naturals has a least member: otherwise the lower bounds of the   *)
(* set would be closed by successor, and no finite set is.                   *)
LEMMA MinIs ==
  ASSUME NEW S \in SUBSET Nat, S # {}
  PROVE  Min(S) \in S /\ \A y \in S : Min(S) <= y
<1> DEFINE Below == {x \in Nat : \A y \in S : x <= y}
<1>1. PICK top \in S : top \in Nat
  OBVIOUS
<1>2. Below \subseteq 0 .. top /\ 0 \in Below
  BY <1>1
<1>3. IsFiniteSet(Below)
  <2>1. IsFiniteSet(0 .. top)
    BY <1>1, FS_Interval
  <2> QED BY <1>2, <2>1, FS_Subset
<1>4. Below \cap S # {}
  <2> SUFFICES ASSUME Below \cap S = {} PROVE FALSE
    OBVIOUS
  <2> DEFINE next == [x \in Below |-> x + 1]
  <2>1. ASSUME NEW x \in Below PROVE x + 1 \in Below
    <3>1. \A y \in S : x <= y /\ x # y /\ y \in Nat
      BY <2>1
    <3> QED BY <2>1, <3>1
  <2>2. next \in [Below -> Below] /\ \A x, y \in Below : next[x] = next[y] => x = y
    BY <2>1
  <2>3. next \in Injection(Below, Below)
    BY <2>2 DEF Injection, IsInjective
  <2>4. next \in Surjection(Below, Below)
    BY <1>3, <2>3, FS_Injection
  <2>5. PICK x \in Below : next[x] = 0
    BY <1>2, <2>4 DEF Surjection
  <2> QED BY <2>5
<1>5. \E x \in S : \A y \in S : x <= y
  BY <1>4
<1> QED BY <1>5 DEF Min

-----------------------------------------------------------------------------
(* Files and what is read in them                                            *)

(* What may be asked, read, written and answered.                            *)
Views     == UNION {{View(ask) : ask \in Requests[i]} : i \in Imports}
Outcomes  == UNION {{view.rows[k] : k \in 1 .. Len(view.rows)} : view \in Views}
Entries   ==
  UNION {UNION {UNION {Reference(i, view, n) : n \in 0 .. Len(view.rows)} : view \in Views} : i \in Imports}

Kinds == {"blank", "rejected", "broken", "accepted"}
IsOutcome(o, line) ==
  /\ o.kind \in Kinds
  /\ o.kind = "accepted" =>
       o.line = line /\ o.attributes = [v \in DOMAIN o.attributes |-> o.attributes[v]]

IsView(view) ==
  /\ Len(view.rows) \in Nat /\ DOMAIN view.rows = 1 .. Len(view.rows)
  /\ \A k \in 1 .. Len(view.rows) : IsOutcome(view.rows[k], k)
  /\ view.asked.dedup \in {"first_wins", "merge_attributes"}

LEMMA OutcomeIs ==
  ASSUME NEW row, NEW line, NEW headers, NEW width, NEW options
  PROVE  IsOutcome(OutcomeOf(row, line, headers, width, options), line)
<1> DEFINE raw == CellAt(row, ResolveColumn(options.mapping.msisdn, headers, width))
           country == IF options.mapping.country = None THEN Blank
                      ELSE CellAt(row, ResolveColumn(options.mapping.country, headers, width))
           number == Validate(raw, country, options)
           attributes == AttributesOf(options.mapping, headers, width, row)
           o == OutcomeOf(row, line, headers, width, options)
<1>1. attributes = [v \in DOMAIN attributes |-> attributes[v]]
  BY DEF AttributesOf
<1>2. CASE row = Broken
  <2>1. ~IsBlank(row)
    <3> DEFINE cell == [t |-> "broken", v |-> ""]
    <3>1. cell.t # "blank"
      OBVIOUS
    <3> HIDE DEF cell
    <3>2. 1 \in DOMAIN << cell >> /\ << cell >>[1] = cell
      OBVIOUS
    <3>3. Broken = << cell >>
      BY Zenon DEF Broken, cell
    <3>4. \E k \in DOMAIN Broken : Broken[k].t # "blank"
      BY <3>1, <3>2, <3>3
    <3> QED BY <1>2, <3>4, Zenon DEF IsBlank
  <2>2. o = [kind |-> "broken"]
    BY <1>2, <2>1, Zenon DEF OutcomeOf
  <2> QED BY <2>2 DEF IsOutcome, Kinds
<1>3. CASE row # Broken /\ IsBlank(row)
  <2>1. o = [kind |-> "blank"]
    BY <1>3, Zenon DEF OutcomeOf
  <2> QED BY <2>1 DEF IsOutcome, Kinds
<1>4. CASE row # Broken /\ ~IsBlank(row) /\ raw.t = "unreadable"
  <2>1. o = [kind |-> "rejected", reason |-> "UNREADABLE_CELL"]
    BY <1>4, Zenon DEF OutcomeOf
  <2> QED BY <2>1 DEF IsOutcome, Kinds
<1>5. CASE row # Broken /\ ~IsBlank(row) /\ raw.t # "unreadable"
  <2>1. o = IF number.ok
            THEN [kind |-> "accepted", line |-> line, msisdn |-> number.msisdn,
                  attributes |-> attributes]
            ELSE [kind |-> "rejected", reason |-> number.reason]
    BY <1>5, Zenon DEF OutcomeOf
  <2> HIDE DEF o, number, attributes
  <2> QED BY <1>1, <2>1 DEF IsOutcome, Kinds, o
<1> QED BY <1>2, <1>3, <1>4, <1>5

LEMMA ViewIs ==
  ASSUME NEW i \in Imports, NEW ask \in Requests[i]
  PROVE  IsView(View(ask))
<1> DEFINE file == ask.file  mode == ask.options.headers  all == AllRows(file)
           at == Candidate(file)  rows == DataRows(file, mode)
<1>1. Len(file.rows) \in Nat /\ DOMAIN file.rows = 1 .. Len(file.rows)
      /\ ask.options.dedup \in {"first_wins", "merge_attributes"}
  BY ImportAssumption DEF Imports
<1>2. all \in Seq(ToSet(all)) /\ Len(all) = Len(file.rows)
  <2>1. CASE file.kind = "xlsx"
    <3>1. all = [k \in 1 .. Len(file.rows) |-> Rendered(file.rows[k])]
      BY <1>1, <2>1 DEF AllRows
    <3> HIDE DEF all, file
    <3>2. all \in [1 .. Len(file.rows) -> ToSet(all)]
      BY <3>1 DEF ToSet
    <3> QED BY <1>1, <3>2, SeqDef
  <2>2. CASE file.kind # "xlsx"
    <3>1. all = file.rows
      BY <2>2 DEF AllRows
    <3> QED BY <3>1, ImportAssumption DEF Imports
  <2> QED BY <2>1, <2>2
<1>3. at \in Nat \ {0}
  <2>1. CASE file.kind = "xlsx"
    BY <2>1 DEF Candidate
  <2>2. CASE file.kind # "xlsx"
    <3> DEFINE n == Len(all) + 1
               solid == {k \in 1 .. n : k <= Len(all) => ~IsBlank(all[k])}
    <3>1. Len(all) \in Nat /\ n \in solid /\ solid \subseteq Nat
      BY <1>2
    <3>2. Min(solid) \in solid /\ \A k \in solid : Min(solid) <= k
      BY <3>1, MinIs
    <3>3. \A k \in 1 .. Min(solid) - 1 : IsBlank(all[k])
      <4> DEFINE m == Min(solid)
      <4>1. m \in 1 .. n /\ n \in Nat /\ n = Len(all) + 1 /\ \A k \in solid : m <= k
        BY <3>1, <3>2
      <4> HIDE DEF m
      <4>2. ASSUME NEW k \in 1 .. m - 1 PROVE k \in 1 .. n /\ k <= Len(all) /\ k \notin solid
        <5>1. k \in 1 .. n /\ ~(m <= k) /\ k <= n - 1
          BY <4>1
        <5> QED BY <3>1, <4>1, <5>1
      <4> QED BY <4>2 DEF m
    <3>4. Min(solid) \in 1 .. n /\ (Min(solid) <= Len(all) => ~IsBlank(all[Min(solid)]))
      BY <3>2
    <3> HIDE DEF all, n, solid
    <3>5. \E k \in 1 .. Len(all) + 1 : (k <= Len(all) => ~IsBlank(all[k])) /\ \A j \in 1 .. k - 1 : IsBlank(all[j])
      BY <3>3, <3>4 DEF n
    <3>6. at = CHOOSE k \in 1 .. Len(all) + 1 :
                 (k <= Len(all) => ~IsBlank(all[k])) /\ \A j \in 1 .. k - 1 : IsBlank(all[j])
      BY <2>2, Zenon DEF Candidate, all
    <3>7. at \in 1 .. Len(all) + 1
      BY <3>5, <3>6, Zenon
    <3> QED BY <3>1, <3>7 DEF n
  <2> QED BY <2>1, <2>2
<1>4. rows \in Seq(ToSet(all))
  <2>1. CASE HasHeaders(file, mode)
    <3>1. at \in 1 .. Len(all)
      BY <1>1, <1>2, <1>3, <2>1 DEF HasHeaders
    <3>2. rows = SubSeq(all, 1, at - 1) \o SubSeq(all, at + 1, Len(all))
      BY <2>1, Zenon DEF DataRows, RemoveAt
    <3> HIDE DEF all, at, rows
    <3> QED BY <1>2, <3>1, <3>2
  <2>2. CASE ~HasHeaders(file, mode)
    <3>1. rows = all
      BY <2>2, Zenon DEF DataRows
    <3> QED BY <1>2, <3>1
  <2> QED BY <2>1, <2>2
<1>5. Len(rows) \in Nat /\ DOMAIN rows = 1 .. Len(rows)
  BY <1>4
<1>6. PICK headers, width :
        View(ask).rows = [k \in DOMAIN rows |-> OutcomeOf(rows[k], k, headers, width, ask.options)]
  BY Zenon DEF View
<1> DEFINE seen == View(ask).rows
<1>7. DOMAIN seen = 1 .. Len(rows) /\ Len(seen) = Len(rows)
  <2>1. seen = [k \in 1 .. Len(rows) |-> OutcomeOf(rows[k], k, headers, width, ask.options)]
    BY <1>5, <1>6
  <2> HIDE DEF seen, rows
  <2>2. DOMAIN seen = 1 .. Len(rows) /\ seen \in [1 .. Len(rows) -> {seen[k] : k \in 1 .. Len(rows)}]
    BY <2>1
  <2>3. seen \in Seq({seen[k] : k \in 1 .. Len(rows)})
    BY <1>5, <2>2, SeqDef
  <2> QED BY <1>5, <2>2, <2>3
<1>8. ASSUME NEW k \in 1 .. Len(seen) PROVE IsOutcome(seen[k], k)
  <2>1. seen[k] = OutcomeOf(rows[k], k, headers, width, ask.options)
    BY <1>5, <1>6, <1>7, <1>8
  <2> QED BY <2>1, OutcomeIs
<1>9. View(ask).asked = ask.options
  BY DEF View
<1> QED BY <1>1, <1>5, <1>7, <1>8, <1>9 DEF IsView

LEMMA ViewsAre == \A view \in Views : IsView(view)
BY ViewIs DEF Views

-----------------------------------------------------------------------------
(* The contacts some rows stand for                                          *)

(* One more row is one more candidate, or none.                              *)
LEMMA NewRow ==
  ASSUME NEW rows, NEW n \in Nat
  PROVE  /\ Accepted(rows, n + 1) =
              IF rows[n + 1].kind = "accepted" THEN Accepted(rows, n) \cup {n + 1} ELSE Accepted(rows, n)
         /\ Accepted(rows, n) \subseteq 1 .. n
<1>1. 1 .. n + 1 = (1 .. n) \cup {n + 1}
  OBVIOUS
<1> QED BY <1>1 DEF Accepted

(* Every accepted row has a first of its number.                             *)
LEMMA FirstOf ==
  ASSUME NEW rows, NEW n \in Nat, NEW j \in Accepted(rows, n)
  PROVE  \E k \in Firsts(rows, n) : rows[k].msisdn = rows[j].msisdn
<1> DEFINE same == SameNumber(rows, n, j)
<1>1. same \subseteq Nat /\ j \in same
  BY DEF SameNumber, Accepted
<1>2. Min(same) \in same /\ \A y \in same : Min(same) <= y
  BY <1>1, MinIs
<1>3. Min(same) \in Accepted(rows, n) /\ rows[Min(same)].msisdn = rows[j].msisdn
  BY <1>2 DEF SameNumber
<1>4. SameNumber(rows, n, Min(same)) = same
  BY <1>3 DEF SameNumber
<1> QED BY <1>2, <1>3, <1>4 DEF Firsts

(* A row that is not a contact changes nothing.                              *)
LEMMA RowSkipped ==
  ASSUME NEW i, NEW view, NEW n \in Nat, view.rows[n + 1].kind # "accepted"
  PROVE  Reference(i, view, n + 1) = Reference(i, view, n)
<1> DEFINE rows == view.rows
<1>1. Accepted(rows, n + 1) = Accepted(rows, n)
  BY NewRow
<1>2. \A k : SameNumber(rows, n + 1, k) = SameNumber(rows, n, k)
  BY <1>1 DEF SameNumber
<1>3. Firsts(rows, n + 1) = Firsts(rows, n)
  BY <1>1, <1>2 DEF Firsts
<1>4. ASSUME NEW k, NEW v PROVE Filled(view, n + 1, k, v) = Filled(view, n, k, v)
  <2>1. Solid(view, n + 1, k, v) = Solid(view, n, k, v)
    BY <1>2 DEF Solid
  <2> QED BY <2>1, Zenon DEF Filled
<1>5. \A k : Entry(i, view, n + 1, k) = Entry(i, view, n, k)
  BY <1>4 DEF Entry
<1> QED BY <1>3, <1>5 DEF Reference

(* A number already met adds no first; a new one adds its row.               *)
LEMMA RowTaken ==
  ASSUME NEW rows, NEW n \in Nat, rows[n + 1].kind = "accepted"
  PROVE  Firsts(rows, n + 1) =
           IF \E k \in Firsts(rows, n) : rows[k].msisdn = rows[n + 1].msisdn
           THEN Firsts(rows, n) ELSE Firsts(rows, n) \cup {n + 1}
<1> DEFINE same(m, k) == SameNumber(rows, m, k)
<1>1. Accepted(rows, n + 1) = Accepted(rows, n) \cup {n + 1} /\ Accepted(rows, n) \subseteq 1 .. n
  BY NewRow
<1>2. \A k : same(n + 1, k) = IF rows[k].msisdn = rows[n + 1].msisdn THEN same(n, k) \cup {n + 1}
                                                                      ELSE same(n, k)
  BY <1>1 DEF SameNumber
<1>3. ASSUME NEW k \in Accepted(rows, n) PROVE k \in Firsts(rows, n + 1) <=> k \in Firsts(rows, n)
  <2>1. k \in 1 .. n /\ k <= n + 1
    BY <1>1
  <2>2. (\A j \in same(n + 1, k) : k <= j) <=> \A j \in same(n, k) : k <= j
    BY <1>2, <2>1
  <2> QED BY <1>1, <2>2 DEF Firsts
<1>4. n + 1 \in Firsts(rows, n + 1) <=> \A k \in Accepted(rows, n) : rows[k].msisdn # rows[n + 1].msisdn
  BY <1>1, <1>2 DEF Firsts, SameNumber
<1>5. (\E k \in Accepted(rows, n) : rows[k].msisdn = rows[n + 1].msisdn)
        <=> \E k \in Firsts(rows, n) : rows[k].msisdn = rows[n + 1].msisdn
  <2>1. ASSUME NEW j \in Accepted(rows, n), rows[j].msisdn = rows[n + 1].msisdn
        PROVE  \E k \in Firsts(rows, n) : rows[k].msisdn = rows[n + 1].msisdn
    BY <2>1, FirstOf
  <2> QED BY <2>1 DEF Firsts
<1>6. Firsts(rows, n) \subseteq Accepted(rows, n) /\ Firsts(rows, n + 1) \subseteq Accepted(rows, n) \cup {n + 1}
  BY <1>1 DEF Firsts
<1> QED BY <1>3, <1>4, <1>5, <1>6

LEMMA RowEntry ==
  ASSUME NEW i, NEW view, NEW n \in Nat, view.rows[n + 1].kind = "accepted",
         IsOutcome(view.rows[n + 1], n + 1)
  PROVE  /\ \A k \in Firsts(view.rows, n) :
              view.asked.dedup # "merge_attributes" \/ view.rows[k].msisdn # view.rows[n + 1].msisdn
                => Entry(i, view, n + 1, k) = Entry(i, view, n, k)
         /\ (\A k \in Firsts(view.rows, n) : view.rows[k].msisdn # view.rows[n + 1].msisdn)
              => Entry(i, view, n + 1, n + 1) =
                   [import |-> i, line |-> n + 1, msisdn |-> view.rows[n + 1].msisdn,
                    attributes |-> view.rows[n + 1].attributes]
<1> DEFINE rows == view.rows  new == view.rows[n + 1]
<1>1. Accepted(rows, n + 1) = Accepted(rows, n) \cup {n + 1} /\ Accepted(rows, n) \subseteq 1 .. n
  BY NewRow
<1>2. ASSUME NEW k \in Firsts(rows, n),
             view.asked.dedup # "merge_attributes" \/ rows[k].msisdn # new.msisdn
      PROVE  Entry(i, view, n + 1, k) = Entry(i, view, n, k)
  <2>0. k \in Accepted(rows, n) /\ k # n + 1
    BY <1>1 DEF Firsts
  <2>1. \A v : Solid(view, n + 1, k, v) = Solid(view, n, k, v)
    BY <1>1, <1>2, <2>0 DEF Solid, SameNumber
  <2>2. ASSUME NEW v PROVE Filled(view, n + 1, k, v) = Filled(view, n, k, v)
    <3>1. Solid(view, n + 1, k, v) = Solid(view, n, k, v)
      BY <2>1
    <3> QED BY <3>1, Zenon DEF Filled
  <2> QED BY <2>2, Zenon DEF Entry
<1>3. ASSUME \A k \in Firsts(rows, n) : rows[k].msisdn # new.msisdn
      PROVE  Entry(i, view, n + 1, n + 1) =
               [import |-> i, line |-> n + 1, msisdn |-> new.msisdn, attributes |-> new.attributes]
  <2>1. \A k \in Accepted(rows, n) : rows[k].msisdn # new.msisdn
    BY <1>3, FirstOf, Zenon
  <2>2. SameNumber(rows, n + 1, n + 1) = {n + 1}
    BY <1>1, <2>1 DEF SameNumber
  <2>3. \A v : Solid(view, n + 1, n + 1, v) = IF new.attributes[v] # "" THEN {n + 1} ELSE {}
    BY <2>2 DEF Solid
  <2>4. Min({n + 1}) = n + 1
    BY MinIs
  <2>5. \A v : Filled(view, n + 1, n + 1, v) = new.attributes[v]
    BY <2>3, <2>4 DEF Filled
  <2>6. new.attributes = [v \in DOMAIN new.attributes |-> new.attributes[v]]
    BY DEF IsOutcome
  <2>7. [v \in DOMAIN new.attributes |-> Filled(view, n + 1, n + 1, v)] = new.attributes
    BY <2>5, <2>6
  <2> QED BY <2>7, Zenon DEF Entry
<1> QED BY <1>2, <1>3

(* A later row fills the columns that are still empty.                       *)
LEMMA RowMerged ==
  ASSUME NEW i, NEW view, NEW n \in Nat, view.rows[n + 1].kind = "accepted",
         view.asked.dedup = "merge_attributes",
         NEW k \in Firsts(view.rows, n), view.rows[k].msisdn = view.rows[n + 1].msisdn
  PROVE  Entry(i, view, n + 1, k) =
           [Entry(i, view, n, k) EXCEPT !.attributes = MergeAttributes(@, view.rows[n + 1].attributes)]
<1> DEFINE rows == view.rows  new == view.rows[n + 1]
<1>1. Accepted(rows, n + 1) = Accepted(rows, n) \cup {n + 1} /\ Accepted(rows, n) \subseteq 1 .. n
  BY NewRow
<1>2. ASSUME NEW v
      PROVE  Filled(view, n + 1, k, v) =
               IF Filled(view, n, k, v) = "" THEN new.attributes[v] ELSE Filled(view, n, k, v)
  <2> DEFINE old == Solid(view, n, k, v)  now == Solid(view, n + 1, k, v)
  <2>1. now = IF new.attributes[v] # "" THEN old \cup {n + 1} ELSE old
    BY <1>1 DEF Solid, SameNumber
  <2>2. old \subseteq 1 .. n /\ old \subseteq Nat /\ \A j \in old : rows[j].attributes[v] # ""
    <3>1. old \subseteq Accepted(rows, n) /\ \A j \in old : rows[j].attributes[v] # ""
      BY DEF Solid, SameNumber
    <3>2. 1 .. n \subseteq Nat
      OBVIOUS
    <3> QED BY <1>1, <3>1, <3>2, Zenon
  <2>3. Filled(view, n, k, v) = (IF old = {} THEN "" ELSE rows[Min(old)].attributes[v])
        /\ Filled(view, n + 1, k, v) = (IF now = {} THEN "" ELSE rows[Min(now)].attributes[v])
    BY Zenon DEF Filled
  <2> HIDE DEF old, now
  <2>4. CASE old = {}
    <3>1. Filled(view, n, k, v) = ""
      BY <2>3, <2>4
    <3>2. CASE new.attributes[v] # ""
      <4>1. now = {n + 1}
        BY <2>1, <2>4, <3>2
      <4>2. Min(now) = n + 1
        BY <4>1, MinIs
      <4> QED BY <2>3, <3>1, <4>1, <4>2
    <3> QED BY <2>1, <2>3, <2>4, <3>1, <3>2
  <2>5. CASE old # {}
    <3>1. Min(old) \in old /\ \A y \in old : Min(old) <= y
      BY <2>2, <2>5, MinIs
    <3>2. now # {} /\ now \subseteq Nat /\ old \subseteq now /\ now \subseteq old \cup {n + 1}
      <4>1. n + 1 \in Nat
        OBVIOUS
      <4> QED BY <2>1, <2>2, <2>5, <4>1, Zenon
    <3>3. Min(now) \in now /\ \A y \in now : Min(now) <= y
      BY <3>2, MinIs
    <3>4. Min(now) = Min(old)
      <4>1. Min(old) \in 1 .. n /\ Min(old) \in now /\ Min(now) \in Nat
        BY <2>2, <3>1, <3>2, <3>3
      <4>2. Min(now) <= Min(old)
        BY <3>3, <4>1
      <4>3. Min(now) \in old
        BY <3>2, <3>3, <4>1, <4>2
      <4> QED BY <3>1, <4>1, <4>2, <4>3
    <3> QED BY <2>2, <2>3, <2>5, <3>1, <3>2, <3>4
  <2> QED BY <2>4, <2>5
<1> DEFINE held == [v \in DOMAIN rows[k].attributes |-> Filled(view, n, k, v)]
<1>3. [v \in DOMAIN rows[k].attributes |-> Filled(view, n + 1, k, v)] = MergeAttributes(held, new.attributes)
  BY <1>2 DEF MergeAttributes
<1>4. Entry(i, view, n, k) = [import |-> i, line |-> k, msisdn |-> rows[k].msisdn, attributes |-> held]
      /\ Entry(i, view, n + 1, k) = [import |-> i, line |-> k, msisdn |-> rows[k].msisdn,
                                     attributes |-> MergeAttributes(held, new.attributes)]
  BY <1>3, Zenon DEF Entry
<1> HIDE DEF held
<1> QED BY <1>4

-----------------------------------------------------------------------------
(* Lists of contacts                                                         *)

(* A list that holds the members of a set, once each.                        *)
ListOf(q, S) == q \in Seq(Entries) /\ IsInjective(q) /\ ToSet(q) = S

LEMMA ListIs ==
  ASSUME NEW q, NEW S, ListOf(q, S)
  PROVE  /\ Len(q) \in Nat /\ DOMAIN q = 1 .. Len(q) /\ q \in Seq(Entries)
         /\ \A j, k \in 1 .. Len(q) : q[j] = q[k] => j = k
         /\ \A j \in 1 .. Len(q) : q[j] \in S
         /\ \A x \in S : \E j \in 1 .. Len(q) : q[j] = x
<1>1. Len(q) \in Nat /\ DOMAIN q = 1 .. Len(q) /\ q \in Seq(Entries)
  BY DEF ListOf
<1> QED BY <1>1 DEF ListOf, IsInjective, ToSet

LEMMA IsList ==
  ASSUME NEW q \in Seq(Entries), NEW S,
         \A j, k \in 1 .. Len(q) : q[j] = q[k] => j = k,
         \A j \in 1 .. Len(q) : q[j] \in S,
         \A x \in S : \E j \in 1 .. Len(q) : q[j] = x
  PROVE  ListOf(q, S)
<1>1. DOMAIN q = 1 .. Len(q)
  OBVIOUS
<1> QED BY <1>1 DEF ListOf, IsInjective, ToSet

LEMMA EmptyList ==
  /\ ListOf(<<>>, {}) /\ ToSet(<<>>) = {}
  /\ \A q, S : ListOf(q, S) => (q = <<>> <=> S = {})
<1>1. ListOf(<<>>, {}) /\ ToSet(<<>>) = {}
  <2>1. <<>> \in Seq(Entries) /\ DOMAIN <<>> = {}
    OBVIOUS
  <2> QED BY <2>1 DEF ListOf, IsInjective, ToSet
<1>2. ASSUME NEW q, NEW S, ListOf(q, S) PROVE q = <<>> <=> S = {}
  <2>1. q = <<>> => S = {}
    BY <1>2, ListIs
  <2>2. S = {} => Len(q) = 0
    BY <1>2, ListIs
  <2> QED BY <1>2, <2>1, <2>2, ListIs, EmptySeq
<1> QED BY <1>1, <1>2

LEMMA ListsJoin ==
  ASSUME NEW p, NEW S, ListOf(p, S), NEW q, NEW T, ListOf(q, T), S \cap T = {}
  PROVE  ListOf(p \o q, S \cup T)
<1> DEFINE m == Len(p)  n == Len(q)  r == p \o q
<1>1. /\ m \in Nat /\ p \in Seq(Entries) /\ (\A j, k \in 1 .. m : p[j] = p[k] => j = k)
      /\ (\A j \in 1 .. m : p[j] \in S) /\ \A x \in S : \E j \in 1 .. m : p[j] = x
  BY ListIs
<1>2. /\ n \in Nat /\ q \in Seq(Entries) /\ (\A j, k \in 1 .. n : q[j] = q[k] => j = k)
      /\ (\A j \in 1 .. n : q[j] \in T) /\ \A x \in T : \E j \in 1 .. n : q[j] = x
  BY ListIs
<1>3. /\ r \in Seq(Entries) /\ Len(r) = m + n
      /\ \A j \in 1 .. m : r[j] = p[j]
      /\ \A j \in m + 1 .. m + n : r[j] = q[j - m] /\ j - m \in 1 .. n
  BY <1>1, <1>2, ConcatProperties
<1>4. \A j \in 1 .. n : r[m + j] = q[j] /\ m + j \in m + 1 .. m + n
  BY <1>1, <1>2, <1>3
<1> HIDE DEF m, n, r
<1>5. 1 .. Len(r) = (1 .. m) \cup (m + 1 .. m + n)
  BY <1>1, <1>2, <1>3
<1>6. ASSUME NEW j \in 1 .. Len(r), NEW k \in 1 .. Len(r), r[j] = r[k] PROVE j = k
  <2>1. CASE j \in 1 .. m /\ k \in 1 .. m
    BY <1>1, <1>3, <1>6, <2>1
  <2>2. CASE j \in m + 1 .. m + n /\ k \in m + 1 .. m + n
    <3>1. j - m = k - m
      BY <1>2, <1>3, <1>6, <2>2
    <3> QED BY <1>1, <2>2, <3>1
  <2>3. CASE j \in 1 .. m /\ k \in m + 1 .. m + n
    <3>1. r[j] \in S /\ r[k] \in T
      BY <1>1, <1>2, <1>3, <2>3
    <3> QED BY <1>6, <3>1
  <2>4. CASE j \in m + 1 .. m + n /\ k \in 1 .. m
    <3>1. r[j] \in T /\ r[k] \in S
      BY <1>1, <1>2, <1>3, <2>4
    <3> QED BY <1>6, <3>1
  <2> QED BY <1>5, <2>1, <2>2, <2>3, <2>4
<1>7. \A j \in 1 .. Len(r) : r[j] \in S \cup T
  BY <1>1, <1>2, <1>3, <1>5
<1>8. \A x \in S \cup T : \E j \in 1 .. Len(r) : r[j] = x
  BY <1>1, <1>2, <1>3, <1>4, <1>5
<1>9. ListOf(r, S \cup T)
  BY <1>3, <1>6, <1>7, <1>8, IsList
<1> QED BY <1>9 DEF r

LEMMA ListGrows ==
  ASSUME NEW q, NEW S, ListOf(q, S), NEW x \in Entries \ S
  PROVE  ListOf(Append(q, x), S \cup {x})
<1>1. ListOf(<<x>>, {x})
  <2> DEFINE one == <<x>>
  <2>1. one \in Seq(Entries) /\ Len(one) = 1 /\ one[1] = x
    OBVIOUS
  <2> HIDE DEF one
  <2>2. /\ \A j, k \in 1 .. Len(one) : one[j] = one[k] => j = k
        /\ \A j \in 1 .. Len(one) : one[j] \in {x}
        /\ \A y \in {x} : \E j \in 1 .. Len(one) : one[j] = y
    BY <2>1
  <2>3. ListOf(one, {x})
    BY <2>1, <2>2, IsList
  <2> QED BY <2>3 DEF one
<1>2. Append(q, x) = q \o <<x>>
  <2>1. q \in Seq(Entries) /\ x \in Entries
    BY ListIs
  <2> QED BY <2>1
<1> QED BY <1>1, <1>2, ListsJoin

(* A list is cut in two lists that share nothing.                            *)
LEMMA ListSplits ==
  ASSUME NEW q, ListOf(q, ToSet(q)), NEW c \in 0 .. Len(q)
  PROVE  LET p == SubSeq(q, 1, c)
             r == SubSeq(q, c + 1, Len(q))
         IN  /\ ListOf(p, ToSet(p)) /\ ListOf(r, ToSet(r))
             /\ Len(p) = c /\ Len(r) = Len(q) - c
             /\ ToSet(p) \cap ToSet(r) = {} /\ ToSet(p) \cup ToSet(r) = ToSet(q)
<1> DEFINE n == Len(q)  p == SubSeq(q, 1, c)  r == SubSeq(q, c + 1, n)
<1>1. /\ n \in Nat /\ c \in Nat /\ c <= n /\ q \in Seq(Entries)
      /\ (\A j, k \in 1 .. n : q[j] = q[k] => j = k)
      /\ (\A j \in 1 .. n : q[j] \in ToSet(q) /\ q[j] \in Entries)
      /\ \A x \in ToSet(q) : \E j \in 1 .. n : q[j] = x
  BY ListIs, ElementOfSeq
<1>2. p \in Seq(Entries) /\ Len(p) = c /\ \A j \in 1 .. c : p[j] = q[j]
  BY <1>1, SubSeqProperties
<1>3. r \in Seq(Entries) /\ Len(r) = n - c /\ \A j \in 1 .. n - c : r[j] = q[c + j]
  BY <1>1, SubSeqProperties
<1> HIDE DEF n, p, r
<1>4. DOMAIN p = 1 .. c /\ DOMAIN r = 1 .. n - c
  BY <1>2, <1>3
<1>5. ListOf(p, ToSet(p))
  BY <1>1, <1>2, <1>4 DEF ListOf, IsInjective
<1>6. ListOf(r, ToSet(r))
  <2>1. ASSUME NEW j \in 1 .. n - c, NEW k \in 1 .. n - c, r[j] = r[k] PROVE j = k
    <3>1. c + j \in 1 .. n /\ c + k \in 1 .. n /\ q[c + j] = q[c + k]
      BY <1>1, <1>3, <2>1
    <3>2. c + j = c + k
      BY <1>1, <3>1
    <3> QED BY <1>1, <3>2
  <2> QED BY <1>3, <1>4, <2>1 DEF ListOf, IsInjective
<1>7. ToSet(p) = {q[j] : j \in 1 .. c}
  BY <1>2, <1>4 DEF ToSet
<1>8. ToSet(r) = {q[j] : j \in c + 1 .. n}
  <2>1. \A j \in 1 .. n - c : c + j \in c + 1 .. n /\ r[j] = q[c + j]
    BY <1>1, <1>3
  <2>2. \A j \in c + 1 .. n : j - c \in 1 .. n - c /\ r[j - c] = q[j]
    BY <1>1, <1>3
  <2> QED BY <1>4, <2>1, <2>2 DEF ToSet
<1>9. 1 .. n = (1 .. c) \cup (c + 1 .. n) /\ (1 .. c) \cap (c + 1 .. n) = {}
  BY <1>1
<1>10. ToSet(q) = {q[j] : j \in 1 .. n}
  BY <1>1
<1>11. ToSet(p) \cup ToSet(r) = ToSet(q)
  BY <1>7, <1>8, <1>9, <1>10
<1>12. ToSet(p) \cap ToSet(r) = {}
  BY <1>1, <1>7, <1>8, <1>9
<1> QED BY <1>2, <1>3, <1>5, <1>6, <1>11, <1>12 DEF p, r, n

LEMMA ListCounts ==
  ASSUME NEW q, NEW S, ListOf(q, S)
  PROVE  IsFiniteSet(S) /\ Cardinality(S) = Len(q)
<1>1. /\ Len(q) \in Nat /\ q \in [1 .. Len(q) -> S]
      /\ \A j, k \in 1 .. Len(q) : q[j] = q[k] => j = k
      /\ \A x \in S : \E j \in 1 .. Len(q) : q[j] = x
  <2>1. q = [j \in 1 .. Len(q) |-> q[j]]
    BY ListIs
  <2> QED BY <2>1, ListIs
<1>2. q \in Bijection(1 .. Len(q), S)
  BY <1>1 DEF Bijection, Injection, Surjection, IsInjective
<1>3. IsFiniteSet(1 .. Len(q)) /\ Cardinality(1 .. Len(q)) = Len(q)
  BY <1>1, FS_Interval
<1> QED BY <1>2, <1>3, FS_Bijection DEF ExistsBijection

-----------------------------------------------------------------------------
(* The deduplicator keeps the list of what the rows stand for                *)

LEMMA EntryIs ==
  ASSUME NEW i, NEW view, NEW n, NEW k
  PROVE  /\ Entry(i, view, n, k).import = i /\ Entry(i, view, n, k).line = k
         /\ Entry(i, view, n, k).msisdn = view.rows[k].msisdn
BY DEF Entry

LEMMA ReferenceIs ==
  ASSUME NEW i \in Imports, NEW view \in Views, NEW n \in 0 .. Len(view.rows)
  PROVE  /\ Reference(i, view, n) \subseteq Entries
         /\ \A c \in Reference(i, view, n) : c.import = i
         /\ Reference(i, view, 0) = {}
<1>1. Reference(i, view, n) \subseteq Entries
  <2> DEFINE ofView(j, v) == UNION {Reference(j, v, m) : m \in 0 .. Len(v.rows)}
             ofImport(j) == UNION {ofView(j, v) : v \in Views}
  <2>1. Reference(i, view, n) \subseteq ofView(i, view)
    BY Zenon
  <2>2. Entries = UNION {ofImport(j) : j \in Imports}
    BY DEF Entries
  <2> HIDE DEF ofView
  <2>3. ofView(i, view) \subseteq ofImport(i)
    BY Zenon
  <2> HIDE DEF ofImport
  <2>4. ofImport(i) \subseteq Entries
    BY <2>2, Zenon
  <2> QED BY <2>1, <2>3, <2>4, Zenon
<1>2. ASSUME NEW c \in Reference(i, view, n) PROVE c.import = i
  <2>1. PICK k \in Firsts(view.rows, n) : c = Entry(i, view, n, k)
    BY Zenon DEF Reference
  <2> QED BY <2>1, EntryIs
<1>3. Firsts(view.rows, 0) = {}
  BY DEF Firsts, Accepted
<1> QED BY <1>1, <1>2, <1>3 DEF Reference

LEMMA HoldsFirst ==
  ASSUME NEW i, NEW view, NEW n, NEW kept, ListOf(kept, Reference(i, view, n)), NEW msisdn
  PROVE  Holds(kept, msisdn) <=> \E k \in Firsts(view.rows, n) : view.rows[k].msisdn = msisdn
<1>1. ASSUME NEW p \in DOMAIN kept PROVE \E k \in Firsts(view.rows, n) : view.rows[k].msisdn = kept[p].msisdn
  <2>1. kept[p] \in Reference(i, view, n)
    BY ListIs
  <2>2. PICK k \in Firsts(view.rows, n) : kept[p] = Entry(i, view, n, k)
    BY <2>1, Zenon DEF Reference
  <2> QED BY <2>2, EntryIs
<1>2. ASSUME NEW k \in Firsts(view.rows, n) PROVE \E p \in DOMAIN kept : kept[p].msisdn = view.rows[k].msisdn
  <2>1. Entry(i, view, n, k) \in Reference(i, view, n)
    BY DEF Reference
  <2>2. PICK p \in DOMAIN kept : kept[p] = Entry(i, view, n, k)
    BY <2>1, ListIs
  <2> QED BY <2>2, EntryIs
<1>3. Holds(kept, msisdn) <=> \E p \in DOMAIN kept : kept[p].msisdn = msisdn
  BY Zenon DEF Holds
<1>4. ASSUME NEW p \in DOMAIN kept, kept[p].msisdn = msisdn
      PROVE  \E k \in Firsts(view.rows, n) : view.rows[k].msisdn = msisdn
  BY <1>1, <1>4
<1>5. ASSUME NEW k \in Firsts(view.rows, n), view.rows[k].msisdn = msisdn
      PROVE  \E p \in DOMAIN kept : kept[p].msisdn = msisdn
  BY <1>2, <1>5
<1> QED BY <1>3, <1>4, <1>5

LEMMA FoldedList ==
  ASSUME NEW i \in Imports, NEW view \in Views, NEW n \in Nat, n + 1 <= Len(view.rows),
         view.rows[n + 1].kind = "accepted", view.asked.dedup = "merge_attributes",
         NEW kept, ListOf(kept, Reference(i, view, n)), Holds(kept, view.rows[n + 1].msisdn),
         NEW contact, contact.msisdn = view.rows[n + 1].msisdn,
         contact.attributes = view.rows[n + 1].attributes
  PROVE  ListOf(Folded(kept, contact), Reference(i, view, n + 1))
         /\ Len(Folded(kept, contact)) = Len(kept)
<1> DEFINE rows == view.rows  new == view.rows[n + 1]  l == Len(kept)  q == Folded(kept, contact)
           Was(k) == Entry(i, view, n, k)
           Now(k) == Entry(i, view, n + 1, k)
<1>1. /\ l \in Nat /\ DOMAIN kept = 1 .. l
      /\ (\A j, k \in 1 .. l : kept[j] = kept[k] => j = k)
      /\ (\A j \in 1 .. l : kept[j] \in Reference(i, view, n))
      /\ \A x \in Reference(i, view, n) : \E j \in 1 .. l : kept[j] = x
  BY ListIs
<1>2. IsView(view) /\ IsOutcome(new, n + 1)
  BY ViewsAre DEF IsView
<1>3. Firsts(rows, n + 1) = Firsts(rows, n)
  <2>1. \E k \in Firsts(rows, n) : rows[k].msisdn = new.msisdn
    BY HoldsFirst
  <2> QED BY <2>1, RowTaken
<1>4. ASSUME NEW p \in 1 .. l, NEW k, k \in Firsts(rows, n), kept[p] = Was(k) PROVE q[p] = Now(k)
  <2>1. kept[p].msisdn = rows[k].msisdn
    BY <1>4, EntryIs
  <2>2. q[p] = IF kept[p].msisdn = contact.msisdn
               THEN [kept[p] EXCEPT !.attributes = MergeAttributes(@, contact.attributes)]
               ELSE kept[p]
    BY <1>1 DEF Folded
  <2>3. CASE rows[k].msisdn = new.msisdn
    <3>1. Now(k) = [Was(k) EXCEPT !.attributes = MergeAttributes(@, new.attributes)]
      BY <1>4, <2>3, RowMerged
    <3> QED BY <1>4, <2>1, <2>2, <2>3, <3>1
  <2>4. CASE rows[k].msisdn # new.msisdn
    <3>1. Now(k) = Was(k)
      BY <1>2, <1>4, <2>4, RowEntry
    <3> QED BY <1>4, <2>1, <2>2, <2>4, <3>1
  <2> QED BY <2>3, <2>4
<1>5. ASSUME NEW p \in 1 .. l PROVE \E k \in Firsts(rows, n) : kept[p] = Was(k) /\ q[p] = Now(k)
  <2>1. PICK k \in Firsts(rows, n) : kept[p] = Was(k)
    BY <1>1, Zenon DEF Reference
  <2> QED BY <1>4, <2>1
<1>6. DOMAIN q = 1 .. l
  BY <1>1 DEF Folded
<1> HIDE DEF q, l, Was, Now
<1>7. \A k : Was(k) = Entry(i, view, n, k) /\ Now(k) = Entry(i, view, n + 1, k) /\ Now(k).line = k
  BY EntryIs DEF Was, Now
<1>8. \A j \in 1 .. l : q[j] \in Reference(i, view, n + 1)
  BY <1>3, <1>5, <1>7, Zenon DEF Reference
<1>9. \A x \in Reference(i, view, n + 1) : \E j \in 1 .. l : q[j] = x
  <2> SUFFICES ASSUME NEW x \in Reference(i, view, n + 1) PROVE \E j \in 1 .. l : q[j] = x
    OBVIOUS
  <2>1. PICK k \in Firsts(rows, n) : x = Now(k)
    BY <1>3, <1>7, Zenon DEF Reference
  <2>2. Was(k) \in Reference(i, view, n)
    BY <1>7, Zenon DEF Reference
  <2>3. PICK j \in 1 .. l : kept[j] = Was(k)
    BY <1>1, <2>2
  <2> QED BY <1>4, <2>1, <2>3
<1>10. ASSUME NEW j \in 1 .. l, NEW k \in 1 .. l, q[j] = q[k] PROVE j = k
  <2>1. PICK a1 \in Firsts(rows, n) : kept[j] = Was(a1) /\ q[j] = Now(a1)
    BY <1>5
  <2>2. PICK a2 \in Firsts(rows, n) : kept[k] = Was(a2) /\ q[k] = Now(a2)
    BY <1>5
  <2>3. a1 = a2
    <3>1. Now(a1).line = a1 /\ Now(a2).line = a2
      BY <1>7
    <3> QED BY <1>10, <2>1, <2>2, <3>1
  <2> QED BY <1>1, <2>1, <2>2, <2>3
<1>11. Reference(i, view, n + 1) \subseteq Entries
  <2>1. Len(view.rows) \in Nat
    BY <1>2 DEF IsView
  <2>2. n + 1 \in 0 .. Len(view.rows)
    BY <2>1
  <2> QED BY <2>2, ReferenceIs
<1>12. q \in Seq(Entries) /\ Len(q) = l
  <2>1. q = [j \in 1 .. l |-> q[j]]
    BY <1>6 DEF q, Folded
  <2>2. q \in [1 .. l -> Entries]
    BY <1>8, <1>11, <2>1
  <2>3. q \in Seq(Entries)
    BY <1>1, <2>2, SeqDef
  <2> QED BY <1>1, <1>6, <2>3
<1>13. ListOf(q, Reference(i, view, n + 1))
  BY <1>8, <1>9, <1>10, <1>12, IsList
<1> QED BY <1>12, <1>13 DEF q, l

(* One more row offered, and one more row stood for.                         *)
LEMMA OfferedList ==
  ASSUME NEW i \in Imports, NEW view \in Views, NEW n \in Nat, n + 1 <= Len(view.rows),
         view.rows[n + 1].kind = "accepted",
         NEW kept, ListOf(kept, Reference(i, view, n)), NEW contact,
         contact = [import |-> i, line |-> n + 1, msisdn |-> view.rows[n + 1].msisdn,
                    attributes |-> view.rows[n + 1].attributes],
         NEW now, now = Offered(view.asked.dedup, kept, contact)
  PROVE  /\ ListOf(now, Reference(i, view, n + 1))
         /\ Len(now) = IF Holds(kept, contact.msisdn) THEN Len(kept) ELSE Len(kept) + 1
         /\ ~Holds(kept, contact.msisdn) =>
                /\ Reference(i, view, n + 1) = Reference(i, view, n) \cup {contact}
                /\ contact \notin Reference(i, view, n)
         /\ Holds(kept, contact.msisdn) /\ view.asked.dedup = "first_wins" =>
                Reference(i, view, n + 1) = Reference(i, view, n)
<1> DEFINE rows == view.rows  new == view.rows[n + 1]  dedup == view.asked.dedup
           held == Holds(kept, new.msisdn)
<1>1. IsView(view) /\ IsOutcome(new, n + 1) /\ dedup \in {"first_wins", "merge_attributes"}
  BY ViewsAre DEF IsView
<1>2. contact.msisdn = new.msisdn /\ contact.attributes = new.attributes /\ contact.line = n + 1
  OBVIOUS
<1>3. Reference(i, view, n + 1) \subseteq Entries /\ kept \in Seq(Entries) /\ Len(kept) \in Nat
  <2>1. Len(view.rows) \in Nat
    BY <1>1 DEF IsView
  <2>2. n + 1 \in 0 .. Len(view.rows)
    BY <2>1
  <2> QED BY <2>2, ReferenceIs, ListIs
<1>4. \A k \in Firsts(rows, n) : k \in 1 .. n
  BY DEF Firsts, Accepted
<1>5. CASE ~held
  <2>1. \A k \in Firsts(rows, n) : rows[k].msisdn # new.msisdn
    BY <1>5, HoldsFirst
  <2>2. Firsts(rows, n + 1) = Firsts(rows, n) \cup {n + 1}
    BY <2>1, RowTaken
  <2>3. \A k \in Firsts(rows, n) : Entry(i, view, n + 1, k) = Entry(i, view, n, k)
    BY <1>1, <2>1, RowEntry
  <2>4. Entry(i, view, n + 1, n + 1) = contact
    BY <1>1, <2>1, RowEntry
  <2>5. Reference(i, view, n + 1) = Reference(i, view, n) \cup {contact}
    BY <2>2, <2>3, <2>4 DEF Reference
  <2>6. contact \notin Reference(i, view, n)
    <3>1. ASSUME NEW c \in Reference(i, view, n) PROVE c.line \in 1 .. n
      <4>1. PICK k \in Firsts(rows, n) : c = Entry(i, view, n, k)
        BY Zenon DEF Reference
      <4> QED BY <1>4, <4>1, EntryIs
    <3>2. contact.line \notin 1 .. n
      BY <1>2
    <3> QED BY <3>1, <3>2
  <2>7. now = Append(kept, contact)
    BY <1>2, <1>5, Zenon DEF Offered
  <2>8. contact \in Entries
    BY <1>3, <2>5
  <2>9. ListOf(now, Reference(i, view, n + 1)) /\ Len(now) = Len(kept) + 1
    <3>1. contact \in Entries \ Reference(i, view, n)
      BY <2>6, <2>8
    <3>2. ListOf(Append(kept, contact), Reference(i, view, n) \cup {contact})
      BY <3>1, ListGrows
    <3>3. Len(now) = Len(kept) + 1
      BY <1>3, <2>7, <2>8, AppendProperties
    <3> QED BY <2>5, <2>7, <3>2, <3>3, Zenon
  <2> QED BY <1>2, <1>5, <2>5, <2>6, <2>9
<1>6. CASE held /\ dedup = "merge_attributes"
  <2>1. now = Folded(kept, contact)
    BY <1>2, <1>6, Zenon DEF Offered
  <2>2. ListOf(now, Reference(i, view, n + 1)) /\ Len(now) = Len(kept)
    BY <1>2, <1>6, <2>1, FoldedList
  <2> QED BY <1>2, <1>6, <2>2
<1>7. CASE held /\ dedup = "first_wins"
  <2>1. Firsts(rows, n + 1) = Firsts(rows, n)
    <3>1. \E k \in Firsts(rows, n) : rows[k].msisdn = new.msisdn
      BY <1>7, HoldsFirst
    <3> QED BY <3>1, RowTaken
  <2>2. \A k \in Firsts(rows, n) : Entry(i, view, n + 1, k) = Entry(i, view, n, k)
    BY <1>1, <1>7, RowEntry
  <2>3. Reference(i, view, n + 1) = Reference(i, view, n)
    BY <2>1, <2>2 DEF Reference
  <2>4. now = kept
    BY <1>2, <1>7, Zenon DEF Offered
  <2> QED BY <1>2, <1>7, <2>3, <2>4
<1> QED BY <1>1, <1>5, <1>6, <1>7

(* How many of the rows are of a kind.                                       *)
LEMMA OneMore ==
  ASSUME NEW rows, NEW n \in Nat, NEW kind
  PROVE  /\ Of(rows, n, kind) \in Nat /\ Of(rows, 0, kind) = 0
         /\ Of(rows, n + 1, kind) = IF rows[n + 1].kind = kind THEN Of(rows, n, kind) + 1
                                                              ELSE Of(rows, n, kind)
<1> DEFINE some(m) == {k \in 1 .. m : rows[k].kind = kind}
<1>1. IsFiniteSet(some(n)) /\ Cardinality(some(n)) \in Nat
  <2>1. IsFiniteSet(1 .. n)
    BY FS_Interval
  <2>2. IsFiniteSet(some(n))
    BY <2>1, FS_Subset
  <2> QED BY <2>2, FS_CardinalityType
<1>2. n + 1 \notin some(n)
  OBVIOUS
<1>3. some(n + 1) = IF rows[n + 1].kind = kind THEN some(n) \cup {n + 1} ELSE some(n)
  OBVIOUS
<1>4. some(0) = {} /\ Cardinality({}) = 0
  BY FS_EmptySet
<1>5. Cardinality(some(n) \cup {n + 1}) = Cardinality(some(n)) + 1
  BY <1>1, <1>2, FS_AddElement
<1> QED BY <1>1, <1>3, <1>4, <1>5, Zenon DEF Of

-----------------------------------------------------------------------------
(* The invariant                                                             *)

Tallies   == [imported : Nat, rejected : Nat, duplicates : Nat, blank : Nat]
Events    == [processed : Nat, done : BOOLEAN]
WriterPcs == {"idle", "opening", "receiving", "inserting", "enrolling", "joining", "forwarding", "answered"}
ReaderPcs == {"absent", "reading", "offering", "ended"}
Writers   == [pc : WriterPcs, tally : Tallies, kept : Seq(Entries), batch : Seq(Entries),
              reported : Nat, finishing : BOOLEAN, stopped : BOOLEAN]
Readers   == [at : Nat, pc : ReaderPcs, hand : Outcomes \cup {None}, failed : BOOLEAN]
Answers   == [is : {"none", "busy", "failed"}]
               \cup [is : {"report"}, counts : Tallies, total : Nat, cancelled : BOOLEAN]

Typed ==
  /\ slot \in Imports \cup {None} /\ cancelled \subseteq Imports
  /\ request \in [Imports -> Views \cup {None}]
  /\ reader \in [Imports -> Readers] /\ queue \in [Imports -> Seq(Outcomes)]
  /\ open \in [Imports -> BOOLEAN] /\ writer \in [Imports -> Writers]
  /\ outbox \in [Imports -> Seq(Events)] /\ answer \in [Imports -> Answers]
  /\ contacts \in Seq(Entries) /\ members \subseteq ToSet(contacts)

Limits(i) ==
  /\ Len(queue[i]) <= RowQueue /\ Len(outbox[i]) <= ProgressQueue
  /\ ~writer[i].finishing => Len(writer[i].batch) <= BatchSize
  /\ At(i, "receiving") => Len(writer[i].batch) < BatchSize /\ ~writer[i].finishing

(* A call has asked for an import unless it has not come or was turned away. *)
Asked(i) == ~At(i, "idle") /\ answer[i].is # "busy"
Untouched(i) ==
  /\ writer[i] = [Idle EXCEPT !.pc = writer[i].pc] /\ reader[i] = NoReader
  /\ queue[i] = <<>> /\ outbox[i] = <<>> /\ Stored(i) = {} /\ open[i] = FALSE
Calls(i) ==
  /\ Asked(i) => request[i] \in Views
  /\ ~Asked(i) \/ At(i, "opening") => Untouched(i)
  /\ answer[i].is = "none" <=> ~(At(i, "forwarding") \/ At(i, "answered"))
  /\ answer[i].is = "busy" => At(i, "answered")

(* The rows the reader handed over are those of the file: n of them the      *)
(* writer has taken, the others wait.                                        *)
ReadSoFar(i, n) ==
  /\ reader[i].at = n + Len(queue[i]) + 1 /\ reader[i].at <= Len(request[i].rows) + 1
  /\ \A k \in 1 .. Len(queue[i]) : queue[i][k] = request[i].rows[n + k]
  /\ \A k \in 1 .. reader[i].at - 1 : request[i].rows[k].kind # "broken"
  /\ reader[i].pc = "offering" =>
       /\ reader[i].at <= Len(request[i].rows) /\ reader[i].hand = request[i].rows[reader[i].at]
       /\ reader[i].hand.kind # "broken"
  /\ open[i] /\ reader[i].pc = "ended" /\ ~reader[i].failed =>
       i \in cancelled \/ reader[i].at = Len(request[i].rows) + 1

(* A writer that is not stopped has the whole file when it finishes.         *)
WholeFile(i) == reader[i].at = Len(request[i].rows) + 1 /\ queue[i] = <<>>
EndsWell(i) ==
  /\ writer[i].pc \in {"receiving", "inserting", "enrolling"} /\ ~writer[i].finishing =>
       open[i] /\ ~writer[i].stopped
  /\ writer[i].pc = "joining" => writer[i].finishing /\ writer[i].batch = <<>>
  /\ writer[i].finishing /\ ~writer[i].stopped =>
       /\ reader[i].pc = "ended" /\ queue[i] = <<>>
       /\ reader[i].failed \/ i \in cancelled \/ WholeFile(i)

CountedSoFar(i, n) ==
  /\ ListOf(writer[i].kept, Reference(i, request[i], n))
  /\ writer[i].tally.imported = Len(writer[i].kept)
  /\ writer[i].tally.rejected = Of(request[i].rows, n, "rejected")
  /\ writer[i].tally.blank = Of(request[i].rows, n, "blank")
  /\ Processed(writer[i].tally) + writer[i].tally.blank = n

(* What is stored, and what of the batch is not yet: under MergeAttributes   *)
(* nothing is written before the writer finishes.                            *)
Settled(i, n) ==
  IF Options(i).dedup = "merge_attributes" /\ ~writer[i].finishing THEN {}
  ELSE Reference(i, request[i], n)
Behind(w) == SubSeq(w.batch, ChunkSize(w) + 1, Len(w.batch))
Rest(i)  == IF At(i, "enrolling") THEN Behind(writer[i]) ELSE writer[i].batch
Loose(i) == IF At(i, "enrolling") THEN ToSet(Chunk(writer[i])) ELSE {}
StoredSoFar(i, n) ==
  /\ ListOf(writer[i].batch, ToSet(writer[i].batch))
  /\ Stored(i) \cup ToSet(writer[i].batch) = Settled(i, n)
  /\ Stored(i) \cap ToSet(Rest(i)) = {} /\ Loose(i) \subseteq Stored(i)
  /\ Options(i).list # None => Stored(i) \subseteq members \cup Loose(i)

(* What a report says.                                                       *)
Answered(i) ==
  answer[i].is = "report" =>
    /\ writer[i].finishing /\ writer[i].batch = <<>> /\ reader[i].pc = "ended"
    /\ answer[i].counts = writer[i].tally /\ answer[i].total = Processed(writer[i].tally)
    /\ ~answer[i].cancelled => WholeFile(i)
    /\ At(i, "answered") => outbox[i] = <<>>

Story(i, n) ==
  /\ ReadSoFar(i, n) /\ CountedSoFar(i, n)
  /\ answer[i].is # "failed" => StoredSoFar(i, n)
One(i) ==
  /\ Limits(i) /\ Calls(i) /\ EndsWell(i) /\ Answered(i)
  /\ Asked(i) => \E n \in 0 .. Len(request[i].rows) : Story(i, n)

AllInv == Typed /\ OneImport /\ IsInjective(contacts) /\ \A i \in Imports : One(i)

-----------------------------------------------------------------------------
(* It implies what the run checks                                            *)

LEMMA AllImplies == ASSUME AllInv PROVE ImportInv
<1>1. TypeOK
  BY DEF AllInv, Typed, TypeOK, One, Limits, Writers, Readers, WriterPcs, ReaderPcs
<1>2. ASSUME NEW i \in Imports, Reported(i)
      PROVE  /\ outbox[i] = <<>>
             /\ \E n \in 0..FileLength(i) :
                  /\ ~answer[i].cancelled => n = FileLength(i)
                  /\ Stored(i) = Reference(i, request[i], n)
                  /\ answer[i].counts.imported = Cardinality(Stored(i))
                  /\ Cardinality(Copies(i)) = Cardinality(Stored(i))
                  /\ answer[i].counts.rejected = Of(request[i].rows, n, "rejected")
                  /\ answer[i].counts.blank = Of(request[i].rows, n, "blank")
                  /\ answer[i].total = n - Of(request[i].rows, n, "blank")
                  /\ Options(i).list # None => Stored(i) \subseteq members
  <2>1. /\ answer[i].is = "report" /\ At(i, "answered") /\ outbox[i] = <<>>
        /\ writer[i].finishing /\ writer[i].batch = <<>>
        /\ ~answer[i].cancelled => WholeFile(i)
        /\ answer[i].counts = writer[i].tally /\ answer[i].total = Processed(writer[i].tally)
    BY <1>2 DEF AllInv, One, Answered, Reported
  <2>2. Asked(i) /\ request[i] \in Views
    BY <2>1 DEF AllInv, One, Calls, Asked, At
  <2>3. PICK n \in 0 .. Len(request[i].rows) : Story(i, n)
    BY <2>2 DEF AllInv, One
  <2>4. request[i] \in Views /\ IsView(request[i]) /\ Len(request[i].rows) \in Nat
    BY <2>2, ViewsAre DEF IsView
  <2>5. Stored(i) = Reference(i, request[i], n)
    <3>1. StoredSoFar(i, n)
      BY <2>1, <2>3 DEF Story
    <3>2. ToSet(writer[i].batch) = {}
      BY <2>1, EmptyList
    <3> QED BY <2>1, <3>1, <3>2 DEF StoredSoFar, Settled
  <2>6. Options(i).list # None => Stored(i) \subseteq members
    BY <2>1, <2>3 DEF Story, StoredSoFar, Loose, At
  <2>7. writer[i].tally.imported = Cardinality(Stored(i)) /\ IsFiniteSet(Stored(i))
    BY <2>3, <2>5, ListCounts DEF Story, CountedSoFar
  <2>8. Cardinality(Copies(i)) = Cardinality(Stored(i))
    <3> DEFINE f == [k \in Copies(i) |-> contacts[k]]
    <3>1. \A j, k \in DOMAIN contacts : contacts[j] = contacts[k] => j = k
      BY DEF AllInv, IsInjective
    <3>2. f \in Injection(Copies(i), Stored(i))
      BY <3>1 DEF Injection, IsInjective, Copies, Stored, ToSet
    <3>3. f \in Surjection(Copies(i), Stored(i))
      <4>1. f \in [Copies(i) -> Stored(i)]
        BY <3>2 DEF Injection
      <4>2. \A c \in Stored(i) : \E k \in Copies(i) : f[k] = c
        BY DEF Copies, Stored, ToSet
      <4> QED BY <4>1, <4>2 DEF Surjection
    <3> QED BY <2>7, <3>2, <3>3, FS_Injection
  <2>9. ~answer[i].cancelled => n = FileLength(i)
    <3> SUFFICES ASSUME ~answer[i].cancelled PROVE n = FileLength(i)
      OBVIOUS
    <3>1. WholeFile(i)
      BY <2>1
    <3>2. reader[i].at = n + Len(queue[i]) + 1 /\ reader[i].at = Len(request[i].rows) + 1 /\ Len(queue[i]) = 0
      BY <2>3, <3>1 DEF Story, ReadSoFar, WholeFile
    <3> QED BY <2>4, <3>2 DEF FileLength
  <2>10. /\ writer[i].tally.rejected = Of(request[i].rows, n, "rejected")
         /\ writer[i].tally.blank = Of(request[i].rows, n, "blank")
         /\ Processed(writer[i].tally) = n - Of(request[i].rows, n, "blank")
    <3>1. writer[i].tally \in Tallies
      BY DEF AllInv, Typed, Writers
    <3>2. Processed(writer[i].tally) \in Nat /\ writer[i].tally.blank \in Nat
      BY <3>1 DEF Tallies, Processed
    <3>3. /\ writer[i].tally.rejected = Of(request[i].rows, n, "rejected")
          /\ writer[i].tally.blank = Of(request[i].rows, n, "blank")
          /\ Processed(writer[i].tally) + writer[i].tally.blank = n
      BY <2>3 DEF Story, CountedSoFar
    <3> QED BY <2>4, <3>2, <3>3
  <2> QED BY <2>1, <2>5, <2>6, <2>7, <2>8, <2>9, <2>10 DEF FileLength
<1>3. ReportIsTrue
  BY <1>2, Zenon DEF ReportIsTrue
<1> QED BY <1>1, <1>3 DEF ImportInv, AllInv

LEMMA AllInit == ASSUME Init PROVE AllInv
<1>1. None \notin Imports
  BY ImportAssumption DEF Imports
<1>2. Idle \in Writers /\ NoReader \in Readers /\ NoTally \in Tallies
  <2>1. NoTally \in Tallies
    BY DEF NoTally, Tallies
  <2> QED BY <2>1 DEF Idle, Writers, WriterPcs, NoReader, Readers, ReaderPcs
<1>3. ToSet(<<>>) = {} /\ DOMAIN <<>> = {}
  BY EmptyList
<1>4. Typed
  BY <1>2, <1>3 DEF Init, Typed, Answers
<1>5. ASSUME NEW i \in Imports PROVE One(i)
  <2>1. /\ request[i] = None /\ reader[i] = NoReader /\ queue[i] = <<>> /\ open[i] = FALSE
        /\ writer[i] = Idle /\ outbox[i] = <<>> /\ answer[i].is = "none" /\ Stored(i) = {}
    BY <1>3 DEF Init, Stored
  <2>2. /\ Idle.pc = "idle" /\ Idle.finishing = FALSE /\ Idle.batch = <<>>
        /\ [Idle EXCEPT !.pc = "idle"] = Idle
    <3>1. Idle \in Writers
      BY <1>2
    <3>2. Idle.pc = "idle" /\ Idle.finishing = FALSE /\ Idle.batch = <<>>
      BY Zenon DEF Idle
    <3>3. ASSUME NEW w \in Writers, w.pc = "idle" PROVE [w EXCEPT !.pc = "idle"] = w
      BY <3>3 DEF Writers
    <3> QED BY <3>1, <3>2, <3>3
  <2>3. Limits(i)
    BY <2>1, <2>2, ImportAssumption DEF Limits, At
  <2> QED BY <2>1, <2>2, <2>3 DEF One, Asked, Calls, Untouched, EndsWell, Answered, At
<1>6. OneImport
  BY <1>1 DEF Init, OneImport, Active, At, Idle
<1> QED BY <1>3, <1>4, <1>5, <1>6 DEF AllInv, Init, IsInjective
-----------------------------------------------------------------------------
(* A step of one import                                                      *)

LEMMA Placed ==
  ASSUME NEW S, NEW f \in [Imports -> S], NEW i \in Imports, NEW x \in S
  PROVE  /\ [f EXCEPT ![i] = x] \in [Imports -> S] /\ [f EXCEPT ![i] = x][i] = x
         /\ \A j \in Imports \ {i} : [f EXCEPT ![i] = x][j] = f[j]
OBVIOUS

(* What is known of an import that asked for something.                      *)
LEMMA Known ==
  ASSUME AllInv, NEW i \in Imports
  PROVE  /\ None \notin Imports
         /\ writer[i] \in Writers /\ reader[i] \in Readers /\ queue[i] \in Seq(Outcomes)
         /\ outbox[i] \in Seq(Events) /\ answer[i] \in Answers /\ open[i] \in BOOLEAN
         /\ Asked(i) =>
              /\ request[i] \in Views /\ IsView(request[i]) /\ Len(request[i].rows) \in Nat
              /\ \A k \in 1 .. Len(request[i].rows) : request[i].rows[k] \in Outcomes
<1>1. None \notin Imports
  BY ImportAssumption DEF Imports
<1>2. Asked(i) => request[i] \in Views /\ IsView(request[i]) /\ Len(request[i].rows) \in Nat
  BY ViewsAre DEF AllInv, One, Calls, IsView
<1>3. ASSUME Asked(i), NEW k \in 1 .. Len(request[i].rows) PROVE request[i].rows[k] \in Outcomes
  <2> DEFINE ofView(v) == {v.rows[l] : l \in 1 .. Len(v.rows)}
  <2>1. request[i].rows[k] \in ofView(request[i])
    BY <1>3
  <2>2. Outcomes = UNION {ofView(v) : v \in Views}
    BY Zenon DEF Outcomes
  <2> HIDE DEF ofView
  <2> QED BY <1>2, <1>3, <2>1, <2>2
<1> QED BY <1>1, <1>2, <1>3 DEF AllInv, Typed

(* A step of import i leaves the others alone.                               *)
Apart(i) ==
  /\ cancelled \subseteq cancelled' /\ members \subseteq members'
  /\ \A j \in Imports \ {i} :
      /\ request'[j] = request[j] /\ reader'[j] = reader[j] /\ queue'[j] = queue[j]
      /\ open'[j] = open[j] /\ writer'[j] = writer[j] /\ outbox'[j] = outbox[j]
      /\ answer'[j] = answer[j] /\ Stored(j)' = Stored(j)

LEMMA ReadStands ==
  ASSUME NEW i, NEW n, ReadSoFar(i, n),
         request'[i] = request[i], reader'[i] = reader[i], queue'[i] = queue[i],
         open'[i] => open[i], cancelled \subseteq cancelled'
  PROVE  ReadSoFar(i, n)'
BY DEF ReadSoFar

LEMMA CountStands ==
  ASSUME NEW i, NEW n, CountedSoFar(i, n), request'[i] = request[i],
         writer'[i].kept = writer[i].kept, writer'[i].tally = writer[i].tally
  PROVE  CountedSoFar(i, n)'
BY DEF CountedSoFar

LEMMA StoreStands ==
  ASSUME NEW i, NEW n, StoredSoFar(i, n), request'[i] = request[i],
         writer'[i].batch = writer[i].batch, writer'[i].finishing = writer[i].finishing,
         At(i, "enrolling")' <=> At(i, "enrolling"),
         Stored(i)' = Stored(i), members \subseteq members'
  PROVE  StoredSoFar(i, n)'
<1>1. Settled(i, n)' = Settled(i, n)
  BY Zenon DEF Settled, Options
<1>2. Chunk(writer[i])' = Chunk(writer[i]) /\ Behind(writer[i])' = Behind(writer[i])
  BY DEF Chunk, ChunkSize, Behind
<1>3. Rest(i)' = Rest(i) /\ Loose(i)' = Loose(i)
  BY <1>2, Zenon DEF Rest, Loose
<1> QED BY <1>1, <1>3 DEF StoredSoFar, Options

LEMMA OneStands ==
  ASSUME NEW i \in Imports, One(i), cancelled \subseteq cancelled', members \subseteq members',
         request'[i] = request[i], reader'[i] = reader[i], queue'[i] = queue[i],
         open'[i] = open[i], writer'[i] = writer[i], outbox'[i] = outbox[i],
         answer'[i] = answer[i], Stored(i)' = Stored(i)
  PROVE  One(i)'
<1>1. Limits(i)' /\ Calls(i)' /\ EndsWell(i)' /\ Answered(i)'
  <2>1. Limits(i)' /\ EndsWell(i)' /\ Answered(i)'
    BY DEF One, Limits, EndsWell, Answered, WholeFile, At
  <2>2. Untouched(i)' = Untouched(i) /\ Views' = Views
    BY DEF Untouched
  <2> QED BY <2>1, <2>2 DEF One, Calls, Asked, At
<1>2. ASSUME Asked(i)' PROVE \E n \in 0 .. Len(request'[i].rows) : Story(i, n)'
  <2>1. PICK n \in 0 .. Len(request[i].rows) : Story(i, n)
    BY <1>2 DEF One, Asked, At
  <2>2. ReadSoFar(i, n)' /\ CountedSoFar(i, n)' /\ (StoredSoFar(i, n) => StoredSoFar(i, n)')
    BY <2>1, ReadStands, CountStands, StoreStands DEF Story, At
  <2> QED BY <2>1, <2>2 DEF Story
<1> QED BY <1>1, <1>2 DEF One

LEMMA Gather ==
  ASSUME AllInv, NEW i \in Imports, Apart(i), Typed', IsInjective(contacts)', OneImport', One(i)'
  PROVE  AllInv'
<1>1. ASSUME NEW j \in Imports, j # i PROVE One(j)'
  BY <1>1, OneStands DEF AllInv, Apart
<1> QED BY <1>1 DEF AllInv

(* An import that stays active, or stays answered, keeps the slot as it is.  *)
LEMMA SlotStands ==
  ASSUME AllInv, NEW i \in Imports, Apart(i), slot' = slot, Active(i)' <=> Active(i)
  PROVE  OneImport'
<1>1. ASSUME NEW j \in Imports PROVE Active(j)' <=> Active(j)
  BY <1>1 DEF Apart, Active, At
<1> QED BY <1>1 DEF AllInv, OneImport

LEMMA PcIs ==
  ASSUME NEW w \in Writers, NEW p \in WriterPcs, NEW v, v = [w EXCEPT !.pc = p]
  PROVE  /\ v \in Writers /\ v.pc = p
         /\ v.tally = w.tally /\ v.kept = w.kept /\ v.batch = w.batch
         /\ v.reported = w.reported /\ v.finishing = w.finishing /\ v.stopped = w.stopped
BY DEF Writers

(* A call that begins has its own file, of which no row is read.             *)
LEMMA FirstStory ==
  ASSUME NEW i \in Imports, request'[i] \in Views, Untouched(i)', writer'[i].pc # "enrolling"
  PROVE  Story(i, 0)' /\ Len(request'[i].rows) \in Nat
<1>1. IsView(request'[i]) /\ Len(request'[i].rows) \in Nat /\ Reference(i, request'[i], 0) = {}
  <2>1. IsView(request'[i]) /\ Len(request'[i].rows) \in Nat
    BY ViewsAre DEF IsView
  <2>2. 0 \in 0 .. Len(request'[i].rows)
    BY <2>1
  <2> QED BY <2>1, <2>2, ReferenceIs
<1>2. /\ reader'[i].at = 1 /\ reader'[i].pc = "absent" /\ queue'[i] = <<>> /\ Len(queue'[i]) = 0
      /\ Stored(i)' = {} /\ ~open'[i]
  BY DEF Untouched, NoReader
<1>3. /\ writer'[i].kept = <<>> /\ writer'[i].batch = <<>> /\ writer'[i].tally = NoTally
      /\ writer'[i].finishing = FALSE
  <2>1. writer'[i] = [Idle EXCEPT !.pc = writer'[i].pc]
    BY DEF Untouched
  <2> QED BY <2>1, Zenon DEF Idle
<1>4. NoTally.imported = 0 /\ NoTally.rejected = 0 /\ NoTally.blank = 0 /\ Processed(NoTally) = 0
  BY DEF NoTally, Processed
<1>5. ReadSoFar(i, 0)'
  BY <1>1, <1>2 DEF ReadSoFar
<1>6. CountedSoFar(i, 0)'
  <2>1. ListOf(writer'[i].kept, Reference(i, request'[i], 0)) /\ Len(writer'[i].kept) = 0
    BY <1>1, <1>3, EmptyList
  <2>2. Of(request'[i].rows, 0, "rejected") = 0 /\ Of(request'[i].rows, 0, "blank") = 0
    BY OneMore
  <2>3. Processed(writer'[i].tally) + writer'[i].tally.blank = 0
    BY <1>3, <1>4
  <2> QED BY <1>3, <1>4, <2>1, <2>2, <2>3 DEF CountedSoFar
<1>7. StoredSoFar(i, 0)'
  <2>1. Settled(i, 0)' = {}
    BY <1>1 DEF Settled
  <2>2. Loose(i)' = {} /\ Rest(i)' = <<>>
    BY <1>3, Zenon DEF Loose, Rest, At
  <2>3. ListOf(<<>>, {}) /\ ToSet(<<>>) = {}
    BY EmptyList
  <2> QED BY <1>2, <1>3, <2>1, <2>2, <2>3, Zenon DEF StoredSoFar
<1> QED BY <1>1, <1>5, <1>6, <1>7 DEF Story

LEMMA BeginStep == ASSUME AllInv, NEW i \in Imports, Begin(i) PROVE AllInv'
<1>1. /\ None \notin Imports /\ writer[i] \in Writers /\ writer[i].pc = "idle"
      /\ ~Asked(i) /\ Untouched(i) /\ Active(i) = FALSE /\ slot # i
      /\ answer[i].is = "none"
  BY Known DEF Begin, AllInv, One, Calls, Asked, OneImport, Active, At
<1>2. /\ reader' = reader /\ queue' = queue /\ open' = open /\ outbox' = outbox
      /\ contacts' = contacts /\ members' = members /\ cancelled' = cancelled
      /\ \A j : Stored(j)' = Stored(j)
  BY DEF Begin, reading, store, Stored
<1>3. PICK p \in {"answered", "opening"} : writer' = [writer EXCEPT ![i] = [writer[i] EXCEPT !.pc = p]]
  <2>1. Running => writer' = [writer EXCEPT ![i].pc = "answered"]
    BY DEF Begin
  <2>2. ~Running => writer' = [writer EXCEPT ![i].pc = "opening"]
    BY DEF Begin
  <2> QED BY <2>1, <2>2
<1>4. /\ writer' \in [Imports -> Writers] /\ writer'[i].pc = p /\ writer'[i] = [Idle EXCEPT !.pc = writer'[i].pc]
      /\ writer'[i].finishing = FALSE /\ writer'[i].batch = <<>>
      /\ \A j \in Imports \ {i} : writer'[j] = writer[j]
  <2> DEFINE w == [writer[i] EXCEPT !.pc = p]
  <2>1. w \in Writers /\ w.pc = p
    BY <1>1, PcIs DEF WriterPcs
  <2>2. w = [Idle EXCEPT !.pc = p]
    <3>1. writer[i] = [Idle EXCEPT !.pc = "idle"]
      BY <1>1 DEF Untouched
    <3> QED BY <3>1, Zenon DEF Idle
  <2>3. w.finishing = FALSE /\ w.batch = <<>>
    BY <2>2, Zenon DEF Idle
  <2> HIDE DEF w
  <2> QED BY <1>3, <2>1, <2>2, <2>3, Placed DEF AllInv, Typed, w
<1>5. Untouched(i)'
  BY <1>1, <1>2, <1>4 DEF Untouched
<1>6. CASE Running
  <2>1. /\ answer' = [answer EXCEPT ![i] = [is |-> "busy"]] /\ slot' = slot /\ request' = request
        /\ writer' = [writer EXCEPT ![i].pc = "answered"]
    BY <1>6 DEF Begin
  <2>2. [is |-> "busy"] \in Answers
    BY DEF Answers
  <2>3. /\ answer' \in [Imports -> Answers] /\ answer'[i] = [is |-> "busy"]
        /\ \A j \in Imports \ {i} : answer'[j] = answer[j]
    BY <2>1, <2>2, Placed DEF AllInv, Typed
  <2>4. Apart(i)
    BY <1>2, <1>4, <2>1, <2>3 DEF Apart
  <2>5. writer'[i].pc = "answered"
    BY <2>1 DEF AllInv, Typed, Writers
  <2>6. OneImport'
    <3>1. ~Active(i)' /\ ~Active(i)
      BY <1>1, <2>5 DEF Active, At
    <3> QED BY <2>1, <2>4, <3>1, SlotStands
  <2>7. Typed'
    BY <1>2, <1>4, <2>1, <2>3 DEF AllInv, Typed
  <2>8. One(i)'
    <3>1. Limits(i)' /\ EndsWell(i)'
      BY <1>1, <1>2, <1>4, <2>5, EmptyList, ImportAssumption DEF AllInv, One, Limits, EndsWell, At
    <3>2. Calls(i)' /\ Answered(i)'
      BY <1>1, <1>5, <2>1, <2>3, <2>5 DEF Calls, Asked, Answered, At
    <3> QED BY <2>3, <3>1, <3>2 DEF One, Asked
  <2> QED BY <1>2, <2>4, <2>6, <2>7, <2>8, Gather DEF AllInv
<1>7. CASE ~Running
  <2>1. PICK ask \in Requests[i] : request' = [request EXCEPT ![i] = View(ask)]
    BY <1>7 DEF Begin
  <2>2. slot = None /\ slot' = i /\ answer' = answer /\ writer' = [writer EXCEPT ![i].pc = "opening"]
    BY <1>7 DEF Begin, Running
  <2>3. View(ask) \in Views
    BY DEF Views
  <2>4. /\ request' \in [Imports -> Views \cup {None}] /\ request'[i] = View(ask)
        /\ \A j \in Imports \ {i} : request'[j] = request[j]
    BY <2>1, <2>3, Placed DEF AllInv, Typed
  <2>5. Apart(i)
    BY <1>2, <1>4, <2>2, <2>4 DEF Apart
  <2>6. writer'[i].pc = "opening"
    BY <2>2 DEF AllInv, Typed, Writers
  <2>7. OneImport'
    <3>1. ASSUME NEW j \in Imports PROVE Active(j)' <=> j = i
      <4>1. ~Active(j)
        BY <1>1, <2>2 DEF AllInv, OneImport
      <4>2. CASE j # i
        BY <1>4, <4>1, <4>2 DEF Active, At
      <4>3. CASE j = i
        BY <2>6, <4>3 DEF Active, At
      <4> QED BY <4>2, <4>3
    <3> QED BY <2>2, <3>1 DEF OneImport
  <2>8. Typed'
    BY <1>2, <1>4, <2>2, <2>4 DEF AllInv, Typed
  <2>9. One(i)'
    <3>1. Limits(i)' /\ EndsWell(i)'
      BY <1>1, <1>2, <1>4, <2>6, EmptyList, ImportAssumption DEF AllInv, One, Limits, EndsWell, At
    <3>2. Calls(i)' /\ Answered(i)'
      BY <1>1, <1>5, <2>2, <2>3, <2>4, <2>6 DEF Calls, Asked, Answered, At
    <3>3. Story(i, 0)' /\ Len(request'[i].rows) \in Nat
      BY <1>5, <2>3, <2>4, <2>6, FirstStory DEF At
    <3> QED BY <3>1, <3>2, <3>3 DEF One
  <2> QED BY <1>2, <2>5, <2>7, <2>8, <2>9, Gather DEF AllInv
<1> QED BY <1>6, <1>7

LEMMA CancelStep == ASSUME AllInv, Cancel PROVE AllInv'
<1>1. /\ slot' = slot /\ request' = request /\ reader' = reader /\ queue' = queue /\ open' = open
      /\ writer' = writer /\ outbox' = outbox /\ answer' = answer /\ contacts' = contacts
      /\ members' = members /\ cancelled' = cancelled \cup {slot} /\ slot \in Imports
  BY DEF Cancel, reading, store, AllInv, Typed
<1>2. ASSUME NEW j \in Imports PROVE One(j)'
  <2>1. One(j) /\ Stored(j)' = Stored(j) /\ cancelled \subseteq cancelled'
    BY <1>1 DEF AllInv, Stored
  <2> QED BY <1>1, <2>1, OneStands
<1>3. Typed'
  BY <1>1 DEF AllInv, Typed
<1>4. OneImport'
  BY <1>1 DEF AllInv, OneImport, Active, At
<1> QED BY <1>1, <1>2, <1>3, <1>4 DEF AllInv

(* A step that leaves the store alone leaves it alone for every import.      *)
LEMMA StoreAlone ==
  ASSUME contacts' = contacts
  PROVE  \A j : Stored(j)' = Stored(j)
BY DEF Stored

(* A step that only hands the result back keeps the story of the rows.       *)
LEMMA StoryStands ==
  ASSUME NEW i, NEW n, Story(i, n),
         request'[i] = request[i], reader'[i] = reader[i], queue'[i] = queue[i],
         open'[i] => open[i], cancelled \subseteq cancelled', members \subseteq members',
         Stored(i)' = Stored(i),
         writer'[i].kept = writer[i].kept, writer'[i].tally = writer[i].tally,
         writer'[i].batch = writer[i].batch, writer'[i].finishing = writer[i].finishing,
         answer'[i].is # "failed" =>
             answer[i].is # "failed" /\ (At(i, "enrolling")' <=> At(i, "enrolling"))
  PROVE  Story(i, n)'
<1>1. ReadSoFar(i, n)' /\ CountedSoFar(i, n)'
  BY ReadStands, CountStands DEF Story
<1>2. answer'[i].is # "failed" => StoredSoFar(i, n)'
  BY StoreStands DEF Story
<1> QED BY <1>1, <1>2 DEF Story

(* The call that fails: from any step of the writer, what is stored stays.   *)
LEMMA FailedStep ==
  ASSUME AllInv, NEW i \in Imports, Active(i), ~At(i, "forwarding"),
         Return(i, writer[i], [is |-> "failed"]),
         UNCHANGED <<slot, cancelled, request, reader, queue, outbox, contacts, members>>
  PROVE  AllInv'
<1> DEFINE w == [writer[i] EXCEPT !.pc = "forwarding"]
<1>1. /\ None \notin Imports /\ writer[i] \in Writers /\ Asked(i) /\ request[i] \in Views /\ One(i)
  BY Known DEF AllInv, One, Calls, Asked, Active, At
<1>2. PICK n \in 0 .. Len(request[i].rows) : Story(i, n)
  BY <1>1 DEF One
<1>3. /\ w \in Writers /\ w.pc = "forwarding" /\ w.tally = writer[i].tally /\ w.kept = writer[i].kept
      /\ w.batch = writer[i].batch /\ w.finishing = writer[i].finishing /\ w.stopped = writer[i].stopped
  BY <1>1, PcIs DEF WriterPcs
<1>4. /\ writer' = [writer EXCEPT ![i] = w] /\ answer' = [answer EXCEPT ![i] = [is |-> "failed"]]
      /\ open' = [open EXCEPT ![i] = FALSE]
  BY DEF Return
<1> HIDE DEF w
<1>5. /\ writer' \in [Imports -> Writers] /\ writer'[i] = w /\ \A j \in Imports \ {i} : writer'[j] = writer[j]
  BY <1>3, <1>4, Placed DEF AllInv, Typed
<1>6. /\ open' \in [Imports -> BOOLEAN] /\ open'[i] = FALSE /\ \A j \in Imports \ {i} : open'[j] = open[j]
  BY <1>4, Placed DEF AllInv, Typed
<1>7. /\ answer' \in [Imports -> Answers] /\ answer'[i].is = "failed"
      /\ \A j \in Imports \ {i} : answer'[j] = answer[j]
  <2>1. [is |-> "failed"] \in Answers
    BY DEF Answers
  <2> QED BY <1>4, <2>1, Placed DEF AllInv, Typed
<1>8. \A j : Stored(j)' = Stored(j)
  BY StoreAlone
<1>9. Apart(i)
  BY <1>5, <1>6, <1>7, <1>8 DEF Apart
<1>10. OneImport'
  <2>1. Active(i)'
    BY <1>3, <1>5 DEF Active, At
  <2> QED BY <1>9, <2>1, SlotStands
<1>11. Typed'
  BY <1>5, <1>6, <1>7 DEF AllInv, Typed
<1>12. One(i)'
  <2>1. Limits(i)'
    BY <1>1, <1>3, <1>5 DEF One, Limits, At
  <2>2. EndsWell(i)' /\ Answered(i)'
    BY <1>1, <1>3, <1>5, <1>7 DEF One, EndsWell, Answered, WholeFile
  <2>3. Calls(i)' /\ Asked(i)'
    BY <1>1, <1>3, <1>5, <1>7 DEF Calls, Asked, At
  <2>4. Story(i, n)'
    BY <1>2, <1>3, <1>5, <1>6, <1>7, <1>8, StoryStands
  <2> QED BY <1>2, <2>1, <2>2, <2>3, <2>4 DEF One
<1> QED BY <1>9, <1>10, <1>11, <1>12, Gather DEF AllInv

LEMMA OpenStep == ASSUME AllInv, NEW i \in Imports, Open(i) PROVE AllInv'
<1>1. /\ None \notin Imports /\ writer[i] \in Writers /\ writer[i].pc = "opening" /\ answer[i].is = "none"
      /\ Asked(i) /\ Untouched(i) /\ request[i] \in Views /\ Active(i) /\ One(i)
  BY Known DEF Open, AllInv, One, Calls, Asked, Active, At
<1>2. /\ slot' = slot /\ cancelled' = cancelled /\ request' = request /\ queue' = queue
      /\ outbox' = outbox /\ contacts' = contacts /\ members' = members
      /\ \A j : Stored(j)' = Stored(j)
  BY StoreAlone DEF Open, store
<1>3. PICK n \in 0 .. Len(request[i].rows) : Story(i, n)
  BY <1>1 DEF One
<1>4. /\ writer[i].finishing = FALSE /\ writer[i].batch = <<>> /\ writer[i].stopped = FALSE
      /\ reader[i] = NoReader /\ NoReader \in Readers /\ queue[i] = <<>> /\ outbox[i] = <<>>
  <2>1. writer[i] = [Idle EXCEPT !.pc = "opening"] /\ reader[i] = NoReader
        /\ queue[i] = <<>> /\ outbox[i] = <<>>
    BY <1>1 DEF Untouched
  <2>2. NoReader \in Readers
    BY <2>1, Known
  <2> QED BY <2>1, <2>2, Zenon DEF Idle
<1>5. CASE request[i].opens
  <2>1. /\ reader' = [reader EXCEPT ![i] = [reader[i] EXCEPT !.pc = "reading"]]
        /\ open' = [open EXCEPT ![i] = TRUE] /\ answer' = answer
        /\ writer' = [writer EXCEPT ![i] = [writer[i] EXCEPT !.pc = "receiving"]]
    BY <1>5 DEF Open
  <2> DEFINE w == [writer[i] EXCEPT !.pc = "receiving"]
             r == [reader[i] EXCEPT !.pc = "reading"]
  <2>2. /\ w \in Writers /\ w.pc = "receiving" /\ w.tally = writer[i].tally /\ w.kept = writer[i].kept
        /\ w.batch = <<>> /\ w.finishing = FALSE /\ w.stopped = FALSE
    BY <1>1, <1>4, PcIs DEF WriterPcs
  <2>3. r \in Readers /\ r.at = reader[i].at /\ r.pc = "reading"
    BY <1>4 DEF Readers, ReaderPcs
  <2> HIDE DEF w, r
  <2>4. /\ writer' \in [Imports -> Writers] /\ writer'[i] = w /\ \A j \in Imports \ {i} : writer'[j] = writer[j]
    BY <2>1, <2>2, Placed DEF AllInv, Typed, w
  <2>5. /\ reader' \in [Imports -> Readers] /\ reader'[i] = r /\ \A j \in Imports \ {i} : reader'[j] = reader[j]
    BY <2>1, <2>3, Placed DEF AllInv, Typed, r
  <2>6. /\ open' \in [Imports -> BOOLEAN] /\ open'[i] = TRUE /\ \A j \in Imports \ {i} : open'[j] = open[j]
    BY <2>1, Placed DEF AllInv, Typed
  <2>7. Apart(i)
    BY <1>2, <2>1, <2>4, <2>5, <2>6 DEF Apart
  <2>8. OneImport'
    <3>1. Active(i)'
      BY <2>2, <2>4 DEF Active, At
    <3> QED BY <1>1, <1>2, <2>7, <3>1, SlotStands
  <2>9. Typed'
    BY <1>2, <2>1, <2>4, <2>5, <2>6 DEF AllInv, Typed
  <2>10. One(i)'
    <3>1. Limits(i)'
      <4>1. Len(writer'[i].batch) = 0 /\ BatchSize \in Nat \ {0}
        BY <2>2, <2>4, ImportAssumption
      <4> QED BY <1>1, <1>2, <2>2, <2>4, <4>1 DEF One, Limits, At
    <3>2. EndsWell(i)' /\ Answered(i)'
      BY <1>1, <2>1, <2>2, <2>4, <2>6 DEF EndsWell, Answered
    <3>3. Calls(i)' /\ Asked(i)'
      BY <1>1, <1>2, <2>1, <2>2, <2>4 DEF Calls, Asked, At
    <3>4. Story(i, n)'
      <4>1. ReadSoFar(i, n)'
        <5>1. ReadSoFar(i, n)
          BY <1>3 DEF Story
        <5> QED BY <1>2, <2>3, <2>5, <5>1 DEF ReadSoFar
      <4>2. CountedSoFar(i, n)'
        BY <1>2, <1>3, <2>2, <2>4, CountStands DEF Story
      <4>3. StoredSoFar(i, n)'
        BY <1>1, <1>2, <1>3, <1>4, <2>2, <2>4, StoreStands DEF Story, At
      <4> QED BY <4>1, <4>2, <4>3 DEF Story
    <3> QED BY <1>2, <1>3, <3>1, <3>2, <3>3, <3>4 DEF One
  <2> QED BY <1>2, <2>7, <2>8, <2>9, <2>10, Gather DEF AllInv
<1>6. CASE ~request[i].opens
  <2>1. Return(i, writer[i], [is |-> "failed"]) /\ reader' = reader
    BY <1>6 DEF Open
  <2>2. ~At(i, "forwarding")
    BY <1>1 DEF At
  <2> QED BY <1>1, <1>2, <2>1, <2>2, FailedStep
<1> QED BY <1>5, <1>6

LEMMA ForwardStep == ASSUME AllInv, NEW i \in Imports, Forward(i) PROVE AllInv'
<1>1. /\ slot' = slot /\ cancelled' = cancelled /\ request' = request /\ reader' = reader
      /\ queue' = queue /\ open' = open /\ writer' = writer /\ answer' = answer
      /\ contacts' = contacts /\ members' = members /\ \A j : Stored(j)' = Stored(j)
  BY StoreAlone DEF Forward, reading, store
<1>2. One(i) /\ outbox[i] # <<>> /\ outbox[i] \in Seq(Events)
  BY DEF Forward, AllInv, Typed
<1>3. Tail(outbox[i]) \in Seq(Events) /\ Len(Tail(outbox[i])) <= Len(outbox[i])
  BY <1>2
<1>4. /\ outbox' \in [Imports -> Seq(Events)] /\ outbox'[i] = Tail(outbox[i])
      /\ \A j \in Imports \ {i} : outbox'[j] = outbox[j]
  BY <1>3 DEF Forward, AllInv, Typed
<1>5. Apart(i)
  BY <1>1, <1>4 DEF Apart
<1>6. Typed' /\ IsInjective(contacts)' /\ OneImport'
  BY <1>1, <1>4 DEF AllInv, Typed, OneImport, Active, At
<1>7. One(i)'
  <2>1. Limits(i)'
    <3>1. Len(Tail(outbox[i])) <= ProgressQueue
      <4>1. Len(outbox[i]) \in Nat /\ Len(Tail(outbox[i])) \in Nat /\ ProgressQueue \in Nat
            /\ Len(outbox[i]) <= ProgressQueue
        BY <1>2, <1>3, ImportAssumption DEF One, Limits
      <4> QED BY <1>3, <4>1
    <3> QED BY <1>1, <1>2, <1>4, <3>1 DEF One, Limits, At
  <2>2. EndsWell(i)' /\ Answered(i)'
    BY <1>1, <1>2 DEF One, EndsWell, Answered, WholeFile, At
  <2>3. Asked(i) /\ ~At(i, "opening") /\ Calls(i)
    BY <1>2 DEF One, Calls, Untouched
  <2>4. Calls(i)' /\ Asked(i)'
    BY <1>1, <2>3 DEF Calls, Asked, At
  <2>5. PICK n \in 0 .. Len(request[i].rows) : Story(i, n)
    BY <1>2, <2>3 DEF One
  <2>6. Story(i, n)'
    BY <1>1, <2>5, StoryStands DEF At
  <2> QED BY <1>1, <2>1, <2>2, <2>4, <2>5, <2>6 DEF One
<1> QED BY <1>5, <1>6, <1>7, Gather

LEMMA AnswerStep == ASSUME AllInv, NEW i \in Imports, Answer(i) PROVE AllInv'
<1> DEFINE w == [writer[i] EXCEPT !.pc = "answered"]
<1>1. /\ None \notin Imports /\ writer[i] \in Writers /\ writer[i].pc = "forwarding" /\ outbox[i] = <<>>
      /\ Asked(i) /\ Calls(i) /\ request[i] \in Views /\ slot = i /\ One(i)
      /\ answer[i].is # "none" /\ answer[i].is # "busy"
  BY Known DEF Answer, ForwarderGone, AllInv, One, Calls, Asked, OneImport, Active, At
<1>2. /\ slot' = None /\ cancelled' = cancelled /\ request' = request /\ reader' = reader
      /\ queue' = queue /\ open' = open /\ outbox' = outbox /\ answer' = answer
      /\ contacts' = contacts /\ members' = members /\ \A j : Stored(j)' = Stored(j)
      /\ writer' = [writer EXCEPT ![i] = w]
  BY <1>1, StoreAlone DEF Answer, reading, store
<1>3. /\ w \in Writers /\ w.pc = "answered" /\ w.tally = writer[i].tally /\ w.kept = writer[i].kept
      /\ w.batch = writer[i].batch /\ w.finishing = writer[i].finishing /\ w.stopped = writer[i].stopped
  BY <1>1, PcIs DEF WriterPcs
<1> HIDE DEF w
<1>4. /\ writer' \in [Imports -> Writers] /\ writer'[i] = w /\ \A j \in Imports \ {i} : writer'[j] = writer[j]
  BY <1>2, <1>3, Placed DEF AllInv, Typed
<1>5. Apart(i)
  BY <1>2, <1>4 DEF Apart
<1>6. Typed' /\ IsInjective(contacts)'
  BY <1>2, <1>4 DEF AllInv, Typed
<1>7. OneImport'
  <2>1. ASSUME NEW j \in Imports PROVE ~Active(j)'
    <3>1. CASE j = i
      BY <1>3, <1>4, <3>1 DEF Active, At
    <3>2. CASE j # i
      <4>1. ~Active(j)
        BY <1>1, <3>2 DEF AllInv, OneImport
      <4> QED BY <1>4, <3>2, <4>1 DEF Active, At
    <3> QED BY <3>1, <3>2
  <2> QED BY <1>1, <1>2, <2>1 DEF OneImport
<1>8. One(i)'
  <2>1. Limits(i)'
    BY <1>1, <1>2, <1>3, <1>4 DEF One, Limits, At
  <2>2. EndsWell(i)' /\ Answered(i)'
    BY <1>1, <1>2, <1>3, <1>4 DEF One, EndsWell, Answered, WholeFile, At
  <2>3. Calls(i)' /\ Asked(i)'
    BY <1>1, <1>2, <1>3, <1>4 DEF Calls, Asked, At
  <2>4. PICK n \in 0 .. Len(request[i].rows) : Story(i, n)
    BY <1>1 DEF One
  <2>5. Story(i, n)'
    BY <1>1, <1>2, <1>3, <1>4, <2>4, StoryStands DEF At
  <2> QED BY <1>2, <2>1, <2>2, <2>3, <2>4, <2>5 DEF One
<1> QED BY <1>5, <1>6, <1>7, <1>8, Gather

(* A step of the reader while it reads: only its own story moves.            *)
LEMMA ReaderMoves ==
  ASSUME AllInv, NEW i \in Imports, reader[i].pc \in {"reading", "offering"},
         UNCHANGED <<slot, cancelled, request, open, writer, outbox, answer, contacts, members>>,
         reader' \in [Imports -> Readers], queue' \in [Imports -> Seq(Outcomes)],
         \A j \in Imports \ {i} : reader'[j] = reader[j] /\ queue'[j] = queue[j],
         Len(queue'[i]) <= RowQueue,
         \A n \in 0 .. Len(request[i].rows) : ReadSoFar(i, n) => ReadSoFar(i, n)'
  PROVE  AllInv'
<1>1. One(i) /\ Limits(i) /\ Calls(i) /\ EndsWell(i) /\ Answered(i)
  BY DEF AllInv, One
<1>2. /\ Asked(i) /\ ~At(i, "opening") /\ answer[i].is # "report"
      /\ writer[i].finishing => writer[i].stopped
  <2>1. reader[i].pc # "absent" /\ reader[i].pc # "ended"
    OBVIOUS
  <2>2. reader[i] # NoReader
    BY <2>1 DEF NoReader
  <2> QED BY <1>1, <2>1, <2>2 DEF Calls, Untouched, EndsWell, Answered
<1>3. \A j : Stored(j)' = Stored(j)
  BY StoreAlone
<1>4. Apart(i)
  BY <1>3 DEF Apart
<1>5. Typed' /\ IsInjective(contacts)' /\ OneImport'
  BY DEF AllInv, Typed, OneImport, Active, At
<1>6. Limits(i)' /\ EndsWell(i)' /\ Answered(i)'
  <2>1. Limits(i)'
    BY <1>1 DEF Limits, At
  <2>2. EndsWell(i)' /\ Answered(i)'
    BY <1>1, <1>2 DEF EndsWell, Answered
  <2> QED BY <2>1, <2>2
<1>7. Calls(i)' /\ Asked(i)'
  BY <1>1, <1>2 DEF Calls, Asked, At
<1>8. PICK n \in 0 .. Len(request[i].rows) : Story(i, n)
  BY <1>1, <1>2 DEF One
<1>9. Story(i, n)'
  <2>1. ReadSoFar(i, n)' /\ CountedSoFar(i, n)'
    BY <1>8, CountStands DEF Story
  <2>2. answer[i].is # "failed" => StoredSoFar(i, n)'
    BY <1>3, <1>8, StoreStands DEF Story, At
  <2> QED BY <2>1, <2>2 DEF Story
<1>10. One(i)'
  BY <1>6, <1>7, <1>8, <1>9 DEF One
<1> QED BY <1>4, <1>5, <1>10, Gather

LEMMA ReadRowStep == ASSUME AllInv, NEW i \in Imports, ReadRow(i) PROVE AllInv'
<1> DEFINE r == reader[i]
           new == CASE ReadFails(i) -> [r EXCEPT !.pc = "ended", !.failed = TRUE]
                    [] ~ReadFails(i) /\ (r.at > FileLength(i) \/ i \in cancelled) -> [r EXCEPT !.pc = "ended"]
                    [] OTHER -> [r EXCEPT !.pc = "offering", !.hand = RowFor(i, r.at)]
<1>1. r \in Readers /\ r.pc = "reading" /\ reader' = [reader EXCEPT ![i] = new] /\ queue' = queue
  BY Known, Zenon DEF ReadRow
<1>2. Asked(i) /\ request[i] \in Views /\ Len(request[i].rows) \in Nat
  <2>1. reader[i] # NoReader
    BY <1>1 DEF NoReader
  <2>2. Asked(i)
    BY <2>1 DEF AllInv, One, Calls, Untouched
  <2> QED BY <2>2, Known
<1> DEFINE length == Len(request[i].rows)
           new1 == [r EXCEPT !.pc = "ended", !.failed = TRUE]
           new2 == [r EXCEPT !.pc = "ended"]
           new3 == [r EXCEPT !.pc = "offering", !.hand = RowFor(i, r.at)]
<1>3. ASSUME NEW n \in 0 .. length, ReadSoFar(i, n)
      PROVE  /\ new \in Readers /\ new.at = r.at
             /\ new.pc \in {"offering", "ended"}
             /\ new.pc = "offering" => /\ r.at <= length /\ new.hand = request[i].rows[r.at]
                                       /\ new.hand.kind # "broken"
             /\ new.pc = "ended" /\ ~new.failed => i \in cancelled \/ r.at = length + 1
  <2>1. r.at \in Nat \ {0} /\ r.at <= length + 1
    <3>1. r.at = n + Len(queue[i]) + 1 /\ r.at <= length + 1
      BY <1>3 DEF ReadSoFar
    <3>2. Len(queue[i]) \in Nat /\ n \in Nat
      BY Known, <1>2
    <3> QED BY <3>1, <3>2
  <2>2. CASE ReadFails(i)
    <3>1. new = new1
      BY <2>2, Zenon
    <3>2. new1 \in Readers /\ new1.at = r.at /\ new1.pc = "ended" /\ new1.failed = TRUE
      BY <1>1 DEF Readers, ReaderPcs
    <3> QED BY <3>1, <3>2
  <2>3. CASE ~ReadFails(i) /\ (r.at > FileLength(i) \/ i \in cancelled)
    <3>1. new = new2
      BY <2>3, Zenon
    <3>2. new2 \in Readers /\ new2.at = r.at /\ new2.pc = "ended"
      BY <1>1 DEF Readers, ReaderPcs
    <3>3. i \in cancelled \/ r.at = length + 1
      BY <1>2, <2>1, <2>3 DEF FileLength
    <3> QED BY <3>1, <3>2, <3>3
  <2>4. CASE ~ReadFails(i) /\ ~(r.at > FileLength(i) \/ i \in cancelled)
    <3>1. new = new3
      BY <2>4, Zenon
    <3>2. r.at <= length /\ r.at \in 1 .. length
      BY <1>2, <2>1, <2>4 DEF FileLength
    <3>3. RowFor(i, r.at) = request[i].rows[r.at] /\ RowFor(i, r.at) \in Outcomes
      BY <1>2, <3>2, Known DEF RowFor
    <3>4. RowFor(i, r.at).kind # "broken"
      BY <2>4, <3>2 DEF ReadFails, FileLength
    <3> HIDE DEF length
    <3>5. new3 \in Readers /\ new3.at = r.at /\ new3.pc = "offering" /\ new3.hand = RowFor(i, r.at)
      BY <1>1, <3>3 DEF Readers, ReaderPcs
    <3> QED BY <3>1, <3>2, <3>3, <3>4, <3>5
  <2> QED BY <2>2, <2>3, <2>4
<1>4. PICK m \in 0 .. length : ReadSoFar(i, m)
  BY <1>2 DEF AllInv, One, Story
<1>5. new \in Readers
  BY <1>3, <1>4
<1> HIDE DEF new
<1>6. /\ reader' \in [Imports -> Readers] /\ reader'[i] = new /\ \A j \in Imports \ {i} : reader'[j] = reader[j]
  BY <1>1, <1>5, Placed DEF AllInv, Typed
<1>7. UNCHANGED <<slot, cancelled, request, open, writer, outbox, answer, contacts, members>>
  BY DEF ReadRow, store
<1>8. ASSUME NEW n \in 0 .. length, ReadSoFar(i, n) PROVE ReadSoFar(i, n)'
  BY <1>1, <1>3, <1>6, <1>7, <1>8 DEF ReadSoFar
<1>9. queue' \in [Imports -> Seq(Outcomes)] /\ Len(queue'[i]) <= RowQueue
      /\ \A j \in Imports \ {i} : reader'[j] = reader[j] /\ queue'[j] = queue[j]
  BY <1>1, <1>6 DEF AllInv, Typed, One, Limits
<1> QED BY <1>1, <1>6, <1>7, <1>8, <1>9, ReaderMoves

LEMMA OfferStep == ASSUME AllInv, NEW i \in Imports, Offer(i) PROVE AllInv'
<1> DEFINE r == reader[i]  length == Len(request[i].rows)
<1>1. r \in Readers /\ r.pc = "offering" /\ queue[i] \in Seq(Outcomes)
  BY Known, Zenon DEF Offer
<1>2. Asked(i) /\ request[i] \in Views /\ length \in Nat
  <2>1. reader[i] # NoReader
    BY <1>1 DEF NoReader
  <2>2. Asked(i)
    BY <2>1 DEF AllInv, One, Calls, Untouched
  <2> QED BY <2>2, Known
<1>3. PICK m \in 0 .. length : ReadSoFar(i, m)
  BY <1>2 DEF AllInv, One, Story
<1>4. r.at \in 1 .. length /\ r.hand = request[i].rows[r.at] /\ r.hand.kind # "broken" /\ r.hand \in Outcomes
  <2>1. r.at = m + Len(queue[i]) + 1 /\ r.at <= length /\ r.hand = request[i].rows[r.at]
        /\ r.hand.kind # "broken"
    BY <1>1, <1>3 DEF ReadSoFar
  <2>2. r.at \in 1 .. length
    BY <1>1, <1>2, <2>1
  <2> QED BY <1>2, <2>1, <2>2, Known
<1>5. UNCHANGED <<slot, cancelled, request, open, writer, outbox, answer, contacts, members>>
  BY DEF Offer, store
<1>6. CASE open[i] /\ Len(queue[i]) < RowQueue /\ queue' = [queue EXCEPT ![i] = Append(@, r.hand)]
           /\ reader' = [reader EXCEPT ![i].pc = "reading", ![i].at = @ + 1, ![i].hand = None]
  <2> DEFINE new == [r EXCEPT !.pc = "reading", !.at = @ + 1, !.hand = None]
             q == Append(queue[i], r.hand)
  <2>1. new \in Readers /\ new.at = r.at + 1 /\ new.pc = "reading" /\ new.failed = r.failed
    <3>1. r.at + 1 \in Nat
      BY <1>4
    <3>2. ASSUME NEW s \in Readers, NEW at \in Nat,
                 new = [s EXCEPT !.pc = "reading", !.at = at, !.hand = None]
          PROVE  new \in Readers /\ new.at = at /\ new.pc = "reading" /\ new.failed = s.failed
      <4> HIDE DEF new
      <4> QED BY <3>2 DEF Readers, ReaderPcs
    <3>3. new = [r EXCEPT !.pc = "reading", !.at = r.at + 1, !.hand = None]
      OBVIOUS
    <3> HIDE DEF r, new
    <3> QED BY <1>1, <3>1, <3>2, <3>3
  <2>2. q \in Seq(Outcomes) /\ Len(q) = Len(queue[i]) + 1 /\ q[Len(queue[i]) + 1] = r.hand
        /\ \A k \in 1 .. Len(queue[i]) : q[k] = queue[i][k]
    BY <1>1, <1>4, AppendProperties
  <2>3. reader' = [reader EXCEPT ![i] = new]
    BY <1>6 DEF AllInv, Typed
  <2> HIDE DEF new, q
  <2>4. reader' \in [Imports -> Readers] /\ reader'[i] = new /\ \A j \in Imports \ {i} : reader'[j] = reader[j]
    BY <2>1, <2>3, Placed DEF AllInv, Typed
  <2>5. queue' \in [Imports -> Seq(Outcomes)] /\ queue'[i] = q /\ \A j \in Imports \ {i} : queue'[j] = queue[j]
    BY <1>6, <2>2, Placed DEF AllInv, Typed, q
  <2>6. Len(queue'[i]) <= RowQueue
    <3>1. Len(queue[i]) \in Nat /\ RowQueue \in Nat
      BY <1>1, ImportAssumption
    <3> QED BY <1>6, <2>2, <2>5, <3>1
  <2>7. ASSUME NEW n \in 0 .. length, ReadSoFar(i, n) PROVE ReadSoFar(i, n)'
    <3>1. Len(queue[i]) \in Nat /\ n \in Nat /\ r.at = n + Len(queue[i]) + 1
      BY <1>1, <1>2, <2>7 DEF ReadSoFar
    <3>2. new.at = n + Len(q) + 1 /\ new.at <= length + 1
      BY <1>2, <1>4, <2>1, <2>2, <3>1
    <3>3. ASSUME NEW k \in 1 .. Len(q) PROVE q[k] = request[i].rows[n + k]
      <4>1. CASE k \in 1 .. Len(queue[i])
        <5>1. queue[i][k] = request[i].rows[n + k]
          BY <2>7, <4>1 DEF ReadSoFar
        <5> QED BY <2>2, <4>1, <5>1
      <4>2. CASE k = Len(queue[i]) + 1
        <5>1. n + k = r.at
          BY <3>1, <4>2
        <5> QED BY <1>4, <2>2, <4>2, <5>1
      <4> QED BY <2>2, <3>1, <4>1, <4>2
    <3>4. ASSUME NEW k \in 1 .. new.at - 1 PROVE request[i].rows[k].kind # "broken"
      <4>1. k \in 1 .. r.at - 1 \/ k = r.at
        BY <1>4, <2>1
      <4> QED BY <1>4, <2>7, <4>1 DEF ReadSoFar
    <3> QED BY <1>5, <2>1, <2>4, <2>5, <3>2, <3>3, <3>4 DEF ReadSoFar
  <2> QED BY <1>1, <1>5, <2>4, <2>5, <2>6, <2>7, ReaderMoves
<1>7. CASE ~open[i] /\ reader' = [reader EXCEPT ![i].pc = "ended", ![i].hand = None] /\ queue' = queue
  <2> DEFINE new == [r EXCEPT !.pc = "ended", !.hand = None]
  <2>1. new \in Readers /\ new.at = r.at /\ new.pc = "ended"
    BY <1>1 DEF Readers, ReaderPcs
  <2>2. reader' = [reader EXCEPT ![i] = new]
    BY <1>7 DEF AllInv, Typed
  <2> HIDE DEF new
  <2>3. reader' \in [Imports -> Readers] /\ reader'[i] = new /\ \A j \in Imports \ {i} : reader'[j] = reader[j]
    BY <2>1, <2>2, Placed DEF AllInv, Typed
  <2>4. ASSUME NEW n \in 0 .. length, ReadSoFar(i, n) PROVE ReadSoFar(i, n)'
    BY <1>5, <1>7, <2>1, <2>3, <2>4 DEF ReadSoFar
  <2>5. queue' \in [Imports -> Seq(Outcomes)] /\ Len(queue'[i]) <= RowQueue
    BY <1>7 DEF AllInv, Typed, One, Limits
  <2> QED BY <1>1, <1>5, <1>7, <2>3, <2>4, <2>5, ReaderMoves
<1> QED BY <1>6, <1>7 DEF Offer

(* One more row counted.                                                     *)
LEMMA TallyIs ==
  ASSUME NEW tally \in Tallies, NEW kept, NEW o, NEW now, now = Counted(tally, kept, o),
         o.kind \in {"blank", "rejected", "accepted"}
  PROVE  LET fresh == o.kind = "accepted" /\ ~Holds(kept, o.msisdn)
         IN  /\ now \in Tallies
             /\ now.imported = IF fresh THEN tally.imported + 1 ELSE tally.imported
             /\ now.rejected = IF o.kind = "rejected" THEN tally.rejected + 1 ELSE tally.rejected
             /\ now.blank = IF o.kind = "blank" THEN tally.blank + 1 ELSE tally.blank
             /\ Processed(now) + now.blank = Processed(tally) + tally.blank + 1
<1> DEFINE fresh == o.kind = "accepted" /\ ~Holds(kept, o.msisdn)
<1>1. CASE o.kind = "blank"
  <2>1. now = [tally EXCEPT !.blank = @ + 1]
    BY <1>1, Zenon DEF Counted
  <2> QED BY <1>1, <2>1 DEF Tallies, Processed
<1>2. CASE o.kind = "rejected"
  <2>1. now = [tally EXCEPT !.rejected = @ + 1]
    BY <1>2, Zenon DEF Counted
  <2> QED BY <1>2, <2>1 DEF Tallies, Processed
<1>3. CASE fresh
  <2>1. o.kind = "accepted" /\ o.kind # "blank" /\ o.kind # "rejected"
    BY <1>3
  <2>2. now = [tally EXCEPT !.imported = @ + 1]
    BY <1>3, <2>1, Zenon DEF Counted
  <2> HIDE DEF fresh
  <2>3. /\ now \in Tallies /\ now.imported = tally.imported + 1
        /\ now.rejected = tally.rejected /\ now.blank = tally.blank
        /\ Processed(now) + now.blank = Processed(tally) + tally.blank + 1
    BY <2>2 DEF Tallies, Processed
  <2> QED BY <1>3, <2>1, <2>3 DEF fresh
<1>4. CASE o.kind = "accepted" /\ Holds(kept, o.msisdn)
  <2>1. o.kind # "blank" /\ o.kind # "rejected"
    BY <1>4
  <2>2. now = [tally EXCEPT !.duplicates = @ + 1]
    BY <1>4, <2>1, Zenon DEF Counted
  <2>3. /\ now \in Tallies /\ now.imported = tally.imported
        /\ now.rejected = tally.rejected /\ now.blank = tally.blank
        /\ Processed(now) + now.blank = Processed(tally) + tally.blank + 1
    BY <2>2 DEF Tallies, Processed
  <2> QED BY <1>4, <2>1, <2>3
<1> QED BY <1>1, <1>2, <1>3, <1>4

(* The row that is taken is the next of the file.                            *)
LEMMA NextRow ==
  ASSUME AllInv, NEW i \in Imports, Asked(i), queue[i] # <<>>,
         NEW n \in 0 .. Len(request[i].rows), ReadSoFar(i, n)
  PROVE  /\ n \in Nat /\ n + 1 \in 0 .. Len(request[i].rows) /\ n + 1 \in 1 .. Len(request[i].rows)
         /\ Len(queue[i]) \in Nat \ {0} /\ Head(queue[i]) = queue[i][1]
         /\ Head(queue[i]) = request[i].rows[n + 1]
         /\ Head(queue[i]).kind \in {"blank", "rejected", "accepted"}
         /\ IsOutcome(Head(queue[i]), n + 1)
<1>1. Len(request[i].rows) \in Nat /\ IsView(request[i]) /\ queue[i] \in Seq(Outcomes)
  BY Known
<1>2. Len(queue[i]) \in Nat \ {0} /\ Head(queue[i]) = queue[i][1] /\ n \in Nat
  BY <1>1
<1>3. /\ reader[i].at = n + Len(queue[i]) + 1 /\ reader[i].at <= Len(request[i].rows) + 1
      /\ \A k \in 1 .. Len(queue[i]) : queue[i][k] = request[i].rows[n + k]
      /\ \A k \in 1 .. reader[i].at - 1 : request[i].rows[k].kind # "broken"
  BY DEF ReadSoFar
<1>4. n + 1 \in 1 .. Len(request[i].rows) /\ n + 1 \in 1 .. reader[i].at - 1
  BY <1>1, <1>2, <1>3
<1>5. Head(queue[i]) = request[i].rows[n + 1]
  BY <1>2, <1>3
<1>6. IsOutcome(Head(queue[i]), n + 1)
  BY <1>1, <1>4, <1>5 DEF IsView
<1>7. Head(queue[i]).kind \in {"blank", "rejected", "accepted"}
  BY <1>3, <1>4, <1>5, <1>6 DEF IsOutcome, Kinds
<1> QED BY <1>1, <1>2, <1>4, <1>5, <1>6, <1>7

LEMMA TakenIs ==
  ASSUME AllInv, NEW i \in Imports, At(i, "receiving"), queue[i] # <<>>,
         NEW n \in 0 .. Len(request[i].rows), Story(i, n),
         NEW w, w = Taken(i, writer[i], Head(queue[i]))
  PROVE  /\ w \in Writers /\ w.pc = "receiving" /\ w.reported = writer[i].reported
         /\ w.finishing = writer[i].finishing /\ w.stopped = writer[i].stopped
         /\ ListOf(w.kept, Reference(i, request[i], n + 1)) /\ w.tally.imported = Len(w.kept)
         /\ w.tally.rejected = Of(request[i].rows, n + 1, "rejected")
         /\ w.tally.blank = Of(request[i].rows, n + 1, "blank")
         /\ Processed(w.tally) + w.tally.blank = n + 1
         /\ ListOf(w.batch, ToSet(w.batch))
         /\ Stored(i) \cup ToSet(w.batch) =
              IF Options(i).dedup = "merge_attributes" THEN {} ELSE Reference(i, request[i], n + 1)
         /\ Stored(i) \cap ToSet(w.batch) = {}
         /\ Len(w.batch) <= Len(writer[i].batch) + 1
<1> DEFINE old == writer[i]  o == Head(queue[i])  rows == request[i].rows  dedup == Options(i).dedup
           fresh == o.kind = "accepted" /\ ~Holds(old.kept, o.msisdn)
           c == ContactOf(i, o)
           T == Counted(old.tally, old.kept, o)
           K == IF o.kind = "accepted" THEN Offered(dedup, old.kept, c) ELSE old.kept
           B == IF fresh /\ dedup = "first_wins" THEN Append(old.batch, c) ELSE old.batch
           before == Reference(i, request[i], n)
           after == Reference(i, request[i], n + 1)
<1>1. /\ Asked(i) /\ request[i] \in Views /\ IsView(request[i]) /\ old \in Writers /\ old.finishing = FALSE
      /\ StoredSoFar(i, n) /\ CountedSoFar(i, n) /\ ReadSoFar(i, n)
  <2>1. Asked(i) /\ answer[i].is # "failed" /\ ~old.finishing
    BY DEF AllInv, One, Limits, Calls, Asked, At
  <2>2. old \in Writers
    BY Known
  <2> QED BY <2>1, <2>2, Known DEF Story, Writers
<1>2. /\ n \in Nat /\ n + 1 \in 0 .. Len(rows) /\ n + 1 <= Len(rows) /\ o = rows[n + 1]
      /\ o.kind \in {"blank", "rejected", "accepted"} /\ IsOutcome(o, n + 1)
  BY <1>1, NextRow
<1>3. dedup \in {"first_wins", "merge_attributes"} /\ dedup = request[i].asked.dedup
  BY <1>1 DEF IsView, Options
<1>4. w = [old EXCEPT !.tally = T, !.kept = K, !.batch = B]
  BY Zenon DEF Taken
<1>5. /\ old.tally \in Tallies /\ old.kept \in Seq(Entries) /\ old.batch \in Seq(Entries)
      /\ Len(old.batch) \in Nat /\ Len(old.kept) \in Nat
  BY <1>1 DEF Writers
<1>6. /\ ListOf(old.kept, before) /\ old.tally.imported = Len(old.kept)
      /\ old.tally.rejected = Of(rows, n, "rejected") /\ old.tally.blank = Of(rows, n, "blank")
      /\ Processed(old.tally) + old.tally.blank = n
  BY <1>1 DEF CountedSoFar
<1>7. /\ ListOf(old.batch, ToSet(old.batch)) /\ Stored(i) \cap ToSet(old.batch) = {}
      /\ Stored(i) \cup ToSet(old.batch) = IF dedup = "merge_attributes" THEN {} ELSE before
  <2>1. Rest(i) = old.batch
    BY DEF Rest, At
  <2> QED BY <1>1, <2>1 DEF StoredSoFar, Settled
<1>8. /\ T \in Tallies
      /\ T.imported = IF fresh THEN old.tally.imported + 1 ELSE old.tally.imported
      /\ T.rejected = IF o.kind = "rejected" THEN old.tally.rejected + 1 ELSE old.tally.rejected
      /\ T.blank = IF o.kind = "blank" THEN old.tally.blank + 1 ELSE old.tally.blank
      /\ Processed(T) + T.blank = Processed(old.tally) + old.tally.blank + 1
  BY <1>2, <1>5, TallyIs
<1>9. T.rejected = Of(rows, n + 1, "rejected") /\ T.blank = Of(rows, n + 1, "blank")
  <2>1. ASSUME NEW kind PROVE Of(rows, n + 1, kind) = IF o.kind = kind THEN Of(rows, n, kind) + 1
                                                                       ELSE Of(rows, n, kind)
    <3>1. n \in Nat /\ o = rows[n + 1]
      BY <1>2
    <3> HIDE DEF o, rows
    <3>2. Of(rows, n + 1, kind) = IF rows[n + 1].kind = kind THEN Of(rows, n, kind) + 1
                                                            ELSE Of(rows, n, kind)
      BY <3>1, OneMore
    <3> QED BY <3>1, <3>2
  <2> HIDE DEF T, o, rows, old
  <2> QED BY <1>6, <1>8, <2>1
<1>10. Processed(T) + T.blank = n + 1
  BY <1>6, <1>8
<1> HIDE DEF T
<1>11. /\ K \in Seq(Entries) /\ ListOf(K, after) /\ T.imported = Len(K)
       /\ ListOf(B, ToSet(B)) /\ Stored(i) \cap ToSet(B) = {}
       /\ Stored(i) \cup ToSet(B) = IF dedup = "merge_attributes" THEN {} ELSE after
       /\ Len(B) <= Len(old.batch) + 1
  <2>1. CASE o.kind # "accepted"
    <3>1. after = before
      BY <1>2, <2>1, RowSkipped
    <3>2. K = old.kept /\ B = old.batch
      BY <2>1
    <3> HIDE DEF K, B, before, after
    <3>3. T.imported = Len(K)
      BY <1>6, <1>8, <2>1, <3>2
    <3> QED BY <1>5, <1>6, <1>7, <3>1, <3>2, <3>3
  <2>2. CASE o.kind = "accepted"
    <3>1. /\ c = [import |-> i, line |-> n + 1, msisdn |-> rows[n + 1].msisdn,
                  attributes |-> rows[n + 1].attributes]
          /\ c.msisdn = o.msisdn
      BY <1>2, <2>2 DEF ContactOf, IsOutcome
    <3>2. /\ ListOf(K, after)
          /\ Len(K) = IF fresh THEN Len(old.kept) + 1 ELSE Len(old.kept)
          /\ fresh => after = before \cup {c} /\ c \notin before
          /\ ~fresh /\ dedup = "first_wins" => after = before
      <4>1. K = Offered(request[i].asked.dedup, old.kept, c)
        BY <1>3, <2>2
      <4>2. fresh = ~Holds(old.kept, c.msisdn)
        BY <2>2, <3>1
      <4>3. n \in Nat /\ n + 1 <= Len(request[i].rows) /\ request[i].rows[n + 1].kind = "accepted"
        BY <1>2, <2>2
      <4>4. ListOf(old.kept, Reference(i, request[i], n)) /\ request[i] \in Views
        BY <1>1, <1>6
      <4> HIDE DEF K, fresh, c, old, before, after
      <4>5. /\ ListOf(K, Reference(i, request[i], n + 1))
            /\ Len(K) = IF Holds(old.kept, c.msisdn) THEN Len(old.kept) ELSE Len(old.kept) + 1
            /\ ~Holds(old.kept, c.msisdn) =>
                   /\ Reference(i, request[i], n + 1) = Reference(i, request[i], n) \cup {c}
                   /\ c \notin Reference(i, request[i], n)
            /\ Holds(old.kept, c.msisdn) /\ request[i].asked.dedup = "first_wins" =>
                   Reference(i, request[i], n + 1) = Reference(i, request[i], n)
        <5> DEFINE view == request[i]  kept == old.kept
        <5>1. /\ n \in Nat /\ n + 1 <= Len(view.rows) /\ view.rows[n + 1].kind = "accepted"
              /\ ListOf(kept, Reference(i, view, n)) /\ view \in Views
              /\ K = Offered(view.asked.dedup, kept, c)
              /\ c = [import |-> i, line |-> n + 1, msisdn |-> view.rows[n + 1].msisdn,
                      attributes |-> view.rows[n + 1].attributes]
          BY <3>1, <4>1, <4>3, <4>4
        <5> HIDE DEF view, kept
        <5>2. /\ ListOf(K, Reference(i, view, n + 1))
              /\ Len(K) = IF Holds(kept, c.msisdn) THEN Len(kept) ELSE Len(kept) + 1
              /\ ~Holds(kept, c.msisdn) =>
                     /\ Reference(i, view, n + 1) = Reference(i, view, n) \cup {c}
                     /\ c \notin Reference(i, view, n)
              /\ Holds(kept, c.msisdn) /\ view.asked.dedup = "first_wins" =>
                     Reference(i, view, n + 1) = Reference(i, view, n)
          BY <5>1, OfferedList
        <5> QED BY <5>2 DEF view, kept
      <4> QED BY <1>3, <4>2, <4>5 DEF before, after
    <3>3. K \in Seq(Entries) /\ after \subseteq Entries
      <4>1. after \subseteq Entries
        BY <1>1, <1>2, ReferenceIs
      <4> QED BY <3>2, <4>1 DEF ListOf
    <3>4. T.imported = Len(K)
      <4> HIDE DEF K, fresh, after, before
      <4> QED BY <1>5, <1>6, <1>8, <3>2
    <3>5. CASE fresh /\ dedup = "first_wins"
      <4>1. B = Append(old.batch, c) /\ dedup # "merge_attributes"
        BY <3>5
      <4> HIDE DEF K, B, fresh, c, before, after
      <4>2. /\ c \in Entries /\ c \notin before /\ after = before \cup {c}
            /\ Stored(i) \cup ToSet(old.batch) = before
        BY <1>7, <3>2, <3>3, <3>5, <4>1
      <4>3. c \in Entries \ ToSet(old.batch) /\ c \notin Stored(i)
        BY <4>2
      <4>4. ListOf(B, ToSet(old.batch) \cup {c})
        BY <1>7, <4>1, <4>3, ListGrows
      <4>5. ToSet(B) = ToSet(old.batch) \cup {c} /\ Len(B) = Len(old.batch) + 1
        <5>1. ToSet(B) = ToSet(old.batch) \cup {c}
          BY <4>4 DEF ListOf
        <5> QED BY <1>5, <4>1, <4>2, <5>1, AppendProperties
      <4>6. Stored(i) \cap ToSet(B) = {} /\ Stored(i) \cup ToSet(B) = after
        BY <1>7, <4>2, <4>3, <4>5
      <4>7. Len(B) <= Len(old.batch) + 1
        BY <1>5, <4>5
      <4> QED BY <3>2, <3>3, <3>4, <4>1, <4>4, <4>5, <4>6, <4>7
    <3>6. CASE ~(fresh /\ dedup = "first_wins")
      <4>1. B = old.batch /\ Len(B) <= Len(old.batch) + 1
        <5>1. B = old.batch
          BY <3>6
        <5> QED BY <1>5, <5>1
      <4>2. dedup # "merge_attributes" => after = before
        BY <1>3, <3>2, <3>6
      <4> HIDE DEF K, B, fresh, before, after
      <4>3. Stored(i) \cup ToSet(B) = IF dedup = "merge_attributes" THEN {} ELSE after
        BY <1>7, <4>1, <4>2
      <4> QED BY <1>7, <3>2, <3>3, <3>4, <4>1, <4>3
    <3> QED BY <3>5, <3>6
  <2> QED BY <2>1, <2>2
<1>12. B \in Seq(Entries)
  BY <1>11 DEF ListOf
<1>13. /\ w \in Writers /\ w.pc = old.pc /\ w.reported = old.reported
       /\ w.finishing = old.finishing /\ w.stopped = old.stopped
       /\ w.tally = T /\ w.kept = K /\ w.batch = B
  <2> HIDE DEF K, B, old
  <2> QED BY <1>1, <1>4, <1>8, <1>11, <1>12 DEF Writers
<1> HIDE DEF K, B, after, before
<1> QED BY <1>9, <1>10, <1>11, <1>13 DEF At, after

(* A chunk is the front of the batch, and the rest of it is behind.          *)
LEMMA ChunkIs ==
  ASSUME NEW w \in Writers, ListOf(w.batch, ToSet(w.batch)), NEW v, v = AfterChunk(w)
  PROVE  /\ v \in Writers /\ v.pc = w.pc /\ v.tally = w.tally /\ v.kept = w.kept
         /\ v.batch = Behind(w) /\ v.reported = w.reported /\ v.finishing = w.finishing
         /\ v.stopped = w.stopped
         /\ ListOf(Chunk(w), ToSet(Chunk(w))) /\ ListOf(Behind(w), ToSet(Behind(w)))
         /\ ToSet(Chunk(w)) \cap ToSet(Behind(w)) = {}
         /\ ToSet(Chunk(w)) \cup ToSet(Behind(w)) = ToSet(w.batch)
         /\ Len(Behind(w)) <= Len(w.batch)
         /\ Len(w.batch) <= BatchSize => Len(Behind(w)) = 0
<1> DEFINE n == Len(w.batch)  c == ChunkSize(w)
<1>1. w.batch \in Seq(Entries) /\ n \in Nat /\ BatchSize \in Nat \ {0}
  BY ImportAssumption DEF Writers
<1>2. c \in 0 .. n /\ (n <= BatchSize => c = n)
  <2>1. {BatchSize, n} \subseteq Nat /\ {BatchSize, n} # {}
    BY <1>1
  <2>2. Min({BatchSize, n}) \in {BatchSize, n} /\ \A y \in {BatchSize, n} : Min({BatchSize, n}) <= y
    BY <2>1, MinIs
  <2>3. c = Min({BatchSize, n})
    BY DEF ChunkSize
  <2> HIDE DEF c, n
  <2> QED BY <1>1, <2>2, <2>3
<1>3. Chunk(w) = SubSeq(w.batch, 1, c) /\ Behind(w) = SubSeq(w.batch, c + 1, n)
  BY DEF Chunk, Behind
<1> HIDE DEF c
<1>4. /\ ListOf(Chunk(w), ToSet(Chunk(w))) /\ ListOf(Behind(w), ToSet(Behind(w)))
      /\ Len(Behind(w)) = n - c
      /\ ToSet(Chunk(w)) \cap ToSet(Behind(w)) = {}
      /\ ToSet(Chunk(w)) \cup ToSet(Behind(w)) = ToSet(w.batch)
  BY <1>2, <1>3, ListSplits
<1>5. Behind(w) \in Seq(Entries)
  BY <1>4 DEF ListOf
<1>6. v = [w EXCEPT !.batch = Behind(w)]
  BY Zenon DEF AfterChunk, Behind
<1>7. /\ v \in Writers /\ v.pc = w.pc /\ v.tally = w.tally /\ v.kept = w.kept
      /\ v.batch = Behind(w) /\ v.reported = w.reported /\ v.finishing = w.finishing
      /\ v.stopped = w.stopped
  BY <1>5, <1>6 DEF Writers
<1>8. n - c <= n /\ (n <= BatchSize => n - c = 0)
  BY <1>1, <1>2
<1> QED BY <1>4, <1>7, <1>8

LEMMA ProcessedIs == ASSUME NEW tally \in Tallies PROVE Processed(tally) \in Nat /\ tally.blank \in Nat
BY DEF Tallies, Processed

(* An event is told, or lost: the outbox stays what it may be.               *)
LEMMA NotifiedIs ==
  ASSUME AllInv, NEW i \in Imports, NEW tally \in Tallies, NEW done \in BOOLEAN,
         NEW box, box = Notified(i, tally, done)
  PROVE  /\ box \in [Imports -> Seq(Events)] /\ Len(box[i]) <= ProgressQueue
         /\ \A j \in Imports \ {i} : box[j] = outbox[j]
<1> DEFINE event == [processed |-> Processed(tally), done |-> done]
<1>1. event \in Events
  BY ProcessedIs DEF Events
<1>2. /\ outbox \in [Imports -> Seq(Events)] /\ outbox[i] \in Seq(Events) /\ Len(outbox[i]) \in Nat
      /\ Len(outbox[i]) <= ProgressQueue /\ ProgressQueue \in Nat
  BY ImportAssumption DEF AllInv, Typed, One, Limits
<1>3. CASE Len(outbox[i]) < ProgressQueue
  <2>1. box = [outbox EXCEPT ![i] = Append(outbox[i], event)]
    BY <1>3, Zenon DEF Notified
  <2> HIDE DEF event
  <2>2. Append(outbox[i], event) \in Seq(Events) /\ Len(Append(outbox[i], event)) = Len(outbox[i]) + 1
    BY <1>1, <1>2, AppendProperties
  <2>3. Len(Append(outbox[i], event)) <= ProgressQueue
    BY <1>2, <1>3, <2>2
  <2> QED BY <1>2, <2>1, <2>2, <2>3
<1>4. CASE ~(Len(outbox[i]) < ProgressQueue)
  <2>1. box = outbox
    BY <1>4, Zenon DEF Notified
  <2> QED BY <1>2, <2>1
<1> QED BY <1>3, <1>4

(* The writer that turns has an event due or none, and receives again.       *)
LEMMA TurnIs ==
  ASSUME AllInv, NEW i \in Imports, NEW w \in Writers, TurnEnds(i, w)
  PROVE  /\ writer' \in [Imports -> Writers] /\ writer'[i].pc = "receiving"
         /\ writer'[i].tally = w.tally /\ writer'[i].kept = w.kept /\ writer'[i].batch = w.batch
         /\ writer'[i].finishing = w.finishing /\ writer'[i].stopped = w.stopped
         /\ outbox' \in [Imports -> Seq(Events)] /\ Len(outbox'[i]) <= ProgressQueue
         /\ \A j \in Imports \ {i} : writer'[j] = writer[j] /\ outbox'[j] = outbox[j]
<1> DEFINE told == IF Due(w) THEN Processed(w.tally) ELSE w.reported
           now  == [w EXCEPT !.pc = "receiving", !.reported = told]
<1>1. w.tally \in Tallies /\ w.reported \in Nat
  BY DEF Writers
<1>2. told \in Nat
  BY <1>1, ProcessedIs
<1>3. writer' = [writer EXCEPT ![i] = now]
  BY Zenon DEF TurnEnds
<1> HIDE DEF told
<1>4. /\ now \in Writers /\ now.pc = "receiving" /\ now.tally = w.tally /\ now.kept = w.kept
      /\ now.batch = w.batch /\ now.finishing = w.finishing /\ now.stopped = w.stopped
  BY <1>2 DEF Writers, WriterPcs
<1> HIDE DEF now
<1>5. writer' \in [Imports -> Writers] /\ writer'[i] = now /\ \A j \in Imports \ {i} : writer'[j] = writer[j]
  BY <1>3, <1>4, Placed DEF AllInv, Typed
<1>6. /\ outbox' \in [Imports -> Seq(Events)] /\ Len(outbox'[i]) <= ProgressQueue
      /\ \A j \in Imports \ {i} : outbox'[j] = outbox[j]
  <2>1. CASE Due(w)
    <3> DEFINE box == Notified(i, w.tally, FALSE)
    <3>1. outbox' = box
      BY <2>1, Zenon DEF TurnEnds
    <3>2. /\ box \in [Imports -> Seq(Events)] /\ Len(box[i]) <= ProgressQueue
          /\ \A j \in Imports \ {i} : box[j] = outbox[j]
      BY <1>1, NotifiedIs
    <3> HIDE DEF box
    <3> QED BY <3>1, <3>2
  <2>2. CASE ~Due(w)
    <3>1. outbox' = outbox
      BY <2>2, Zenon DEF TurnEnds
    <3> QED BY <3>1 DEF AllInv, Typed, One, Limits
  <2> QED BY <2>1, <2>2
<1> QED BY <1>4, <1>5, <1>6

(* The drain goes on while something is left of the batch.                   *)
LEMMA DrainIs ==
  ASSUME AllInv, NEW i \in Imports, NEW w \in Writers, NextChunk(i, w)
  PROVE  /\ writer' \in [Imports -> Writers] /\ open' \in [Imports -> BOOLEAN]
         /\ writer'[i].tally = w.tally /\ writer'[i].kept = w.kept /\ writer'[i].batch = w.batch
         /\ writer'[i].finishing = w.finishing /\ writer'[i].stopped = w.stopped
         /\ writer'[i].pc = IF w.batch = <<>> THEN "joining" ELSE "inserting"
         /\ open'[i] => open[i]
         /\ \A j \in Imports \ {i} : writer'[j] = writer[j] /\ open'[j] = open[j]
<1> DEFINE pc == IF w.batch = <<>> THEN "joining" ELSE "inserting"
           now == [w EXCEPT !.pc = pc]
<1>1. writer' = [writer EXCEPT ![i] = now]
  BY Zenon DEF NextChunk
<1>2. pc \in WriterPcs
  BY DEF WriterPcs
<1> HIDE DEF pc
<1>3. /\ now \in Writers /\ now.pc = pc /\ now.tally = w.tally /\ now.kept = w.kept
      /\ now.batch = w.batch /\ now.finishing = w.finishing /\ now.stopped = w.stopped
  BY <1>2, PcIs
<1> HIDE DEF now
<1>4. writer' \in [Imports -> Writers] /\ writer'[i] = now /\ \A j \in Imports \ {i} : writer'[j] = writer[j]
  BY <1>1, <1>3, Placed DEF AllInv, Typed
<1>5. /\ open' \in [Imports -> BOOLEAN] /\ (open'[i] => open[i])
      /\ \A j \in Imports \ {i} : open'[j] = open[j]
  <2>1. open' = open \/ open' = [open EXCEPT ![i] = FALSE]
    BY Zenon DEF NextChunk, CloseQueue
  <2> QED BY <2>1 DEF AllInv, Typed
<1> QED BY <1>3, <1>4, <1>5 DEF pc

(* The writer at work: what its steps share.                                 *)
Working(i) == writer[i].pc \in {"receiving", "inserting", "enrolling", "joining"}

LEMMA AtWork ==
  ASSUME AllInv, NEW i \in Imports, Working(i)
  PROVE  /\ Asked(i) /\ Active(i) /\ ~At(i, "opening") /\ ~At(i, "forwarding") /\ answer[i].is = "none"
         /\ One(i) /\ Limits(i) /\ EndsWell(i)
         /\ request[i] \in Views /\ Len(request[i].rows) \in Nat
         /\ writer[i] \in Writers /\ reader[i] \in Readers /\ queue[i] \in Seq(Outcomes)
         /\ \E n \in 0 .. Len(request[i].rows) :
              Story(i, n) /\ ReadSoFar(i, n) /\ CountedSoFar(i, n) /\ StoredSoFar(i, n)
<1>1. /\ Asked(i) /\ Active(i) /\ ~At(i, "opening") /\ ~At(i, "forwarding") /\ answer[i].is = "none"
      /\ One(i) /\ Limits(i) /\ EndsWell(i)
  BY DEF AllInv, One, Calls, Working, Asked, Active, At
<1>2. PICK n \in 0 .. Len(request[i].rows) : Story(i, n)
  BY <1>1 DEF One
<1>3. ReadSoFar(i, n) /\ CountedSoFar(i, n) /\ StoredSoFar(i, n)
  BY <1>1, <1>2 DEF Story
<1> QED BY <1>1, <1>2, <1>3, Known

LEMMA WriterMoves ==
  ASSUME AllInv, NEW i \in Imports, Working(i), Working(i)',
         UNCHANGED <<slot, cancelled, request, reader, answer>>,
         writer' \in [Imports -> Writers], queue' \in [Imports -> Seq(Outcomes)],
         open' \in [Imports -> BOOLEAN], outbox' \in [Imports -> Seq(Events)],
         contacts' \in Seq(Entries), IsInjective(contacts)', members \subseteq members',
         members' \subseteq ToSet(contacts'),
         \A j \in Imports \ {i} :
            /\ writer'[j] = writer[j] /\ queue'[j] = queue[j] /\ open'[j] = open[j]
            /\ outbox'[j] = outbox[j] /\ Stored(j)' = Stored(j),
         Limits(i)', EndsWell(i)',
         NEW m \in 0 .. Len(request[i].rows),
         ReadSoFar(i, m)', CountedSoFar(i, m)', StoredSoFar(i, m)'
  PROVE  AllInv'
<1>1. /\ Asked(i) /\ Active(i) /\ answer[i].is = "none" /\ Calls(i)
  BY AtWork DEF One
<1>2. Apart(i)
  BY DEF Apart
<1>3. Typed'
  BY DEF AllInv, Typed
<1>4. OneImport'
  <2>1. Active(i)'
    BY DEF Active, Working, At
  <2> QED BY <1>1, <1>2, <2>1, SlotStands
<1>5. Calls(i)' /\ Asked(i)' /\ Answered(i)'
  BY <1>1 DEF Calls, Asked, Answered, Working, At
<1>6. One(i)'
  BY <1>5 DEF One, Story
<1> QED BY <1>2, <1>3, <1>4, <1>6, Gather

LEMMA ReceiveStep == ASSUME AllInv, NEW i \in Imports, Receive(i) PROVE AllInv'
<1> DEFINE w == Taken(i, writer[i], Head(queue[i]))  length == Len(request[i].rows)
<1>1. /\ UNCHANGED <<slot, cancelled, request, reader, open, answer, contacts, members>>
      /\ queue' = [queue EXCEPT ![i] = Tail(@)] /\ queue[i] # <<>> /\ At(i, "receiving") /\ Working(i)
  BY DEF Receive, store, Working, At
<1>2. /\ Asked(i) /\ Limits(i) /\ EndsWell(i) /\ request[i] \in Views /\ length \in Nat
      /\ queue[i] \in Seq(Outcomes) /\ writer[i] \in Writers /\ BatchSize \in Nat \ {0}
  BY <1>1, AtWork, ImportAssumption
<1>3. PICK n \in 0 .. length : /\ Story(i, n) /\ ReadSoFar(i, n) /\ CountedSoFar(i, n) /\ StoredSoFar(i, n)
  BY <1>1, AtWork
<1>4. /\ w \in Writers /\ w.pc = "receiving"
      /\ w.finishing = writer[i].finishing /\ w.stopped = writer[i].stopped
      /\ ListOf(w.kept, Reference(i, request[i], n + 1)) /\ w.tally.imported = Len(w.kept)
      /\ w.tally.rejected = Of(request[i].rows, n + 1, "rejected")
      /\ w.tally.blank = Of(request[i].rows, n + 1, "blank")
      /\ Processed(w.tally) + w.tally.blank = n + 1
      /\ ListOf(w.batch, ToSet(w.batch))
      /\ Stored(i) \cup ToSet(w.batch) =
           IF Options(i).dedup = "merge_attributes" THEN {} ELSE Reference(i, request[i], n + 1)
      /\ Stored(i) \cap ToSet(w.batch) = {}
      /\ Len(w.batch) <= Len(writer[i].batch) + 1
  BY <1>1, <1>3, TakenIs
<1>5. /\ n + 1 \in 0 .. length /\ Len(queue[i]) \in Nat \ {0}
      /\ Head(queue[i]) = request[i].rows[n + 1]
  BY <1>1, <1>2, <1>3, NextRow
<1>6. /\ queue' \in [Imports -> Seq(Outcomes)] /\ queue'[i] = Tail(queue[i])
      /\ Len(queue'[i]) = Len(queue[i]) - 1
      /\ (\A k \in 1 .. Len(queue[i]) - 1 : queue'[i][k] = queue[i][k + 1])
      /\ \A j \in Imports \ {i} : queue'[j] = queue[j]
  <2>1. /\ Tail(queue[i]) \in Seq(Outcomes) /\ Len(Tail(queue[i])) = Len(queue[i]) - 1
        /\ \A k \in 1 .. Len(queue[i]) - 1 : Tail(queue[i])[k] = queue[i][k + 1]
    BY <1>1, <1>2, HeadTailProperties
  <2>2. queue' = [queue EXCEPT ![i] = Tail(queue[i])]
    BY <1>1 DEF AllInv, Typed
  <2> QED BY <2>1, <2>2, Placed DEF AllInv, Typed
<1> HIDE DEF w
<1>7. ReadSoFar(i, n + 1)'
  <2>1. reader[i].at = n + 1 + Len(queue'[i]) + 1
    <3>1. /\ reader[i].at = n + Len(queue[i]) + 1 /\ n \in Nat /\ Len(queue[i]) \in Nat
          /\ Len(queue'[i]) = Len(queue[i]) - 1
      BY <1>2, <1>3, <1>5, <1>6 DEF ReadSoFar
    <3>2. ASSUME NEW l \in Nat, NEW l2, l2 = l - 1, NEW m \in Nat PROVE m + l + 1 = m + 1 + l2 + 1
      BY <3>2
    <3> QED BY <3>1, <3>2
  <2>2. ASSUME NEW k \in 1 .. Len(queue'[i]) PROVE queue'[i][k] = request[i].rows[n + 1 + k]
    <3>1. k \in 1 .. Len(queue[i]) - 1 /\ k + 1 \in 1 .. Len(queue[i]) /\ n + (k + 1) = n + 1 + k
      <4>1. Len(queue[i]) \in Nat /\ n \in Nat /\ k \in 1 .. Len(queue[i]) - 1
        BY <1>2, <1>5, <1>6
      <4> QED BY <4>1
    <3> QED BY <1>3, <1>6, <3>1 DEF ReadSoFar
  <2> QED BY <1>1, <1>3, <2>1, <2>2 DEF ReadSoFar
<1>8. /\ Len(writer[i].batch) \in Nat /\ Len(writer[i].batch) < BatchSize /\ writer[i].finishing = FALSE
      /\ open[i] /\ ~writer[i].stopped /\ Len(w.batch) \in Nat
  BY <1>1, <1>2, <1>4 DEF Limits, EndsWell, At, Writers
<1>9. /\ writer' \in [Imports -> Writers] /\ outbox' \in [Imports -> Seq(Events)]
      /\ Len(outbox'[i]) <= ProgressQueue
      /\ \A j \in Imports \ {i} : writer'[j] = writer[j] /\ outbox'[j] = outbox[j]
      /\ writer'[i].tally = w.tally /\ writer'[i].kept = w.kept /\ writer'[i].batch = w.batch
      /\ writer'[i].finishing = FALSE /\ writer'[i].stopped = w.stopped
      /\ \/ writer'[i].pc = "inserting"
         \/ writer'[i].pc = "receiving" /\ Len(w.batch) < BatchSize
  <2>1. CASE Len(w.batch) >= BatchSize
    <3> DEFINE now == [w EXCEPT !.pc = "inserting"]
    <3>1. writer' = [writer EXCEPT ![i] = now] /\ outbox' = outbox
      BY <2>1, Zenon DEF Receive, w
    <3>2. /\ now \in Writers /\ now.pc = "inserting" /\ now.tally = w.tally /\ now.kept = w.kept
          /\ now.batch = w.batch /\ now.finishing = w.finishing /\ now.stopped = w.stopped
      BY <1>4, PcIs DEF WriterPcs
    <3> HIDE DEF now
    <3>3. writer' \in [Imports -> Writers] /\ writer'[i] = now /\ \A j \in Imports \ {i} : writer'[j] = writer[j]
      BY <3>1, <3>2, Placed DEF AllInv, Typed
    <3> QED BY <1>2, <1>4, <1>8, <3>1, <3>2, <3>3 DEF AllInv, Typed, Limits
  <2>2. CASE ~(Len(w.batch) >= BatchSize)
    <3>1. TurnEnds(i, w)
      BY <2>2, Zenon DEF Receive, w
    <3>2. Len(w.batch) < BatchSize
      BY <1>2, <1>8, <2>2
    <3> QED BY <1>4, <1>8, <3>1, <3>2, TurnIs
  <2> QED BY <2>1, <2>2
<1>10. Limits(i)'
  <2>1. Len(w.batch) <= BatchSize
    BY <1>2, <1>4, <1>8
  <2>2. Len(queue'[i]) <= RowQueue
    <3>1. Len(queue[i]) <= RowQueue /\ RowQueue \in Nat
      BY <1>2, ImportAssumption DEF Limits
    <3> QED BY <1>5, <1>6, <3>1
  <2> QED BY <1>9, <2>1, <2>2 DEF Limits, At
<1>11. EndsWell(i)'
  BY <1>1, <1>4, <1>8, <1>9 DEF EndsWell
<1>12. CountedSoFar(i, n + 1)'
  BY <1>1, <1>4, <1>9 DEF CountedSoFar
<1>13. \A j : Stored(j)' = Stored(j)
  BY <1>1, StoreAlone
<1>14. StoredSoFar(i, n + 1)'
  <2>1. Rest(i)' = w.batch /\ Loose(i)' = {} /\ Loose(i) = {} /\ Options(i)' = Options(i)
    BY <1>1, <1>9 DEF Rest, Loose, Options, At
  <2>2. Settled(i, n + 1)' = IF Options(i).dedup = "merge_attributes" THEN {}
                             ELSE Reference(i, request[i], n + 1)
    BY <1>1, <1>9, <2>1 DEF Settled
  <2>3. Options(i).list # None => Stored(i) \subseteq members
    BY <1>3, <2>1 DEF StoredSoFar
  <2> QED BY <1>1, <1>4, <1>9, <1>13, <2>1, <2>2, <2>3 DEF StoredSoFar
<1>15. Working(i)'
  BY <1>9 DEF Working
<1>16. contacts' \in Seq(Entries) /\ IsInjective(contacts)' /\ members' \subseteq ToSet(contacts')
       /\ open' \in [Imports -> BOOLEAN]
  BY <1>1 DEF AllInv, Typed
<1> QED BY <1>1, <1>5, <1>6, <1>7, <1>9, <1>10, <1>11, <1>12, <1>13, <1>14, <1>15, <1>16, WriterMoves

LEMMA FinishStep == ASSUME AllInv, NEW i \in Imports, Finish(i) PROVE AllInv'
<1> DEFINE old == writer[i]  length == Len(request[i].rows)
           held == IF Options(i).dedup = "merge_attributes" THEN old.kept ELSE <<>>
           b == old.batch \o held
           w == [old EXCEPT !.finishing = TRUE, !.stopped = i \in cancelled, !.batch = b]
<1>1. /\ UNCHANGED <<slot, cancelled, request, reader, queue, outbox, answer, contacts, members>>
      /\ NextChunk(i, w) /\ At(i, "receiving") /\ Working(i)
      /\ i \in cancelled \/ (queue[i] = <<>> /\ reader[i].pc = "ended")
  BY DEF Finish, store, Working, At
<1>2. /\ Asked(i) /\ Limits(i) /\ EndsWell(i) /\ request[i] \in Views /\ length \in Nat
      /\ old \in Writers /\ old.finishing = FALSE /\ open[i]
  <2>1. /\ Asked(i) /\ Limits(i) /\ EndsWell(i) /\ request[i] \in Views /\ length \in Nat /\ old \in Writers
    BY <1>1, AtWork
  <2> QED BY <1>1, <2>1 DEF Limits, EndsWell, At, Writers
<1>3. PICK n \in 0 .. length : /\ Story(i, n) /\ ReadSoFar(i, n) /\ CountedSoFar(i, n) /\ StoredSoFar(i, n)
  BY <1>1, AtWork
<1> DEFINE all == Reference(i, request[i], n)
<1>4. /\ ListOf(old.batch, ToSet(old.batch)) /\ Stored(i) \cap ToSet(old.batch) = {}
      /\ Stored(i) \cup ToSet(old.batch) = IF Options(i).dedup = "merge_attributes" THEN {} ELSE all
      /\ Options(i).list # None => Stored(i) \subseteq members
  <2>1. Rest(i) = old.batch /\ Loose(i) = {}
    BY <1>1 DEF Rest, Loose, At
  <2> QED BY <1>2, <1>3, <2>1 DEF StoredSoFar, Settled
<1>5. ListOf(old.kept, all)
  BY <1>3 DEF CountedSoFar
<1>6. ListOf(b, ToSet(b)) /\ Stored(i) \cap ToSet(b) = {} /\ Stored(i) \cup ToSet(b) = all
  <2>1. CASE Options(i).dedup = "merge_attributes"
    <3>1. Stored(i) = {} /\ ToSet(old.batch) = {} /\ ListOf(old.batch, {})
      BY <1>4, <2>1
    <3>2. old.batch = <<>> /\ held = old.kept
      BY <2>1, <3>1, EmptyList
    <3>3. b = old.kept
      <4>1. old.kept \in Seq(Entries)
        BY <1>5 DEF ListOf
      <4> HIDE DEF old
      <4> QED BY <3>2, <4>1
    <3>4. ToSet(b) = all /\ ListOf(b, all)
      BY <1>5, <3>3 DEF ListOf
    <3> HIDE DEF b, all
    <3> QED BY <3>1, <3>4
  <2>2. CASE Options(i).dedup # "merge_attributes"
    <3>1. b = old.batch
      <4>1. old.batch \in Seq(Entries) /\ held = <<>>
        BY <1>4, <2>2 DEF ListOf
      <4>2. \A q \in Seq(Entries) : q \o <<>> = q
        OBVIOUS
      <4> QED BY <4>1, <4>2, Zenon
    <3> QED BY <1>4, <2>2, <3>1
  <2> QED BY <2>1, <2>2
<1>7. b \in Seq(Entries)
  BY <1>6 DEF ListOf
<1> HIDE DEF b, all
<1>8. /\ w \in Writers /\ w.tally = old.tally /\ w.kept = old.kept /\ w.batch = b
      /\ w.finishing = TRUE /\ w.stopped = (i \in cancelled)
  <2>1. ASSUME NEW c \in BOOLEAN, NEW v, v = [old EXCEPT !.finishing = TRUE, !.stopped = c, !.batch = b]
        PROVE  /\ v \in Writers /\ v.tally = old.tally /\ v.kept = old.kept /\ v.batch = b
               /\ v.finishing = TRUE /\ v.stopped = c
    <3> HIDE DEF w, old
    <3> QED BY <1>2, <1>7, <2>1 DEF Writers
  <2>2. (i \in cancelled) \in BOOLEAN
    OBVIOUS
  <2> QED BY <2>1, <2>2, Zenon
<1> HIDE DEF w
<1>9. /\ writer' \in [Imports -> Writers] /\ open' \in [Imports -> BOOLEAN]
      /\ writer'[i].tally = old.tally /\ writer'[i].kept = old.kept /\ writer'[i].batch = b
      /\ writer'[i].finishing = TRUE /\ writer'[i].stopped = (i \in cancelled)
      /\ writer'[i].pc = IF b = <<>> THEN "joining" ELSE "inserting"
      /\ open'[i] => open[i]
      /\ \A j \in Imports \ {i} : writer'[j] = writer[j] /\ open'[j] = open[j]
  BY <1>1, <1>8, DrainIs
<1>10. \A j : Stored(j)' = Stored(j)
  BY <1>1, StoreAlone
<1>11. Limits(i)'
  BY <1>1, <1>2, <1>9 DEF Limits, At
<1>12. EndsWell(i)'
  <2>1. ASSUME ~(i \in cancelled)
        PROVE  /\ reader[i].pc = "ended" /\ queue[i] = <<>>
               /\ reader[i].failed \/ WholeFile(i)
    BY <1>1, <1>2, <1>3, <2>1 DEF ReadSoFar, WholeFile
  <2>2. WholeFile(i)' = WholeFile(i)
    BY <1>1 DEF WholeFile
  <2> QED BY <1>1, <1>9, <2>1, <2>2 DEF EndsWell
<1>13. ReadSoFar(i, n)' /\ CountedSoFar(i, n)'
  BY <1>1, <1>3, <1>9, ReadStands, CountStands
<1>14. StoredSoFar(i, n)'
  <2>1. Rest(i)' = b /\ Loose(i)' = {} /\ Options(i)' = Options(i)
    BY <1>1, <1>9 DEF Rest, Loose, Options, At
  <2>2. Settled(i, n)' = all
    BY <1>1, <1>9 DEF Settled, all
  <2> QED BY <1>1, <1>4, <1>6, <1>9, <1>10, <2>1, <2>2 DEF StoredSoFar
<1>15. Working(i)'
  BY <1>9 DEF Working
<1>16. /\ contacts' \in Seq(Entries) /\ IsInjective(contacts)' /\ members' \subseteq ToSet(contacts')
       /\ queue' \in [Imports -> Seq(Outcomes)] /\ outbox' \in [Imports -> Seq(Events)]
  BY <1>1 DEF AllInv, Typed
<1> QED BY <1>1, <1>9, <1>10, <1>11, <1>12, <1>13, <1>14, <1>15, <1>16, WriterMoves

(* The batch is behind: the rest of it, and where the writer goes.           *)
LEMMA CommittedIs ==
  ASSUME AllInv, NEW i \in Imports, At(i, "inserting") \/ At(i, "enrolling"), Committed(i)
  PROVE  /\ writer' \in [Imports -> Writers] /\ open' \in [Imports -> BOOLEAN]
         /\ outbox' \in [Imports -> Seq(Events)] /\ Len(outbox'[i]) <= ProgressQueue
         /\ writer'[i].tally = writer[i].tally /\ writer'[i].kept = writer[i].kept
         /\ writer'[i].batch = Behind(writer[i]) /\ ListOf(Behind(writer[i]), ToSet(Behind(writer[i])))
         /\ writer'[i].finishing = writer[i].finishing /\ writer'[i].stopped = writer[i].stopped
         /\ writer'[i].pc \in {"receiving", "inserting", "joining"}
         /\ writer'[i].pc = "joining" => writer'[i].finishing /\ writer'[i].batch = <<>>
         /\ open'[i] => open[i]
         /\ ~writer[i].finishing => open' = open
         /\ Len(queue[i]) <= RowQueue
         /\ ~writer'[i].finishing => Len(writer'[i].batch) <= BatchSize
         /\ writer'[i].pc = "receiving" => Len(writer'[i].batch) < BatchSize /\ ~writer'[i].finishing
         /\ \A j \in Imports \ {i} : writer'[j] = writer[j] /\ open'[j] = open[j] /\ outbox'[j] = outbox[j]
<1> DEFINE old == writer[i]  w == AfterChunk(writer[i])
<1>1. /\ old \in Writers /\ Limits(i) /\ ListOf(old.batch, ToSet(old.batch))
      /\ Len(old.batch) \in Nat /\ BatchSize \in Nat \ {0}
  <2>1. Working(i)
    BY DEF Working, At
  <2>2. old \in Writers /\ Limits(i)
    BY <2>1, AtWork
  <2>3. ListOf(old.batch, ToSet(old.batch))
    BY <2>1, AtWork DEF StoredSoFar
  <2> QED BY <2>2, <2>3, ImportAssumption DEF Writers
<1>2. /\ w \in Writers /\ w.tally = old.tally /\ w.kept = old.kept
      /\ w.batch = Behind(old) /\ w.finishing = old.finishing /\ w.stopped = old.stopped
      /\ ListOf(Behind(old), ToSet(Behind(old)))
      /\ Len(old.batch) <= BatchSize => Len(Behind(old)) = 0
  BY <1>1, ChunkIs
<1> HIDE DEF w
<1>3. CASE old.finishing
  <2>1. NextChunk(i, w) /\ outbox' = outbox
    BY <1>2, <1>3, Zenon DEF Committed, w
  <2>2. outbox' \in [Imports -> Seq(Events)] /\ Len(outbox'[i]) <= ProgressQueue /\ Len(queue[i]) <= RowQueue
    BY <1>1, <2>1 DEF AllInv, Typed, Limits
  <2>3. /\ writer' \in [Imports -> Writers] /\ open' \in [Imports -> BOOLEAN]
        /\ writer'[i].tally = w.tally /\ writer'[i].kept = w.kept /\ writer'[i].batch = w.batch
        /\ writer'[i].finishing = w.finishing /\ writer'[i].stopped = w.stopped
        /\ writer'[i].pc = IF w.batch = <<>> THEN "joining" ELSE "inserting"
        /\ open'[i] => open[i]
        /\ \A j \in Imports \ {i} : writer'[j] = writer[j] /\ open'[j] = open[j]
    BY <1>2, <2>1, DrainIs
  <2> QED BY <1>2, <1>3, <2>1, <2>2, <2>3
<1>4. CASE ~old.finishing
  <2>1. TurnEnds(i, w) /\ open' = open
    BY <1>2, <1>4, Zenon DEF Committed, w
  <2>2. open' \in [Imports -> BOOLEAN] /\ Len(queue[i]) <= RowQueue
    BY <1>1, <2>1 DEF AllInv, Typed, Limits
  <2>3. Len(Behind(old)) = 0
    BY <1>1, <1>2, <1>4 DEF Limits
  <2>4. Len(Behind(old)) <= BatchSize /\ Len(Behind(old)) < BatchSize
    BY <1>1, <2>3
  <2> QED BY <1>2, <1>4, <2>1, <2>2, <2>4, TurnIs
<1> QED BY <1>3, <1>4

(* Where the writer goes after a batch, its own invariants hold.             *)
LEMMA CommittedEnds ==
  ASSUME AllInv, NEW i \in Imports, At(i, "inserting") \/ At(i, "enrolling"), Committed(i),
         UNCHANGED <<cancelled, request, reader, queue>>
  PROVE  Limits(i)' /\ EndsWell(i)' /\ Working(i)'
<1>1. Limits(i) /\ EndsWell(i)
  BY DEF AllInv, One
<1>2. Limits(i)' /\ Working(i)'
  BY CommittedIs DEF Limits, Working, At
<1>3. EndsWell(i)'
  <2>1. /\ writer'[i].finishing = writer[i].finishing /\ writer'[i].stopped = writer[i].stopped
        /\ writer'[i].pc = "joining" => writer'[i].finishing /\ writer'[i].batch = <<>>
        /\ ~writer[i].finishing => open' = open
    BY CommittedIs
  <2>2. ~writer[i].finishing => open[i] /\ ~writer[i].stopped
    BY <1>1 DEF EndsWell, At
  <2>3. WholeFile(i)' = WholeFile(i)
    BY DEF WholeFile
  <2> QED BY <1>1, <2>1, <2>2, <2>3 DEF EndsWell
<1> QED BY <1>2, <1>3

LEMMA InsertStep == ASSUME AllInv, NEW i \in Imports, Insert(i) PROVE AllInv'
<1> DEFINE old == writer[i]  length == Len(request[i].rows)  chunk == Chunk(writer[i])
           behind == Behind(writer[i])
<1>1. /\ UNCHANGED <<slot, cancelled, request, reader, queue, answer, members>>
      /\ contacts' = contacts \o chunk /\ At(i, "inserting") /\ Working(i)
  BY DEF Insert, Working, At
<1>2. /\ Limits(i) /\ EndsWell(i) /\ request[i] \in Views /\ length \in Nat /\ old \in Writers
  BY <1>1, AtWork
<1>3. PICK n \in 0 .. length : /\ Story(i, n) /\ ReadSoFar(i, n) /\ CountedSoFar(i, n) /\ StoredSoFar(i, n)
  BY <1>1, AtWork
<1>4. /\ ListOf(old.batch, ToSet(old.batch)) /\ Stored(i) \cap ToSet(old.batch) = {}
      /\ Stored(i) \cup ToSet(old.batch) = Settled(i, n)
      /\ Options(i).list # None => Stored(i) \subseteq members
  <2>1. Rest(i) = old.batch /\ Loose(i) = {}
    BY <1>1 DEF Rest, Loose, At
  <2> QED BY <1>3, <2>1 DEF StoredSoFar
<1>5. /\ ListOf(chunk, ToSet(chunk)) /\ ListOf(behind, ToSet(behind))
      /\ ToSet(chunk) \cap ToSet(behind) = {} /\ ToSet(chunk) \cup ToSet(behind) = ToSet(old.batch)
  BY <1>2, <1>4, ChunkIs
<1>6. \A c \in ToSet(chunk) : c.import = i
  <2>1. Settled(i, n) \subseteq Reference(i, request[i], n)
    BY DEF Settled
  <2>2. \A c \in Reference(i, request[i], n) : c.import = i
    BY <1>2, ReferenceIs
  <2> QED BY <1>4, <1>5, <2>1, <2>2
<1>7. ToSet(contacts) \cap ToSet(chunk) = {} /\ ListOf(contacts, ToSet(contacts))
  <2>1. \A c \in ToSet(contacts) \cap ToSet(chunk) : c \in Stored(i) /\ c \in ToSet(old.batch)
    BY <1>5, <1>6 DEF Stored
  <2>2. ListOf(contacts, ToSet(contacts))
    BY DEF AllInv, Typed, ListOf
  <2> QED BY <1>4, <2>1, <2>2
<1> HIDE DEF chunk, behind
<1>8. ListOf(contacts', ToSet(contacts) \cup ToSet(chunk))
  <2>1. ListOf(contacts \o chunk, ToSet(contacts) \cup ToSet(chunk))
    BY <1>5, <1>7, ListsJoin
  <2> QED BY <1>1, <2>1
<1>9. /\ contacts' \in Seq(Entries) /\ IsInjective(contacts)'
      /\ ToSet(contacts') = ToSet(contacts) \cup ToSet(chunk)
  BY <1>8 DEF ListOf
<1>10. members' \subseteq ToSet(contacts') /\ members \subseteq members'
  BY <1>1, <1>9 DEF AllInv, Typed
<1>11. /\ Stored(i)' = Stored(i) \cup ToSet(chunk)
       /\ \A j \in Imports \ {i} : Stored(j)' = Stored(j)
  <2>1. ASSUME NEW j PROVE Stored(j)' = {c \in ToSet(contacts) \cup ToSet(chunk) : c.import = j}
    BY <1>9 DEF Stored
  <2> QED BY <1>6, <2>1 DEF Stored
<1>12. queue' \in [Imports -> Seq(Outcomes)]
  BY <1>1 DEF AllInv, Typed
<1>13. CASE Options(i).list = None
  <2>1. Committed(i)
    BY <1>13, Zenon DEF Insert
  <2>2. /\ writer' \in [Imports -> Writers] /\ open' \in [Imports -> BOOLEAN]
        /\ outbox' \in [Imports -> Seq(Events)]
        /\ writer'[i].tally = old.tally /\ writer'[i].kept = old.kept
        /\ writer'[i].batch = behind /\ writer'[i].finishing = old.finishing
        /\ writer'[i].pc \in {"receiving", "inserting", "joining"} /\ (open'[i] => open[i])
        /\ \A j \in Imports \ {i} : writer'[j] = writer[j] /\ open'[j] = open[j] /\ outbox'[j] = outbox[j]
    BY <1>1, <2>1, CommittedIs DEF behind
  <2>3. Limits(i)' /\ EndsWell(i)' /\ Working(i)'
    BY <1>1, <2>1, CommittedEnds
  <2>4. ReadSoFar(i, n)' /\ CountedSoFar(i, n)'
    BY <1>1, <1>3, <2>2, ReadStands, CountStands
  <2>5. StoredSoFar(i, n)'
    <3>1. Rest(i)' = behind /\ Loose(i)' = {} /\ Options(i)' = Options(i)
      BY <1>1, <2>2 DEF Rest, Loose, Options, At
    <3>2. Settled(i, n)' = Settled(i, n)
      BY <1>1, <2>2, <3>1, Zenon DEF Settled
    <3>3. Stored(i)' \cup ToSet(behind) = Settled(i, n) /\ Stored(i)' \cap ToSet(behind) = {}
      BY <1>4, <1>5, <1>11
    <3> QED BY <1>5, <1>13, <2>2, <3>1, <3>2, <3>3 DEF StoredSoFar
  <2> QED BY <1>1, <1>9, <1>10, <1>11, <1>12, <2>2, <2>3, <2>4, <2>5, WriterMoves
<1>14. CASE Options(i).list # None
  <2> DEFINE now == [old EXCEPT !.pc = "enrolling"]
  <2>1. writer' = [writer EXCEPT ![i] = now] /\ open' = open /\ outbox' = outbox
    BY <1>14, Zenon DEF Insert
  <2>2. /\ now \in Writers /\ now.pc = "enrolling" /\ now.tally = old.tally /\ now.kept = old.kept
        /\ now.batch = old.batch /\ now.finishing = old.finishing /\ now.stopped = old.stopped
    BY <1>2, PcIs DEF WriterPcs
  <2>3. writer' \in [Imports -> Writers] /\ writer'[i] = now /\ \A j \in Imports \ {i} : writer'[j] = writer[j]
    BY <2>1, <2>2, Placed DEF AllInv, Typed
  <2>4. open' \in [Imports -> BOOLEAN] /\ outbox' \in [Imports -> Seq(Events)]
    BY <2>1 DEF AllInv, Typed
  <2>5. Limits(i)' /\ EndsWell(i)' /\ Working(i)'
    <3>1. Limits(i)' /\ Working(i)'
      BY <1>1, <1>2, <2>1, <2>2, <2>3 DEF Limits, Working, At
    <3>2. WholeFile(i)' = WholeFile(i)
      BY <1>1 DEF WholeFile
    <3>3. EndsWell(i)'
      BY <1>1, <1>2, <2>1, <2>2, <2>3, <3>2 DEF EndsWell, At
    <3> QED BY <3>1, <3>3
  <2>6. ReadSoFar(i, n)' /\ CountedSoFar(i, n)'
    BY <1>1, <1>3, <2>1, <2>2, <2>3, ReadStands, CountStands
  <2>7. StoredSoFar(i, n)'
    <3>1. Chunk(writer'[i]) = chunk /\ Behind(writer'[i]) = behind
      BY <2>2, <2>3 DEF chunk, behind, Chunk, Behind, ChunkSize
    <3>2. Rest(i)' = behind /\ Loose(i)' = ToSet(chunk) /\ Options(i)' = Options(i)
      BY <1>1, <2>2, <2>3, <3>1 DEF Rest, Loose, Options, At
    <3>3. Settled(i, n)' = Settled(i, n)
      BY <1>1, <2>2, <2>3, <3>2, Zenon DEF Settled
    <3>4. /\ Stored(i)' \cup ToSet(old.batch) = Settled(i, n) /\ Stored(i)' \cap ToSet(behind) = {}
          /\ ToSet(chunk) \subseteq Stored(i)'
      BY <1>4, <1>5, <1>11
    <3>5. Options(i).list # None => Stored(i)' \subseteq members' \cup ToSet(chunk)
      BY <1>1, <1>4, <1>11
    <3> QED BY <1>4, <2>2, <2>3, <3>2, <3>3, <3>4, <3>5 DEF StoredSoFar
  <2> QED BY <1>1, <1>9, <1>10, <1>11, <1>12, <2>1, <2>3, <2>4, <2>5, <2>6, <2>7, WriterMoves
<1> QED BY <1>13, <1>14

LEMMA EnrolStep == ASSUME AllInv, NEW i \in Imports, Enrol(i) PROVE AllInv'
<1> DEFINE old == writer[i]  length == Len(request[i].rows)  chunk == Chunk(writer[i])
           behind == Behind(writer[i])
<1>1. /\ UNCHANGED <<slot, cancelled, request, reader, queue, answer, contacts>>
      /\ members' = members \cup ToSet(chunk) /\ Committed(i) /\ At(i, "enrolling") /\ Working(i)
  BY DEF Enrol, Working, At
<1>2. /\ request[i] \in Views /\ length \in Nat /\ old \in Writers
  BY <1>1, AtWork
<1>3. PICK n \in 0 .. length : /\ Story(i, n) /\ ReadSoFar(i, n) /\ CountedSoFar(i, n) /\ StoredSoFar(i, n)
  BY <1>1, AtWork
<1>4. /\ ListOf(old.batch, ToSet(old.batch)) /\ Stored(i) \cap ToSet(behind) = {}
      /\ Stored(i) \cup ToSet(old.batch) = Settled(i, n) /\ ToSet(chunk) \subseteq Stored(i)
      /\ Options(i).list # None => Stored(i) \subseteq members \cup ToSet(chunk)
  <2>1. Rest(i) = behind /\ Loose(i) = ToSet(chunk)
    BY <1>1 DEF Rest, Loose, At
  <2> QED BY <1>3, <2>1 DEF StoredSoFar
<1>5. /\ ListOf(behind, ToSet(behind)) /\ ToSet(chunk) \cup ToSet(behind) = ToSet(old.batch)
  BY <1>2, <1>4, ChunkIs
<1> HIDE DEF chunk, behind
<1>6. \A j : Stored(j)' = Stored(j)
  BY <1>1, StoreAlone
<1>7. /\ queue' \in [Imports -> Seq(Outcomes)] /\ contacts' \in Seq(Entries) /\ IsInjective(contacts)'
      /\ members \subseteq members' /\ members' \subseteq ToSet(contacts')
  BY <1>1, <1>4 DEF AllInv, Typed, Stored
<1>8. /\ writer' \in [Imports -> Writers] /\ open' \in [Imports -> BOOLEAN]
      /\ outbox' \in [Imports -> Seq(Events)]
      /\ writer'[i].tally = old.tally /\ writer'[i].kept = old.kept
      /\ writer'[i].batch = behind /\ writer'[i].finishing = old.finishing
      /\ writer'[i].pc \in {"receiving", "inserting", "joining"} /\ (open'[i] => open[i])
      /\ \A j \in Imports \ {i} : writer'[j] = writer[j] /\ open'[j] = open[j] /\ outbox'[j] = outbox[j]
  BY <1>1, CommittedIs DEF behind
<1>9. Limits(i)' /\ EndsWell(i)' /\ Working(i)'
  BY <1>1, CommittedEnds
<1>10. ReadSoFar(i, n)' /\ CountedSoFar(i, n)'
  BY <1>1, <1>3, <1>8, ReadStands, CountStands
<1>11. StoredSoFar(i, n)'
  <2>1. Rest(i)' = behind /\ Loose(i)' = {} /\ Options(i)' = Options(i)
    BY <1>1, <1>8 DEF Rest, Loose, Options, At
  <2>2. Settled(i, n)' = Settled(i, n)
    BY <1>1, <1>8, <2>1, Zenon DEF Settled
  <2>3. Stored(i) \cup ToSet(behind) = Settled(i, n)
    BY <1>4, <1>5
  <2> QED BY <1>1, <1>4, <1>5, <1>6, <1>8, <2>1, <2>2, <2>3 DEF StoredSoFar
<1> QED BY <1>1, <1>6, <1>7, <1>8, <1>9, <1>10, <1>11, WriterMoves

LEMMA StoreRefusesStep == ASSUME AllInv, NEW i \in Imports, StoreRefuses(i) PROVE AllInv'
<1>1. Active(i) /\ ~At(i, "forwarding")
  BY DEF StoreRefuses, Active, At
<1> QED BY <1>1, FailedStep DEF StoreRefuses, store

LEMMA JoinStep == ASSUME AllInv, NEW i \in Imports, Join(i) PROVE AllInv'
<1> DEFINE old == writer[i]  w == [writer[i] EXCEPT !.pc = "forwarding"]  report == Report(i)
<1>1. /\ UNCHANGED <<slot, cancelled, request, reader, queue, contacts, members>>
      /\ At(i, "joining") /\ reader[i].pc = "ended" /\ Working(i)
  BY DEF Join, store, Working, At
<1>2. /\ Asked(i) /\ Limits(i) /\ EndsWell(i) /\ request[i] \in Views /\ old \in Writers /\ Active(i)
      /\ answer[i].is = "none" /\ ~At(i, "forwarding")
  BY <1>1, AtWork
<1>3. CASE reader[i].failed
  <2>1. Return(i, writer[i], [is |-> "failed"]) /\ outbox' = outbox
    BY <1>3, Zenon DEF Join
  <2> QED BY <1>1, <1>2, <2>1, FailedStep
<1>4. CASE ~reader[i].failed
  <2>1. /\ writer' = [writer EXCEPT ![i] = w] /\ answer' = [answer EXCEPT ![i] = report]
        /\ open' = [open EXCEPT ![i] = FALSE] /\ outbox' = Notified(i, old.tally, TRUE)
    BY <1>4, Zenon DEF Join, Return
  <2>2. PICK n \in 0 .. Len(request[i].rows) : Story(i, n)
    BY <1>1, AtWork
  <2>3. /\ w \in Writers /\ w.pc = "forwarding" /\ w.tally = old.tally /\ w.kept = old.kept
        /\ w.batch = old.batch /\ w.finishing = old.finishing /\ w.stopped = old.stopped
    BY <1>2, PcIs DEF WriterPcs
  <2>4. old.tally \in Tallies
    BY <1>2 DEF Writers
  <2>5. /\ report \in Answers /\ report.is = "report" /\ report.counts = old.tally
        /\ report.total = Processed(old.tally)
        /\ ~report.cancelled => ~old.stopped /\ i \notin cancelled
    <3> DEFINE stopped == old.stopped \/ i \in cancelled
               total == Processed(old.tally)
               counts == old.tally
    <3>1. total \in Nat /\ stopped \in BOOLEAN /\ counts \in Tallies
      BY <1>2, <2>4, ProcessedIs DEF Writers
    <3>2. report = [is |-> "report", counts |-> counts, total |-> total, cancelled |-> stopped]
      BY Zenon DEF Report
    <3>3. stopped = FALSE => ~old.stopped /\ i \notin cancelled
      OBVIOUS
    <3> HIDE DEF report, stopped, total, counts
    <3>4. /\ report \in Answers /\ report.is = "report" /\ report.counts = counts
          /\ report.total = total /\ report.cancelled = stopped
      BY <3>1, <3>2 DEF Answers
    <3>5. ~report.cancelled => ~old.stopped /\ i \notin cancelled
      BY <3>1, <3>3, <3>4, Zenon
    <3> QED BY <3>4, <3>5 DEF total, counts
  <2> HIDE DEF w, report
  <2>6. /\ writer' \in [Imports -> Writers] /\ writer'[i] = w /\ \A j \in Imports \ {i} : writer'[j] = writer[j]
    BY <2>1, <2>3, Placed DEF AllInv, Typed
  <2>7. /\ answer' \in [Imports -> Answers] /\ answer'[i] = report /\ \A j \in Imports \ {i} : answer'[j] = answer[j]
    BY <2>1, <2>5, Placed DEF AllInv, Typed
  <2>8. /\ open' \in [Imports -> BOOLEAN] /\ open'[i] = FALSE /\ \A j \in Imports \ {i} : open'[j] = open[j]
    BY <2>1, Placed DEF AllInv, Typed
  <2>9. /\ outbox' \in [Imports -> Seq(Events)] /\ Len(outbox'[i]) <= ProgressQueue
        /\ \A j \in Imports \ {i} : outbox'[j] = outbox[j]
    <3> DEFINE box == Notified(i, old.tally, TRUE)
    <3>1. outbox' = box
      BY <2>1
    <3>2. /\ box \in [Imports -> Seq(Events)] /\ Len(box[i]) <= ProgressQueue
          /\ \A j \in Imports \ {i} : box[j] = outbox[j]
      BY <2>4, NotifiedIs
    <3> HIDE DEF box
    <3> QED BY <3>1, <3>2
  <2>10. \A j : Stored(j)' = Stored(j)
    BY <1>1, StoreAlone
  <2>11. Apart(i)
    BY <1>1, <2>6, <2>7, <2>8, <2>9, <2>10 DEF Apart
  <2>12. OneImport'
    <3>1. Active(i)'
      BY <2>3, <2>6 DEF Active, At
    <3> QED BY <1>1, <1>2, <2>11, <3>1, SlotStands
  <2>13. Typed' /\ IsInjective(contacts)'
    BY <1>1, <2>6, <2>7, <2>8, <2>9 DEF AllInv, Typed
  <2>14. One(i)'
    <3>1. Limits(i)'
      BY <1>1, <1>2, <2>3, <2>6, <2>9 DEF Limits, At
    <3>2. WholeFile(i)' = WholeFile(i)
      BY <1>1 DEF WholeFile
    <3>3. EndsWell(i)'
      BY <1>1, <1>2, <2>3, <2>6, <3>2 DEF EndsWell
    <3>4. Answered(i)'
      <4>1. old.finishing /\ old.batch = <<>>
        BY <1>1, <1>2 DEF EndsWell, At
      <4>2. ~report.cancelled => WholeFile(i)
        BY <1>2, <1>4, <2>5, <4>1 DEF EndsWell
      <4> QED BY <1>1, <2>3, <2>5, <2>6, <2>7, <3>2, <4>1, <4>2 DEF Answered, At
    <3>5. Calls(i)' /\ Asked(i)'
      BY <1>1, <1>2, <2>3, <2>5, <2>6, <2>7 DEF Calls, Asked, At
    <3>6. Story(i, n)'
      BY <1>1, <1>2, <2>2, <2>3, <2>6, <2>8, <2>10, StoryStands DEF At
    <3> QED BY <1>1, <2>2, <3>1, <3>3, <3>4, <3>5, <3>6 DEF One
  <2> QED BY <2>11, <2>12, <2>13, <2>14, Gather
<1> QED BY <1>3, <1>4

LEMMA AllStutter == ASSUME AllInv, UNCHANGED vars PROVE AllInv'
<1>1. UNCHANGED <<slot, cancelled, request, reader, queue, open, writer, outbox, answer, contacts, members>>
  BY DEF vars
<1>2. ASSUME NEW j \in Imports PROVE One(j)'
  BY <1>1, OneStands DEF AllInv, Stored
<1>3. Typed' /\ OneImport' /\ IsInjective(contacts)'
  BY <1>1 DEF AllInv, Typed, OneImport, Active, At
<1> QED BY <1>2, <1>3 DEF AllInv

LEMMA AllNext == ASSUME AllInv, [Next]_vars PROVE AllInv'
<1>1. ASSUME NEW i \in Imports, Begin(i) \/ Read(i) \/ Write(i) \/ Forward(i) \/ Answer(i) PROVE AllInv'
  <2>1. CASE Begin(i)
    BY <2>1, BeginStep
  <2>2. CASE Read(i)
    BY <2>2, ReadRowStep, OfferStep DEF Read
  <2>3. CASE Write(i)
    BY <2>3, OpenStep, ReceiveStep, FinishStep, InsertStep, EnrolStep, StoreRefusesStep, JoinStep DEF Write
  <2>4. CASE Forward(i)
    BY <2>4, ForwardStep
  <2>5. CASE Answer(i)
    BY <2>5, AnswerStep
  <2> QED BY <1>1, <2>1, <2>2, <2>3, <2>4, <2>5
<1>2. CASE Cancel
  BY <1>2, CancelStep
<1>3. CASE Stutter \/ UNCHANGED vars
  BY <1>3, AllStutter DEF Stutter
<1> QED BY <1>1, <1>2, <1>3 DEF Next

(* One import runs at a time, and a report tells what the database holds:    *)
(* the contacts its rows stand for, once each and enrolled, whatever was     *)
(* cancelled, refused or told on the way (persistence/src/import.rs).        *)
THEOREM ImportInvariant == Spec => []ImportInv
<1>1. Init => AllInv
  BY AllInit
<1>2. AllInv /\ [Next]_vars => AllInv'
  BY AllNext
<1>3. AllInv => ImportInv
  BY AllImplies
<1> QED BY <1>1, <1>2, <1>3, PTL DEF Spec
=============================================================================
