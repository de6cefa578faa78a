--------------------------- MODULE ConsoleProofs ---------------------------
(***************************************************************************)
(* What the tools of the console promise, for every number of PDUs,        *)
(* connections, pages, contacts, profiles and messages: the log screen     *)
(* (Logs), the address book and its screen (Book), the form of a profile   *)
(* and the sessions screen (Profiles), the waits and rates (Waits), the    *)
(* form of a campaign and its panel (Launch), the send screen and the form *)
(* of a message (Compose), and the octets of a connection (Frames).        *)
(***************************************************************************)
EXTENDS Console, FiniteSetTheorems, SequenceTheorems, TLAPS

-----------------------------------------------------------------------------
(* Pages.                                                                   *)

\* The rows of a finite set that come before one of them.
Before(S, i) == {j \in S : j < i}

\* Before different rows stand different numbers of rows: each number under the
\* size of the set is that of one row, and of one only.
LEMMA RanksAreDistinct ==
  ASSUME NEW S \in SUBSET Nat, IsFiniteSet(S)
  PROVE  /\ Cardinality(S) \in Nat
         /\ \A i \in S : /\ Cardinality(Before(S, i)) \in 0 .. Cardinality(S) - 1
                         /\ \A j \in S : j < i =>
                              Cardinality(Before(S, j)) < Cardinality(Before(S, i))
         /\ \A n \in 0 .. Cardinality(S) - 1 :
              \E i \in S : Cardinality(Before(S, i)) = n
<1>1. Cardinality(S) \in Nat
  BY FS_CardinalityType
<1>2. ASSUME NEW T \in SUBSET S, NEW i \in S, i \notin T
      PROVE  /\ IsFiniteSet(T) /\ Cardinality(T) \in Nat
             /\ Cardinality(T) < Cardinality(T \union {i})
             /\ IsFiniteSet(T \union {i})
  <2>1. IsFiniteSet(T)
    BY FS_Subset
  <2>2. Cardinality(T) \in Nat
    BY <2>1, FS_CardinalityType
  <2>3. IsFiniteSet(T \union {i}) /\ Cardinality(T \union {i}) = Cardinality(T) + 1
    BY <1>2, <2>1, FS_AddElement
  <2> QED BY <2>1, <2>2, <2>3
<1>3. ASSUME NEW i \in S
      PROVE  Cardinality(Before(S, i)) \in 0 .. Cardinality(S) - 1
  <2>1. Before(S, i) \in SUBSET S /\ i \notin Before(S, i)
    BY <1>3 DEF Before
  <2>2. Cardinality(Before(S, i) \union {i}) <= Cardinality(S)
    BY <2>1, FS_Subset
  <2>3. Cardinality(Before(S, i)) \in Nat /\ IsFiniteSet(Before(S, i))
    BY <1>2, <2>1
  <2>4. Cardinality(Before(S, i) \union {i}) = Cardinality(Before(S, i)) + 1
    BY <2>1, <2>3, FS_AddElement
  <2> QED BY <1>1, <2>2, <2>3, <2>4
<1>4. ASSUME NEW i \in S, NEW j \in S, j < i
      PROVE  Cardinality(Before(S, j)) < Cardinality(Before(S, i))
  <2>1. Before(S, j) \in SUBSET S /\ j \notin Before(S, j)
    BY DEF Before
  <2>2. Before(S, j) \union {j} \in SUBSET Before(S, i) /\ Before(S, i) \in SUBSET S
    <3>1. i \in Nat /\ j \in Nat
      OBVIOUS
    <3>2. \A k \in S : k \in Nat /\ (k < j => k < i)
      BY <1>4, <3>1
    <3> QED BY <1>4, <3>2 DEF Before
  <2>3. IsFiniteSet(Before(S, i)) /\ Cardinality(Before(S, i)) \in Nat
    BY <2>2, FS_Subset, FS_CardinalityType
  <2>4. Cardinality(Before(S, j) \union {j}) <= Cardinality(Before(S, i))
    BY <2>2, <2>3, FS_Subset
  <2>5. IsFiniteSet(Before(S, j) \union {j}) /\ Cardinality(Before(S, j)) \in Nat
        /\ Cardinality(Before(S, j)) < Cardinality(Before(S, j) \union {j})
    BY <1>2, <2>1
  <2>6. Cardinality(Before(S, j) \union {j}) \in Nat
    BY <2>5, FS_CardinalityType
  <2> QED BY <2>3, <2>4, <2>5, <2>6
<1> DEFINE rank == [i \in S |-> Cardinality(Before(S, i))]
           Ranks == 0 .. Cardinality(S) - 1
<1>5. rank \in Injection(S, Ranks)
  <2>1. rank \in [S -> Ranks]
    BY <1>3
  <2>2. ASSUME NEW i \in S, NEW j \in S, rank[i] = rank[j] PROVE i = j
    <3>1. i \in Nat /\ j \in Nat
      OBVIOUS
    <3>2. ~(i < j) /\ ~(j < i)
      BY <1>1, <1>3, <1>4, <2>2
    <3> QED BY <3>1, <3>2
  <2> QED BY <2>1, <2>2 DEF Injection, IsInjective
<1>6. IsFiniteSet(Ranks) /\ Cardinality(Ranks) = Cardinality(S)
  <2>1. Cardinality(S) - 1 \in Int /\ 0 \in Int
    BY <1>1
  <2>2. /\ IsFiniteSet(0 .. Cardinality(S) - 1)
        /\ Cardinality(0 .. Cardinality(S) - 1) =
             IF 0 > Cardinality(S) - 1 THEN 0 ELSE Cardinality(S) - 1 - 0 + 1
    BY <2>1, FS_Interval
  <2> QED BY <1>1, <2>2
<1>7. rank \in Surjection(S, Ranks)
  <2> HIDE DEF rank, Ranks
  <2> QED BY <1>5, <1>6, FS_Injection
<1>8. \A n \in Ranks : \E i \in S : rank[i] = n
  <2> HIDE DEF rank, Ranks
  <2> QED BY <1>7 DEF Surjection
<1> QED BY <1>1, <1>3, <1>4, <1>8

\* The rows of a set in order: each of them, once.
LEMMA ByIdIsTheSet ==
  ASSUME NEW S \in SUBSET Nat, IsFiniteSet(S)
  PROVE  /\ ById(S) \in Seq(S) /\ Len(ById(S)) = Cardinality(S)
         /\ DOMAIN ById(S) = 1 .. Cardinality(S) /\ Cardinality(S) \in Nat
         /\ ToSet(ById(S)) = S
         /\ \A k, m \in DOMAIN ById(S) : k < m => ById(S)[k] < ById(S)[m]
<1> DEFINE n == Cardinality(S)
<1>1. /\ n \in Nat
      /\ \A i \in S : /\ Cardinality(Before(S, i)) \in 0 .. n - 1
                      /\ \A j \in S : j < i =>
                           Cardinality(Before(S, j)) < Cardinality(Before(S, i))
      /\ \A m \in 0 .. n - 1 : \E i \in S : Cardinality(Before(S, i)) = m
  BY RanksAreDistinct
<1> DEFINE at(k) == CHOOSE i \in S : Cardinality(Before(S, i)) = k - 1
<1>2. ASSUME NEW k \in 1 .. n
      PROVE  at(k) \in S /\ Cardinality(Before(S, at(k))) = k - 1
  <2>1. k - 1 \in 0 .. n - 1
    BY <1>1
  <2>2. \E i \in S : Cardinality(Before(S, i)) = k - 1
    BY <1>1, <2>1
  <2> QED BY <2>2
<1>3. ById(S) = [k \in 1 .. n |-> at(k)]
  BY DEF ById, Before
<1> HIDE DEF n
<1>4. ById(S) \in [1 .. n -> S] /\ DOMAIN ById(S) = 1 .. n
  BY <1>2, <1>3
<1>5. ById(S) \in Seq(S) /\ Len(ById(S)) = n
  BY <1>1, <1>4
<1>6. ASSUME NEW i \in S PROVE \E k \in 1 .. n : ById(S)[k] = i
  <2> DEFINE k == Cardinality(Before(S, i)) + 1
  <2>1. k \in 1 .. n /\ Cardinality(Before(S, i)) = k - 1
    BY <1>1
  <2> HIDE DEF k
  <2>2. at(k) \in S /\ Cardinality(Before(S, at(k))) = k - 1
    BY <1>2, <2>1
  <2> HIDE DEF at
  <2>3. /\ at(k) \in Nat /\ i \in Nat
        /\ Cardinality(Before(S, at(k))) = Cardinality(Before(S, i))
    BY <1>1, <2>1, <2>2
  <2>4. ~(at(k) < i) /\ ~(i < at(k))
    BY <1>1, <2>2, <2>3
  <2>5. at(k) = i
    BY <2>3, <2>4
  <2> QED BY <1>3, <2>1, <2>5
<1>7. ASSUME NEW k \in 1 .. n, NEW m \in 1 .. n, k < m
      PROVE  ById(S)[k] < ById(S)[m]
  <2>1. /\ at(k) \in S /\ Cardinality(Before(S, at(k))) = k - 1
        /\ at(m) \in S /\ Cardinality(Before(S, at(m))) = m - 1
    BY <1>2
  <2> HIDE DEF at
  <2>2. at(k) \in Nat /\ at(m) \in Nat
    BY <2>1
  <2>3. ~(at(m) < at(k)) /\ at(m) # at(k)
    BY <1>1, <1>7, <2>1, <2>2
  <2>4. at(k) < at(m)
    BY <2>2, <2>3
  <2> QED BY <1>3, <2>4
<1>8. ToSet(ById(S)) = S
  BY <1>4, <1>6 DEF ToSet
<1> QED BY <1>1, <1>4, <1>5, <1>7, <1>8 DEF n

\* The greatest of a set of rows that has one.
LEMMA MaxOf ==
  ASSUME NEW S \in SUBSET Nat, IsFiniteSet(S), S # {}
  PROVE  Max(S) \in S /\ \A i \in S : i <= Max(S)
<1>1. Cardinality(S) \in Nat /\ Cardinality(S) # 0
  BY FS_CardinalityType, FS_EmptySet
<1>2. Cardinality(S) - 1 \in 0 .. Cardinality(S) - 1
  BY <1>1
<1>3. PICK m \in S : Cardinality(Before(S, m)) = Cardinality(S) - 1
  BY <1>2, RanksAreDistinct
<1>4. \A i \in S : m >= i
  BY <1>3, <1>1, RanksAreDistinct
<1> QED BY <1>4 DEF Max

\* A page: its rows are the first, in order; one that is not full is all there
\* is, and the next starts after the last row of one that is.
LEMMA PageIsTheFirstRows ==
  ASSUME NEW A \in SUBSET (Nat \ {0}), IsFiniteSet(A), NEW limit \in Nat \ {0},
         NEW page, page = IntoPage(A, limit)
  PROVE  /\ page = [rows |-> page.rows, next |-> page.next]
         /\ page.rows \in Seq(A) /\ page.next \in Nat
         /\ \A k, m \in DOMAIN page.rows : k < m => page.rows[k] < page.rows[m]
         /\ page.next = 0 => ToSet(page.rows) = A
         /\ page.next # 0 => ToSet(page.rows) = {i \in A : i <= page.next}
         /\ page.next # 0 => page.next \in ToSet(page.rows)
<1> DEFINE held == FirstOf(A, limit)
<1>1. /\ Cardinality(A) \in Nat
      /\ \A i \in A : /\ Cardinality(Before(A, i)) \in Nat
                      /\ \A j \in A : j < i =>
                           Cardinality(Before(A, j)) < Cardinality(Before(A, i))
      /\ \A m \in 0 .. Cardinality(A) - 1 : \E i \in A : Cardinality(Before(A, i)) = m
      /\ \A i \in A : Cardinality(Before(A, i)) <= Cardinality(A) - 1
  <2>1. A \in SUBSET Nat
    OBVIOUS
  <2> QED BY <2>1, RanksAreDistinct
<1>2. held = {i \in A : Cardinality(Before(A, i)) < limit}
  BY DEF FirstOf, Before
<1>3. held \in SUBSET A /\ held \in SUBSET Nat /\ IsFiniteSet(held) /\ Cardinality(held) \in Nat
  <2>1. held \in SUBSET A
    BY <1>2
  <2> HIDE DEF held
  <2> QED BY <2>1, FS_Subset, FS_CardinalityType
<1>4. Cardinality(held) # limit => held = A
  <2> SUFFICES ASSUME held # A PROVE Cardinality(held) = limit
    OBVIOUS
  <2>1. PICK x \in A : x \notin held
    BY <1>3
  <2>2. Cardinality(Before(A, x)) >= limit
    BY <1>1, <1>2, <2>1
  <2>3. \A m \in 0 .. limit - 1 : m \in 0 .. Cardinality(A) - 1
    BY <1>1, <2>1, <2>2
  <2> DEFINE rank == [i \in held |-> Cardinality(Before(A, i))]
             Ranks == 0 .. limit - 1
  <2>4. rank \in [held -> Ranks]
    <3>1. ASSUME NEW i \in held PROVE Cardinality(Before(A, i)) \in 0 .. limit - 1
      <4>1. i \in A /\ Cardinality(Before(A, i)) < limit
        BY <1>2
      <4>2. Cardinality(Before(A, i)) \in Nat
        BY <1>1, <4>1
      <4> QED BY <4>1, <4>2
    <3> QED BY <3>1
  <2>5. ASSUME NEW m \in Ranks PROVE \E i \in held : rank[i] = m
    BY <1>1, <1>2, <2>3
  <2>6. ASSUME NEW i \in held, NEW j \in held, rank[i] = rank[j] PROVE i = j
    <3>1. i \in A /\ j \in A /\ i \in Nat /\ j \in Nat
      BY <1>2
    <3>2. Cardinality(Before(A, i)) = Cardinality(Before(A, j))
      BY <2>6
    <3>3. ~(i < j) /\ ~(j < i)
      BY <1>1, <3>1, <3>2
    <3> QED BY <3>1, <3>3
  <2> HIDE DEF rank
  <2>7. rank \in Injection(held, Ranks) /\ rank \in Surjection(held, Ranks)
    BY <2>4, <2>5, <2>6 DEF Injection, Surjection, IsInjective
  <2>8. IsFiniteSet(Ranks) /\ Cardinality(Ranks) = limit
    BY FS_Interval
  <2> HIDE DEF held, Ranks
  <2> QED BY <1>3, <2>7, <2>8, FS_Injection
<1>5. ASSUME NEW i \in A, NEW j \in held, i < j PROVE i \in held
  <2>1. /\ j \in A /\ i \in A /\ Cardinality(Before(A, i)) \in Nat
        /\ Cardinality(Before(A, j)) \in Nat /\ Cardinality(Before(A, j)) < limit
        /\ Cardinality(Before(A, i)) < Cardinality(Before(A, j))
    BY <1>1, <1>2, <1>5
  <2>2. Cardinality(Before(A, i)) < limit
    BY <2>1
  <2> QED BY <1>2, <2>2
<1>6. page = [rows |-> ById(held), next |-> IF Cardinality(held) = limit THEN Max(held) ELSE 0]
  BY DEF IntoPage
<1> HIDE DEF held
<1>7. /\ ById(held) \in Seq(held) /\ ToSet(ById(held)) = held
      /\ \A k, m \in DOMAIN ById(held) : k < m => ById(held)[k] < ById(held)[m]
  BY <1>3, ByIdIsTheSet
<1>8. ById(held) \in Seq(A)
  <2>1. \A k \in 1 .. Len(ById(held)) : ById(held)[k] \in A
    <3>1. \A k \in 1 .. Len(ById(held)) : ById(held)[k] \in held
      BY <1>7
    <3> QED BY <1>3, <3>1
  <2>2. DOMAIN ById(held) = 1 .. Len(ById(held)) /\ Len(ById(held)) \in Nat
    BY <1>7
  <2>3. ById(held) \in [1 .. Len(ById(held)) -> A]
    BY <1>7, <2>1, <2>2
  <2> QED BY <2>2, <2>3
<1>9. CASE Cardinality(held) = limit
  <2>1. held # {}
    BY <1>9, FS_EmptySet
  <2>2. Max(held) \in held /\ \A i \in held : i <= Max(held)
    BY <1>3, <2>1, MaxOf
  <2>3. held = {i \in A : i <= Max(held)}
    <3>1. ASSUME NEW i \in A, i <= Max(held) PROVE i \in held
      <4>1. i = Max(held) \/ i < Max(held)
        <5>1. Max(held) \in Nat /\ i \in Nat
          BY <1>3, <2>2
        <5> QED BY <3>1, <5>1
      <4> QED BY <1>5, <2>2, <4>1
    <3> QED BY <1>3, <2>2, <3>1
  <2>4. page.rows = ById(held) /\ page.next = Max(held)
    BY <1>6, <1>9
  <2>5. Max(held) \in Nat /\ Max(held) # 0
    BY <1>3, <2>2
  <2> QED BY <1>6, <1>7, <1>8, <2>2, <2>3, <2>4, <2>5
<1>10. CASE Cardinality(held) # limit
  <2>1. page.rows = ById(held) /\ page.next = 0
    BY <1>6, <1>10
  <2> QED BY <1>4, <1>6, <1>7, <1>8, <1>10, <2>1
<1> QED BY <1>9, <1>10

\* A sequence of members of a set is one of members of a larger set.
LEMMA SeqWidens ==
  ASSUME NEW S, NEW T, S \subseteq T, NEW s \in Seq(S) PROVE s \in Seq(T)
<1>1. s \in [1 .. Len(s) -> S] /\ Len(s) \in Nat
  OBVIOUS
<1>2. s \in [1 .. Len(s) -> T]
  BY <1>1
<1> QED BY <1>1, <1>2

\* Two sequences, one after the other.
Joins(u, s, t, S) == s \in Seq(S) /\ t \in Seq(S) /\ u = s \o t

\* A concatenation has the elements of the first sequence, then of the second.
LEMMA ConcatIs ==
  ASSUME NEW S, NEW s, NEW t, NEW u, Joins(u, s, t, S)
  PROVE  /\ u \in Seq(S) /\ DOMAIN u = 1 .. Len(s) + Len(t)
         /\ Len(s) \in Nat /\ Len(t) \in Nat /\ Len(u) = Len(s) + Len(t)
         /\ DOMAIN s = 1 .. Len(s) /\ DOMAIN t = 1 .. Len(t)
         /\ \A i \in 1 .. Len(s) : i \in DOMAIN u /\ u[i] = s[i]
         /\ \A i \in 1 .. Len(t) : Len(s) + i \in DOMAIN u /\ u[Len(s) + i] = t[i]
         /\ \A i \in DOMAIN u : \/ i \in 1 .. Len(s)
                                \/ i - Len(s) \in 1 .. Len(t) /\ u[i] = t[i - Len(s)]
         /\ ToSet(u) = ToSet(s) \union ToSet(t)
<1>1. /\ u \in Seq(S) /\ Len(u) = Len(s) + Len(t) /\ DOMAIN u = 1 .. Len(u)
      /\ Len(s) \in Nat /\ Len(t) \in Nat /\ DOMAIN s = 1 .. Len(s) /\ DOMAIN t = 1 .. Len(t)
      /\ \A i \in 1 .. Len(s) : u[i] = s[i]
      /\ \A i \in 1 .. Len(t) : u[Len(s) + i] = t[i]
  BY ConcatProperties DEF Joins
<1> DEFINE m == Len(s)
           n == Len(t)
<1>2. /\ m \in Nat /\ n \in Nat /\ DOMAIN u = 1 .. m + n /\ DOMAIN s = 1 .. m /\ DOMAIN t = 1 .. n
      /\ \A i \in 1 .. m : u[i] = s[i]
      /\ \A i \in 1 .. n : u[m + i] = t[i]
  BY <1>1
<1> HIDE DEF m, n
<1>3. \A i \in 1 .. m : i \in 1 .. m + n
  BY <1>2
<1>4. \A i \in 1 .. n : m + i \in 1 .. m + n
  BY <1>2
<1>5. \A i \in 1 .. m + n : i \in 1 .. m \/ (i - m \in 1 .. n /\ m + (i - m) = i)
  BY <1>2
<1>6. \A i \in 1 .. m + n : i \in 1 .. m \/ (i - m \in 1 .. n /\ u[i] = t[i - m])
  BY <1>2, <1>5
<1>7. ToSet(u) = ToSet(s) \union ToSet(t)
  <2>1. ASSUME NEW x \in ToSet(u) PROVE x \in ToSet(s) \/ x \in ToSet(t)
    <3>1. PICK i \in 1 .. m + n : u[i] = x
      BY <1>2, <2>1 DEF ToSet
    <3> QED BY <1>2, <1>6, <3>1 DEF ToSet
  <2>2. ASSUME NEW x \in ToSet(s) PROVE x \in ToSet(u)
    <3>1. PICK i \in 1 .. m : s[i] = x
      BY <1>2, <2>2 DEF ToSet
    <3> QED BY <1>2, <1>3, <3>1 DEF ToSet
  <2>3. ASSUME NEW x \in ToSet(t) PROVE x \in ToSet(u)
    <3>1. PICK i \in 1 .. n : t[i] = x
      BY <1>2, <2>3 DEF ToSet
    <3> QED BY <1>2, <1>4, <3>1 DEF ToSet
  <2> QED BY <2>1, <2>2, <2>3
<1> QED BY <1>1, <1>2, <1>3, <1>4, <1>6, <1>7 DEF m, n

-----------------------------------------------------------------------------
(* What is held in several places.                                          *)

PduEntries == [bind : Binds, number : Nat \ {0}]
Spots   == ({"queue"} \X Binds) \union ({"task"} \X (Binds \union Callers))
             \union ({"buffer", "table"} \X {0})

\* The front of a place goes to the back of another.
Moved(C, D, p, q, a, b) ==
  /\ C \in [Spots -> Seq(PduEntries)] /\ D \in [Spots -> Seq(PduEntries)]
  /\ p \in Spots /\ q \in Spots /\ p # q /\ a \in Seq(PduEntries) /\ b \in Seq(PduEntries)
  /\ C[p] = a \o b /\ D[p] = b /\ D[q] = C[q] \o a
  /\ \A x \in Spots : x # p /\ x # q => D[x] = C[x]

\* Moving entries from one place to another keeps each in one place.
LEMMA MoveKeepsOnce ==
  ASSUME NEW C, NEW D, NEW p, NEW q, NEW a, NEW b, Moved(C, D, p, q, a, b), OnceIn(C)
  PROVE  OnceIn(D) /\ HeldIn(D) = HeldIn(C)
<1>0. /\ C \in [Spots -> Seq(PduEntries)] /\ p \in Spots /\ q \in Spots /\ p # q
      /\ a \in Seq(PduEntries) /\ b \in Seq(PduEntries) /\ C[p] = a \o b
  BY DEF Moved
<1>1. /\ D \in [Spots -> Seq(PduEntries)] /\ D[p] = b /\ D[q] = C[q] \o a
      /\ \A x \in Spots : x # p /\ x # q => D[x] = C[x]
      /\ DOMAIN D = Spots /\ DOMAIN C = Spots
  BY DEF Moved
<1> USE <1>0
<1>2. /\ Len(a) \in Nat /\ Len(b) \in Nat /\ Len(C[q]) \in Nat
      /\ Len(C[p]) = Len(a) + Len(b) /\ Len(D[q]) = Len(C[q]) + Len(a)
      /\ \A i \in 1 .. Len(a) : C[p][i] = a[i]
      /\ \A i \in 1 .. Len(b) : C[p][Len(a) + i] = b[i]
      /\ \A i \in 1 .. Len(C[q]) : D[q][i] = C[q][i]
      /\ \A i \in 1 .. Len(a) : D[q][Len(C[q]) + i] = a[i]
      /\ \A x \in Spots : /\ DOMAIN C[x] = 1 .. Len(C[x]) /\ DOMAIN D[x] = 1 .. Len(D[x])
                      /\ Len(C[x]) \in Nat /\ Len(D[x]) \in Nat
  BY <1>1, ConcatProperties
<1>9. \A x \in Spots : \A i \in DOMAIN D[x] : i \in 1 .. Len(D[x]) /\ i \in Nat
  BY <1>2
<1> DEFINE from(x, i) == IF x = q /\ i > Len(C[q]) THEN p ELSE x
           at(x, i) == IF x = p THEN Len(a) + i
                       ELSE IF x = q /\ i > Len(C[q]) THEN i - Len(C[q]) ELSE i
<1>3. ASSUME NEW x \in Spots, NEW i \in DOMAIN D[x]
      PROVE  from(x, i) \in Spots /\ at(x, i) \in DOMAIN C[from(x, i)]
             /\ C[from(x, i)][at(x, i)] = D[x][i]
  <2>1. i \in 1 .. Len(D[x])
    BY <1>2
  <2>2. CASE x = p
    <3>1. i \in 1 .. Len(b) /\ Len(a) + i \in 1 .. Len(C[p])
      BY <1>1, <1>2, <2>1, <2>2
    <3> QED BY <1>1, <1>2, <2>2, <3>1
  <2>3. CASE x = q /\ i > Len(C[q])
    <3> DEFINE k == i - Len(C[q])
    <3>1. k \in 1 .. Len(a) /\ i = Len(C[q]) + k /\ k \in 1 .. Len(C[p])
      <4>1. i \in 1 .. Len(C[q]) + Len(a) /\ i > Len(C[q])
        BY <1>2, <2>1, <2>3
      <4>2. Len(C[q]) \in Nat /\ Len(a) \in Nat /\ Len(b) \in Nat /\ Len(C[p]) = Len(a) + Len(b)
        BY <1>2
      <4> HIDE <1>0
      <4> QED BY <4>1, <4>2
    <3>2. D[x][i] = a[k] /\ C[p][k] = a[k]
      BY <1>2, <2>3, <3>1
    <3> QED BY <1>2, <2>3, <3>1, <3>2
  <2>4. CASE x = q /\ ~(i > Len(C[q]))
    <3>1. i \in 1 .. Len(C[q])
      BY <1>2, <2>1, <2>4
    <3> QED BY <1>2, <2>4, <3>1
  <2>5. CASE x # p /\ x # q
    BY <1>1, <2>5
  <2> QED BY <2>2, <2>3, <2>4, <2>5
<1>4. ASSUME NEW x \in Spots, NEW y \in Spots, NEW i \in DOMAIN D[x], NEW j \in DOMAIN D[y],
             from(x, i) = from(y, j), at(x, i) = at(y, j)
      PROVE  x = y /\ i = j
  <2>1. i \in 1 .. Len(D[x]) /\ j \in 1 .. Len(D[y]) /\ i \in Nat /\ j \in Nat
    BY <1>9
  <2>2. x = p => i <= Len(b)
    BY <1>1, <2>1
  <2>3. y = p => j <= Len(b)
    BY <1>1, <2>1
  <2>4. x = q /\ i > Len(C[q]) => i - Len(C[q]) <= Len(a)
    BY <1>2, <2>1
  <2>5. y = q /\ j > Len(C[q]) => j - Len(C[q]) <= Len(a)
    BY <1>2, <2>1
  <2> QED BY <1>2, <1>4, <2>1, <2>2, <2>3, <2>4, <2>5
<1>5. OnceIn(D)
  <2> SUFFICES ASSUME NEW x \in Spots, NEW y \in Spots, NEW i \in DOMAIN D[x], NEW j \in DOMAIN D[y],
                      D[x][i] = D[y][j]
               PROVE  x = y /\ i = j
    BY <1>1 DEF OnceIn
  <2>1. from(x, i) \in Spots /\ at(x, i) \in DOMAIN C[from(x, i)]
        /\ C[from(x, i)][at(x, i)] = D[x][i]
    BY <1>3
  <2>2. from(y, j) \in Spots /\ at(y, j) \in DOMAIN C[from(y, j)]
        /\ C[from(y, j)][at(y, j)] = D[y][j]
    BY <1>3
  <2> HIDE DEF from, at
  <2>3. from(x, i) = from(y, j) /\ at(x, i) = at(y, j)
    BY <1>1, <2>1, <2>2 DEF OnceIn
  <2> QED BY <1>4, <2>3
<1>6. ASSUME NEW e \in HeldIn(D) PROVE e \in HeldIn(C)
  <2>1. PICK x \in Spots : \E i \in DOMAIN D[x] : e = D[x][i]
    BY <1>1, <1>6 DEF HeldIn, ToSet
  <2>2. PICK i \in DOMAIN D[x] : e = D[x][i]
    BY <2>1
  <2>3. from(x, i) \in Spots /\ at(x, i) \in DOMAIN C[from(x, i)]
        /\ C[from(x, i)][at(x, i)] = e
    BY <1>3, <2>2
  <2> HIDE DEF from, at
  <2> QED BY <2>3 DEF HeldIn, ToSet
<1>7. ASSUME NEW e \in HeldIn(C) PROVE e \in HeldIn(D)
  <2>1. PICK x \in Spots : \E i \in DOMAIN C[x] : e = C[x][i]
    BY <1>7 DEF HeldIn, ToSet
  <2>2. PICK i \in DOMAIN C[x] : e = C[x][i]
    BY <2>1
  <2>3. i \in 1 .. Len(C[x])
    BY <1>2
  <2>4. \E y \in Spots : \E j \in DOMAIN D[y] : D[y][j] = e
    <3>1. CASE x = p /\ i <= Len(a)
      <4>1. i \in 1 .. Len(a) /\ Len(C[q]) + i \in 1 .. Len(D[q])
        BY <1>2, <2>3, <3>1
      <4>2. D[q][Len(C[q]) + i] = e
        BY <1>2, <2>2, <3>1, <4>1
      <4> QED BY <1>2, <4>1, <4>2
    <3>2. CASE x = p /\ ~(i <= Len(a))
      <4> DEFINE k == i - Len(a)
      <4>1. k \in 1 .. Len(b) /\ Len(a) + k = i
        BY <1>2, <2>3, <3>2
      <4>2. D[p][k] = e /\ k \in DOMAIN D[p]
        BY <1>1, <1>2, <2>2, <3>2, <4>1
      <4> QED BY <4>2
    <3>3. CASE x = q
      <4>1. i \in 1 .. Len(D[q]) /\ D[q][i] = e
        BY <1>2, <2>2, <2>3, <3>3
      <4> QED BY <1>2, <4>1
    <3>4. CASE x # p /\ x # q
      BY <1>1, <2>2, <3>4
    <3> QED BY <3>1, <3>2, <3>3, <3>4
  <2> QED BY <1>1, <2>4 DEF HeldIn, ToSet
<1> QED BY <1>1, <1>5, <1>6, <1>7

\* The front of a place is gone.
Dropped(C, D, p, a, b) ==
  /\ C \in [Spots -> Seq(PduEntries)] /\ p \in Spots /\ a \in Seq(PduEntries) /\ b \in Seq(PduEntries)
  /\ C[p] = a \o b /\ D = [C EXCEPT ![p] = b]

\* Dropping entries leaves the others where they were, each once.
LEMMA LossKeepsOnce ==
  ASSUME NEW C, NEW D, NEW p, NEW a, NEW b, Dropped(C, D, p, a, b), OnceIn(C)
  PROVE  OnceIn(D) /\ HeldIn(D) = HeldIn(C) \ ToSet(a) /\ ToSet(a) \subseteq HeldIn(C)
<1>0. /\ C \in [Spots -> Seq(PduEntries)] /\ p \in Spots /\ a \in Seq(PduEntries) /\ b \in Seq(PduEntries)
      /\ C[p] = a \o b
  BY DEF Dropped
<1>1. /\ D \in [Spots -> Seq(PduEntries)] /\ D[p] = b /\ \A x \in Spots : x # p => D[x] = C[x]
      /\ DOMAIN D = Spots /\ DOMAIN C = Spots
  BY DEF Dropped
<1> USE <1>0
<1>2. /\ Len(a) \in Nat /\ Len(b) \in Nat /\ Len(C[p]) = Len(a) + Len(b)
      /\ \A i \in 1 .. Len(a) : C[p][i] = a[i]
      /\ \A i \in 1 .. Len(b) : C[p][Len(a) + i] = b[i]
      /\ \A x \in Spots : /\ DOMAIN C[x] = 1 .. Len(C[x]) /\ DOMAIN D[x] = 1 .. Len(D[x])
                      /\ Len(C[x]) \in Nat /\ Len(D[x]) \in Nat
      /\ DOMAIN a = 1 .. Len(a)
  BY <1>1, ConcatProperties
<1> DEFINE at(x, i) == IF x = p THEN Len(a) + i ELSE i
<1>3. ASSUME NEW x \in Spots, NEW i \in DOMAIN D[x]
      PROVE  at(x, i) \in DOMAIN C[x] /\ C[x][at(x, i)] = D[x][i] /\ i \in Nat
             /\ (x = p => at(x, i) > Len(a))
  <2>1. i \in 1 .. Len(D[x])
    BY <1>2
  <2>2. CASE x = p
    <3>1. i \in 1 .. Len(b) /\ Len(a) + i \in 1 .. Len(C[p]) /\ Len(a) + i > Len(a)
      BY <1>1, <1>2, <2>1, <2>2
    <3> QED BY <1>1, <1>2, <2>2, <3>1
  <2>3. CASE x # p
    BY <1>1, <2>1, <2>3
  <2> QED BY <2>2, <2>3
<1>4. OnceIn(D)
  <2> SUFFICES ASSUME NEW x \in Spots, NEW y \in Spots, NEW i \in DOMAIN D[x], NEW j \in DOMAIN D[y],
                      D[x][i] = D[y][j]
               PROVE  x = y /\ i = j
    BY <1>1 DEF OnceIn
  <2>1. at(x, i) \in DOMAIN C[x] /\ C[x][at(x, i)] = D[x][i] /\ i \in Nat
    BY <1>3
  <2>2. at(y, j) \in DOMAIN C[y] /\ C[y][at(y, j)] = D[y][j] /\ j \in Nat
    BY <1>3
  <2>3. x = y /\ at(x, i) = at(y, j)
    <3> HIDE DEF at
    <3> QED BY <2>1, <2>2 DEF OnceIn
  <2> QED BY <1>2, <2>1, <2>2, <2>3
<1>5. ASSUME NEW e \in ToSet(a)
      PROVE  \E i \in DOMAIN C[p] : i <= Len(a) /\ C[p][i] = e
  <2>1. PICK i \in 1 .. Len(a) : a[i] = e
    BY <1>2, <1>5 DEF ToSet
  <2>2. i \in 1 .. Len(C[p])
    BY <1>2
  <2>3. i \in DOMAIN C[p] /\ i <= Len(a) /\ C[p][i] = e
    BY <1>2, <2>1, <2>2
  <2> QED BY <2>3
<1>6. ASSUME NEW e \in HeldIn(D) PROVE e \in HeldIn(C) /\ e \notin ToSet(a)
  <2>1. PICK x \in Spots : \E i \in DOMAIN D[x] : e = D[x][i]
    BY <1>1, <1>6 DEF HeldIn, ToSet
  <2>2. PICK i \in DOMAIN D[x] : e = D[x][i]
    BY <2>1
  <2>3. at(x, i) \in DOMAIN C[x] /\ C[x][at(x, i)] = e /\ (x = p => at(x, i) > Len(a))
    BY <1>3, <2>2
  <2> HIDE DEF at
  <2>4. e \in HeldIn(C)
    BY <2>3 DEF HeldIn, ToSet
  <2>5. ASSUME e \in ToSet(a) PROVE FALSE
    <3>1. PICK k \in DOMAIN C[p] : k <= Len(a) /\ C[p][k] = e
      BY <1>5, <2>5
    <3>2. x = p /\ at(x, i) = k
      BY <2>3, <3>1 DEF OnceIn
    <3>3. k \in Nat
      BY <1>2, <3>1
    <3> QED BY <1>2, <2>3, <3>1, <3>2, <3>3
  <2> QED BY <2>4, <2>5
<1>7. ASSUME NEW e \in HeldIn(C), e \notin ToSet(a) PROVE e \in HeldIn(D)
  <2>1. PICK x \in Spots : \E i \in DOMAIN C[x] : e = C[x][i]
    BY <1>7 DEF HeldIn, ToSet
  <2>2. PICK i \in DOMAIN C[x] : e = C[x][i]
    BY <2>1
  <2>3. i \in 1 .. Len(C[x])
    BY <1>2
  <2>4. \E j \in DOMAIN D[x] : D[x][j] = e
    <3>1. CASE x = p
      <4>1. ~(i <= Len(a))
        <5> SUFFICES ASSUME i <= Len(a) PROVE FALSE
          OBVIOUS
        <5>1. i \in 1 .. Len(a) /\ a[i] = e
          BY <1>2, <2>2, <2>3, <3>1
        <5> QED BY <1>2, <1>7, <5>1 DEF ToSet
      <4> DEFINE k == i - Len(a)
      <4>2. k \in 1 .. Len(b) /\ Len(a) + k = i
        BY <1>2, <2>3, <3>1, <4>1
      <4>3. D[p][k] = e /\ k \in DOMAIN D[p]
        BY <1>1, <1>2, <2>2, <3>1, <4>2
      <4> QED BY <3>1, <4>3
    <3>2. CASE x # p
      BY <1>1, <2>2, <3>2
    <3> QED BY <3>1, <3>2
  <2> QED BY <1>1, <2>4 DEF HeldIn, ToSet
<1>8. ToSet(a) \subseteq HeldIn(C)
  <2> SUFFICES ASSUME NEW e \in ToSet(a) PROVE e \in HeldIn(C)
    OBVIOUS
  <2>1. PICK i \in DOMAIN C[p] : C[p][i] = e
    BY <1>5
  <2> QED BY <2>1 DEF HeldIn, ToSet
<1> QED BY <1>1, <1>4, <1>6, <1>7, <1>8

\* An entry nobody holds is added.
Added(C, D, p, e) ==
  /\ C \in [Spots -> Seq(PduEntries)] /\ p \in Spots /\ e \in PduEntries /\ e \notin HeldIn(C)
  /\ D = [C EXCEPT ![p] = Append(C[p], e)]

\* An entry that was nowhere is in one place once it is added.
LEMMA NewKeepsOnce ==
  ASSUME NEW C, NEW D, NEW p, NEW e, Added(C, D, p, e), OnceIn(C)
  PROVE  OnceIn(D) /\ HeldIn(D) = HeldIn(C) \union {e}
<1>0. C \in [Spots -> Seq(PduEntries)] /\ p \in Spots /\ e \in PduEntries /\ e \notin HeldIn(C)
  BY DEF Added
<1>1. /\ D \in [Spots -> Seq(PduEntries)] /\ D[p] = Append(C[p], e)
      /\ \A x \in Spots : x # p => D[x] = C[x]
  <2>1. Append(C[p], e) \in Seq(PduEntries)
    BY <1>0, AppendProperties
  <2> QED BY <1>0, <2>1 DEF Added
<1> USE <1>0
<1>2. /\ \A x \in Spots : /\ DOMAIN C[x] = 1 .. Len(C[x]) /\ DOMAIN D[x] = 1 .. Len(D[x])
                      /\ Len(C[x]) \in Nat /\ Len(D[x]) \in Nat
      /\ Len(D[p]) = Len(C[p]) + 1 /\ D[p][Len(C[p]) + 1] = e
      /\ \A i \in 1 .. Len(C[p]) : D[p][i] = C[p][i]
  BY <1>1, AppendProperties
<1>3. ASSUME NEW x \in Spots, NEW i \in DOMAIN D[x]
      PROVE  \/ i \in DOMAIN C[x] /\ C[x][i] = D[x][i] /\ C[x][i] # e
             \/ x = p /\ i = Len(C[p]) + 1 /\ D[x][i] = e
  <2>1. i \in 1 .. Len(D[x])
    BY <1>2
  <2>2. ASSUME i \in DOMAIN C[x], C[x][i] = D[x][i] PROVE C[x][i] # e
    BY <2>2 DEF HeldIn, ToSet
  <2>3. CASE x = p
    <3>1. i \in 1 .. Len(C[p]) \/ i = Len(C[p]) + 1
      BY <1>2, <2>1, <2>3
    <3> QED BY <1>2, <2>2, <2>3, <3>1
  <2>4. CASE x # p
    BY <1>1, <2>2, <2>4
  <2> QED BY <2>3, <2>4
<1>4. OnceIn(D)
  <2> SUFFICES ASSUME NEW x \in Spots, NEW y \in Spots, NEW i \in DOMAIN D[x], NEW j \in DOMAIN D[y],
                      D[x][i] = D[y][j]
               PROVE  x = y /\ i = j
    BY <1>1 DEF OnceIn
  <2>1. \/ i \in DOMAIN C[x] /\ C[x][i] = D[x][i] /\ C[x][i] # e
        \/ x = p /\ i = Len(C[p]) + 1 /\ D[x][i] = e
    BY <1>3
  <2>2. \/ j \in DOMAIN C[y] /\ C[y][j] = D[y][j] /\ C[y][j] # e
        \/ y = p /\ j = Len(C[p]) + 1 /\ D[y][j] = e
    BY <1>3
  <2> QED BY <2>1, <2>2 DEF OnceIn
<1>5. ASSUME NEW f \in HeldIn(D) PROVE f \in HeldIn(C) \union {e}
  <2>1. PICK x \in Spots : \E i \in DOMAIN D[x] : f = D[x][i]
    BY <1>1, <1>5 DEF HeldIn, ToSet
  <2> QED BY <1>3, <2>1 DEF HeldIn, ToSet
<1>6. e \in HeldIn(D)
  <2>1. Len(C[p]) + 1 \in DOMAIN D[p]
    BY <1>2
  <2> QED BY <1>1, <1>2, <2>1 DEF HeldIn, ToSet
<1>7. ASSUME NEW f \in HeldIn(C) PROVE f \in HeldIn(D)
  <2>1. PICK x \in Spots : \E i \in DOMAIN C[x] : f = C[x][i]
    BY <1>7 DEF HeldIn, ToSet
  <2>2. PICK i \in DOMAIN C[x] : f = C[x][i]
    BY <2>1
  <2>3. i \in DOMAIN D[x] /\ D[x][i] = f
    <3>1. i \in 1 .. Len(C[x]) /\ DOMAIN D[x] = 1 .. Len(D[x]) /\ Len(C[x]) \in Nat
      BY <1>2, <2>2
    <3> HIDE <1>0
    <3>2. CASE x = p
      BY <1>2, <2>2, <3>1, <3>2
    <3>3. CASE x # p
      BY <1>1, <2>2, <3>1, <3>3
    <3> QED BY <3>2, <3>3
  <2> QED BY <1>1, <2>3 DEF HeldIn, ToSet
<1> QED BY <1>1, <1>4, <1>5, <1>6, <1>7

-----------------------------------------------------------------------------
(* Where the entries are.                                                   *)

Hands   == [step : {"idle", "push", "write", "flush", "answer"}, entries : Seq(PduEntries)]
LogScreens  == [tab : Tabs, filtered : BOOLEAN, rows : [Tabs -> Seq(Nat \ {0})], cursor : Nat,
                exhausted : BOOLEAN]
LogRequests == [tab : Tabs, filtered : BOOLEAN, from : Nat, append : BOOLEAN]
Courses     == {"opening", "through", "crossed"}
LogsType ==
  /\ seen \in [Binds -> Nat] /\ unrecorded \in [Binds -> SUBSET Nat]
  /\ inbox \in [Binds -> Seq(PduEntries)] /\ pending \in Seq(PduEntries) /\ stored \in Seq(PduEntries)
  /\ task \in [Binds \union Callers -> Hands]
  /\ messages \in Seq(BOOLEAN)
  /\ screen \in LogScreens /\ fetch \in LogRequests /\ course \in Courses

\* A task that has nothing to push or to write holds nothing.
HandsAreEmpty ==
  \A t \in Binds \union Callers : task[t].step \notin {"push", "write"} => task[t].entries = <<>>

\* What is held was seen.
HeldWasSeen == \A e \in HeldIn(Contents) : e.number <= seen[e.bind]

Spread(inb, hands, buffer, tab) ==
  [place \in Spots |->
     CASE place[1] = "queue"  -> inb[place[2]]
       [] place[1] = "task"   -> hands[place[2]].entries
       [] place[1] = "buffer" -> buffer
       [] place[1] = "table"  -> tab]

QueuePlace(b) == <<"queue", b>>
HandsPlace(t) == <<"task", t>>
BufferPlace   == <<"buffer", 0>>
TablePlace    == <<"table", 0>>

\* C holds what the queues, the hands, the buffer and the table do.
Holds(C, inb, hands, buffer, tab) ==
  /\ C \in [Spots -> Seq(PduEntries)]
  /\ \A b \in Binds : QueuePlace(b) \in Spots /\ C[QueuePlace(b)] = inb[b]
  /\ \A t \in Binds \union Callers : HandsPlace(t) \in Spots /\ C[HandsPlace(t)] = hands[t].entries
  /\ BufferPlace \in Spots /\ C[BufferPlace] = buffer
  /\ TablePlace \in Spots /\ C[TablePlace] = tab
  /\ \A x \in Spots : \/ \E b \in Binds : x = QueuePlace(b)
                      \/ \E t \in Binds \union Callers : x = HandsPlace(t)
                      \/ x = BufferPlace \/ x = TablePlace

\* The four kinds of place, each with its own entries, make up the contents.
LEMMA SpreadHolds ==
  ASSUME NEW inb \in [Binds -> Seq(PduEntries)], NEW hands \in [Binds \union Callers -> Hands],
         NEW buffer \in Seq(PduEntries), NEW tab \in Seq(PduEntries)
  PROVE  Holds(Spread(inb, hands, buffer, tab), inb, hands, buffer, tab)
<1> USE DEF QueuePlace, HandsPlace, BufferPlace, TablePlace
<1>1. \A x \in Spots : \/ \E b \in Binds : x = QueuePlace(b)
                       \/ \E t \in Binds \union Callers : x = HandsPlace(t)
                       \/ x = BufferPlace \/ x = TablePlace
  BY DEF Spots
<1>2. /\ \A b \in Binds : QueuePlace(b) \in Spots
      /\ \A t \in Binds \union Callers : HandsPlace(t) \in Spots
      /\ BufferPlace \in Spots /\ TablePlace \in Spots
  BY DEF Spots
<1> DEFINE at(place) == CASE place[1] = "queue"  -> inb[place[2]]
                          [] place[1] = "task"   -> hands[place[2]].entries
                          [] place[1] = "buffer" -> buffer
                          [] place[1] = "table"  -> tab
           C == Spread(inb, hands, buffer, tab)
<1>3. C = [place \in Spots |-> at(place)]
  BY DEF Spread
<1> HIDE DEF C
<1>4. \A b \in Binds : C[QueuePlace(b)] = inb[b]
  BY <1>2, <1>3
<1>5. \A t \in Binds \union Callers : C[HandsPlace(t)] = hands[t].entries
  BY <1>2, <1>3
<1>6. C[BufferPlace] = buffer /\ C[TablePlace] = tab
  BY <1>2, <1>3
<1>7. DOMAIN C = Spots /\ C = [x \in Spots |-> C[x]]
  <2> HIDE DEF at
  <2> QED BY <1>3
<1>8. ASSUME NEW x \in Spots PROVE C[x] \in Seq(PduEntries)
  <2>1. \A t \in Binds \union Callers : hands[t].entries \in Seq(PduEntries)
    BY DEF Hands
  <2> QED BY <1>1, <1>4, <1>5, <1>6, <2>1, ZenonT(40)
<1> QED BY <1>1, <1>2, <1>4, <1>5, <1>6, <1>7, <1>8 DEF C, Holds

\* The same, of the places as they are, and as they are after a step.
LEMMA ContentsHold == ASSUME LogsType PROVE Holds(Contents, inbox, task, pending, stored)
<1>1. Contents = Spread(inbox, task, pending, stored)
  BY DEF Contents, Spread, Spots
<1>2. /\ inbox \in [Binds -> Seq(PduEntries)] /\ pending \in Seq(PduEntries) /\ stored \in Seq(PduEntries)
      /\ task \in [Binds \union Callers -> Hands]
  BY DEF LogsType
<1> QED BY <1>1, <1>2, SpreadHolds

\* The same in the state a step leads to.
LEMMA ContentsWillHold ==
  ASSUME LogsType' PROVE Holds(Contents', inbox', task', pending', stored')
<1>1. Contents' = Spread(inbox', task', pending', stored')
  BY DEF Contents, Spread, Spots
<1>2. /\ inbox' \in [Binds -> Seq(PduEntries)] /\ pending' \in Seq(PduEntries)
      /\ stored' \in Seq(PduEntries) /\ task' \in [Binds \union Callers -> Hands]
  BY DEF LogsType
<1> QED BY <1>1, <1>2, SpreadHolds

\* No two places of the log are the same one.
LEMMA PlacesDiffer ==
  /\ \A b, c : QueuePlace(b) = QueuePlace(c) => b = c
  /\ \A b, c : HandsPlace(b) = HandsPlace(c) => b = c
  /\ \A b, t : QueuePlace(b) # HandsPlace(t)
  /\ \A b : QueuePlace(b) # BufferPlace /\ QueuePlace(b) # TablePlace
  /\ \A t : HandsPlace(t) # BufferPlace /\ HandsPlace(t) # TablePlace
  /\ BufferPlace # TablePlace
BY DEF QueuePlace, HandsPlace, BufferPlace, TablePlace

\* What a failed write adds to the losses of each bind.
LEMMA LostIs ==
  ASSUME LogsType, NEW s \in Seq(PduEntries)
  PROVE  /\ Lost(s) \in [Binds -> SUBSET Nat]
         /\ \A b \in Binds : \A n :
              n \in Lost(s)[b] <=> n \in unrecorded[b] \/ [bind |-> b, number |-> n] \in ToSet(s)
<1>1. ToSet(s) \in SUBSET PduEntries
  BY DEF ToSet
<1>2. ASSUME NEW b \in Binds, NEW n
      PROVE  n \in Lost(s)[b] <=> n \in unrecorded[b] \/ [bind |-> b, number |-> n] \in ToSet(s)
  <2>1. Lost(s)[b] = unrecorded[b] \union {e.number : e \in {x \in ToSet(s) : x.bind = b}}
    BY DEF Lost
  <2>2. ASSUME NEW e \in ToSet(s), e.bind = b, e.number = n
        PROVE  [bind |-> b, number |-> n] \in ToSet(s)
    <3>1. e = [bind |-> b, number |-> n]
      BY <1>1, <2>2 DEF PduEntries
    <3> QED BY <2>2, <3>1
  <2> QED BY <2>1, <2>2
<1>3. Lost(s) \in [Binds -> SUBSET Nat]
  BY <1>1 DEF Lost, LogsType, PduEntries
<1> QED BY <1>2, <1>3

\* What the operator changes on the screen reloads it.
LEMMA OperateReloads ==
  ASSUME LogsType, Operate PROVE \E s \in LogScreens : ReloadLog(s, task)
<1> USE DEF LogsType
<1>1. ASSUME NEW tab \in Tabs PROVE [screen EXCEPT !.tab = tab] \in LogScreens
  BY DEF LogScreens
<1>2. ASSUME NEW f \in BOOLEAN
      PROVE  [screen EXCEPT !.filtered = f, !.rows = NoRows] \in LogScreens
  <2>1. NoRows \in [Tabs -> Seq(Nat \ {0})]
    BY DEF NoRows
  <2> QED BY <2>1 DEF LogScreens
<1> QED BY <1>1, <1>2 DEF Operate

OnceInv == LogsType /\ HandsAreEmpty /\ RecordedOnce /\ HeldWasSeen

\* The rows that the page on its way may hold.
Ahead == {i \in Selected(fetch.tab, fetch.filtered) : i > fetch.from}

\* That page holds the first of them, as pages do.
LEMMA LogPage ==
  ASSUME LogsType
  PROVE  /\ Ahead \subseteq Nat \ {0}
         /\ Page(fetch).rows \in Seq(Ahead) /\ Page(fetch).next \in Nat
         /\ \A k, m \in DOMAIN Page(fetch).rows : k < m => Page(fetch).rows[k] < Page(fetch).rows[m]
         /\ Page(fetch).next = 0 => ToSet(Page(fetch).rows) = Ahead
         /\ Page(fetch).next # 0 =>
              /\ ToSet(Page(fetch).rows) = {i \in Ahead : i <= Page(fetch).next}
              /\ Page(fetch).next \in ToSet(Page(fetch).rows)
<1> DEFINE page == Page(fetch)
<1>1. /\ DOMAIN stored = 1 .. Len(stored) /\ DOMAIN messages = 1 .. Len(messages)
      /\ Len(stored) \in Nat /\ Len(messages) \in Nat
  BY DEF LogsType
<1>2. Ahead \in SUBSET (Nat \ {0}) /\ IsFiniteSet(Ahead)
  <2>1. Ahead \subseteq DOMAIN stored \/ Ahead \subseteq DOMAIN messages
    BY DEF Selected, Ahead
  <2>2. IsFiniteSet(DOMAIN stored) /\ IsFiniteSet(DOMAIN messages)
    BY <1>1, FS_Interval
  <2> QED BY <1>1, <2>1, <2>2, FS_Subset
<1>3. page = IntoPage(Ahead, Limit)
  BY DEF Page, Ahead
<1> HIDE DEF page
<1>4. /\ page.rows \in Seq(Ahead) /\ page.next \in Nat
      /\ \A k, m \in DOMAIN page.rows : k < m => page.rows[k] < page.rows[m]
      /\ page.next = 0 => ToSet(page.rows) = Ahead
      /\ page.next # 0 => ToSet(page.rows) = {i \in Ahead : i <= page.next}
      /\ page.next # 0 => page.next \in ToSet(page.rows)
  BY <1>2, <1>3, PageIsTheFirstRows, LogsAssumption
<1> QED BY <1>2, <1>4 DEF page

\* A reload asks for the first page of the tab, or leaves the page on its way.
LEMMA ReloadTypes ==
  ASSUME LogsType, NEW s \in LogScreens, NEW tasks \in [Binds \union Callers -> Hands],
         tasks["screen"] = task["screen"], ReloadLog(s, tasks)
  PROVE  /\ screen' \in LogScreens /\ fetch' \in LogRequests /\ course' \in Courses
         /\ task' \in [Binds \union Callers -> Hands]
         /\ \A t \in Binds \union Callers :
              task'[t] = tasks[t] \/ (task'[t].entries = <<>> /\ tasks[t].entries = <<>>)
<1>1. screen' \in LogScreens
  BY DEF ReloadLog, LogScreens
<1>2. LogRequest(screen', FALSE) \in LogRequests
  BY <1>1 DEF LogRequest, LogRequests, LogScreens
<1>3. CASE Loading
  BY <1>1, <1>3 DEF ReloadLog, LogsType, Courses
<1>4. CASE ~Loading
  <2>1. PICK step \in {"flush", "answer"} :
          /\ fetch' = LogRequest(screen', FALSE) /\ course' = "opening"
          /\ task' = [tasks EXCEPT !["screen"] = At(step, <<>>)]
    BY <1>4 DEF ReloadLog, Ask
  <2>2. tasks["screen"].entries = <<>> /\ "screen" \in Binds \union Callers
    BY <1>4 DEF Loading, Idle, At, Callers
  <2>3. At(step, <<>>) \in Hands /\ At(step, <<>>).entries = <<>>
    BY DEF At, Hands
  <2> QED BY <1>1, <1>2, <2>1, <2>2, <2>3 DEF Courses
<1> QED BY <1>3, <1>4

\* A step of the log keeps its types, and entries only in busy hands.
LEMMA LogsTypeStep == ASSUME OnceInv, [LogsNext]_vars PROVE LogsType' /\ HandsAreEmpty'
<1> USE DEF OnceInv, LogsType, HandsAreEmpty, Hands, recorder, reading, Idle, At
<1>0. \A t \in Binds \union Callers : task[t] = [step |-> task[t].step, entries |-> task[t].entries]
  OBVIOUS
<1>1. ASSUME NEW b \in Binds, Saw(b) PROVE LogsType' /\ HandsAreEmpty'
  <2> DEFINE e == [bind |-> b, number |-> seen[b] + 1]
  <2>1. e \in PduEntries /\ <<e>> \in Seq(PduEntries)
    BY DEF PduEntries
  <2>2. Lost(<<e>>) \in [Binds -> SUBSET Nat]
    BY <2>1, LostIs
  <2>3. Append(inbox[b], e) \in Seq(PduEntries)
    BY <2>1, AppendProperties
  <2>4. inbox' \in [Binds -> Seq(PduEntries)] /\ unrecorded' \in [Binds -> SUBSET Nat]
    <3> HIDE DEF e
    <3> QED BY <1>1, <2>2, <2>3 DEF Saw, e
  <2>5. seen' \in [Binds -> Nat]
    BY <1>1 DEF Saw
  <2>6. UNCHANGED <<pending, task, stored, messages, reading>>
    BY <1>1 DEF Saw
  <2> QED BY <2>4, <2>5, <2>6
<1>2. ASSUME NEW b \in Binds, Drain(b) PROVE LogsType' /\ HandsAreEmpty'
  <2>1. Head(inbox[b]) \in PduEntries /\ Tail(inbox[b]) \in Seq(PduEntries)
        /\ <<Head(inbox[b])>> \in Seq(PduEntries)
    BY <1>2, HeadTailProperties DEF Drain
  <2>2. Lost(<<Head(inbox[b])>>) \in [Binds -> SUBSET Nat]
    BY <2>1, LostIs
  <2>3. inbox' \in [Binds -> Seq(PduEntries)] /\ unrecorded' \in [Binds -> SUBSET Nat]
    BY <1>2, <2>1, <2>2 DEF Drain
  <2>4. /\ task' \in [Binds \union Callers -> Hands]
        /\ \A t \in Binds \union Callers :
             task'[t] = task[t] \/ task'[t].step = "push"
    <3> DEFINE pushed == At("push", <<Head(inbox[b])>>)
    <3>1. pushed \in Hands /\ pushed.step = "push"
      BY <2>1
    <3>2. task' = task \/ task' = [task EXCEPT ![b] = pushed]
      BY <1>2 DEF Drain
    <3>3. task \in [Binds \union Callers -> Hands]
      OBVIOUS
    <3> HIDE DEF pushed, Hands
    <3> QED BY <3>1, <3>2, <3>3, ZenonT(40)
  <2>5. UNCHANGED <<seen, pending, stored, messages, reading>>
    BY <1>2 DEF Drain
  <2>6. HandsAreEmpty'
    BY <2>4
  <2> QED BY <2>3, <2>4, <2>5, <2>6
<1>3. ASSUME NEW b \in Binds, Buffer(b) PROVE LogsType' /\ HandsAreEmpty'
  <2>1. pending \o task[b].entries \in Seq(PduEntries)
    BY ConcatProperties
  <2>2. pending' \in Seq(PduEntries)
    <3>1. pending' = pending \o task[b].entries \/ pending' = <<>>
      BY <1>3 DEF Buffer, Kept
    <3>2. <<>> \in Seq(PduEntries)
      OBVIOUS
    <3> QED BY <2>1, <3>1, <3>2
  <2>3. /\ task' \in [Binds \union Callers -> Hands]
        /\ \A t \in Binds \union Callers :
             task'[t] = task[t] \/ task'[t].step = "write" \/ task'[t].entries = <<>>
    <3> DEFINE written == At("write", pending \o task[b].entries)
    <3>1. written \in Hands /\ Idle \in Hands
      BY <2>1
    <3>2. task' = [task EXCEPT ![b] = Idle] \/ task' = [task EXCEPT ![b] = written]
      BY <1>3 DEF Buffer
    <3>3. Idle.entries = <<>> /\ written.step = "write"
      OBVIOUS
    <3>4. task \in [Binds \union Callers -> Hands]
      OBVIOUS
    <3> HIDE DEF written, Idle, Hands
    <3> QED BY <3>1, <3>2, <3>3, <3>4, ZenonT(40)
  <2>4. UNCHANGED <<seen, unrecorded, inbox, stored, messages, reading>>
    BY <1>3 DEF Buffer
  <2>5. HandsAreEmpty'
    BY <2>3
  <2> QED BY <2>2, <2>3, <2>4, <2>5
<1>4. ASSUME NEW t \in Binds \union Callers, Flush(t) PROVE LogsType' /\ HandsAreEmpty'
  BY <1>4 DEF Flush, Kept
<1>5. ASSUME NEW t \in Binds \union Callers, Write(t) PROVE LogsType' /\ HandsAreEmpty'
  <2>1. Lost(task[t].entries) \in [Binds -> SUBSET Nat]
    BY LostIs
  <2>2. stored \o task[t].entries \in Seq(PduEntries)
    BY ConcatProperties
  <2>3. AfterWrite(t) \in Hands /\ AfterWrite(t).entries = <<>>
    BY DEF AfterWrite
  <2> QED BY <1>5, <2>1, <2>2, <2>3 DEF Write
<1>6. ASSUME Switch PROVE LogsType' /\ HandsAreEmpty'
  BY <1>6 DEF Switch, Callers
<1>7. ASSUME Switched PROVE LogsType' /\ HandsAreEmpty'
  <2> DEFINE tasks == [task EXCEPT !["switch"] = Idle]
  <2>1. /\ tasks \in [Binds \union Callers -> Hands] /\ tasks["screen"] = task["screen"]
        /\ \A t \in Binds \union Callers :
             tasks[t].step \notin {"push", "write"} => tasks[t].entries = <<>>
    BY DEF Callers
  <2>2. UNCHANGED <<recorder, messages>>
    BY <1>7 DEF Switched
  <2>3. CASE task' = tasks /\ UNCHANGED <<reading, owed>>
    BY <2>1, <2>2, <2>3
  <2>4. CASE ReloadLog(screen, tasks)
    <3> HIDE DEF tasks
    <3>1. /\ screen' \in LogScreens /\ fetch' \in LogRequests /\ course' \in Courses
          /\ task' \in [Binds \union Callers -> Hands]
          /\ \A t \in Binds \union Callers : task'[t] = tasks[t] \/ task'[t].entries = <<>>
      BY <2>1, <2>4, ReloadTypes
    <3> QED BY <2>1, <2>2, <3>1
  <2> QED BY <1>7, <2>3, <2>4 DEF Switched
<1>8. ASSUME Journalled PROVE LogsType' /\ HandsAreEmpty'
  <2>1. messages' \in Seq(BOOLEAN)
    <3>1. ASSUME NEW x \in BOOLEAN PROVE Append(messages, x) \in Seq(BOOLEAN)
      BY AppendProperties
    <3>2. ASSUME NEW i \in DOMAIN messages
          PROVE  [messages EXCEPT ![i] = ~@] \in Seq(BOOLEAN)
      OBVIOUS
    <3> QED BY <1>8, <3>1, <3>2, ZenonT(40) DEF Journalled
  <2> QED BY <1>8, <2>1 DEF Journalled
<1>9. ASSUME Operate PROVE LogsType' /\ HandsAreEmpty'
  <2>1. PICK s \in LogScreens : ReloadLog(s, task)
    BY <1>9, OperateReloads
  <2>2. UNCHANGED <<recorder, messages>>
    BY <1>9 DEF Operate
  <2>3. task \in [Binds \union Callers -> Hands]
    OBVIOUS
  <2>4. /\ screen' \in LogScreens /\ fetch' \in LogRequests /\ course' \in Courses
        /\ task' \in [Binds \union Callers -> Hands]
        /\ \A t \in Binds \union Callers : task'[t] = task[t] \/ task'[t].entries = <<>>
    BY <2>1, <2>3, ReloadTypes
  <2> QED BY <2>2, <2>4
<1>10. ASSUME More PROVE LogsType' /\ HandsAreEmpty'
  <2>1. LogRequest(screen, TRUE) \in LogRequests
    BY DEF LogRequest, LogRequests, LogScreens
  <2>2. PICK step \in {"flush", "answer"} : task' = [task EXCEPT !["screen"] = At(step, <<>>)]
    BY <1>10 DEF More, Ask
  <2>3. fetch' = LogRequest(screen, TRUE)
        /\ UNCHANGED <<seen, unrecorded, inbox, pending, stored, messages, screen, course>>
    BY <1>10 DEF More, Ask
  <2>4. /\ task' \in [Binds \union Callers -> Hands]
        /\ \A t \in Binds \union Callers : task'[t] = task[t] \/ task'[t].entries = <<>>
    <3>1. task \in [Binds \union Callers -> Hands] /\ At(step, <<>>) \in Hands
          /\ At(step, <<>>).entries = <<>> /\ task' = [task EXCEPT !["screen"] = At(step, <<>>)]
      BY <2>2
    <3> HIDE DEF Hands, At
    <3> QED BY <3>1, ZenonT(40)
  <2> QED BY <2>1, <2>3, <2>4
<1>11. ASSUME Answered PROVE LogsType' /\ HandsAreEmpty'
  <2> DEFINE page  == Page(fetch)
             held  == IF fetch.append THEN screen.rows[fetch.tab] \o page.rows ELSE page.rows
             shown == [screen.rows EXCEPT ![fetch.tab] = held]
  <2>1. fetch.tab \in Tabs /\ screen.rows \in [Tabs -> Seq(Nat \ {0})]
    BY DEF LogRequests, LogScreens
  <2>2. page.rows \in Seq(Nat \ {0}) /\ page.next \in Nat
    <3>1. page.rows \in Seq(Ahead) /\ page.next \in Nat /\ Ahead \subseteq Nat \ {0}
      BY LogPage
    <3> QED BY <3>1, SeqWidens
  <2>3. held \in Seq(Nat \ {0})
    BY <2>1, <2>2, ConcatProperties
  <2>4. shown \in [Tabs -> Seq(Nat \ {0})]
    BY <2>1, <2>3
  <2>5. screen' = [screen EXCEPT !.rows = shown, !.cursor = page.next, !.exhausted = page.next = 0]
    BY <1>11 DEF Answered, LogScreens
  <2>6. screen' \in LogScreens
    <3> HIDE DEF shown, page
    <3> QED BY <2>2, <2>4, <2>5 DEF LogScreens
  <2>7. course' \in Courses /\ UNCHANGED <<recorder, messages, fetch>>
        /\ task' = [task EXCEPT !["screen"] = Idle]
    BY <1>11 DEF Answered, Courses
  <2> HIDE DEF shown, held, page
  <2> QED BY <2>6, <2>7 DEF Callers
<1>13. ASSUME Unanswered PROVE LogsType' /\ HandsAreEmpty'
  BY <1>13 DEF Unanswered, Callers
<1>12. ASSUME UNCHANGED vars PROVE LogsType' /\ HandsAreEmpty'
  BY <1>12 DEF vars
<1> QED
  BY <1>1, <1>2, <1>3, <1>4, <1>5, <1>6, <1>7, <1>8, <1>9, <1>10, <1>11, <1>12,
     <1>13 DEF LogsNext

\* PduEntries stay accounted for when none is lost and none comes,
LEMMA AccountedWhenKept ==
  ASSUME OnceInv, LogsType', OnceIn(Contents'), HeldIn(Contents') = HeldIn(Contents),
         seen' = seen, unrecorded' = unrecorded
  PROVE  RecordedOnce' /\ HeldWasSeen'
BY DEF OnceInv, RecordedOnce, HeldWasSeen

\* when some are lost,
LEMMA AccountedWhenLost ==
  ASSUME OnceInv, LogsType', NEW s \in Seq(PduEntries), OnceIn(Contents'),
         HeldIn(Contents') = HeldIn(Contents) \ ToSet(s), ToSet(s) \subseteq HeldIn(Contents),
         seen' = seen, unrecorded' = Lost(s)
  PROVE  RecordedOnce' /\ HeldWasSeen'
<1> USE DEF OnceInv
<1>1. ASSUME NEW b \in Binds, NEW n
      PROVE  n \in unrecorded'[b] <=>
               n \in 1 .. seen[b] /\ [bind |-> b, number |-> n] \notin HeldIn(Contents')
  <2>1. n \in unrecorded[b] <=>
          n \in 1 .. seen[b] /\ [bind |-> b, number |-> n] \notin HeldIn(Contents)
    BY DEF RecordedOnce
  <2>2. n \in unrecorded'[b] <=>
          n \in unrecorded[b] \/ [bind |-> b, number |-> n] \in ToSet(s)
    BY LostIs
  <2>3. [bind |-> b, number |-> n] \in ToSet(s) => n \in 1 .. seen[b]
    <3> SUFFICES ASSUME [bind |-> b, number |-> n] \in ToSet(s) PROVE n \in 1 .. seen[b]
      OBVIOUS
    <3>1. ToSet(s) \subseteq PduEntries
      BY DEF ToSet
    <3>2. [bind |-> b, number |-> n] \in PduEntries
      BY <3>1
    <3>3. [bind |-> b, number |-> n].number = n /\ [bind |-> b, number |-> n].bind = b
      OBVIOUS
    <3>4. n \in Nat \ {0} /\ n <= seen[b] /\ seen[b] \in Nat
      BY <3>2, <3>3 DEF PduEntries, HeldWasSeen, LogsType
    <3> QED BY <3>4
  <2> QED BY <2>1, <2>2, <2>3
<1>2. ASSUME NEW b \in Binds
      PROVE  {n \in 1 .. seen'[b] : [bind |-> b, number |-> n] \notin HeldIn(Contents')}
               = unrecorded'[b]
  BY <1>1
<1> QED BY <1>2 DEF RecordedOnce, HeldWasSeen

\* and when one comes, to be held or to be lost.
LEMMA AccountedWhenSeen ==
  ASSUME OnceInv, LogsType', NEW b \in Binds, OnceIn(Contents'),
         seen' = [seen EXCEPT ![b] = @ + 1],
         \/ /\ HeldIn(Contents') = HeldIn(Contents) \union {[bind |-> b, number |-> seen[b] + 1]}
            /\ unrecorded' = unrecorded
         \/ /\ HeldIn(Contents') = HeldIn(Contents)
            /\ unrecorded' = Lost(<<[bind |-> b, number |-> seen[b] + 1]>>)
  PROVE  RecordedOnce' /\ HeldWasSeen'
<1> USE DEF OnceInv
<1> DEFINE fresh == [bind |-> b, number |-> seen[b] + 1]
<1>0. seen[b] \in Nat /\ fresh \in PduEntries /\ <<fresh>> \in Seq(PduEntries)
      /\ ToSet(<<fresh>>) = {fresh} /\ fresh.bind = b /\ fresh.number = seen[b] + 1
  BY SMTT(30) DEF LogsType, PduEntries, ToSet
<1>1. fresh \notin HeldIn(Contents)
  BY <1>0 DEF HeldWasSeen
<1>2. /\ \A c \in Binds : seen'[c] = IF c = b THEN seen[b] + 1 ELSE seen[c]
      /\ \A c \in Binds : seen[c] \in Nat
  BY DEF LogsType
<1>3. ASSUME NEW c \in Binds, NEW n
      PROVE  n \in unrecorded'[c] <=>
               n \in 1 .. seen'[c] /\ [bind |-> c, number |-> n] \notin HeldIn(Contents')
  <2>1. n \in unrecorded[c] <=>
          n \in 1 .. seen[c] /\ [bind |-> c, number |-> n] \notin HeldIn(Contents)
    BY DEF RecordedOnce
  <2>2. n \in Lost(<<fresh>>)[c] <=> n \in unrecorded[c] \/ [bind |-> c, number |-> n] = fresh
    BY <1>0, LostIs
  <2>3. [bind |-> c, number |-> n] = fresh <=> c = b /\ n = seen[b] + 1
    <3>1. [bind |-> c, number |-> n].bind = c /\ [bind |-> c, number |-> n].number = n
      OBVIOUS
    <3> QED BY <1>0, <3>1
  <2>4. n \in 1 .. seen'[c] <=> n \in 1 .. seen[c] \/ (c = b /\ n = seen[b] + 1)
    BY <1>2
  <2>5. c = b => seen[b] + 1 \notin 1 .. seen[c]
    BY <1>2
  <2> HIDE DEF fresh
  <2>6. CASE HeldIn(Contents') = HeldIn(Contents) \union {fresh} /\ unrecorded' = unrecorded
    BY <2>1, <2>3, <2>4, <2>5, <2>6
  <2>7. CASE HeldIn(Contents') = HeldIn(Contents) /\ unrecorded' = Lost(<<fresh>>)
    BY <1>1, <2>1, <2>2, <2>3, <2>4, <2>5, <2>7
  <2> QED BY <2>6, <2>7 DEF fresh
<1>4. ASSUME NEW c \in Binds
      PROVE  {n \in 1 .. seen'[c] : [bind |-> c, number |-> n] \notin HeldIn(Contents')}
               = unrecorded'[c]
  BY <1>3
<1>5. HeldWasSeen'
  <2> SUFFICES ASSUME NEW e \in HeldIn(Contents') PROVE e.number <= seen'[e.bind]
    BY DEF HeldWasSeen
  <2>1. e \in HeldIn(Contents) \/ e = fresh
    OBVIOUS
  <2>2. CASE e = fresh
    BY <1>0, <1>2, <2>2
  <2>3. CASE e \in HeldIn(Contents)
    <3>1. e \in PduEntries
      BY <2>3, ContentsHold DEF HeldIn, ToSet, Holds
    <3>2. e.bind \in Binds /\ e.number \in Nat /\ e.number <= seen[e.bind]
      BY <2>3, <3>1 DEF PduEntries, HeldWasSeen
    <3> QED BY <1>2, <3>2
  <2> QED BY <2>1, <2>2, <2>3
<1> QED BY <1>4, <1>5 DEF RecordedOnce

\* A step of the log keeps each PDU in one place, or among the losses.
LEMMA LogsOnceStep == ASSUME OnceInv, [LogsNext]_vars PROVE OnceInv'
<1> USE DEF OnceInv
<1>0. LogsType' /\ HandsAreEmpty'
  BY LogsTypeStep
<1> DEFINE C == Contents
           D == Contents'
           AllTasks == Binds \union Callers
<1>a. /\ C \in [Spots -> Seq(PduEntries)] /\ D \in [Spots -> Seq(PduEntries)] /\ OnceIn(C)
      /\ \A b \in Binds : QueuePlace(b) \in Spots /\ C[QueuePlace(b)] = inbox[b]
                          /\ D[QueuePlace(b)] = inbox'[b]
      /\ \A t \in AllTasks : HandsPlace(t) \in Spots /\ C[HandsPlace(t)] = task[t].entries
                             /\ D[HandsPlace(t)] = task'[t].entries
      /\ BufferPlace \in Spots /\ C[BufferPlace] = pending /\ D[BufferPlace] = pending'
      /\ TablePlace \in Spots /\ C[TablePlace] = stored /\ D[TablePlace] = stored'
      /\ \A x \in Spots : \/ \E b \in Binds : x = QueuePlace(b)
                          \/ \E t \in AllTasks : x = HandsPlace(t)
                          \/ x = BufferPlace \/ x = TablePlace
  BY <1>0, ContentsHold, ContentsWillHold DEF RecordedOnce, Holds
<1>b. ASSUME UNCHANGED <<inbox, pending, stored>>, \A t \in AllTasks : task'[t].entries = task[t].entries
      PROVE  D = C
  <2>1. ASSUME NEW x \in Spots PROVE D[x] = C[x]
    BY <1>a, <1>b, ZenonT(40)
  <2> HIDE DEF C, D
  <2> QED BY <1>a, <2>1
<1>c. /\ inbox \in [Binds -> Seq(PduEntries)] /\ pending \in Seq(PduEntries) /\ stored \in Seq(PduEntries)
      /\ \A t \in AllTasks : task[t].entries \in Seq(PduEntries)
      /\ DOMAIN task = AllTasks
  BY DEF LogsType, Hands
<1> HIDE DEF C, D, AllTasks
<1>d. \A x \in Spots :
        \/ \E b \in Binds : x = QueuePlace(b) /\ C[x] = inbox[b] /\ D[x] = inbox'[b]
        \/ \E t \in AllTasks : /\ x = HandsPlace(t)
                              /\ C[x] = task[t].entries /\ D[x] = task'[t].entries
        \/ x = BufferPlace /\ C[x] = pending /\ D[x] = pending'
        \/ x = TablePlace /\ C[x] = stored /\ D[x] = stored'
  <2> SUFFICES ASSUME NEW x \in Spots
               PROVE  \/ \E b \in Binds : x = QueuePlace(b) /\ C[x] = inbox[b] /\ D[x] = inbox'[b]
                      \/ \E t \in AllTasks : /\ x = HandsPlace(t)
                                            /\ C[x] = task[t].entries /\ D[x] = task'[t].entries
                      \/ x = BufferPlace /\ C[x] = pending /\ D[x] = pending'
                      \/ x = TablePlace /\ C[x] = stored /\ D[x] = stored'
    OBVIOUS
  <2>1. CASE \E b \in Binds : x = QueuePlace(b)
    BY <1>a, <2>1
  <2>2. CASE \E t \in AllTasks : x = HandsPlace(t)
    BY <1>a, <2>2
  <2>3. CASE x = BufferPlace \/ x = TablePlace
    BY <1>a, <2>3
  <2> QED BY <1>a, <2>1, <2>2, <2>3
<1>e. C \in [Spots -> Seq(PduEntries)] /\ D \in [Spots -> Seq(PduEntries)] /\ OnceIn(C)
  BY <1>a
<1>1. ASSUME NEW b \in Binds, Saw(b) PROVE RecordedOnce' /\ HeldWasSeen'
  <2> DEFINE e == [bind |-> b, number |-> seen[b] + 1]
  <2>1. UNCHANGED <<pending, stored>> /\ (\A t \in AllTasks : task'[t].entries = task[t].entries)
        /\ seen' = [seen EXCEPT ![b] = @ + 1]
    BY <1>1 DEF Saw
  <2>2. e \in PduEntries /\ seen[b] \in Nat /\ e.number = seen[b] + 1 /\ e.bind = b
    BY DEF LogsType, PduEntries
  <2>3. e \notin HeldIn(C)
    BY <2>2 DEF HeldWasSeen, C
  <2> HIDE DEF e
  <2>4. CASE inbox' = [inbox EXCEPT ![b] = Append(@, e)] /\ UNCHANGED unrecorded
    <3>1. D = [C EXCEPT ![QueuePlace(b)] = Append(C[QueuePlace(b)], e)]
      <4>1. ASSUME NEW x \in Spots
            PROVE  D[x] = IF x = QueuePlace(b) THEN Append(C[QueuePlace(b)], e) ELSE C[x]
        <5>1. CASE \E c \in Binds : x = QueuePlace(c)
          <6>1. PICK c \in Binds : x = QueuePlace(c)
            BY <5>1
          <6>2. x = QueuePlace(b) <=> c = b
            BY <6>1, PlacesDiffer
          <6> QED BY <1>a, <1>c, <2>4, <6>1, <6>2
        <5>2. CASE ~\E c \in Binds : x = QueuePlace(c)
          <6>1. x # QueuePlace(b)
            BY <5>2
          <6> QED BY <1>d, <2>1, <5>2, <6>1
        <5> QED BY <5>1, <5>2
      <4> QED BY <1>a, <4>1
    <3>2. OnceIn(D) /\ HeldIn(D) = HeldIn(C) \union {e}
      <4>1. Added(C, D, QueuePlace(b), e)
        BY <1>a, <2>2, <2>3, <3>1 DEF Added
      <4> QED BY <1>e, <4>1, NewKeepsOnce
    <3> QED BY <1>0, <2>1, <2>4, <3>2, AccountedWhenSeen DEF C, D, e
  <2>5. CASE unrecorded' = Lost(<<e>>) /\ UNCHANGED inbox
    <3>1. D = C
      BY <1>b, <2>1, <2>5
    <3> QED BY <1>0, <1>a, <2>1, <2>5, <3>1, AccountedWhenSeen DEF C, D, e
  <2> QED BY <1>1, <2>4, <2>5 DEF Saw, e
<1>2. ASSUME NEW b \in Binds, Drain(b) PROVE RecordedOnce' /\ HeldWasSeen'
  <2> DEFINE a == <<Head(inbox[b])>>
             rest == Tail(inbox[b])
  <2>1. /\ a \in Seq(PduEntries) /\ rest \in Seq(PduEntries) /\ inbox[b] = a \o rest
        /\ Head(inbox[b]) \in PduEntries
    <3>1. inbox[b] \in Seq(PduEntries) /\ inbox[b] # <<>>
      BY <1>2, <1>c DEF Drain
    <3> QED BY <3>1, HeadTailProperties
  <2>2. UNCHANGED <<pending, stored, seen>> /\ inbox' = [inbox EXCEPT ![b] = rest]
    BY <1>2 DEF Drain
  <2>3. task[b].entries = <<>>
    BY <1>2 DEF Drain, Idle, At
  <2> HIDE DEF a, rest
  <2>4. \A c \in Binds : inbox'[c] = IF c = b THEN rest ELSE inbox[c]
    BY <1>c, <2>2
  <2>5. b \in AllTasks
    BY DEF AllTasks
  <2>6. CASE task' = [task EXCEPT ![b] = At("push", a)] /\ UNCHANGED unrecorded
    <3>1. \A t \in AllTasks : task'[t].entries = IF t = b THEN a ELSE task[t].entries
      BY <1>c, <2>6 DEF At
    <3>2. /\ D[QueuePlace(b)] = rest /\ D[HandsPlace(b)] = C[HandsPlace(b)] \o a
          /\ C[QueuePlace(b)] = a \o rest
      <4>1. <<>> \o a = a
        BY <2>1, ConcatProperties
      <4>2. C[HandsPlace(b)] = <<>> /\ D[HandsPlace(b)] = a
        BY <1>a, <2>3, <2>5, <3>1
      <4>3. D[QueuePlace(b)] = rest /\ C[QueuePlace(b)] = a \o rest
        BY <1>a, <2>1, <2>4
      <4> QED BY <4>1, <4>2, <4>3
    <3>3. \A x \in Spots : x # QueuePlace(b) /\ x # HandsPlace(b) => D[x] = C[x]
      BY <1>d, <2>2, <2>4, <3>1
    <3>4. OnceIn(D) /\ HeldIn(D) = HeldIn(C)
      <4>1. Moved(C, D, QueuePlace(b), HandsPlace(b), a, rest)
        BY <1>a, <1>e, <2>1, <2>5, <3>2, <3>3, PlacesDiffer DEF Moved
      <4> QED BY <1>e, <4>1, MoveKeepsOnce
    <3> QED BY <1>0, <2>2, <2>6, <3>4, AccountedWhenKept DEF C, D
  <2>7. CASE unrecorded' = Lost(a) /\ UNCHANGED task
    <3>1. D[QueuePlace(b)] = rest /\ C[QueuePlace(b)] = a \o rest
      BY <1>a, <2>1, <2>4
    <3>2. \A x \in Spots : x # QueuePlace(b) => D[x] = C[x]
      BY <1>d, <2>2, <2>4, <2>7
    <3>3. D = [C EXCEPT ![QueuePlace(b)] = rest]
      BY <1>a, <3>1, <3>2
    <3>4. /\ OnceIn(D) /\ HeldIn(D) = HeldIn(C) \ ToSet(a) /\ ToSet(a) \subseteq HeldIn(C)
      <4>1. Dropped(C, D, QueuePlace(b), a, rest)
        BY <1>a, <3>1, <3>3, <1>e, <2>1 DEF Dropped
      <4> QED BY <1>e, <4>1, LossKeepsOnce
    <3> QED BY <1>0, <2>1, <2>2, <2>7, <3>4, AccountedWhenLost DEF C, D
  <2> QED BY <1>2, <2>6, <2>7 DEF Drain, a
<1>4. ASSUME NEW t \in AllTasks, Flush(t) PROVE RecordedOnce' /\ HeldWasSeen'
  <2>1. UNCHANGED <<inbox, stored, seen, unrecorded>> /\ pending' = <<>>
    BY <1>4 DEF Flush, Kept
  <2>2. task[t].entries = <<>>
    BY <1>4 DEF Flush, HandsAreEmpty, AllTasks
  <2>3. \A u \in AllTasks : task'[u].entries = IF u = t THEN pending ELSE task[u].entries
    BY <1>4, <1>c DEF Flush, At
  <2>4. pending \o <<>> = pending /\ <<>> \o pending = pending /\ <<>> \in Seq(PduEntries)
    BY <1>c, ConcatProperties
  <2>5. /\ D[BufferPlace] = <<>> /\ D[HandsPlace(t)] = C[HandsPlace(t)] \o pending
        /\ C[BufferPlace] = pending \o <<>>
    BY <1>a, <2>1, <2>2, <2>3, <2>4
  <2>6. \A x \in Spots : x # BufferPlace /\ x # HandsPlace(t) => D[x] = C[x]
    BY <1>d, <2>1, <2>3
  <2>7. OnceIn(D) /\ HeldIn(D) = HeldIn(C)
    <3>1. Moved(C, D, BufferPlace, HandsPlace(t), pending, <<>>)
      BY <1>a, <1>c, <1>e, <2>4, <2>5, <2>6, PlacesDiffer DEF Moved
    <3> QED BY <1>e, <3>1, MoveKeepsOnce
  <2> QED BY <1>0, <2>1, <2>7, AccountedWhenKept DEF C, D
<1>5. ASSUME NEW t \in AllTasks, Write(t) PROVE RecordedOnce' /\ HeldWasSeen'
  <2> DEFINE a == task[t].entries
  <2>1. UNCHANGED <<inbox, pending, seen>>
    BY <1>5 DEF Write
  <2>2. \A u \in AllTasks : task'[u].entries = IF u = t THEN <<>> ELSE task[u].entries
    BY <1>5, <1>c DEF Write, AfterWrite, At, Idle
  <2>3. a \in Seq(PduEntries) /\ a \o <<>> = a /\ <<>> \in Seq(PduEntries)
    BY <1>c, ConcatProperties
  <2>4. CASE stored' = stored \o a /\ UNCHANGED unrecorded
    <3>1. /\ D[HandsPlace(t)] = <<>> /\ D[TablePlace] = C[TablePlace] \o a
          /\ C[HandsPlace(t)] = a \o <<>>
      BY <1>a, <2>2, <2>3, <2>4
    <3>2. \A x \in Spots : x # HandsPlace(t) /\ x # TablePlace => D[x] = C[x]
      BY <1>d, <2>1, <2>2
    <3>3. OnceIn(D) /\ HeldIn(D) = HeldIn(C)
      <4> HIDE DEF a
      <4>1. Moved(C, D, HandsPlace(t), TablePlace, a, <<>>)
        BY <1>a, <1>e, <2>3, <3>1, <3>2, PlacesDiffer DEF Moved
      <4> QED BY <1>e, <4>1, MoveKeepsOnce
    <3> QED BY <1>0, <2>1, <2>4, <3>3, AccountedWhenKept DEF C, D
  <2>5. CASE unrecorded' = Lost(a) /\ UNCHANGED stored
    <3>1. D[HandsPlace(t)] = <<>> /\ C[HandsPlace(t)] = a \o <<>>
      BY <1>a, <2>2, <2>3
    <3>2. \A x \in Spots : x # HandsPlace(t) => D[x] = C[x]
      BY <1>d, <2>1, <2>2, <2>5
    <3>3. D = [C EXCEPT ![HandsPlace(t)] = <<>>]
      BY <1>a, <3>1, <3>2
    <3>4. /\ OnceIn(D) /\ HeldIn(D) = HeldIn(C) \ ToSet(a) /\ ToSet(a) \subseteq HeldIn(C)
      <4> HIDE DEF a
      <4>1. Dropped(C, D, HandsPlace(t), a, <<>>)
        BY <1>a, <3>1, <3>3, <1>e, <2>3 DEF Dropped
      <4> QED BY <1>e, <4>1, LossKeepsOnce
    <3> QED BY <1>0, <2>1, <2>3, <2>5, <3>4, AccountedWhenLost DEF C, D
  <2> QED BY <1>5, <2>4, <2>5 DEF Write
<1>3. ASSUME NEW b \in Binds, Buffer(b) PROVE RecordedOnce' /\ HeldWasSeen'
  <2> DEFINE a == task[b].entries
  <2>1. UNCHANGED <<inbox, stored, seen, unrecorded>>
    BY <1>3 DEF Buffer
  <2>2. b \in AllTasks /\ a \in Seq(PduEntries) /\ a \o <<>> = a /\ <<>> \in Seq(PduEntries)
        /\ pending \o a \in Seq(PduEntries) /\ (pending \o a) \o <<>> = pending \o a
        /\ <<>> \o (pending \o a) = pending \o a
    <3>1. b \in AllTasks
      BY DEF AllTasks
    <3>2. a \in Seq(PduEntries) /\ pending \o a \in Seq(PduEntries)
      BY <1>c, <3>1, ConcatProperties
    <3> QED BY <3>1, <3>2, ConcatProperties
  \* The entry is buffered first, whether or not the buffer is taken at once.
  <2> DEFINE B == [C EXCEPT ![HandsPlace(b)] = <<>>, ![BufferPlace] = pending \o a]
  <2>3. /\ B \in [Spots -> Seq(PduEntries)] /\ B[HandsPlace(b)] = <<>>
        /\ B[BufferPlace] = pending \o a /\ C[HandsPlace(b)] = a \o <<>>
        /\ C[BufferPlace] = pending
        /\ \A x \in Spots : x # HandsPlace(b) /\ x # BufferPlace => B[x] = C[x]
    BY <1>a, <2>2, PlacesDiffer
  <2> HIDE DEF a, B
  <2>4. OnceIn(B) /\ HeldIn(B) = HeldIn(C)
    <3>1. Moved(C, B, HandsPlace(b), BufferPlace, a, <<>>)
      BY <1>a, <1>e, <2>2, <2>3, PlacesDiffer DEF Moved
    <3> QED BY <1>e, <2>3, <3>1, MoveKeepsOnce
  <2>5. CASE pending' = pending \o a /\ task' = [task EXCEPT ![b] = Idle]
    <3>1. \A u \in AllTasks : task'[u].entries = IF u = b THEN <<>> ELSE task[u].entries
      BY <1>c, <2>2, <2>5 DEF Idle, At
    <3>2. D[HandsPlace(b)] = B[HandsPlace(b)] /\ D[BufferPlace] = B[BufferPlace]
      BY <1>a, <2>2, <2>3, <2>5, <3>1
    <3>3. \A x \in Spots : x # HandsPlace(b) /\ x # BufferPlace => D[x] = C[x]
      BY <1>d, <2>1, <3>1
    <3>4. D = B
      <4>1. ASSUME NEW x \in Spots PROVE D[x] = B[x]
        BY <2>3, <3>2, <3>3
      <4> QED BY <1>a, <2>3, <4>1
    <3> QED BY <1>0, <2>1, <2>4, <3>4, AccountedWhenKept DEF C, D
  <2>6. CASE pending' = <<>> /\ task' = [task EXCEPT ![b] = At("write", pending \o a)]
    <3>1. \A u \in AllTasks :
            task'[u].entries = IF u = b THEN pending \o a ELSE task[u].entries
      BY <1>c, <2>2, <2>6 DEF At
    <3>2. /\ D[HandsPlace(b)] = B[HandsPlace(b)] \o (pending \o a)
          /\ D[BufferPlace] = <<>> /\ B[BufferPlace] = (pending \o a) \o <<>>
      BY <1>a, <2>2, <2>3, <2>6, <3>1
    <3>3. \A x \in Spots : x # HandsPlace(b) /\ x # BufferPlace => D[x] = B[x]
      BY <1>d, <2>1, <2>3, <3>1
    <3>4. OnceIn(D) /\ HeldIn(D) = HeldIn(B)
      <4>1. Moved(B, D, BufferPlace, HandsPlace(b), (pending \o a), <<>>)
        BY <1>a, <1>e, <2>2, <2>3, <3>2, <3>3, PlacesDiffer DEF Moved
      <4> QED BY <1>e, <2>3, <2>4, <4>1, MoveKeepsOnce
    <3> QED BY <1>0, <2>1, <2>4, <3>4, AccountedWhenKept DEF C, D
  <2> QED BY <1>3, <2>5, <2>6 DEF Buffer, Kept, a
<1>6. ASSUME Switch \/ Switched \/ Operate \/ More \/ Answered \/ Unanswered \/ Journalled
             \/ UNCHANGED vars
      PROVE  RecordedOnce' /\ HeldWasSeen'
  <2>1. UNCHANGED <<inbox, pending, stored, seen, unrecorded>>
    BY <1>6 DEF Switch, Switched, Operate, More, Answered, Unanswered, Journalled, vars, recorder
  <2>2. \A t \in AllTasks : task'[t].entries = task[t].entries
    <3>1. CASE Journalled \/ UNCHANGED vars
      BY <3>1 DEF Journalled, vars
    <3>2. CASE Switch \/ More \/ Answered \/ Unanswered
      <4>1. PICK u \in Callers, step \in {"flush", "answer", "idle"} :
              task' = [task EXCEPT ![u] = At(step, <<>>)] /\ task[u].step \notin {"push", "write"}
        <5>1. CASE Switch
          <6>1. task["switch"].step = "idle" /\ "switch" \in Callers
            BY <5>1 DEF Switch, Idle, At, Callers
          <6>2. \/ task' = [task EXCEPT !["switch"] = At("flush", <<>>)]
                \/ task' = [task EXCEPT !["switch"] = At("answer", <<>>)]
            BY <5>1 DEF Switch
          <6> QED BY <6>1, <6>2, ZenonT(30)
        <5>2. CASE More
          <6>1. task["screen"].step = "idle" /\ "screen" \in Callers
            BY <5>2 DEF More, Loading, Idle, At, Callers
          <6>2. \/ task' = [task EXCEPT !["screen"] = At("flush", <<>>)]
                \/ task' = [task EXCEPT !["screen"] = At("answer", <<>>)]
            BY <5>2 DEF More, Ask
          <6> QED BY <6>1, <6>2, ZenonT(30)
        <5>3. CASE Answered \/ Unanswered
          <6>1. task["screen"].step = "answer" /\ "screen" \in Callers
                /\ task' = [task EXCEPT !["screen"] = Idle]
            BY <5>3 DEF Answered, Unanswered, Callers
          <6> QED BY <6>1, ZenonT(30) DEF Idle
        <5> QED BY <3>2, <5>1, <5>2, <5>3
      <4>2. task[u].entries = <<>>
        BY <4>1 DEF HandsAreEmpty
      <4> QED BY <1>c, <4>1, <4>2 DEF At, AllTasks
    <3>3. CASE Operate
      <4>1. PICK s \in LogScreens : ReloadLog(s, task)
        BY <3>3, OperateReloads
      <4>2. task \in [AllTasks -> Hands]
        BY DEF LogsType, AllTasks
      <4> QED BY <4>1, <4>2, ReloadTypes DEF AllTasks
    <3>4. CASE Switched
      <4> DEFINE tasks == [task EXCEPT !["switch"] = Idle]
      <4>1. /\ tasks \in [AllTasks -> Hands] /\ tasks["screen"] = task["screen"]
            /\ \A t \in AllTasks : tasks[t].entries = task[t].entries
        <5>1. task["switch"].entries = <<>> /\ "switch" \in AllTasks
          BY <3>4 DEF Switched, HandsAreEmpty, Callers, AllTasks
        <5> QED BY <1>c, <5>1 DEF LogsType, Hands, Idle, At, AllTasks
      <4>2. screen \in LogScreens
        BY DEF LogsType
      <4> HIDE DEF tasks
      <4>3. task' = tasks \/ ReloadLog(screen, tasks)
        BY <3>4 DEF Switched, tasks
      <4>4. ASSUME ReloadLog(screen, tasks)
            PROVE  \A t \in AllTasks : task'[t] = tasks[t] \/ task'[t].entries = tasks[t].entries
        BY <4>1, <4>2, <4>4, ReloadTypes DEF AllTasks
      <4> QED BY <4>1, <4>3, <4>4
    <3> QED BY <1>6, <3>1, <3>2, <3>3, <3>4
  <2>3. D = C
    BY <1>b, <2>1, <2>2
  <2> QED BY <1>0, <1>a, <2>1, <2>3, AccountedWhenKept DEF C, D
<1> QED
  BY <1>0, <1>1, <1>2, <1>3, <1>4, <1>5, <1>6 DEF LogsNext, AllTasks

-----------------------------------------------------------------------------
(* The traversal on screen.                                                 *)

\* A traversal starts at the top; while more is to come, what is shown stops at
\* the cursor; the page on its way is the next one, and nobody asks for more once
\* it has all come.
CursorIsLast ==
  /\ ReadOnce
  /\ course = "opening" => screen.cursor = 0 /\ ~screen.exhausted
  /\ course = "through" /\ ~screen.exhausted => \A i \in ToSet(OnScreen) : i <= screen.cursor
  /\ Loading => ~screen.exhausted /\ fetch = LogRequest(screen, course = "through")
  /\ task["screen"].step \in {"flush", "write"} => screen.tab = "pdus"
  /\ screen.tab = "pdus" => screen.cursor <= Len(stored)

\* What the screen has in hand, to write before it reads.
InHand == IF task["screen"].step = "write" THEN ToSet(task["screen"].entries) ELSE {}

\* A row is shown by the traversal, or is still ahead of its cursor.
ShownOrAhead(i) ==
  \/ course = "through" /\ i \in ToSet(OnScreen)
  \/ ~screen.exhausted /\ i > screen.cursor

\* Every PDU owed is in the table or in hand, and its row is shown or ahead.
PdusAreOwed ==
  screen.tab = "pdus" =>
    /\ owed \subseteq ToSet(stored) \union InHand
    /\ \A i \in DOMAIN stored : stored[i] \in owed => ShownOrAhead(i)

\* Every message owed is still selected, and is shown or ahead.
MessagesAreOwed ==
  screen.tab = "messages" =>
    \A i \in owed : /\ i \in DOMAIN messages /\ (screen.filtered => messages[i])
                    /\ ShownOrAhead(i)

\* A page asked for something else spoils the traversal it crosses, until the next.
Traversal    == CursorIsLast /\ PdusAreOwed /\ MessagesAreOwed
TraversalInv == course # "crossed" => Traversal

\* Nothing the traversal rests on changed.
LEMMA TraversalStutters ==
  ASSUME TraversalInv, UNCHANGED <<reading, owed, stored, messages>>,
         task'["screen"] = task["screen"]
  PROVE  TraversalInv'
BY DEF TraversalInv, Traversal, CursorIsLast, PdusAreOwed, MessagesAreOwed, InHand, ShownOrAhead,
       ReadOnce, OnScreen, Loading, LogRequest, reading

\* A reload starts a traversal over, or is crossed by the page on its way.
LEMMA ReloadStarts ==
  ASSUME LogsType, LogsType', NEW s \in LogScreens, NEW tasks \in [Binds \union Callers -> Hands],
         ReloadLog(s, tasks), UNCHANGED <<stored, messages>>
  PROVE  TraversalInv'
<1>1. CASE Loading
  BY <1>1 DEF ReloadLog, TraversalInv
<1>2. CASE ~Loading
  <2>1. /\ screen'.cursor = 0 /\ screen'.exhausted = FALSE /\ screen'.tab = s.tab
        /\ screen'.filtered = s.filtered /\ course' = "opening"
        /\ fetch' = LogRequest(screen', FALSE)
        /\ owed' = IF s.tab = "pdus" THEN {} ELSE Selected(s.tab, s.filtered)
    BY <1>2 DEF ReloadLog, Ask, LogScreens
  <2>2. task'["screen"] = At(IF s.tab = "pdus" THEN "flush" ELSE "answer", <<>>)
    <3>1. task' = [tasks EXCEPT !["screen"] = At(IF screen'.tab = "pdus" THEN "flush" ELSE "answer", <<>>)]
      BY <1>2 DEF ReloadLog, Ask
    <3> QED BY <2>1, <3>1 DEF Callers
  <2>3. CursorIsLast'
    <3>1. ReadOnce'
      BY <2>1 DEF ReadOnce
    <3>2. task'["screen"].step \in {"flush", "write"} => screen'.tab = "pdus"
      BY <2>1, <2>2 DEF At
    <3>3. Loading' => ~screen'.exhausted /\ fetch' = LogRequest(screen, course = "through")'
      BY <2>1 DEF LogRequest
    <3>4. screen'.cursor <= Len(stored')
      BY <2>1 DEF LogsType
    <3> QED BY <2>1, <3>1, <3>2, <3>3, <3>4 DEF CursorIsLast
  <2>4. PdusAreOwed'
    BY <2>1 DEF PdusAreOwed
  <2>5. MessagesAreOwed'
    <3> SUFFICES ASSUME screen'.tab = "messages", NEW i \in owed'
                 PROVE  /\ i \in DOMAIN messages' /\ (screen'.filtered => messages'[i])
                        /\ ShownOrAhead(i)'
      BY DEF MessagesAreOwed
    <3>1. i \in DOMAIN messages /\ (s.filtered => messages[i])
      BY <2>1 DEF Selected
    <3>2. i > 0
      BY <3>1 DEF LogsType
    <3> QED BY <2>1, <3>1, <3>2 DEF ShownOrAhead
  <2> QED BY <2>3, <2>4, <2>5 DEF TraversalInv, Traversal
<1> QED BY <1>1, <1>2

\* A step that asks for nothing else keeps what the pages read so far say of the
\* stored rows.
LEMMA TraversalKept ==
  ASSUME OnceInv, OnceInv', Traversal, course # "crossed", [LogsNext]_vars, ~Operate, ~Switched
  PROVE  Traversal'
<1> DEFINE AllTasks == Binds \union Callers
           me == task["screen"]
           me1 == task'["screen"]
<1>a. /\ task \in [AllTasks -> Hands] /\ "screen" \in AllTasks /\ "switch" \in AllTasks
      /\ "screen" # "switch" /\ "screen" \notin Binds /\ "switch" \notin Binds
      /\ task' \in [AllTasks -> Hands]
  BY LogsAssumption DEF OnceInv, LogsType, Callers
<1>b. /\ stored \in Seq(PduEntries) /\ Len(stored) \in Nat /\ DOMAIN stored = 1 .. Len(stored)
      /\ messages \in Seq(BOOLEAN) /\ Len(messages) \in Nat
      /\ DOMAIN messages = 1 .. Len(messages)
      /\ screen.tab \in {"pdus", "messages"} /\ screen.cursor \in Nat
      /\ screen.exhausted \in BOOLEAN /\ screen.filtered \in BOOLEAN
      /\ OnScreen \in Seq(Nat \ {0}) /\ course \in {"opening", "through"}
      /\ DOMAIN OnScreen = 1 .. Len(OnScreen) /\ Len(OnScreen) \in Nat
  <2>1. screen \in LogScreens /\ course \in Courses
    BY DEF OnceInv, LogsType
  <2>2. OnScreen \in Seq(Nat \ {0})
    BY <2>1 DEF LogScreens, OnScreen, Tabs
  <2> QED BY <2>1, <2>2 DEF OnceInv, LogsType, LogScreens, Tabs, Courses
<1>c. UNCHANGED <<reading, owed, stored, messages>> /\ me1 = me => Traversal'
  BY DEF Traversal, CursorIsLast, PdusAreOwed, MessagesAreOwed, InHand, ShownOrAhead, ReadOnce,
         OnScreen, Loading, LogRequest, reading
<1> USE DEF Traversal
<1>1. ASSUME NEW b \in Binds, Saw(b) PROVE Traversal'
  BY <1>1, <1>c DEF Saw
<1>2. ASSUME NEW b \in Binds, Drain(b) \/ Buffer(b) PROVE Traversal'
  <2>1. UNCHANGED <<reading, owed, stored, messages>>
    BY <1>2 DEF Drain, Buffer
  <2>2. task'["screen"] = task["screen"]
    <3>1. b # "screen" /\ (task' = task \/ \E h : task' = [task EXCEPT ![b] = h])
      BY <1>2, <1>a DEF Drain, Buffer
    <3> QED BY <1>a, <3>1
  <2> QED BY <2>1, <2>2, <1>c
<1>3. ASSUME NEW t \in AllTasks, Flush(t), t # "screen" PROVE Traversal'
  <2>1. UNCHANGED <<reading, owed, stored, messages>> /\ task'["screen"] = task["screen"]
    BY <1>3, <1>a DEF Flush
  <2> QED BY <2>1, <1>c
<1>4. ASSUME Flush("screen") PROVE Traversal'
  <2>1. /\ UNCHANGED <<screen, fetch, course, stored, messages>> /\ me.step = "flush"
        /\ me1 = At(IF pending = <<>> THEN "answer" ELSE "write", pending)
        /\ owed' = IF course = "opening" THEN ToSet(pending) \union ToSet(stored) ELSE owed
    BY <1>4, <1>a DEF Flush, reading
  <2>2. Loading /\ screen.tab = "pdus" /\ ~screen.exhausted
    BY <2>1, <1>b DEF CursorIsLast, Loading, Idle, At
  <2>3. InHand' = ToSet(pending)
    <3>1. ToSet(<<>>) = {}
      BY DEF ToSet
    <3> QED BY <2>1, <3>1 DEF InHand, At
  <2>4. CursorIsLast'
    BY <2>1, <2>2 DEF CursorIsLast, ReadOnce, OnScreen, LogRequest, At
  <2>5. MessagesAreOwed'
    BY <2>1, <2>2 DEF MessagesAreOwed
  <2>6. CASE course = "opening"
    <3>1. screen.cursor = 0
      BY <2>6 DEF CursorIsLast
    <3>2. \A i \in DOMAIN stored : ShownOrAhead(i)'
      BY <1>b, <2>1, <2>2, <3>1 DEF ShownOrAhead
    <3> QED BY <2>1, <2>3, <2>4, <2>5, <2>6, <3>2 DEF PdusAreOwed
  <2>7. CASE course # "opening"
    <3>1. InHand = {}
      BY <2>1 DEF InHand
    <3> QED BY <2>1, <2>2, <2>3, <2>4, <2>5, <2>7, <3>1 DEF PdusAreOwed, ShownOrAhead, OnScreen
  <2> QED BY <2>6, <2>7
<1>5. ASSUME NEW t \in AllTasks, Write(t) PROVE Traversal'
  <2> DEFINE batch == task[t].entries
  <2>1. /\ UNCHANGED <<screen, fetch, course, messages>> /\ task[t].step = "write"
        /\ task' = [task EXCEPT ![t] = AfterWrite(t)]
    BY <1>5 DEF Write, reading
  <2>2. batch \in Seq(PduEntries) /\ Len(batch) \in Nat
    BY <1>5, <1>a DEF Hands
  <2>3. /\ me1.step = IF t = "screen" THEN "answer" ELSE me.step
        /\ t # "screen" => me1 = me
    BY <1>5, <1>a, <2>1 DEF AfterWrite, At, Callers
  <2>4. /\ t = "screen" => screen.tab = "pdus" /\ ~screen.exhausted /\ Loading
        /\ Loading' => Loading
    BY <2>1, <2>3, <1>b DEF CursorIsLast, Loading, Idle, At
  <2>5. InHand' = IF t = "screen" THEN {} ELSE InHand
    BY <2>3 DEF InHand
  <2>6. t = "screen" => InHand = ToSet(batch)
    BY <2>1 DEF InHand
  <2>7. MessagesAreOwed'
    <3>1. screen.tab = "messages" => owed' = owed
      BY <1>5 DEF Write
    <3> QED BY <2>1, <3>1 DEF MessagesAreOwed, ShownOrAhead, OnScreen
  <2>8. CASE stored' = stored \o batch /\ owed' = owed
    <3>1. /\ DOMAIN stored' = 1 .. Len(stored) + Len(batch) /\ Len(stored') = Len(stored) + Len(batch)
          /\ \A i \in 1 .. Len(stored) : stored'[i] = stored[i]
          /\ \A i \in DOMAIN stored' : \/ i \in 1 .. Len(stored)
                                       \/ /\ i - Len(stored) \in 1 .. Len(batch)
                                          /\ stored'[i] = batch[i - Len(stored)]
          /\ DOMAIN batch = 1 .. Len(batch) /\ ToSet(stored') = ToSet(stored) \union ToSet(batch)
      <4>1. Joins(stored', stored, batch, PduEntries)
        BY <1>b, <2>2, <2>8 DEF Joins
      <4> HIDE DEF batch
      <4> QED BY <4>1, ConcatIs
    <3>2. CursorIsLast'
      <4>1. screen.tab = "pdus" => screen.cursor <= Len(stored')
        BY <1>b, <2>2, <3>1 DEF CursorIsLast
      <4> QED BY <1>b, <2>1, <2>3, <2>4, <4>1 DEF CursorIsLast, ReadOnce, OnScreen, LogRequest
    <3>3. ASSUME screen.tab = "pdus" PROVE owed \subseteq ToSet(stored') \union InHand'
      BY <2>5, <2>6, <3>1, <3>3 DEF PdusAreOwed
    <3>4. ASSUME screen.tab = "pdus", NEW i \in DOMAIN stored', stored'[i] \in owed
          PROVE  ShownOrAhead(i)
      <4>1. CASE i \in 1 .. Len(stored)
        BY <1>b, <3>1, <3>4, <4>1 DEF PdusAreOwed
      <4>2. CASE i \notin 1 .. Len(stored)
        <5> DEFINE k == i - Len(stored)
        <5>1. k \in 1 .. Len(batch) /\ stored'[i] = batch[k] /\ i \in 1 .. Len(stored) + Len(batch)
          BY <3>1, <3>4, <4>2
        <5>2. i > Len(stored) /\ i \in Nat
          <6>1. Len(stored) \in Nat /\ Len(batch) \in Nat
            BY <1>b, <2>2
          <6> QED BY <4>2, <5>1, <6>1
        <5> HIDE DEF k
        \* It is in the hands of t, so the table did not have it: it is in ours.
        <5>3. batch[k] \notin ToSet(stored)
          <6> SUFFICES ASSUME NEW j \in DOMAIN stored, stored[j] = batch[k] PROVE FALSE
            BY DEF ToSet
          <6> DEFINE C == Contents
                     p == HandsPlace(t)
                     q == TablePlace
          <6>1. p \in DOMAIN C /\ q \in DOMAIN C /\ C[p] = batch /\ C[q] = stored /\ p # q
            BY ContentsHold, PlacesDiffer DEF OnceInv, Holds
          <6>2. OnceIn(C)
            BY DEF OnceInv, RecordedOnce
          <6>3. k \in DOMAIN C[p] /\ j \in DOMAIN C[q] /\ C[p][k] = C[q][j]
            BY <3>1, <5>1, <6>1
          <6> HIDE DEF C, p, q
          <6> QED BY <6>1, <6>2, <6>3 DEF OnceIn
        <5>4. batch[k] \in InHand
          BY <3>4, <5>1, <5>3 DEF PdusAreOwed
        <5>5. t = "screen"
          <6>1. PICK j \in DOMAIN me.entries : me.entries[j] = batch[k]
            BY <5>4 DEF InHand, ToSet
          <6> DEFINE C == Contents
                     p == HandsPlace(t)
                     q == HandsPlace("screen")
          <6>2. p \in DOMAIN C /\ q \in DOMAIN C /\ C[p] = batch /\ C[q] = me.entries
            BY <1>a, ContentsHold DEF OnceInv, Holds
          <6>3. OnceIn(C)
            BY DEF OnceInv, RecordedOnce
          <6>4. k \in DOMAIN C[p] /\ j \in DOMAIN C[q] /\ C[p][k] = C[q][j]
            BY <3>1, <5>1, <6>1, <6>2
          <6>5. p = q => t = "screen"
            BY PlacesDiffer
          <6> HIDE DEF C, p, q
          <6> QED BY <6>2, <6>3, <6>4, <6>5 DEF OnceIn
        <5>6. i > screen.cursor /\ ~screen.exhausted
          <6>1. screen.cursor <= Len(stored)
            BY <3>4 DEF CursorIsLast
          <6> QED BY <1>b, <2>4, <5>2, <5>5, <6>1
        <5> QED BY <5>6 DEF ShownOrAhead
      <4> QED BY <4>1, <4>2
    <3> QED BY <2>1, <2>7, <2>8, <3>2, <3>3, <3>4 DEF PdusAreOwed, ShownOrAhead, OnScreen
  <2>9. CASE UNCHANGED stored
             /\ owed' = IF screen.tab = "pdus" THEN owed \ ToSet(batch) ELSE owed
    <3>1. CursorIsLast'
      BY <1>b, <2>1, <2>3, <2>4, <2>9 DEF CursorIsLast, ReadOnce, OnScreen, LogRequest
    <3>2. PdusAreOwed'
      BY <2>1, <2>5, <2>6, <2>9 DEF PdusAreOwed, ShownOrAhead, OnScreen
    <3> QED BY <2>7, <3>1, <3>2
  <2> QED BY <1>5, <2>8, <2>9 DEF Write
<1>6. ASSUME Switch PROVE Traversal'
  <2>1. UNCHANGED <<reading, owed, stored, messages>> /\ task'["screen"] = task["screen"]
    BY <1>6, <1>a DEF Switch
  <2> QED BY <2>1, <1>c
<1>7. ASSUME Journalled PROVE Traversal'
  <2>1. UNCHANGED <<screen, fetch, course, stored, task>>
    BY <1>7 DEF Journalled, recorder, reading
  <2>2. CursorIsLast'
    BY <2>1 DEF CursorIsLast, ReadOnce, OnScreen, Loading, LogRequest
  <2>3. PdusAreOwed'
    <3>1. screen.tab = "pdus" => owed' = owed
      BY <1>7 DEF Journalled
    <3> QED BY <2>1, <3>1 DEF PdusAreOwed, ShownOrAhead, InHand, OnScreen
  <2>4. MessagesAreOwed'
    <3> SUFFICES ASSUME screen.tab = "messages", NEW i \in owed'
                 PROVE  /\ i \in DOMAIN messages' /\ (screen.filtered => messages'[i])
                        /\ ShownOrAhead(i)'
      BY <2>1 DEF MessagesAreOwed
    <3>0. ShownOrAhead(i)' <=> ShownOrAhead(i)
      BY <2>1 DEF ShownOrAhead, OnScreen
    <3>1. CASE UNCHANGED owed /\ \E selected \in BOOLEAN : messages' = Append(messages, selected)
      <4>1. i \in DOMAIN messages /\ (screen.filtered => messages[i]) /\ ShownOrAhead(i)
        BY <3>1 DEF MessagesAreOwed
      <4>2. i \in DOMAIN messages' /\ messages'[i] = messages[i]
        BY <1>b, <3>1, <4>1, AppendProperties
      <4> QED BY <3>0, <4>1, <4>2
    <3>2. CASE \E k \in DOMAIN messages :
                 /\ messages' = [messages EXCEPT ![k] = ~@]
                 /\ owed' = IF screen.tab = "messages" /\ screen.filtered /\ messages[k]
                            THEN owed \ {k} ELSE owed
      <4>1. PICK k \in DOMAIN messages :
              /\ messages' = [messages EXCEPT ![k] = ~@]
              /\ owed' = IF screen.filtered /\ messages[k] THEN owed \ {k} ELSE owed
        BY <3>2
      <4>2. i \in owed
        BY <4>1
      <4>3. i \in DOMAIN messages /\ (screen.filtered => messages[i]) /\ ShownOrAhead(i)
        BY <4>2 DEF MessagesAreOwed
      <4>4. screen.filtered => i # k
        BY <4>1, <4>3
      <4>5. i \in DOMAIN messages' /\ (i # k => messages'[i] = messages[i])
        BY <1>b, <4>1, <4>3
      <4> QED BY <3>0, <4>3, <4>4, <4>5
    <3> QED BY <1>7, <3>1, <3>2 DEF Journalled
  <2> QED BY <2>2, <2>3, <2>4
<1>8. ASSUME Unanswered PROVE Traversal'
  <2>1. UNCHANGED <<screen, fetch, course, owed, stored, messages>> /\ me.step = "answer" /\ me1 = Idle
    BY <1>8, <1>a DEF Unanswered, recorder, reading
  <2>2. ~Loading' /\ me1.step = "idle"
    BY <2>1 DEF Loading, Idle, At
  <2>3. CursorIsLast'
    BY <2>1, <2>2 DEF CursorIsLast, ReadOnce, OnScreen
  <2>4. InHand' = {} /\ InHand = {}
    BY <2>1, <2>2 DEF InHand
  <2> QED BY <2>1, <2>3, <2>4 DEF PdusAreOwed, MessagesAreOwed, ShownOrAhead, OnScreen
<1>9. ASSUME More PROVE Traversal'
  <2>1. /\ UNCHANGED <<screen, course, stored, messages, owed>> /\ ~screen.exhausted
        /\ me = At("idle", <<>>) /\ screen.cursor # 0 /\ fetch' = LogRequest(screen, TRUE)
        /\ me1 = At(IF screen.tab = "pdus" THEN "flush" ELSE "answer", <<>>)
    BY <1>9, <1>a DEF More, Ask, Loading, recorder, Idle
  <2>2. course = "through"
    BY <2>1, <1>b DEF CursorIsLast
  <2>3. CursorIsLast'
    <3>1. ReadOnce' /\ UNCHANGED OnScreen
      BY <2>1, <2>2 DEF CursorIsLast, ReadOnce, OnScreen
    <3>2. fetch' = LogRequest(screen, course = "through")'
      BY <2>1, <2>2 DEF LogRequest
    <3>3. me1.step \in {"flush", "write"} => screen.tab = "pdus"
      BY <2>1 DEF At
    <3> QED BY <2>1, <2>2, <3>1, <3>2, <3>3 DEF CursorIsLast
  <2>4. InHand' = {} /\ InHand = {}
    BY <2>1 DEF InHand, At
  <2> QED BY <2>1, <2>3, <2>4 DEF PdusAreOwed, MessagesAreOwed, ShownOrAhead, OnScreen
<1>10. ASSUME Answered PROVE Traversal'
  <2> DEFINE after == Ahead
             page == Page(fetch)
             old == IF course = "opening" THEN <<>> ELSE OnScreen
             new == page.rows
  <2>1. /\ UNCHANGED <<stored, messages, owed>> /\ me.step = "answer" /\ me1 = Idle
        /\ course' = "through"
        /\ screen' = [screen EXCEPT
                        !.rows[fetch.tab] = IF fetch.append THEN @ \o page.rows ELSE page.rows,
                        !.cursor = page.next,
                        !.exhausted = page.next = 0]
    BY <1>10, <1>a, <1>b DEF Answered, recorder
  <2>2. /\ ~screen.exhausted /\ InHand = {} /\ InHand' = {} /\ me1.step = "idle" /\ ~Loading'
        /\ fetch = LogRequest(screen, course = "through")
    BY <1>b, <2>1 DEF CursorIsLast, InHand, Loading, Idle, At
  <2>a. /\ fetch.tab = screen.tab /\ fetch.filtered = screen.filtered
        /\ fetch.append = (course = "through") /\ fetch.from = screen.cursor
    BY <1>b, <2>2 DEF LogRequest, CursorIsLast
  <2>3. /\ after \in SUBSET (Nat \ {0})
        /\ after = {i \in Selected(screen.tab, screen.filtered) : i > screen.cursor}
        /\ \A i \in after : i > screen.cursor
        /\ screen.tab = "pdus" => \A i \in after : i <= Len(stored)
    <3>1. after = {i \in Selected(screen.tab, screen.filtered) : i > screen.cursor}
      BY <2>a DEF Ahead
    <3>2. screen.tab = "pdus" => Selected(screen.tab, screen.filtered) = 1 .. Len(stored)
      BY <1>b DEF Selected
    <3>3. after \in SUBSET (Nat \ {0})
      BY LogPage DEF OnceInv
    <3> QED BY <1>b, <3>1, <3>2, <3>3
  <2>5. /\ new \in Seq(after) /\ page.next \in Nat
        /\ \A k, m \in DOMAIN new : k < m => new[k] < new[m]
        /\ page.next = 0 => ToSet(new) = after
        /\ page.next # 0 => ToSet(new) = {i \in after : i <= page.next}
        /\ page.next # 0 => page.next \in ToSet(new)
    BY LogPage DEF OnceInv
  <2> HIDE DEF after, page
  <2>b. old \in Seq(Nat \ {0}) /\ (course = "through" => old = OnScreen) /\ new \in Seq(Nat)
    BY <1>b, <2>3, <2>5, SeqWidens
  <2>6. /\ OnScreen' = old \o new /\ screen'.cursor = page.next
        /\ screen'.exhausted = (page.next = 0) /\ screen'.tab = screen.tab
        /\ screen'.filtered = screen.filtered
    <3>1. screen \in LogScreens
      BY DEF OnceInv, LogsType
    <3>2. /\ screen'.cursor = page.next /\ screen'.exhausted = (page.next = 0)
          /\ screen'.tab = screen.tab /\ screen'.filtered = screen.filtered
          /\ OnScreen' = IF fetch.append THEN OnScreen \o page.rows ELSE page.rows
      BY <2>1, <2>a, <3>1 DEF LogScreens, OnScreen
    <3>3. course = "opening" => old \o new = new
      BY <2>b, ConcatProperties
    <3> QED BY <1>b, <2>a, <2>b, <3>2, <3>3
  <2>7. /\ \A k \in 1 .. Len(new) : new[k] \in after /\ new[k] \in Nat
        /\ \A k \in 1 .. Len(old) : old[k] \in ToSet(old) /\ old[k] \in Nat
        /\ DOMAIN new = 1 .. Len(new) /\ Len(new) \in Nat
        /\ DOMAIN old = 1 .. Len(old) /\ Len(old) \in Nat
        /\ \A i \in ToSet(old) : i <= screen.cursor /\ i \in Nat
        /\ ToSet(new) \subseteq after
    <3>1. \A i \in ToSet(old) : i <= screen.cursor
      BY <1>b, <2>2 DEF CursorIsLast, ToSet
    <3> HIDE DEF old, new
    <3>2. /\ DOMAIN old = 1 .. Len(old) /\ Len(old) \in Nat
          /\ \A k \in 1 .. Len(old) : old[k] \in ToSet(old) /\ old[k] \in Nat
          /\ \A i \in ToSet(old) : i \in Nat
      BY <2>b DEF ToSet
    <3>3. /\ DOMAIN new = 1 .. Len(new) /\ Len(new) \in Nat
          /\ \A k \in 1 .. Len(new) : new[k] \in after /\ new[k] \in Nat
          /\ ToSet(new) \subseteq after
      <4>1. DOMAIN new = 1 .. Len(new) /\ Len(new) \in Nat
            /\ \A k \in 1 .. Len(new) : new[k] \in after
        BY <2>5
      <4> QED BY <2>3, <4>1 DEF ToSet
    <3> QED BY <3>1, <3>2, <3>3
  <2> DEFINE held == old \o new
  <2>8. /\ DOMAIN held = 1 .. Len(old) + Len(new)
        /\ \A k \in 1 .. Len(old) : held[k] = old[k]
        /\ \A k \in DOMAIN held : \/ k \in 1 .. Len(old)
                                  \/ k - Len(old) \in 1 .. Len(new) /\ held[k] = new[k - Len(old)]
    <3>1. Joins(held, old, new, Nat)
      <4>1. old \in Seq(Nat)
        BY <2>b, SeqWidens
      <4> QED BY <2>b, <4>1 DEF Joins
    <3> HIDE DEF old, new, held
    <3> QED BY <3>1, ConcatIs
  <2>9. ToSet(held) = ToSet(old) \union ToSet(new)
    <3>1. Joins(held, old, new, Nat)
      <4>1. old \in Seq(Nat)
        BY <2>b, SeqWidens
      <4> QED BY <2>b, <4>1 DEF Joins
    <3> HIDE DEF old, new, held
    <3> QED BY <3>1, ConcatIs
  <2> DEFINE Increasing(s) == \A i, j \in DOMAIN s : i < j => s[i] < s[j]
  <2>10. Increasing(held)
    <3>1. Increasing(old) /\ Increasing(new)
      BY <1>b, <2>5 DEF CursorIsLast, ReadOnce
    <3>2. screen.cursor \in Nat
      BY <1>b
    <3> HIDE DEF Increasing, held, old, new
    <3> DEFINE n == Len(old)
    <3>3. /\ n \in Nat /\ Len(new) \in Nat
          /\ DOMAIN old = 1 .. n /\ DOMAIN new = 1 .. Len(new) /\ DOMAIN held = 1 .. n + Len(new)
          /\ \A k \in 1 .. n : held[k] = old[k]
          /\ \A k \in DOMAIN held : \/ k \in 1 .. n
                                    \/ k - n \in 1 .. Len(new) /\ held[k] = new[k - n]
      BY <2>7, <2>8 DEF held
    <3> HIDE DEF n
    <3> SUFFICES ASSUME NEW i \in DOMAIN held, NEW j \in DOMAIN held, i < j
                 PROVE  held[i] < held[j]
      BY DEF Increasing
    <3>4. i \in Nat /\ j \in Nat
      BY <3>3
    <3>5. CASE i \in 1 .. n /\ j \in 1 .. n
      BY <3>1, <3>3, <3>5 DEF Increasing
    <3>6. CASE i \in 1 .. n /\ j \notin 1 .. n
      <4>1. j - n \in 1 .. Len(new) /\ held[j] = new[j - n] /\ held[i] = old[i]
        BY <3>3, <3>6
      <4>2. old[i] \in Nat /\ old[i] <= screen.cursor
        BY <2>7, <3>6 DEF n
      <4>3. new[j - n] \in Nat /\ new[j - n] > screen.cursor
        BY <2>3, <2>7, <4>1
      <4> QED BY <3>2, <4>1, <4>2, <4>3
    <3>7. CASE i \notin 1 .. n
      <4>1. j \notin 1 .. n /\ i - n < j - n
        BY <3>3, <3>4, <3>7
      <4>2. /\ i - n \in 1 .. Len(new) /\ held[i] = new[i - n]
            /\ j - n \in 1 .. Len(new) /\ held[j] = new[j - n]
        BY <3>3, <3>7, <4>1
      <4> QED BY <3>1, <3>3, <4>1, <4>2 DEF Increasing
    <3> QED BY <3>5, <3>6, <3>7
  <2> HIDE DEF held
  <2>11. CursorIsLast'
    <3>1. ReadOnce'
      BY <2>6, <2>10 DEF ReadOnce, held
    <3>2. page.next # 0 => \A i \in ToSet(held) : i <= page.next
      <4> SUFFICES ASSUME page.next # 0, NEW i \in ToSet(held) PROVE i <= page.next
        OBVIOUS
      <4>1. CASE i \in ToSet(new)
        BY <2>5, <4>1
      <4>2. CASE i \in ToSet(old)
        <5>1. page.next \in after
          BY <2>5, <2>7
        <5>2. i <= screen.cursor /\ page.next > screen.cursor /\ i \in Nat
          BY <2>3, <2>7, <4>2, <5>1
        <5> QED BY <1>b, <2>5, <5>2
      <4> QED BY <2>9, <4>1, <4>2
    <3>4. screen.tab = "pdus" => page.next <= Len(stored)
      <4>1. page.next # 0 => page.next \in after
        BY <2>5, <2>7
      <4> QED BY <1>b, <2>3, <2>5, <4>1
    <3> QED BY <2>1, <2>2, <2>6, <3>1, <3>2, <3>4 DEF CursorIsLast, held
  <2>12. ASSUME NEW i \in Selected(screen.tab, screen.filtered), ShownOrAhead(i), i \in Nat
         PROVE  ShownOrAhead(i)'
    <3>1. CASE i \in ToSet(old)
      BY <2>1, <2>6, <2>9, <3>1 DEF ShownOrAhead, held
    <3>2. CASE i > screen.cursor
      <4>1. i \in after
        BY <2>3, <3>2
      <4>2. i \in ToSet(new) \/ (page.next # 0 /\ i > page.next)
        BY <2>5, <2>12, <4>1
      <4> QED BY <2>1, <2>6, <2>9, <4>2 DEF ShownOrAhead, held
    <3> QED BY <2>12, <2>b, <3>1, <3>2 DEF ShownOrAhead
  <2>13. PdusAreOwed'
    <3> SUFFICES ASSUME screen.tab = "pdus"
                 PROVE  /\ owed \subseteq ToSet(stored)
                        /\ \A i \in DOMAIN stored : stored[i] \in owed => ShownOrAhead(i)'
      BY <2>1, <2>2, <2>6 DEF PdusAreOwed
    <3>1. owed \subseteq ToSet(stored)
      BY <2>2 DEF PdusAreOwed
    <3>2. ASSUME NEW i \in DOMAIN stored, stored[i] \in owed PROVE ShownOrAhead(i)'
      <4>1. ShownOrAhead(i) /\ i \in Selected(screen.tab, screen.filtered) /\ i \in Nat
        BY <1>b, <3>2 DEF PdusAreOwed, Selected
      <4> QED BY <2>12, <4>1
    <3> QED BY <3>1, <3>2
  <2>14. MessagesAreOwed'
    <3> SUFFICES ASSUME screen.tab = "messages", NEW i \in owed
                 PROVE  i \in DOMAIN messages /\ (screen.filtered => messages[i]) /\ ShownOrAhead(i)'
      BY <2>1, <2>6 DEF MessagesAreOwed
    <3>1. i \in DOMAIN messages /\ (screen.filtered => messages[i]) /\ ShownOrAhead(i)
      BY DEF MessagesAreOwed
    <3>2. i \in Selected(screen.tab, screen.filtered) /\ i \in Nat
      BY <1>b, <3>1 DEF Selected
    <3> QED BY <2>12, <3>1, <3>2
  <2> QED BY <2>11, <2>13, <2>14
<1>11. CASE UNCHANGED vars
  BY <1>11, <1>c DEF vars
<1> QED
  BY <1>1, <1>2, <1>3, <1>4, <1>5, <1>6, <1>7, <1>8, <1>9, <1>10, <1>11 DEF LogsNext

\* A step keeps a traversal, starts one over or spoils it.
LEMMA TraversalStep ==
  ASSUME OnceInv, OnceInv', TraversalInv, [LogsNext]_vars PROVE TraversalInv'
<1> USE DEF OnceInv
<1>1. CASE Operate
  <2>1. UNCHANGED <<stored, messages>>
    BY <1>1 DEF Operate, recorder
  <2>2. task \in [Binds \union Callers -> Hands]
    BY DEF LogsType
  <2> QED BY <1>1, <2>1, <2>2, OperateReloads, ReloadStarts
<1>2. CASE Switched
  <2> DEFINE tasks == [task EXCEPT !["switch"] = Idle]
  <2>1. /\ tasks \in [Binds \union Callers -> Hands] /\ tasks["screen"] = task["screen"]
        /\ screen \in LogScreens
    BY DEF LogsType, Callers, Hands, Idle, At
  <2> HIDE DEF tasks
  <2>2. UNCHANGED <<stored, messages>>
        /\ ((task' = tasks /\ UNCHANGED <<reading, owed>>) \/ ReloadLog(screen, tasks))
    BY <1>2 DEF Switched, recorder, tasks
  <2>3. CASE task' = tasks /\ UNCHANGED <<reading, owed>>
    BY <2>1, <2>2, <2>3, TraversalStutters
  <2> QED BY <2>1, <2>2, <2>3, ReloadStarts
<1>3. CASE ~Operate /\ ~Switched
  <2>1. CASE course # "crossed"
    BY <1>3, <2>1, TraversalKept DEF TraversalInv
  <2>2. CASE course = "crossed"
    <3>1. course' = course
      BY <1>3, <2>2 DEF LogsNext, Saw, Drain, Buffer, Flush, Write, Switch, Journalled, More, Answered,
                        Unanswered, vars, reading
    <3> QED BY <2>2, <3>1 DEF TraversalInv
  <2> QED BY <2>1, <2>2
<1> QED BY <1>1, <1>2, <1>3

LogsInv == OnceInv /\ TraversalInv

\* The log starts empty, as its invariant says.
LEMMA LogsStart == LogsInit => LogsInv
<1> SUFFICES ASSUME LogsInit PROVE LogsInv
  OBVIOUS
<1>1. LogsType /\ HandsAreEmpty
  <2>1. NoRows \in [Tabs -> Seq(Nat \ {0})]
    BY DEF NoRows
  <2>2. Closed \in LogScreens
    BY <2>1 DEF Closed, LogScreens, Tabs
  <2>3. LogRequest(Closed, FALSE) \in LogRequests
    BY DEF Closed, LogRequest, LogRequests, Tabs
  <2>4. screen \in LogScreens /\ fetch \in LogRequests /\ course \in Courses
    BY <2>2, <2>3 DEF LogsInit, Courses
  <2>5. Idle \in Hands /\ Idle.entries = <<>>
    BY DEF Idle, At, Hands
  <2>6. /\ task \in [Binds \union Callers -> Hands]
        /\ \A t \in Binds \union Callers : task[t].entries = <<>>
    BY <2>5 DEF LogsInit
  <2>7. /\ seen \in [Binds -> Nat] /\ unrecorded \in [Binds -> SUBSET Nat]
        /\ inbox \in [Binds -> Seq(PduEntries)] /\ pending \in Seq(PduEntries)
        /\ stored \in Seq(PduEntries) /\ messages \in Seq(BOOLEAN)
    BY DEF LogsInit
  <2> QED BY <2>4, <2>6, <2>7 DEF LogsType, HandsAreEmpty
<1>2. Holds(Contents, inbox, task, pending, stored)
  BY <1>1, ContentsHold
<1>3. ASSUME NEW x \in Spots PROVE Contents[x] = <<>>
  BY <1>2, ZenonT(40) DEF Holds, LogsInit, Idle, At
<1>4. DOMAIN Contents = Spots
  BY <1>2 DEF Holds
<1>5. HeldIn(Contents) = {} /\ OnceIn(Contents)
  BY <1>3, <1>4 DEF HeldIn, OnceIn, ToSet
<1>6. ASSUME NEW b \in Binds PROVE seen[b] = 0 /\ unrecorded[b] = {}
  BY DEF LogsInit
<1>7. RecordedOnce /\ HeldWasSeen
  BY <1>5, <1>6 DEF RecordedOnce, HeldWasSeen
<1>8. TraversalInv
  BY DEF LogsInit, Closed, Loading, Idle, At, TraversalInv, Traversal, CursorIsLast, PdusAreOwed,
         MessagesAreOwed, ReadOnce, Callers
<1> QED BY <1>1, <1>7, <1>8 DEF LogsInv, OnceInv

\* Every step of the log and of its screen keeps the invariant.
LEMMA LogsStep == LogsInv /\ [LogsNext]_vars => LogsInv'
BY LogsOnceStep, TraversalStep DEF LogsInv

\* The invariant of the log says what its screen promises.
LEMMA LogsSafe == LogsInv => LogIsWhole
<1> SUFFICES ASSUME LogsInv PROVE LogIsWhole
  OBVIOUS
<1> USE DEF LogsInv, OnceInv, TraversalInv
<1>1. RecordedOnce /\ ReadOnce
  BY DEF Traversal, CursorIsLast, ReadOnce
<1> SUFFICES ASSUME course = "through", screen.exhausted
             PROVE  owed \subseteq (IF screen.tab = "pdus" THEN {stored[i] : i \in ToSet(OnScreen)}
                                    ELSE ToSet(OnScreen))
  BY <1>1 DEF LogIsWhole, NoneMissed
<1>0. Traversal /\ InHand = {}
  BY DEF Traversal, CursorIsLast, InHand, Loading, Idle, At
<1>2. ASSUME screen.tab = "pdus", NEW e \in owed
      PROVE  e \in {stored[i] : i \in ToSet(OnScreen)}
  <2>1. PICK i \in DOMAIN stored : stored[i] = e
    BY <1>0, <1>2 DEF Traversal, PdusAreOwed, ToSet
  <2>2. i \in ToSet(OnScreen)
    BY <1>0, <1>2, <2>1 DEF Traversal, PdusAreOwed, ShownOrAhead
  <2> QED BY <2>1, <2>2
<1>3. ASSUME screen.tab # "pdus", NEW i \in owed PROVE i \in ToSet(OnScreen)
  <2>1. screen.tab = "messages"
    BY <1>3 DEF LogsType, LogScreens, Tabs
  <2> QED BY <1>0, <1>3, <2>1 DEF Traversal, MessagesAreOwed, ShownOrAhead
<1> QED BY <1>2, <1>3

-----------------------------------------------------------------------------
(* Selections.                                                              *)

\* The least of a set of rows that has one.
LEMMA LeastOf ==
  ASSUME NEW S \in SUBSET Nat, IsFiniteSet(S), S # {}
  PROVE  \E m \in S : \A i \in S : m <= i
<1>1. Cardinality(S) \in Nat /\ Cardinality(S) # 0
  BY FS_CardinalityType, FS_EmptySet
<1>2. 0 \in 0 .. Cardinality(S) - 1
  BY <1>1
<1>3. PICK m \in S : Cardinality(Before(S, m)) = 0
  BY <1>2, RanksAreDistinct
<1>4. ASSUME NEW i \in S PROVE m <= i
  <2>1. Cardinality(Before(S, i)) \in Nat /\ m \in Nat /\ i \in Nat
    BY RanksAreDistinct
  <2>2. i < m => Cardinality(Before(S, i)) < Cardinality(Before(S, m))
    BY RanksAreDistinct
  <2> QED BY <1>3, <2>1, <2>2
<1> QED BY <1>4

\* Each list is kept once.
LEMMA OnceIsTheSet ==
  ASSUME NEW s \in Seq(BookLists)
  PROVE  /\ ToSet(Once(s)) = ToSet(s) /\ IsFiniteSet(ToSet(s))
         /\ Len(Once(s)) = Cardinality(ToSet(s))
         /\ Once(s) = <<>> <=> ToSet(s) = {}
<1> DEFINE F == {i \in DOMAIN s : \A j \in 1 .. i - 1 : s[j] # s[i]}
           first == ById(F)
<1>1. DOMAIN s = 1 .. Len(s) /\ Len(s) \in Nat
  OBVIOUS
<1>2. F \in SUBSET Nat /\ IsFiniteSet(F) /\ F \subseteq DOMAIN s
  <2>1. F \subseteq 1 .. Len(s)
    BY <1>1
  <2>2. IsFiniteSet(1 .. Len(s))
    BY <1>1, FS_Interval
  <2> QED BY <1>1, <2>1, <2>2, FS_Subset
<1>3. \A i, j \in F : s[i] = s[j] => i = j
  <2> SUFFICES ASSUME NEW i \in F, NEW j \in F, s[i] = s[j] PROVE i = j
    OBVIOUS
  <2>1. i \in 1 .. Len(s) /\ j \in 1 .. Len(s)
    BY <1>1
  <2>2. i < j => i \in 1 .. j - 1
    BY <1>1, <2>1
  <2>3. j < i => j \in 1 .. i - 1
    BY <1>1, <2>1
  <2>4. ~(i < j) /\ ~(j < i)
    BY <2>2, <2>3
  <2> QED BY <1>1, <2>1, <2>4
<1>4. ASSUME NEW e \in ToSet(s) PROVE \E i \in F : s[i] = e
  <2> DEFINE S == {i \in DOMAIN s : s[i] = e}
  <2>1. S \in SUBSET Nat /\ IsFiniteSet(S) /\ S # {}
    <3>1. S \subseteq 1 .. Len(s)
      BY <1>1
    <3>2. IsFiniteSet(1 .. Len(s))
      BY <1>1, FS_Interval
    <3>3. S # {}
      BY <1>4 DEF ToSet
    <3> QED BY <1>1, <3>1, <3>2, <3>3, FS_Subset
  <2> HIDE DEF S
  <2>2. PICK m \in S : \A i \in S : m <= i
    BY <2>1, LeastOf
  <2>3. m \in 1 .. Len(s) /\ s[m] = e
    BY <1>1, <2>2 DEF S
  <2>4. ASSUME NEW j \in 1 .. m - 1 PROVE s[j] # s[m]
    <3>1. j \in 1 .. Len(s) /\ j < m
      BY <1>1, <2>3, <2>4
    <3>2. s[j] = e => j \in S
      BY <1>1, <3>1 DEF S
    <3>3. j \in S => m <= j
      BY <2>2
    <3> QED BY <2>3, <3>1, <3>2, <3>3
  <2>5. m \in F
    BY <1>1, <2>3, <2>4
  <2> QED BY <2>3, <2>5
<1>5. Once(s) = [k \in DOMAIN first |-> s[first[k]]]
  BY DEF Once, Picked
<1> HIDE DEF F
<1>6. /\ DOMAIN first = 1 .. Cardinality(F) /\ Cardinality(F) \in Nat
      /\ ToSet(first) = F
  BY <1>2, ByIdIsTheSet
<1> HIDE DEF first
<1>7. \A k \in DOMAIN first : first[k] \in F
  BY <1>6 DEF ToSet
<1>8. \A i \in F : \E k \in DOMAIN first : first[k] = i
  BY <1>6 DEF ToSet
<1>9. DOMAIN Once(s) = 1 .. Cardinality(F) /\ \A k \in DOMAIN first : Once(s)[k] = s[first[k]]
  BY <1>5, <1>6
<1>10. ToSet(Once(s)) = ToSet(s)
  <2>1. ASSUME NEW e \in ToSet(Once(s)) PROVE e \in ToSet(s)
    <3>1. PICK k \in DOMAIN first : Once(s)[k] = e
      BY <1>6, <1>9, <2>1 DEF ToSet
    <3>2. first[k] \in DOMAIN s /\ s[first[k]] = e
      BY <1>2, <1>7, <1>9, <3>1
    <3> QED BY <3>2 DEF ToSet
  <2>2. ASSUME NEW e \in ToSet(s) PROVE e \in ToSet(Once(s))
    <3>1. PICK i \in F : s[i] = e
      BY <1>4, <2>2
    <3>2. PICK k \in DOMAIN first : first[k] = i
      BY <1>8
    <3> QED BY <1>6, <1>9, <3>1, <3>2 DEF ToSet
  <2> QED BY <2>1, <2>2
<1>11. Cardinality(ToSet(s)) = Cardinality(F) /\ IsFiniteSet(ToSet(s))
  <2> DEFINE f == [i \in F |-> s[i]]
  <2>1. \A i \in F : s[i] \in ToSet(s)
    BY <1>2 DEF ToSet
  <2>2. f \in Bijection(F, ToSet(s))
    BY <1>3, <1>4, <2>1 DEF Bijection, Injection, Surjection, IsInjective
  <2> HIDE DEF f
  <2> QED BY <1>2, <2>2, FS_Bijection DEF ExistsBijection
<1>12. Len(Once(s)) = Cardinality(F)
  BY <1>5, <1>6
<1>13. Once(s) = <<>> <=> Cardinality(F) = 0
  <2>1. Cardinality(F) = 0 => Once(s) = <<>>
    BY <1>5, <1>6
  <2> QED BY <1>12, <2>1
<1>14. Cardinality(ToSet(s)) = 0 <=> ToSet(s) = {}
  BY <1>11, FS_EmptySet
<1> QED BY <1>10, <1>11, <1>12, <1>13, <1>14

Contact == [found : BOOLEAN, lists : SUBSET (BookLists \union {NoList})]

\* What a query spans is what its selection means.
LEMMA SpannedIsMeant ==
  ASSUME NEW input \in Selections, contacts \in Seq(Contact)
  PROVE  Spanned(Parsed(input)) = Meant(input)
<1> DEFINE s == Parsed(input)
           wanted == ToSet(input.lists)
<1>0. /\ input.combination \in {"everything", "union", "intersection"}
      /\ input.lists \in Seq(BookLists) /\ input.excluded \in Seq(BookLists)
  BY BookAssumption
<1>1. /\ s.combination = input.combination /\ s.excluded = Once(input.excluded)
      /\ s.lists = IF input.combination = "everything" THEN <<>> ELSE Once(input.lists)
  BY DEF Parsed, ListSelection
<1>2. /\ ToSet(s.excluded) = ToSet(input.excluded)
      /\ ToSet(Once(input.lists)) = wanted /\ Len(Once(input.lists)) = Cardinality(wanted)
      /\ Once(input.lists) = <<>> <=> wanted = {}
      /\ IsFiniteSet(wanted)
  BY <1>0, <1>1, OnceIsTheSet
<1> HIDE DEF s, wanted
<1>3. ASSUME NEW c \in DOMAIN contacts
      PROVE  c \in Spanned(s) <=> c \in Meant(input)
  <2> DEFINE held == contacts[c].lists
  <2>1. CASE input.combination = "everything"
    BY <1>1, <1>2, <2>1 DEF Spanned, Meant, SelectsNothing, Matches
  <2>2. CASE input.combination = "union"
    <3>1. HeldBy(s, c) = held \intersect wanted
      BY <1>1, <1>2, <2>2 DEF HeldBy
    <3>2. SelectsNothing(s) <=> wanted = {}
      BY <1>1, <1>2, <2>2 DEF SelectsNothing
    <3> QED BY <1>1, <1>2, <2>2, <3>1, <3>2 DEF Spanned, Meant, Matches, wanted
  <2>3. CASE input.combination = "intersection"
    <3>1. HeldBy(s, c) = held \intersect wanted
      BY <1>1, <1>2, <2>3 DEF HeldBy
    <3>2. SelectsNothing(s) <=> wanted = {}
      BY <1>1, <1>2, <2>3 DEF SelectsNothing
    <3>3. Cardinality(held \intersect wanted) = Cardinality(wanted) <=> wanted \subseteq held
      <4>1. held \intersect wanted \in SUBSET wanted
        OBVIOUS
      <4>2. Cardinality(held \intersect wanted) = Cardinality(wanted)
              => held \intersect wanted = wanted
        <5> DEFINE T == held \intersect wanted
        <5>1. T \in SUBSET wanted /\ IsFiniteSet(wanted)
          BY <1>2, <4>1
        <5> HIDE DEF T
        <5>2. Cardinality(T) = Cardinality(wanted) => T = wanted
          BY <5>1, FS_Subset
        <5> QED BY <5>2 DEF T
      <4>3. wanted \subseteq held => held \intersect wanted = wanted
        OBVIOUS
      <4> QED BY <4>2, <4>3
    <3>4. Matches(s, c) <=> wanted \subseteq held /\ held \intersect ToSet(input.excluded) = {}
      BY <1>1, <1>2, <2>3, <3>1, <3>3 DEF Matches
    <3>5. c \in Meant(input) <=> /\ wanted # {} /\ wanted \subseteq held
                                 /\ ToSet(input.excluded) \intersect held = {}
      BY <2>3 DEF Meant, wanted
    <3>6. c \in Spanned(s) <=> ~SelectsNothing(s) /\ Matches(s, c)
      BY DEF Spanned
    <3> QED BY <3>2, <3>4, <3>5, <3>6
  <2> QED BY <1>0, <2>1, <2>2, <2>3
<1>4. Spanned(s) \subseteq DOMAIN contacts /\ Meant(input) \subseteq DOMAIN contacts
  BY DEF Spanned, Meant
<1> QED BY <1>3, <1>4 DEF s

-----------------------------------------------------------------------------
(* The table and its requests.                                              *)

BookRows == Seq(Nat \ {0})
Tables ==
  [rows : BookRows, total : Nat, cursor : Nat, loading : BOOLEAN, complete : BOOLEAN,
   generation : Nat, selection : Selections, search : BOOLEAN]
Asks ==
  [kind : {"replace", "append"}, generation : Nat, selection : Selections, search : BOOLEAN,
   cursor : Nat, step : {"page", "count"}, rows : BookRows, next : Nat]

BookType ==
  /\ contacts \in Seq(Contact)
  /\ loader \in [step : {"idle", "running", "joining"}, list : BookLists \union {NoList},
                 fresh : SUBSET Nat, runs : Nat]
  /\ table \in Tables /\ asked \in SUBSET Asks

Ascending(s) == \A i, j \in DOMAIN s : i < j => s[i] < s[j]

\* What is sought after a cursor, and not after the next.
Between(cursor, next) == {c \in Sought : c > cursor /\ (next # Top => c <= next)}

\* The rows are in order, end at the cursor, and are sought; all of them are
\* there when no import has left the table behind the book.
RowsAreRead ==
  /\ Ascending(table.rows)
  /\ table.cursor # Top => \A c \in ToSet(table.rows) : c <= table.cursor
  /\ table.selection.excluded = <<>> => ToSet(table.rows) \subseteq Sought
  /\ loader.step = "idle" =>
       /\ table.cursor # Top => ToSet(table.rows) = Between(Top, table.cursor)
       /\ table.complete => /\ ToSet(table.rows) = Sought
                            /\ table.total = Cardinality(Meant(table.selection))

\* A request of this query asks for what the table shows, and has read it.
AsksForTheTable(r) ==
  /\ r.selection = table.selection /\ r.search = table.search
  /\ \/ r.kind = "replace" /\ r.cursor = Top
     \/ r.kind = "append" /\ r.cursor = table.cursor /\ table.cursor # Top
  /\ r.step = "count" =>
       /\ Ascending(r.rows)
       /\ \A c \in ToSet(r.rows) : c > r.cursor /\ (r.next # Top => c <= r.next)
       /\ r.next # Top => r.next \in ToSet(r.rows)
       /\ r.selection.excluded = <<>> => ToSet(r.rows) \subseteq Sought
       /\ loader.step = "idle" => ToSet(r.rows) = Between(r.cursor, r.next)

AskedOnce ==
  /\ \A r \in asked : r.generation <= table.generation
  /\ \A r, s \in asked : OfThisQuery(r) /\ OfThisQuery(s) => r = s
  /\ \A r \in asked : OfThisQuery(r) => AsksForTheTable(r)

BookInv == BookType /\ WaitsForItsQuery /\ AskedOnce /\ RowsAreRead

\* A table field by field.
LEMMA TableIs ==
  ASSUME NEW t \in Tables
  PROVE  /\ t.rows \in BookRows /\ t.total \in Nat /\ t.cursor \in Nat /\ t.loading \in BOOLEAN
         /\ t.complete \in BOOLEAN /\ t.generation \in Nat /\ t.selection \in Selections
         /\ t.search \in BOOLEAN
         /\ t = [rows |-> t.rows, total |-> t.total, cursor |-> t.cursor, loading |-> t.loading,
                 complete |-> t.complete, generation |-> t.generation,
                 selection |-> t.selection, search |-> t.search]
BY DEF Tables

\* One that starts again, of a selection and a search.
LEMMA EmptiedIs ==
  ASSUME NEW t \in Tables, NEW s \in Selections, NEW search \in BOOLEAN,
         NEW u, u \in {Emptied(t), [Emptied(t) EXCEPT !.selection = s],
                       [Emptied(t) EXCEPT !.search = search]}
  PROVE  u \in Tables /\ u.generation = t.generation /\ u.rows = <<>> /\ u.cursor = Top
         /\ ~u.complete
<1>0. <<>> \in BookRows
  BY DEF BookRows
<1>1. PICK nil \in BookRows : nil = <<>>
  BY <1>0
<1>2. PICK a : a = [t EXCEPT !.rows = nil]
  OBVIOUS
<1>3. a \in Tables /\ a.rows = nil /\ a.generation = t.generation
  BY <1>2 DEF Tables
<1>4. PICK b : b = [a EXCEPT !.cursor = Top]
  OBVIOUS
<1>5. b \in Tables /\ b.rows = nil /\ b.generation = t.generation /\ b.cursor = Top
  BY <1>3, <1>4 DEF Tables, Top
<1>6. PICK e : e = [b EXCEPT !.complete = FALSE]
  OBVIOUS
<1>7. e \in Tables /\ e.rows = nil /\ e.generation = t.generation /\ e.cursor = Top /\ ~e.complete
  BY <1>5, <1>6 DEF Tables
<1>8. Emptied(t) = e
  BY <1>1, <1>2, <1>4, <1>6 DEF Emptied
<1>9. u = e \/ u = [e EXCEPT !.selection = s] \/ u = [e EXCEPT !.search = search]
  BY <1>8
<1>10. [e EXCEPT !.selection = s] \in Tables /\ [e EXCEPT !.search = search] \in Tables
  BY <1>7 DEF Tables
<1>11. u \in Tables /\ u.rows = e.rows /\ u.generation = e.generation /\ u.cursor = e.cursor
       /\ u.complete = e.complete
  BY <1>7, <1>9, <1>10 DEF Tables
<1> QED BY <1>1, <1>7, <1>11

\* A query that supersedes the others.
LEMMA ReloadKeeps ==
  ASSUME BookInv, NEW t \in Tables, Reloaded(t), UNCHANGED contacts,
         t.generation = table.generation,
         loader' \in [step : {"idle", "running", "joining"}, list : BookLists \union {NoList},
                      fresh : SUBSET Nat, runs : Nat],
         \/ t = table /\ loader' = loader
         \/ t.rows = <<>> /\ t.cursor = Top /\ ~t.complete
  PROVE  BookInv'
<1> DEFINE now == [t EXCEPT !.loading = TRUE, !.generation = @ + 1]
           r == Request(now, Top, "replace")
<1>1. table' = now /\ asked' = asked \union {r}
  BY DEF Reloaded
<1>2. /\ now \in Tables /\ now.loading /\ now.generation = table.generation + 1
      /\ now.rows = t.rows /\ now.cursor = t.cursor /\ now.complete = t.complete
      /\ now.total = t.total /\ now.selection = t.selection /\ now.search = t.search
  <2>1. t.generation + 1 \in Nat
    BY TableIs
  <2>2. PICK a : a = [t EXCEPT !.loading = TRUE]
    OBVIOUS
  <2>3. a \in Tables /\ a.loading /\ a.rows = t.rows /\ a.cursor = t.cursor
        /\ a.complete = t.complete /\ a.total = t.total /\ a.selection = t.selection
        /\ a.search = t.search /\ a.generation = t.generation
    BY <2>2 DEF Tables
  <2>4. now = [a EXCEPT !.generation = t.generation + 1]
    BY <2>2
  <2> HIDE DEF now
  <2> QED BY <2>1, <2>3, <2>4 DEF Tables
<1>3. /\ r \in Asks /\ r.generation = now.generation /\ r.step = "page"
      /\ r.selection = now.selection /\ r.search = now.search
      /\ r.kind = "replace" /\ r.cursor = Top
  BY <1>2 DEF Request, Asks, Tables, BookRows, Top
<1> HIDE DEF now, r
<1>4. table.generation \in Nat
  BY DEF BookInv, BookType, Tables
<1>5. ASSUME NEW s \in asked PROVE ~OfThisQuery(s)' /\ s.generation <= table'.generation
  <2>1. s.generation <= table.generation /\ s.generation \in Nat
    BY DEF BookInv, AskedOnce, BookType, Asks
  <2> QED BY <1>1, <1>2, <1>4, <2>1 DEF OfThisQuery
<1>6. OfThisQuery(r)' /\ r.generation <= table'.generation
  BY <1>1, <1>2, <1>3, <1>4 DEF OfThisQuery
<1>7. AsksForTheTable(r)'
  BY <1>1, <1>3 DEF AsksForTheTable
<1>8. WaitsForItsQuery' /\ AskedOnce'
  <2>1. WaitsForItsQuery'
    BY <1>1, <1>2, <1>6 DEF WaitsForItsQuery
  <2>2. \A s \in asked' : s.generation <= table'.generation
    BY <1>1, <1>5, <1>6
  <2>3. \A s \in asked' : OfThisQuery(s)' => s = r
    BY <1>1, <1>5
  <2> QED BY <1>7, <2>1, <2>2, <2>3 DEF AskedOnce
<1>9. BookType'
  BY <1>1, <1>2, <1>3 DEF BookInv, BookType
<1>10. RowsAreRead'
  <2>1. CASE t = table /\ loader' = loader
    <3>1. /\ table'.rows = table.rows /\ table'.cursor = table.cursor
          /\ table'.selection = table.selection /\ table'.search = table.search
          /\ table'.complete = table.complete /\ table'.total = table.total
      BY <1>1, <1>2, <2>1
    <3>2. Sought' = Sought /\ Meant(table.selection)' = Meant(table.selection)
      BY <3>1 DEF Sought, Meant
    <3>3. Between(Top, table.cursor)' = Between(Top, table.cursor)
      BY <3>1, <3>2 DEF Between
    <3>4. RowsAreRead
      BY DEF BookInv
    <3> QED BY <2>1, <3>1, <3>2, <3>3, <3>4 DEF RowsAreRead
  <2>2. CASE t.rows = <<>> /\ t.cursor = Top /\ ~t.complete
    <3>1. table'.rows = <<>> /\ table'.cursor = Top /\ ~table'.complete
      BY <1>1, <1>2, <2>2
    <3>2. ToSet(<<>>) = {} /\ Ascending(<<>>)
      BY DEF ToSet, Ascending
    <3> QED BY <3>1, <3>2 DEF RowsAreRead
  <2> QED BY <2>1, <2>2
<1> QED BY <1>8, <1>9, <1>10 DEF BookInv

\* A request changes, and what else there is does not.
LEMMA SameTable ==
  ASSUME UNCHANGED <<contacts, loader, table>>
  PROVE  /\ RowsAreRead => RowsAreRead'
         /\ \A r : AsksForTheTable(r)' = AsksForTheTable(r)
         /\ \A r : OfThisQuery(r)' = OfThisQuery(r)
         /\ Sought' = Sought
BY ZenonT(40) DEF RowsAreRead, AsksForTheTable, OfThisQuery, Sought, Meant, Between

\* Every step of the book and of its screen keeps the invariant.
LEMMA BookStep == ASSUME BookInv, [BookNext]_bookVars PROVE BookInv'
<1>0. /\ contacts \in Seq(Contact) /\ Len(contacts) \in Nat
      /\ DOMAIN contacts = 1 .. Len(contacts)
      /\ loader \in [step : {"idle", "running", "joining"}, list : BookLists \union {NoList},
                     fresh : SUBSET Nat, runs : Nat]
      /\ table \in Tables /\ asked \in SUBSET Asks
      /\ table.rows \in BookRows /\ table.cursor \in Nat /\ table.generation \in Nat
      /\ table.selection \in Selections /\ table.search \in BOOLEAN /\ table.total \in Nat
      /\ table.loading \in BOOLEAN
      /\ WaitsForItsQuery /\ AskedOnce /\ RowsAreRead
  BY DEF BookInv, BookType, Tables
<1>1. ASSUME OpenBook PROVE BookInv'
  BY <1>0, <1>1, ReloadKeeps DEF OpenBook
<1>2. ASSUME SetSelection PROVE BookInv'
  <2>1. PICK s \in Selections : Reloaded([Emptied(table) EXCEPT !.selection = s])
    BY <1>2 DEF SetSelection
  <2> DEFINE t == [Emptied(table) EXCEPT !.selection = s]
  <2>2. /\ t \in Tables /\ t.generation = table.generation
        /\ t.rows = <<>> /\ t.cursor = Top /\ ~t.complete
    <3>1. (~table.search) \in BOOLEAN
      OBVIOUS
    <3> QED BY <1>0, <3>1, EmptiedIs
  <2>3. Reloaded(t) /\ UNCHANGED <<contacts, loader>>
    BY <1>2, <2>1 DEF SetSelection
  <2> HIDE DEF t
  <2> QED BY <1>0, <2>2, <2>3, ReloadKeeps
<1>3. ASSUME SetSearch PROVE BookInv'
  <2> DEFINE t == [Emptied(table) EXCEPT !.search = ~@]
  <2>1. /\ t \in Tables /\ t.generation = table.generation
        /\ t.rows = <<>> /\ t.cursor = Top /\ ~t.complete
    <3>1. (~table.search) \in BOOLEAN
      OBVIOUS
    <3> QED BY <1>0, <3>1, EmptiedIs
  <2>2. Reloaded(t) /\ UNCHANGED <<contacts, loader>>
    BY <1>3 DEF SetSearch
  <2> HIDE DEF t
  <2> QED BY <1>0, <2>1, <2>2, ReloadKeeps
<1>4. ASSUME ImportReturns PROVE BookInv'
  <2> DEFINE t == Emptied(table)
  <2>1. /\ t \in Tables /\ t.generation = table.generation
        /\ t.rows = <<>> /\ t.cursor = Top /\ ~t.complete
    <3>1. (~table.search) \in BOOLEAN
      OBVIOUS
    <3> QED BY <1>0, <3>1, EmptiedIs
  <2>2. Reloaded(t) /\ UNCHANGED contacts
    BY <1>4 DEF ImportReturns, AfterImport
  <2>3. loader' \in [step : {"idle", "running", "joining"}, list : BookLists \union {NoList},
                     fresh : SUBSET Nat, runs : Nat]
    BY <1>0, <1>4 DEF ImportReturns
  <2> HIDE DEF t
  <2> QED BY <1>0, <2>1, <2>2, <2>3, ReloadKeeps
<1>5. ASSUME LoadMore PROVE BookInv'
  <2>0. PICK r : r = Request(table, table.cursor, "append")
    OBVIOUS
  <2>1. /\ ~table.loading /\ table.cursor # Top /\ UNCHANGED <<contacts, loader>>
        /\ table' = [table EXCEPT !.loading = TRUE] /\ asked' = asked \union {r}
    BY <1>5, <2>0 DEF LoadMore
  <2>2. /\ table' \in Tables /\ table'.loading /\ table'.rows = table.rows
        /\ table'.cursor = table.cursor /\ table'.complete = table.complete
        /\ table'.total = table.total /\ table'.generation = table.generation
        /\ table'.selection = table.selection /\ table'.search = table.search
    BY <1>0, <2>1 DEF Tables
  <2>3. /\ r \in Asks /\ r.generation = table.generation /\ r.step = "page"
        /\ r.selection = table.selection /\ r.search = table.search
        /\ r.kind = "append" /\ r.cursor = table.cursor
    BY <1>0, <2>0 DEF Request, Asks, BookRows, Top
  <2>4. \A s \in asked : ~OfThisQuery(s)
    BY <1>0, <2>1 DEF WaitsForItsQuery
  <2>5. \A s : OfThisQuery(s)' = OfThisQuery(s)
    BY <2>2 DEF OfThisQuery
  <2>6. AsksForTheTable(r)' /\ OfThisQuery(r)
    BY <2>1, <2>2, <2>3 DEF AsksForTheTable, OfThisQuery
  <2>7. WaitsForItsQuery' /\ AskedOnce'
    <3>1. WaitsForItsQuery'
      BY <2>1, <2>2, <2>5, <2>6 DEF WaitsForItsQuery
    <3>2. \A s \in asked' : s.generation <= table'.generation
      BY <1>0, <2>1, <2>2, <2>3 DEF AskedOnce
    <3>3. \A s \in asked' : OfThisQuery(s)' => s = r
      BY <2>1, <2>4, <2>5
    <3> QED BY <2>6, <3>1, <3>2, <3>3 DEF AskedOnce
  <2>8. RowsAreRead'
    <3>1. Sought' = Sought /\ Meant(table.selection)' = Meant(table.selection)
      BY <2>1, <2>2 DEF Sought, Meant
    <3>2. Between(Top, table.cursor)' = Between(Top, table.cursor)
      BY <2>2, <3>1 DEF Between
    <3> QED BY <1>0, <2>1, <2>2, <3>1, <3>2 DEF RowsAreRead
  <2>9. BookType'
    BY <1>0, <2>1, <2>2, <2>3 DEF BookType
  <2> QED BY <2>7, <2>8, <2>9 DEF BookInv
<1>6. ASSUME ReadPage PROVE BookInv'
  <2>1. PICK r \in asked :
          LET page == PageOf(Parsed(r.selection), r.search, r.cursor)
          IN  /\ r.step = "page" /\ OfThisQuery(r)
              /\ asked' = (asked \ {r})
                   \union {[r EXCEPT !.step = "count", !.rows = page.rows, !.next = page.next]}
              /\ UNCHANGED <<contacts, loader, table>>
    BY <1>6 DEF ReadPage
  <2> DEFINE page == PageOf(Parsed(r.selection), r.search, r.cursor)
             read == [r EXCEPT !.step = "count", !.rows = page.rows, !.next = page.next]
             ahead == {c \in Sought : c > r.cursor}
  <2>2. AsksForTheTable(r) /\ r \in Asks /\ r.cursor \in Nat
    BY <1>0, <2>1 DEF AskedOnce, Asks
  <2>3. page = IntoPage(ahead, ContactRows)
    <3>1. Spanned(Parsed(r.selection)) = Meant(table.selection) /\ r.search = table.search
      BY <1>0, <2>2, SpannedIsMeant DEF AsksForTheTable
    <3>2. {c \in Spanned(Parsed(r.selection)) : c > r.cursor /\ (r.search => contacts[c].found)} = ahead
      BY <3>1 DEF Sought
    <3> QED BY <3>2 DEF PageOf
  <2>4. ahead \in SUBSET (Nat \ {0}) /\ IsFiniteSet(ahead)
    <3>1. ahead \subseteq 1 .. Len(contacts)
      BY <1>0 DEF Sought, Meant
    <3>2. IsFiniteSet(1 .. Len(contacts))
      BY <1>0, FS_Interval
    <3> QED BY <1>0, <3>1, <3>2, FS_Subset
  <2> HIDE DEF ahead, page
  <2>5. /\ page.rows \in Seq(ahead) /\ page.next \in Nat
        /\ \A k, m \in DOMAIN page.rows : k < m => page.rows[k] < page.rows[m]
        /\ page.next = 0 => ToSet(page.rows) = ahead
        /\ page.next # 0 => ToSet(page.rows) = {i \in ahead : i <= page.next}
        /\ page.next # 0 => page.next \in ToSet(page.rows)
    BY <2>3, <2>4, PageIsTheFirstRows, BookAssumption
  <2>6. /\ read \in Asks /\ read.generation = r.generation /\ read.selection = r.selection
        /\ read.search = r.search /\ read.kind = r.kind /\ read.cursor = r.cursor
        /\ read.rows = page.rows /\ read.next = page.next
    <3>1. page.rows \in BookRows
      BY <2>4, <2>5, SeqWidens DEF BookRows
    <3> QED BY <2>2, <2>5, <3>1 DEF Asks
  <2> HIDE DEF read
  <2>7. asked' = (asked \ {r}) \union {read} /\ UNCHANGED <<contacts, loader, table>>
    BY <2>1 DEF read, page
  <2>8. ToSet(page.rows) = Between(r.cursor, page.next)
    BY <2>5 DEF Between, ahead, Top
  <2>9. AsksForTheTable(read)
    <3>1. Ascending(page.rows)
      BY <2>5 DEF Ascending
    <3> QED BY <2>2, <2>5, <2>6, <2>8, <3>1 DEF AsksForTheTable, Between, Top
  <2>10. OfThisQuery(read)
    BY <2>1, <2>6 DEF OfThisQuery
  <2>11. \A s \in asked' : OfThisQuery(s) => s = read
    BY <1>0, <2>1, <2>7 DEF AskedOnce
  <2>12. WaitsForItsQuery'
    BY <1>0, <2>1, <2>7, <2>10, SameTable DEF WaitsForItsQuery
  <2>13. AskedOnce'
    <3>1. \A s \in asked' : s.generation <= table'.generation
      BY <1>0, <2>1, <2>6, <2>7 DEF AskedOnce
    <3> QED BY <2>7, <2>9, <2>11, <3>1, SameTable DEF AskedOnce
  <2>14. BookType'
    BY <1>0, <2>6, <2>7 DEF BookType
  <2> QED BY <1>0, <2>7, <2>12, <2>13, <2>14, SameTable DEF BookInv
<1>7. ASSUME Refuses PROVE BookInv'
  <2>1. PICK r \in asked :
          /\ asked' = asked \ {r} /\ UNCHANGED <<contacts, loader>>
          /\ table' = IF OfThisQuery(r) THEN [table EXCEPT !.loading = FALSE] ELSE table
    BY <1>7 DEF Refuses
  <2>2. /\ table' \in Tables /\ table'.rows = table.rows
        /\ table'.cursor = table.cursor /\ table'.complete = table.complete
        /\ table'.total = table.total /\ table'.generation = table.generation
        /\ table'.selection = table.selection /\ table'.search = table.search
        /\ table'.loading = IF OfThisQuery(r) THEN FALSE ELSE table.loading
    BY <1>0, <2>1 DEF Tables
  <2>3. \A s : OfThisQuery(s)' = OfThisQuery(s)
    BY <2>2 DEF OfThisQuery
  <2>4. Sought' = Sought /\ Meant(table.selection)' = Meant(table.selection)
    BY <2>1, <2>2 DEF Sought, Meant
  <2>5. \A m, n : Between(m, n)' = Between(m, n)
    BY <2>4 DEF Between
  <2>6. RowsAreRead'
    BY <1>0, <2>1, <2>2, <2>4, <2>5 DEF RowsAreRead
  <2>7. \A s : AsksForTheTable(s)' = AsksForTheTable(s)
    BY <2>1, <2>2, <2>4, <2>5 DEF AsksForTheTable
  <2>8. AskedOnce'
    BY <1>0, <2>1, <2>2, <2>3, <2>7 DEF AskedOnce
  <2>9. WaitsForItsQuery'
    BY <1>0, <2>1, <2>2, <2>3 DEF WaitsForItsQuery, AskedOnce
  <2>10. BookType'
    BY <1>0, <2>1, <2>2 DEF BookType
  <2> QED BY <2>6, <2>8, <2>9, <2>10 DEF BookInv
<1>8. ASSUME Arrives PROVE BookInv'
  <2>1. PICK r \in asked :
          /\ r.step = "count" \/ ~OfThisQuery(r)
          /\ asked' = asked \ {r}
          /\ table' = IF ~OfThisQuery(r) THEN table
                      ELSE [table EXCEPT !.rows = IF r.kind = "append" THEN @ \o r.rows ELSE r.rows,
                                         !.total = CountOf(Parsed(r.selection)), !.cursor = r.next,
                                         !.complete = r.next = Top, !.loading = FALSE]
          /\ UNCHANGED <<contacts, loader>>
    BY <1>8 DEF Arrives
  <2>2. CASE ~OfThisQuery(r)
    <3>1. UNCHANGED <<contacts, loader, table>> /\ asked' = asked \ {r}
      BY <2>1, <2>2
    <3>2. WaitsForItsQuery'
      BY <1>0, <2>2, <3>1, SameTable DEF WaitsForItsQuery
    <3>3. AskedOnce'
      BY <1>0, <3>1, SameTable DEF AskedOnce
    <3>4. BookType'
      BY <1>0, <3>1 DEF BookType
    <3> QED BY <1>0, <3>1, <3>2, <3>3, <3>4, SameTable DEF BookInv
  <2>3. CASE OfThisQuery(r)
    <3> DEFINE held == IF r.kind = "append" THEN table.rows \o r.rows ELSE r.rows
    <3>1. /\ AsksForTheTable(r) /\ r.step = "count" /\ r \in Asks
          /\ r.next \in Nat /\ r.cursor \in Nat /\ r.rows \in BookRows
      BY <1>0, <2>1, <2>3 DEF AskedOnce, Asks
    <3>2. CountOf(Parsed(r.selection)) = Cardinality(Meant(table.selection))
      BY <1>0, <3>1, SpannedIsMeant DEF AsksForTheTable, CountOf
    <3>3. Cardinality(Meant(table.selection)) \in Nat
      <4>1. Meant(table.selection) \subseteq 1 .. Len(contacts)
        BY <1>0 DEF Meant
      <4>2. IsFiniteSet(1 .. Len(contacts))
        BY <1>0, FS_Interval
      <4> QED BY <4>1, <4>2, FS_Subset, FS_CardinalityType
    <3>4. /\ held \in BookRows /\ Ascending(held)
          /\ r.next # Top => \A c \in ToSet(held) : c <= r.next
          /\ table.selection.excluded = <<>> => ToSet(held) \subseteq Sought
          /\ loader.step = "idle" =>
               ToSet(held) = Between(Top, r.next)
      <4>1. CASE r.kind = "replace"
        <5>1. held = r.rows /\ r.cursor = Top
          BY <3>1, <4>1 DEF AsksForTheTable
        <5> QED BY <3>1, <5>1 DEF AsksForTheTable
      <4>2. CASE r.kind = "append"
        <5>1. /\ r.cursor = table.cursor /\ table.cursor # Top /\ held = table.rows \o r.rows
              /\ r.selection = table.selection
          BY <3>1, <4>2 DEF AsksForTheTable
        <5>2. Joins(held, table.rows, r.rows, Nat \ {0})
          BY <1>0, <3>1, <5>1 DEF Joins, BookRows
        <5> DEFINE old == table.rows
                   new == r.rows
                   n == Len(old)
        <5>3. /\ Ascending(old) /\ Ascending(new)
              /\ \A c \in ToSet(old) : c <= table.cursor
              /\ \A c \in ToSet(new) : c > table.cursor /\ (r.next # Top => c <= r.next)
              /\ r.next # Top => r.next > table.cursor
              /\ loader.step = "idle" => /\ ToSet(old) = Between(Top, table.cursor)
                                         /\ ToSet(new) = Between(table.cursor, r.next)
              /\ table.selection.excluded = <<>> =>
                   ToSet(old) \subseteq Sought /\ ToSet(new) \subseteq Sought
          BY <1>0, <3>1, <5>1 DEF RowsAreRead, AsksForTheTable
        <5>9. table.cursor \in Nat /\ r.next \in Nat
          BY <1>0, <3>1
        <5> HIDE DEF held, old, new, n
        <5>4. /\ held \in BookRows /\ DOMAIN held = 1 .. n + Len(new) /\ n \in Nat /\ Len(new) \in Nat
              /\ DOMAIN old = 1 .. n /\ DOMAIN new = 1 .. Len(new)
              /\ \A i \in 1 .. n : held[i] = old[i]
              /\ \A i \in DOMAIN held : \/ i \in 1 .. n
                                        \/ i - n \in 1 .. Len(new) /\ held[i] = new[i - n]
              /\ ToSet(held) = ToSet(old) \union ToSet(new)
              /\ ToSet(held) \subseteq Nat
          <6>1. ASSUME held \in BookRows PROVE ToSet(held) \subseteq Nat
            <7>1. \A i \in DOMAIN held : held[i] \in Nat
              BY <6>1 DEF BookRows
            <7> QED BY <7>1 DEF ToSet
          <6>2. Joins(held, old, new, Nat \ {0})
            BY <5>2 DEF old, new
          <6> QED BY <6>1, <6>2, ConcatIs DEF n, BookRows
        <5>5. Ascending(held)
          <6> SUFFICES ASSUME NEW i \in DOMAIN held, NEW j \in DOMAIN held, i < j
                       PROVE  held[i] < held[j]
            BY DEF Ascending
          <6>1. i \in Nat /\ j \in Nat
            BY <5>4
          <6>2. CASE i \in 1 .. n /\ j \in 1 .. n
            BY <5>3, <5>4, <6>2 DEF Ascending
          <6>3. CASE i \in 1 .. n /\ j \notin 1 .. n
            <7>1. j - n \in 1 .. Len(new) /\ held[j] = new[j - n] /\ held[i] = old[i]
              BY <5>4, <6>3
            <7>2. old[i] \in ToSet(old) /\ new[j - n] \in ToSet(new)
              BY <5>4, <6>3, <7>1 DEF ToSet
            <7>3. old[i] <= table.cursor /\ new[j - n] > table.cursor
                  /\ old[i] \in Nat /\ new[j - n] \in Nat
              BY <5>3, <5>4, <7>2
            <7> QED BY <5>9, <7>1, <7>3
          <6>4. CASE i \notin 1 .. n
            <7>1. j \notin 1 .. n /\ i - n < j - n
              BY <5>4, <6>1, <6>4
            <7>2. /\ i - n \in 1 .. Len(new) /\ held[i] = new[i - n]
                  /\ j - n \in 1 .. Len(new) /\ held[j] = new[j - n]
              BY <5>4, <6>4, <7>1
            <7> QED BY <5>3, <5>4, <7>1, <7>2 DEF Ascending
          <6> QED BY <6>2, <6>3, <6>4
        <5>6. r.next # Top => \A c \in ToSet(held) : c <= r.next
          <6> SUFFICES ASSUME r.next # Top, NEW c \in ToSet(held) PROVE c <= r.next
            OBVIOUS
          <6>1. c \in Nat
            BY <5>4
          <6>2. c \in ToSet(old) => c <= table.cursor
            BY <5>3
          <6>3. c \in ToSet(new) => c <= r.next
            BY <5>3
          <6> QED BY <5>3, <5>4, <5>9, <6>1, <6>2, <6>3
        <5>7. loader.step = "idle" => ToSet(held) = Between(Top, r.next)
          <6> SUFFICES ASSUME loader.step = "idle" PROVE ToSet(held) = Between(Top, r.next)
            OBVIOUS
          <6>1. ToSet(held) = Between(Top, table.cursor) \union Between(table.cursor, r.next)
            BY <5>3, <5>4
          <6>2. Sought \subseteq Nat
            <7>1. Sought \subseteq DOMAIN contacts
              BY DEF Sought, Meant
            <7> QED BY <1>0, <7>1
          <6>3. ASSUME NEW c \in Nat
                PROVE  /\ ((c > Top /\ (table.cursor # Top => c <= table.cursor))
                           \/ (c > table.cursor /\ (r.next # Top => c <= r.next)))
                          <=> (c > Top /\ (r.next # Top => c <= r.next))
            BY <5>1, <5>3, <5>9 DEF Top
          <6> QED BY <6>1, <6>2, <6>3 DEF Between
        <5> QED BY <5>3, <5>4, <5>5, <5>6, <5>7
      <4> QED BY <3>1, <4>1, <4>2 DEF Asks
    <3> HIDE DEF held
    <3>5. /\ table' \in Tables /\ table'.rows = held /\ table'.cursor = r.next
          /\ table'.total = Cardinality(Meant(table.selection))
          /\ table'.complete = (r.next = Top) /\ table'.loading = FALSE
          /\ table'.generation = table.generation
          /\ table'.selection = table.selection /\ table'.search = table.search
      <4>1. table' = [table EXCEPT !.rows = held, !.total = Cardinality(Meant(table.selection)),
                                   !.cursor = r.next, !.complete = r.next = Top, !.loading = FALSE]
        BY <2>1, <2>3, <3>2 DEF held
      <4> QED BY <1>0, <3>1, <3>3, <3>4, <4>1 DEF Tables
    <3>6. Sought' = Sought /\ Meant(table.selection)' = Meant(table.selection)
      BY <2>1, <3>5 DEF Sought, Meant
    <3>7. Between(Top, table.cursor)' = Between(Top, r.next)
      BY <3>5, <3>6 DEF Between
    <3>8. Between(Top, Top) = Sought
      <4>1. \A c \in Sought : c > Top
        BY <1>0 DEF Sought, Meant, Top
      <4> QED BY <4>1 DEF Between
    <3>9. RowsAreRead'
      BY <2>1, <3>4, <3>5, <3>6, <3>7, <3>8 DEF RowsAreRead
    <3>10. \A s \in asked' : ~OfThisQuery(s)'
      BY <1>0, <2>1, <2>3, <3>5 DEF AskedOnce, OfThisQuery
    <3>11. WaitsForItsQuery'
      BY <3>5, <3>10 DEF WaitsForItsQuery
    <3>12. AskedOnce'
      BY <1>0, <2>1, <3>5, <3>10 DEF AskedOnce
    <3>13. BookType'
      BY <1>0, <2>1, <3>5 DEF BookType
    <3> QED BY <3>9, <3>11, <3>12, <3>13 DEF BookInv
  <2> QED BY <2>2, <2>3
<1>9. ASSUME RunImport PROVE BookInv'
  <2>1. UNCHANGED <<contacts, table, asked>> /\ loader'.step = "running"
    BY <1>9 DEF RunImport
  <2>2. Sought' = Sought /\ \A s : OfThisQuery(s)' = OfThisQuery(s)
    BY <2>1 DEF Sought, Meant, OfThisQuery
  <2>3. RowsAreRead'
    BY <1>0, <2>1, <2>2 DEF RowsAreRead
  <2>4. \A s : AsksForTheTable(s) => AsksForTheTable(s)'
    BY <2>1, <2>2 DEF AsksForTheTable
  <2>5. AskedOnce' /\ WaitsForItsQuery'
    BY <1>0, <2>1, <2>2, <2>4 DEF AskedOnce, WaitsForItsQuery
  <2>6. BookType'
    BY <1>0, <1>9, <2>1 DEF RunImport, BookType
  <2> QED BY <2>3, <2>5, <2>6 DEF BookInv
<1>10. ASSUME InsertBatch \/ JoinList PROVE BookInv'
  <2>1. UNCHANGED <<table, asked>> /\ loader'.step # "idle"
    <3>1. CASE InsertBatch
      BY <1>0, <3>1 DEF InsertBatch
    <3>2. CASE JoinList
      BY <1>0, <3>2 DEF JoinList
    <3> QED BY <1>10, <3>1, <3>2
  <2>2. /\ contacts' \in Seq(Contact)
        /\ loader' \in [step : {"idle", "running", "joining"}, list : BookLists \union {NoList},
                        fresh : SUBSET Nat, runs : Nat]
        /\ \A c \in DOMAIN contacts : /\ c \in DOMAIN contacts'
                                      /\ contacts'[c].found = contacts[c].found
                                      /\ contacts[c].lists \subseteq contacts'[c].lists
    <3>1. CASE InsertBatch
      <4>1. PICK batch \in {<<TRUE>>, <<FALSE, TRUE>>} :
              LET held == [i \in DOMAIN batch |-> [found |-> batch[i], lists |-> {}]]
              IN  /\ contacts' = contacts \o held
                  /\ loader' = [loader EXCEPT
                                  !.step = IF loader.list = NoList THEN "running" ELSE "joining",
                                  !.fresh = DOMAIN contacts' \ DOMAIN contacts]
        BY <3>1 DEF InsertBatch
      <4> DEFINE held == [i \in DOMAIN batch |-> [found |-> batch[i], lists |-> {}]]
      <4>2. batch \in Seq(BOOLEAN)
        <5>1. <<TRUE>> \in Seq(BOOLEAN) /\ <<FALSE, TRUE>> \in Seq(BOOLEAN)
          OBVIOUS
        <5> QED BY <5>1
      <4>3. held \in Seq(Contact)
        <5>1. DOMAIN batch = 1 .. Len(batch) /\ Len(batch) \in Nat
          BY <4>2
        <5>2. \A i \in DOMAIN batch : [found |-> batch[i], lists |-> {}] \in Contact
          BY <4>2 DEF Contact
        <5> QED BY <5>1, <5>2
      <4> HIDE DEF held
      <4>4. Joins(contacts', contacts, held, Contact)
        BY <1>0, <4>1, <4>3 DEF Joins, held
      <4>5. contacts' \in Seq(Contact) /\ DOMAIN contacts' = 1 .. Len(contacts) + Len(held)
            /\ Len(contacts) \in Nat /\ Len(held) \in Nat
            /\ \A i \in 1 .. Len(contacts) : i \in DOMAIN contacts' /\ contacts'[i] = contacts[i]
        BY <4>4, ConcatIs
      <4>6. DOMAIN contacts' \ DOMAIN contacts \in SUBSET Nat
        BY <4>5
      <4> QED BY <1>0, <4>1, <4>5, <4>6
    <3>2. CASE JoinList
      <4>1. contacts' = [c \in DOMAIN contacts |->
                           IF c \in loader.fresh
                             THEN [contacts[c] EXCEPT !.lists = @ \union {loader.list}]
                             ELSE contacts[c]]
            /\ loader' = [loader EXCEPT !.step = "running"]
        BY <3>2 DEF JoinList
      <4>2. \A c \in DOMAIN contacts : contacts[c] \in Contact
        BY <1>0
      <4>3. \A c \in DOMAIN contacts :
              /\ contacts'[c] \in Contact /\ contacts'[c].found = contacts[c].found
              /\ contacts[c].lists \subseteq contacts'[c].lists
        BY <1>0, <4>1, <4>2 DEF Contact
      <4>4. DOMAIN contacts' = 1 .. Len(contacts) /\ contacts' = [c \in 1 .. Len(contacts) |-> contacts'[c]]
        BY <1>0, <4>1
      <4>5. contacts' \in [1 .. Len(contacts) -> Contact]
        BY <1>0, <4>3, <4>4
      <4>6. contacts' \in Seq(Contact)
        BY <1>0, <4>5
      <4> QED BY <1>0, <4>1, <4>3, <4>4, <4>6
    <3> QED BY <1>10, <3>1, <3>2
  <2>3. \A s : OfThisQuery(s)' = OfThisQuery(s)
    BY <2>1 DEF OfThisQuery
  <2>4. table.selection.excluded = <<>> => Sought \subseteq Sought'
    <3> SUFFICES ASSUME table.selection.excluded = <<>>, NEW c \in Sought PROVE c \in Sought'
      OBVIOUS
    <3>1. ToSet(table.selection.excluded) = {}
      BY DEF ToSet
    <3>2. c \in DOMAIN contacts
      BY DEF Sought, Meant
    <3>3. /\ table.selection.combination \in {"everything", "union", "intersection"}
      BY <1>0, BookAssumption
    <3>4. c \in Meant(table.selection)'
      <4>1. c \in Meant(table.selection)
        BY DEF Sought
      <4>2. CASE table.selection.combination = "everything"
        BY <2>1, <2>2, <3>1, <3>2, <4>2 DEF Meant
      <4>3. CASE table.selection.combination = "union"
        BY <2>1, <2>2, <3>1, <3>2, <4>1, <4>3 DEF Meant
      <4>4. CASE table.selection.combination = "intersection"
        BY <2>1, <2>2, <3>1, <3>2, <4>1, <4>4 DEF Meant
      <4> QED BY <3>3, <4>2, <4>3, <4>4
    <3> QED BY <2>1, <2>2, <3>2, <3>4 DEF Sought
  <2>5. RowsAreRead'
    BY <1>0, <2>1, <2>4 DEF RowsAreRead
  <2>6. \A s : AsksForTheTable(s) => AsksForTheTable(s)'
    BY <2>1, <2>4 DEF AsksForTheTable
  <2>7. AskedOnce' /\ WaitsForItsQuery'
    BY <1>0, <2>1, <2>3, <2>6 DEF AskedOnce, WaitsForItsQuery
  <2>8. BookType'
    BY <1>0, <2>1, <2>2 DEF BookType
  <2> QED BY <2>5, <2>7, <2>8 DEF BookInv
<1>11. CASE UNCHANGED bookVars
  <2>1. UNCHANGED <<contacts, loader, table>> /\ UNCHANGED asked
    BY <1>11 DEF bookVars
  <2> QED BY <1>0, <2>1, SameTable DEF BookInv, BookType, WaitsForItsQuery, AskedOnce
<1> QED
  BY <1>1, <1>2, <1>3, <1>4, <1>5, <1>6, <1>7, <1>8, <1>9, <1>10, <1>11 DEF BookNext

\* The book starts as its invariant says.
LEMMA BookStart == BookInit => BookInv
<1> SUFFICES ASSUME BookInit PROVE BookInv
  OBVIOUS
<1>1. /\ contacts = <<>> /\ asked = {} /\ table.rows = <<>> /\ table.cursor = Top
      /\ ~table.complete /\ ~table.loading
      /\ loader = [step |-> "idle", list |-> NoList, fresh |-> {}, runs |-> 0]
      /\ table \in Tables
  <2>1. <<>> \in BookRows /\ Top \in Nat
    BY DEF BookRows, Top
  <2>2. table \in [rows : BookRows, total : {0}, cursor : {Top}, loading : {FALSE},
                   complete : {FALSE}, generation : {0}, selection : Selections, search : {FALSE}]
    <3>1. {<<>>} \subseteq BookRows
      BY <2>1
    <3>2. {s \in Selections : s.combination = "everything" /\ s.excluded = <<>>} \subseteq Selections
      OBVIOUS
    <3> DEFINE A == {<<>>}
               B == {s \in Selections : s.combination = "everything" /\ s.excluded = <<>>}
    <3>3. table \in [rows : A, total : {0}, cursor : {Top}, loading : {FALSE},
                   complete : {FALSE}, generation : {0}, selection : B, search : {FALSE}]
      BY DEF BookInit
    <3>4. A \subseteq BookRows /\ B \subseteq Selections
      BY <3>1, <3>2
    <3> HIDE DEF A, B
    <3> QED BY <3>3, <3>4
  <2>3. table.rows = <<>>
    BY DEF BookInit
  <2>4. table \in Tables /\ table.cursor = Top /\ ~table.complete /\ ~table.loading
    <3> HIDE <2>1
    <3>1. Top \in Nat
      BY DEF Top
    <3>2. table.cursor = Top /\ ~table.complete /\ ~table.loading
      BY <2>2
    <3>3. table \in [rows : BookRows, total : Nat, cursor : Nat, loading : BOOLEAN,
                    complete : BOOLEAN, generation : Nat, selection : Selections,
                    search : BOOLEAN]
      <4>1. /\ table.rows \in BookRows /\ table.total = 0 /\ table.cursor = Top
            /\ table.loading = FALSE /\ table.complete = FALSE /\ table.generation = 0
            /\ table.selection \in Selections /\ table.search = FALSE
        BY <2>2
      <4>2. table = [rows |-> table.rows, total |-> table.total, cursor |-> table.cursor,
                     loading |-> table.loading, complete |-> table.complete,
                     generation |-> table.generation, selection |-> table.selection,
                     search |-> table.search]
        BY <2>2
      <4>3. 0 \in Nat /\ FALSE \in BOOLEAN
        OBVIOUS
      <4> QED BY <3>1, <4>1, <4>2, <4>3
    <3> QED BY <3>2, <3>3 DEF Tables
  <2>5. /\ contacts = <<>> /\ asked = {}
        /\ loader = [step |-> "idle", list |-> NoList, fresh |-> {}, runs |-> 0]
    BY DEF BookInit
  <2> QED BY <2>3, <2>4, <2>5
<1>2. ToSet(<<>>) = {} /\ Ascending(<<>>)
  BY DEF ToSet, Ascending
<1>3. BookType
  BY <1>1 DEF BookType
<1> QED BY <1>1, <1>2, <1>3 DEF BookInv, WaitsForItsQuery, AskedOnce, RowsAreRead

\* The invariant of the book says what its table promises.
LEMMA BookSafe == BookInv => TableIsTheSelection
BY DEF BookInv, RowsAreRead, TableIsTheSelection, RowsAreOneQuery, CompleteIsWhole, Ascending

-----------------------------------------------------------------------------
(* A profile, from the form to its row and back.                            *)

Values == UNION {Candidates(field) \union {Blank[field]} : field \in DOMAIN Blank}
Drafts ==
  {d \in [DOMAIN Blank -> Values] :
     /\ d.bindType \in {"transmitter", "receiver", "transceiver"}
     /\ d.interfaceVersion \in {"v3.4", "v5.0"}
     /\ d.reconnectEnabled \in BOOLEAN /\ d.jitter \in BOOLEAN
     /\ d.minBackoffS \in Nat /\ d.maxBackoffS \in Nat}
RowColumns ==
  [fields : [DOMAIN Blank \ OfPolicy -> Values], reconnect : Documents \union {Absent}]
ProfileRows == Seq([id : SessionIds, columns : RowColumns])

Names == {"name", "host", "systemId", "systemType", "port", "bindType", "interfaceVersion",
          "windowSize", "throughputTps", "minTps", "enquireLinkS", "responseTimeoutS",
          "reconnectEnabled", "minBackoffS", "maxBackoffS", "jitter", "gsm7Packing",
          "gsm7Charset", "dlrIdMatching", "bindCount"}

\* The fields of the form.
LEMMA NamesAre ==
  /\ DOMAIN Blank = Names
  /\ DOMAIN TextBounds = {"name", "host", "systemId", "systemType"}
  /\ DOMAIN NumberBounds = {"port", "windowSize", "enquireLinkS", "responseTimeoutS",
                            "bindCount", "minTps", "throughputTps"}
BY DEF Blank, Names, TextBounds, NumberBounds

\* The fields an operator chooses from a list, and those of the policy.
LEMMA ChoicesAre ==
  /\ Candidates("bindType") = {"transmitter", "receiver", "transceiver"}
  /\ Candidates("interfaceVersion") = {"v3.4", "v5.0"}
  /\ Candidates("reconnectEnabled") = BOOLEAN /\ Candidates("jitter") = BOOLEAN
  /\ Candidates("minBackoffS") = {0, 1, 60, 3600, 3601}
  /\ Candidates("maxBackoffS") = {0, 1, 60, 3600, 3601}
<1> "bindType" \notin DOMAIN TextBounds /\ "bindType" \notin DOMAIN NumberBounds
  BY NamesAre
<1> "interfaceVersion" \notin DOMAIN TextBounds /\ "interfaceVersion" \notin DOMAIN NumberBounds
  BY NamesAre
<1> "reconnectEnabled" \notin DOMAIN TextBounds /\ "reconnectEnabled" \notin DOMAIN NumberBounds
  BY NamesAre
<1> "jitter" \notin DOMAIN TextBounds /\ "jitter" \notin DOMAIN NumberBounds
  BY NamesAre
<1> "minBackoffS" \notin DOMAIN TextBounds /\ "minBackoffS" \notin DOMAIN NumberBounds
  BY NamesAre
<1> "maxBackoffS" \notin DOMAIN TextBounds /\ "maxBackoffS" \notin DOMAIN NumberBounds
  BY NamesAre
<1>1. Candidates("bindType") = {"transmitter", "receiver", "transceiver"}
  BY DEF Candidates
<1>2. Candidates("interfaceVersion") = {"v3.4", "v5.0"}
  BY DEF Candidates
<1>3. Candidates("reconnectEnabled") = BOOLEAN
  BY DEF Candidates
<1>4. Candidates("jitter") = BOOLEAN
  BY DEF Candidates
<1>5. Candidates("minBackoffS") = {0, 1, 60, 3600, 3601}
  BY DEF Candidates
<1>6. Candidates("maxBackoffS") = {0, 1, 60, 3600, 3601}
  BY DEF Candidates
<1> QED BY <1>1, <1>2, <1>3, <1>4, <1>5, <1>6

\* A value of a field is a value.
LEMMA SetOfValues ==
  \A field \in DOMAIN Blank : \A value \in Candidates(field) \union {Blank[field]} :
    value \in Values
<1> SUFFICES ASSUME NEW field \in DOMAIN Blank,
                    NEW value \in Candidates(field) \union {Blank[field]}
             PROVE  value \in Values
  OBVIOUS
<1>1. Candidates(field) \union {Blank[field]} \in
        {Candidates(other) \union {Blank[other]} : other \in DOMAIN Blank}
  OBVIOUS
<1> QED BY <1>1 DEF Values

\* The blank form is one.
LEMMA BlankIsADraft == Blank \in Drafts
<1>1. /\ Blank.bindType = "transceiver" /\ Blank.interfaceVersion = "v5.0"
      /\ Blank.minBackoffS = 1 /\ Blank.maxBackoffS = 60
  BY DEF Blank
<1>2. Blank = [field \in DOMAIN Blank |-> Blank[field]]
  BY DEF Blank
<1>3. \A field \in DOMAIN Blank : Blank[field] \in Values
  BY SetOfValues
<1>4. Blank.reconnectEnabled \in BOOLEAN /\ Blank.jitter \in BOOLEAN
  BY DEF Blank
<1>5. Blank \in [DOMAIN Blank -> Values]
  BY <1>2, <1>3
<1> QED BY <1>1, <1>4, <1>5 DEF Drafts

\* Setting a field of a form gives a form.
LEMMA SetADraft ==
  ASSUME NEW d \in Drafts, NEW field \in DOMAIN Blank,
         NEW value \in Candidates(field) \union {Blank[field]}
  PROVE  [d EXCEPT ![field] = value] \in Drafts
<1> DEFINE e == [d EXCEPT ![field] = value]
<1>1. value \in Values
  BY SetOfValues
<1>2. /\ d \in [DOMAIN Blank -> Values]
      /\ d.bindType \in {"transmitter", "receiver", "transceiver"}
      /\ d.interfaceVersion \in {"v3.4", "v5.0"}
      /\ d.reconnectEnabled \in BOOLEAN /\ d.jitter \in BOOLEAN
      /\ d.minBackoffS \in Nat /\ d.maxBackoffS \in Nat
  BY DEF Drafts
<1>3. e \in [DOMAIN Blank -> Values]
  BY <1>1, <1>2
<1>4. \A other \in DOMAIN Blank : e[other] = IF other = field THEN value ELSE d[other]
  BY <1>2
<1>5. /\ Blank["bindType"] = "transceiver" /\ Blank["interfaceVersion"] = "v5.0"
      /\ Blank["reconnectEnabled"] = TRUE /\ Blank["jitter"] = TRUE
      /\ Blank["minBackoffS"] = 1 /\ Blank["maxBackoffS"] = 60
  BY DEF Blank
<1>6. {"bindType", "interfaceVersion", "reconnectEnabled", "jitter", "minBackoffS",
       "maxBackoffS"} \subseteq DOMAIN Blank
  BY NamesAre DEF Names
<1> HIDE DEF e
<1>7. e["bindType"] \in {"transmitter", "receiver", "transceiver"}
  BY <1>2, <1>4, <1>5, <1>6, ChoicesAre
<1>8. e["interfaceVersion"] \in {"v3.4", "v5.0"}
  BY <1>2, <1>4, <1>5, <1>6, ChoicesAre
<1>9. e["reconnectEnabled"] \in BOOLEAN
  <2>1. /\ e["reconnectEnabled"] = value /\ field = "reconnectEnabled"
        \/ e["reconnectEnabled"] = d["reconnectEnabled"]
    BY <1>4, <1>6
  <2>2. field = "reconnectEnabled" => value \in BOOLEAN
    <3>1. Blank["reconnectEnabled"] \in BOOLEAN
      BY DEF Blank
    <3>2. Candidates("reconnectEnabled") = BOOLEAN
      BY ChoicesAre
    <3> QED BY <3>1, <3>2
  <2>3. d["reconnectEnabled"] \in BOOLEAN
    BY <1>2
  <2> QED BY <2>1, <2>2, <2>3
<1>10. e["jitter"] \in BOOLEAN
  <2>1. /\ e["jitter"] = value /\ field = "jitter"
        \/ e["jitter"] = d["jitter"]
    BY <1>4, <1>6
  <2>2. field = "jitter" => value \in BOOLEAN
    <3>1. Blank["jitter"] \in BOOLEAN
      BY DEF Blank
    <3>2. Candidates("jitter") = BOOLEAN
      BY ChoicesAre
    <3> QED BY <3>1, <3>2
  <2>3. d["jitter"] \in BOOLEAN
    BY <1>2
  <2> QED BY <2>1, <2>2, <2>3
<1>11. e["minBackoffS"] \in Nat
  BY <1>2, <1>4, <1>5, <1>6, ChoicesAre
<1>12. e["maxBackoffS"] \in Nat
  BY <1>2, <1>4, <1>5, <1>6, ChoicesAre
<1>13. e \in Drafts
  BY <1>3, <1>7, <1>8, <1>9, <1>10, <1>11, <1>12 DEF Drafts
<1> QED BY <1>13 DEF e

\* What is typed on the sessions screen.
LEMMA TypedAreDrafts ==
  /\ Typed \subseteq Drafts
  /\ Blank \in Drafts /\ [Blank EXCEPT !.enquireLinkS = 10] \in Drafts
<1>1. {"jitter", "enquireLinkS"} \subseteq DOMAIN Blank
  BY NamesAre DEF Names
<1>2. FALSE \in Candidates("jitter")
  <2>1. FALSE \in BOOLEAN
    OBVIOUS
  <2>2. Candidates("jitter") = BOOLEAN
    BY ChoicesAre
  <2> QED BY <2>1, <2>2
<1>3. 10 \in Candidates("enquireLinkS")
  <2>1. "enquireLinkS" \notin DOMAIN TextBounds /\ "enquireLinkS" \in DOMAIN NumberBounds
    BY NamesAre
  <2> QED BY <2>1 DEF Candidates
<1>4. [Blank EXCEPT !["jitter"] = FALSE] \in Drafts
  BY <1>1, <1>2, BlankIsADraft, SetADraft
<1>5. [Blank EXCEPT !["enquireLinkS"] = 10] \in Drafts
  BY <1>1, <1>3, BlankIsADraft, SetADraft
<1> QED BY <1>4, <1>5, BlankIsADraft DEF Typed

\* What is accepted is stored as a row that reads back as the same profile, and
\* is shown as what was typed.
LEMMA AcceptedIsKept ==
  ASSUME NEW d \in Drafts, Accepted(d) # Absent
  PROVE  /\ Columns(Accepted(d)) \in RowColumns
         /\ FromRecord(Columns(Accepted(d))) = Accepted(d)
         /\ Shown(Accepted(d)) = d
<1> DEFINE f == Without(d)
           policy == PolicyOf(d.reconnectEnabled, d.minBackoffS, d.maxBackoffS, d.jitter)
           profile == Accepted(d)
           columns == Columns(profile)
<1>1. /\ d \in [DOMAIN Blank -> Values] /\ DOMAIN Blank = Names
      /\ d.bindType \in {"transmitter", "receiver", "transceiver"}
      /\ d.interfaceVersion \in {"v3.4", "v5.0"}
      /\ d.reconnectEnabled \in BOOLEAN /\ d.jitter \in BOOLEAN
      /\ d.minBackoffS \in Nat /\ d.maxBackoffS \in Nat
  BY NamesAre DEF Drafts
<1>2. profile = [fields |-> f, reconnect |-> policy] /\ policy # Absent /\ profile = Build(f, policy)
  BY DEF Accepted, Build
<1>3. policy = [enabled |-> d.reconnectEnabled, minBackoff |-> d.minBackoffS,
                maxBackoff |-> d.maxBackoffS, jitter |-> d.jitter]
  BY <1>2 DEF PolicyOf
<1>4. /\ f \in [DOMAIN Blank \ OfPolicy -> Values]
      /\ \A field \in DOMAIN Blank \ OfPolicy : f[field] = d[field]
  BY <1>1 DEF Without
<1>5. /\ f.bindType = d.bindType /\ f.interfaceVersion = d.interfaceVersion
      /\ "bindType" \in DOMAIN Blank \ OfPolicy /\ "interfaceVersion" \in DOMAIN Blank \ OfPolicy
  BY <1>1, <1>4 DEF OfPolicy, Names
<1>6. /\ [f EXCEPT !.interfaceVersion = StoredVersion(@), !.bindType = StoredBindType(@)] = f
      /\ [f EXCEPT !.bindType = StoredBindType(@)] = f
  <2>1. StoredVersion(f.interfaceVersion) = f.interfaceVersion
    BY <1>1, <1>5 DEF StoredVersion
  <2>2. StoredBindType(f.bindType) = f.bindType
    BY <1>1, <1>5 DEF StoredBindType
  <2> HIDE DEF f
  <2> QED BY <1>4, <1>5, <2>1, <2>2
<1>7. columns = [fields |-> f, reconnect |-> Document(policy)]
  <2> HIDE DEF f, policy, profile
  <2> QED BY <1>2, <1>6 DEF Columns
<1>8. /\ Document(policy) = [enabled |-> d.reconnectEnabled, min_backoff_s |-> d.minBackoffS,
                             max_backoff_s |-> d.maxBackoffS, jitter |-> d.jitter]
      /\ Document(policy) \in Documents /\ Document(policy) # Absent
  <2>1. Document(policy) = [enabled |-> d.reconnectEnabled, min_backoff_s |-> d.minBackoffS,
                            max_backoff_s |-> d.maxBackoffS, jitter |-> d.jitter]
    BY <1>3 DEF Document
  <2>2. Document(policy) \in Documents
    BY <1>1, <2>1 DEF Documents
  <2> QED BY <2>1, <2>2, ProfilesAssumption
<1>9. ReadPolicy(Document(policy)) = policy
  <2> DEFINE document == Document(policy)
  <2>1. /\ DOMAIN document = {"enabled", "min_backoff_s", "max_backoff_s", "jitter"}
        /\ document["enabled"] = d.reconnectEnabled
        /\ document["min_backoff_s"] = d.minBackoffS
        /\ document["max_backoff_s"] = d.maxBackoffS
        /\ document["jitter"] = d.jitter
    BY <1>8
  <2>2. document # Absent
    BY <1>8
  <2> HIDE DEF document, policy
  <2>3. ReadPolicy(document) = PolicyOf(document["enabled"], document["min_backoff_s"],
                                        document["max_backoff_s"], document["jitter"])
    <3>1. /\ "enabled" \in DOMAIN document /\ "min_backoff_s" \in DOMAIN document
          /\ "max_backoff_s" \in DOMAIN document /\ "jitter" \in DOMAIN document
      BY <2>1
    <3> QED BY <2>2, <3>1 DEF ReadPolicy
  <2> QED BY <2>1, <2>3 DEF policy, document
<1> HIDE DEF f, policy
<1>10. columns \in RowColumns
  BY <1>4, <1>7, <1>8 DEF RowColumns
<1>11. FromRecord(columns) = profile
  <2>1. columns.fields = f /\ columns.reconnect = Document(policy)
    BY <1>7
  <2>2. FromRecord(columns) = Build(f, policy)
    BY <1>6, <1>9, <2>1 DEF FromRecord
  <2> QED BY <1>2, <2>2
<1>12. Shown(profile) = d
  <2>1. profile.fields = f /\ profile.reconnect = policy
    BY <1>2
  <2> HIDE DEF profile
  <2>2. /\ policy.enabled = d["reconnectEnabled"] /\ policy.minBackoff = d["minBackoffS"]
        /\ policy.maxBackoff = d["maxBackoffS"] /\ policy.jitter = d["jitter"]
    BY <1>3
  <2>3. \A field \in DOMAIN Blank : Shown(profile)[field] = d[field]
    <3> SUFFICES ASSUME NEW field \in DOMAIN Blank PROVE Shown(profile)[field] = d[field]
      OBVIOUS
    <3>1. CASE field \in OfPolicy
      BY <2>1, <2>2, <3>1 DEF Shown, OfPolicy
    <3>2. CASE field \notin OfPolicy
      BY <1>4, <2>1, <3>2 DEF Shown, OfPolicy
    <3> QED BY <3>1, <3>2
  <2>4. Shown(profile) = [field \in DOMAIN Blank |-> Shown(profile)[field]]
    BY DEF Shown
  <2> QED BY <1>1, <2>3, <2>4
<1> QED BY <1>10, <1>11, <1>12

-----------------------------------------------------------------------------
(* The sessions screen.                                                     *)

\* What `build` has checked.
SoundProfile(profile) ==
  LET f == profile.fields
  IN  /\ f.enquireLinkS = 0 \/ f.responseTimeoutS < f.enquireLinkS
      /\ ~(f.gsm7Charset = "latin1" /\ f.gsm7Packing = "packed")
      /\ profile.reconnect.minBackoff <= profile.reconnect.maxBackoff

CommandIs(c) ==
  /\ DOMAIN c = {"op", "id", "input", "n", "step", "read"}
  /\ c.op = "save" => c.id \in SessionIds /\ c.input \in Typed
  /\ c.op = "bind" /\ c.step = "found" => SoundProfile(c.read[1])

\* The list that is read when nothing moves meanwhile.
RowsShown ==
  [i \in DOMAIN rows |-> [id |-> rows[i].id, profile |-> Shown(FromRecord(rows[i].columns))]]

\* The commands that end in a list.
Relists(c) == c.op = "list" \/ (c.op \in {"save", "remove"} /\ c.step = "done")

\* On a screen opened once there is at most one command: what the screen holds
\* is what that list read, until a command that lists again has changed the rows.
OneAtATime ==
  board.opened <= 1 =>
    /\ \A c, e \in commands : c = e
    /\ ~board.busy => commands = {}
    /\ board.opened = 0 => commands = {} /\ ~board.listed
    /\ \A c \in commands : c.op = "list" /\ c.step = "done" => c.read = RowsShown
    /\ board.listed => board.profiles = RowsShown \/ \E c \in commands : Relists(c)

BoardIs ==
  /\ DOMAIN board = {"profiles", "busy", "listed", "opened", "used", "minted"}
  /\ board.opened \in Nat
JournalIs == DOMAIN journal = {"of", "column", "deleted"} /\ journal.deleted \in BOOLEAN

ScreenInv ==
  /\ rows \in ProfileRows /\ \A c \in commands : CommandIs(c)
  /\ LiveIsSound /\ JournalIs /\ HistoryIsKept /\ BoardIs /\ OneAtATime

\* A row that reads as a profile reads as a sound one, and so is an accepted one.
LEMMA ReadIsSound ==
  ASSUME NEW columns \in RowColumns, FromRecord(columns) # Absent
  PROVE  SoundProfile(FromRecord(columns))
<1> DEFINE f == [columns.fields EXCEPT !.bindType = StoredBindType(@)]
           policy == ReadPolicy(columns.reconnect)
<1>1. /\ policy # Absent
      /\ f.enquireLinkS # 0 => f.responseTimeoutS < f.enquireLinkS
      /\ ~(f.gsm7Charset = "latin1" /\ f.gsm7Packing = "packed")
      /\ FromRecord(columns) = [fields |-> f, reconnect |-> policy]
  <2> HIDE DEF f, policy
  <2>1. FromRecord(columns) = Build(f, policy)
    BY DEF FromRecord, f, policy
  <2> QED BY <2>1 DEF Build, KeepaliveTimesOut
<1>2. policy.minBackoff <= policy.maxBackoff
  <2> DEFINE document == columns.reconnect
             held == IF document = Absent THEN {} ELSE DOMAIN document
             least == IF "min_backoff_s" \in held THEN document["min_backoff_s"] ELSE 1
             most == IF "max_backoff_s" \in held THEN document["max_backoff_s"] ELSE 60
  <2>1. document \in Documents \/ document = Absent
    BY DEF RowColumns
  <2>2. least \in Nat /\ most \in Nat
    BY <2>1 DEF Documents
  <2>3. PICK isOn, jitter : policy = PolicyOf(isOn, least, most, jitter)
    BY DEF ReadPolicy
  <2> HIDE DEF least, most, policy
  <2>4. policy = [enabled |-> isOn, minBackoff |-> least, maxBackoff |-> most,
                  jitter |-> jitter] /\ ~(most < least)
    BY <1>1, <2>3 DEF PolicyOf
  <2> QED BY <2>2, <2>4
<1> HIDE DEF f, policy
<1> QED BY <1>1, <1>2 DEF SoundProfile

\* A command that moves on stays the command it is.
LEMMA MovedOn ==
  ASSUME NEW c, CommandIs(c), NEW step, NEW read
  PROVE  /\ LET next == [c EXCEPT !.step = step]
            IN  /\ DOMAIN next = DOMAIN c /\ next.op = c.op /\ next.id = c.id
                /\ next.input = c.input /\ next.step = step /\ next.read = c.read
         /\ LET next == [c EXCEPT !.step = step, !.read = read]
            IN  /\ DOMAIN next = DOMAIN c /\ next.op = c.op /\ next.id = c.id
                /\ next.input = c.input /\ next.step = step /\ next.read = read
BY DEF CommandIs

\* A command that works moves alone: a list has read the rows as they are.
LEMMA OneWorks ==
  ASSUME ScreenInv, NEW c \in commands, NEW next,
         commands' = (commands \ {c}) \union {next}, UNCHANGED board,
         UNCHANGED rows \/ Relists(next), next.op = c.op, c.step # "done",
         next.op = "list" /\ next.step = "done" => next.read = RowsShown'
  PROVE  OneAtATime'
<1> SUFFICES ASSUME board.opened <= 1
             PROVE  /\ \A d, e \in commands' : d = e
                    /\ ~board.busy => commands' = {}
                    /\ board.opened = 0 => commands' = {} /\ ~board.listed
                    /\ \A d \in commands' : d.op = "list" /\ d.step = "done" => d.read = RowsShown'
                    /\ board.listed => \/ board.profiles = RowsShown'
                                       \/ \E d \in commands' : Relists(d)
  BY DEF OneAtATime
<1>1. /\ \A d, e \in commands : d = e
      /\ board.busy /\ board.opened # 0
      /\ board.listed => board.profiles = RowsShown \/ \E d \in commands : Relists(d)
  BY DEF ScreenInv, OneAtATime
<1>2. commands' = {next}
  BY <1>1
<1>3. Relists(c) => Relists(next)
  BY DEF Relists
<1>4. UNCHANGED rows => RowsShown' = RowsShown
  BY DEF RowsShown
<1> QED BY <1>1, <1>2, <1>3, <1>4

\* A command that works, and what it leaves.
LEMMA WorkKeeps ==
  ASSUME ScreenInv, NEW c \in commands, NEW next,
         commands' = (commands \ {c}) \union {next}, UNCHANGED board,
         UNCHANGED rows \/ Relists(next), next.op = c.op, c.step # "done",
         next.op = "list" /\ next.step = "done" => next.read = RowsShown',
         CommandIs(next), (rows \in ProfileRows)', LiveIsSound', JournalIs', HistoryIsKept'
  PROVE  ScreenInv'
<1>1. OneAtATime'
  BY OneWorks
<1>2. \A d \in commands' : CommandIs(d)
  BY DEF ScreenInv
<1>3. BoardIs'
  BY DEF ScreenInv, BoardIs
<1>4. (\A d \in commands : CommandIs(d))'
  BY <1>2 DEF CommandIs, SoundProfile, Typed, Blank, Text
<1> QED BY <1>1, <1>3, <1>4 DEF ScreenInv

\* A list of positions gives rows of the listed.
LEMMA PickedIs ==
  ASSUME NEW S, NEW listed \in Seq(S), NEW places \in SUBSET DOMAIN listed
  PROVE  Picked(listed, places) \in Seq(S)
<1> DEFINE first == ById(places)
<1>1. DOMAIN listed = 1 .. Len(listed) /\ Len(listed) \in Nat /\ IsFiniteSet(DOMAIN listed)
  BY FS_Interval
<1>2. places \in SUBSET Nat /\ IsFiniteSet(places)
  BY <1>1, FS_Subset
<1>3. first \in Seq(places) /\ Len(first) \in Nat
  BY <1>2, ByIdIsTheSet
<1> HIDE DEF first
<1>4. \A k \in 1 .. Len(first) : listed[first[k]] \in S
  BY <1>1, <1>3
<1>5. Picked(listed, places) = [k \in 1 .. Len(first) |-> listed[first[k]]]
  BY <1>3 DEF Picked, first
<1> QED BY <1>3, <1>4, <1>5

\* Saving a profile leaves rows of profiles.
LEMMA UpsertKeeps ==
  ASSUME rows \in ProfileRows, NEW id \in SessionIds, NEW columns \in RowColumns,
         Upsert(id, columns)
  PROVE  (rows \in ProfileRows)'
<1> DEFINE AnyRow == [id : SessionIds, columns : RowColumns]
<1>1. rows \in Seq(AnyRow) /\ [id |-> id, columns |-> columns] \in AnyRow
  BY DEF ProfileRows
<1>2. rows' \in Seq(AnyRow)
  <2>1. CASE RowOf(id) = {}
    <3>1. rows' = Append(rows, [id |-> id, columns |-> columns])
      BY <2>1 DEF Upsert
    <3> HIDE DEF AnyRow
    <3> QED BY <1>1, <3>1
  <2>2. CASE RowOf(id) # {}
    <3>1. rows' = [i \in DOMAIN rows |->
                     IF rows[i].id = id THEN [rows[i] EXCEPT !.columns = columns] ELSE rows[i]]
      BY <2>2 DEF Upsert
    <3>2. \A r \in AnyRow : [r EXCEPT !.columns = columns] \in AnyRow
      OBVIOUS
    <3> HIDE DEF AnyRow
    <3>3. DOMAIN rows = 1 .. Len(rows) /\ Len(rows) \in Nat
          /\ \A i \in DOMAIN rows : rows[i] \in AnyRow
      BY <1>1
    <3>4. rows' \in [1 .. Len(rows) -> AnyRow]
      BY <3>1, <3>2, <3>3
    <3> QED BY <3>3, <3>4
  <2> QED BY <2>1, <2>2
<1> QED BY <1>2 DEF ProfileRows

\* The screen before it is opened, over the rows of an older version or none.
LEMMA ScreenStart == ProfilesInit => ScreenInv
<1> SUFFICES ASSUME ProfilesInit PROVE ScreenInv
  OBVIOUS
<1>1. /\ rows \in StoredRows /\ live = Absent /\ commands = {}
      /\ journal = [of |-> Absent, column |-> Absent, deleted |-> FALSE]
      /\ BoardIs /\ ~board.listed
  BY DEF ProfilesInit, BoardIs
<1>2. rows \in ProfileRows
  <2>1. \A d \in Drafts : Without(d) \in [DOMAIN Blank \ OfPolicy -> Values]
    BY DEF Drafts, Without
  <2>2. OlderRows \subseteq RowColumns
    <3>1. ASSUME NEW d \in {Blank, [Blank EXCEPT !.enquireLinkS = 10]}
          PROVE  [fields |-> Without(d), reconnect |-> Absent] \in RowColumns
      <4>1. d \in Drafts
        BY TypedAreDrafts
      <4>2. Without(d) \in [DOMAIN Blank \ OfPolicy -> Values]
        BY <2>1, <4>1
      <4> QED BY <4>2 DEF RowColumns
    <3> QED BY <3>1 DEF OlderRows
  <2> DEFINE AnyRow == [id : SessionIds, columns : RowColumns]
  <2>3. ASSUME NEW id \in SessionIds, NEW row \in OlderRows
        PROVE  <<[id |-> id, columns |-> row]>> \in Seq(AnyRow)
    <3>1. [id |-> id, columns |-> row] \in AnyRow
      BY <2>2
    <3> HIDE DEF AnyRow
    <3> QED BY <3>1
  <2>4. <<>> \in Seq(AnyRow)
    OBVIOUS
  <2> HIDE DEF AnyRow
  <2>5. rows \in Seq(AnyRow)
    <3>1. CASE rows = <<>>
      BY <2>4, <3>1
    <3>2. CASE rows # <<>>
      <4>1. PICK id \in SessionIds, row \in OlderRows : rows = <<[id |-> id, columns |-> row]>>
        BY <1>1, <3>2 DEF StoredRows
      <4> QED BY <2>3, <4>1
    <3> QED BY <3>1, <3>2
  <2> QED BY <2>5 DEF ProfileRows, AnyRow
<1>3. JournalIs /\ HistoryIsKept
  BY <1>1 DEF JournalIs, HistoryIsKept
<1>4. LiveIsSound
  BY <1>1 DEF LiveIsSound
<1>5. OneAtATime
  BY <1>1 DEF OneAtATime
<1> QED BY <1>1, <1>2, <1>3, <1>4, <1>5 DEF ScreenInv

\* What works on one command.
LEMMA WorkStep ==
  ASSUME ScreenInv, Works
  PROVE  ScreenInv'
<1>0. PICK c \in commands :
        \/ c.step = "called" /\ (Save(c) \/ CloseFirst(c) \/ FindProfile(c) \/ Unbind(c) \/ List(c))
        \/ DeleteRow(c) \/ Bind(c)
        \/ c.step \in {"called", "closed"} /\ Fails(c)
  BY DEF Works
<1>1. /\ rows \in ProfileRows /\ LiveIsSound /\ JournalIs /\ HistoryIsKept
      /\ CommandIs(c)
  BY DEF ScreenInv
<1>2. /\ UNCHANGED rows => (rows \in ProfileRows)'
      /\ UNCHANGED live => LiveIsSound'
      /\ UNCHANGED journal => JournalIs' /\ HistoryIsKept'
  BY <1>1 DEF LiveIsSound, JournalIs, HistoryIsKept
<1>3. ASSUME NEW step, step # "found" \/ c.op # "bind"
      PROVE  CommandIs([c EXCEPT !.step = step])
  BY <1>1, <1>3, MovedOn DEF CommandIs
<1>4. ASSUME NEW step, step # "found" \/ c.op # "bind", Moves(c, step), UNCHANGED board,
             UNCHANGED rows \/ Relists([c EXCEPT !.step = step]), c.step # "done",
             c.op # "list" \/ step # "done",
             (rows \in ProfileRows)', LiveIsSound', JournalIs', HistoryIsKept'
      PROVE  ScreenInv'
  <2> DEFINE next == [c EXCEPT !.step = step]
  <2>1. next.op = c.op /\ next.step = step
    BY <1>1, MovedOn
  <2>2. commands' = (commands \ {c}) \union {next}
    BY <1>4 DEF Moves, Step
  <2>3. CommandIs(next)
    BY <1>3, <1>4
  <2>4. UNCHANGED rows \/ Relists(next)
    BY <1>4
  <2> HIDE DEF next
  <2> QED BY <1>4, <2>1, <2>2, <2>3, <2>4, WorkKeeps
<1>5. CASE c.step = "called" /\ Save(c)
  <2>1. CASE Accepted(c.input) = Absent
    BY <1>2, <1>4, <1>5, <2>1 DEF Save
  <2>2. CASE Accepted(c.input) # Absent
    <3>1. /\ c.op = "save" /\ Upsert(c.id, Columns(Accepted(c.input))) /\ Moves(c, "done")
          /\ UNCHANGED <<live, board>>
      BY <1>5, <2>2 DEF Save
    <3>2. Columns(Accepted(c.input)) \in RowColumns
      BY <1>1, <2>2, <3>1, TypedAreDrafts, AcceptedIsKept DEF CommandIs
    <3>6. c.id \in SessionIds
      BY <1>1, <3>1 DEF CommandIs
    <3>3. (rows \in ProfileRows)'
      BY <1>1, <3>1, <3>2, <3>6, UpsertKeeps
    <3>4. UNCHANGED journal
      BY <3>1 DEF Upsert
    <3>5. Relists([c EXCEPT !.step = "done"])
      BY <1>1, <3>1, MovedOn DEF Relists
    <3> QED BY <1>2, <1>4, <1>5, <3>1, <3>3, <3>4, <3>5
  <2> QED BY <2>1, <2>2
<1>6. CASE c.step = "called" /\ CloseFirst(c)
  <2>1. LiveIsSound'
    BY <1>1, <1>6 DEF CloseFirst, LiveIsSound
  <2> QED BY <1>2, <1>4, <1>6, <2>1 DEF CloseFirst
<1>7. CASE c.step = "called" /\ Unbind(c)
  <2>1. LiveIsSound'
    BY <1>1, <1>7 DEF Unbind, LiveIsSound
  <2> QED BY <1>2, <1>4, <1>7, <2>1 DEF Unbind
<1>8. CASE c.step = "called" /\ FindProfile(c)
  <2>1. UNCHANGED <<rows, live, journal, board>> /\ c.op = "bind"
    BY <1>8 DEF FindProfile
  <2>2. CASE Moves(c, "refused")
    BY <1>2, <1>4, <1>8, <2>1, <2>2
  <2>3. ASSUME NEW i \in RowOf(c.id), FromRecord(rows[i].columns) # Absent,
               Step(c, [c EXCEPT !.step = "found", !.read = <<FromRecord(rows[i].columns)>>])
        PROVE  ScreenInv'
    <3> DEFINE next == [c EXCEPT !.step = "found", !.read = <<FromRecord(rows[i].columns)>>]
    <3>1. DOMAIN next = DOMAIN c /\ next.op = c.op /\ next.step = "found"
          /\ next.read = <<FromRecord(rows[i].columns)>>
      BY <1>1, MovedOn
    <3>2. rows[i].columns \in RowColumns
      <4>1. i \in DOMAIN rows
        BY DEF RowOf
      <4> DEFINE AnyRow == [id : SessionIds, columns : RowColumns]
      <4>2. \A r \in AnyRow : r.columns \in RowColumns
        OBVIOUS
      <4>3. rows \in Seq(AnyRow)
        BY <1>1 DEF ProfileRows
      <4> HIDE DEF AnyRow
      <4> QED BY <4>1, <4>2, <4>3
    <3>3. SoundProfile(FromRecord(rows[i].columns))
      BY <2>3, <3>2, ReadIsSound
    <3>4. commands' = (commands \ {c}) \union {next}
      BY <2>3 DEF Step
    <3> HIDE DEF next
    <3>5. next.read[1] = FromRecord(rows[i].columns)
      BY <3>1
    <3>6. CommandIs(next)
      BY <1>1, <2>1, <3>1, <3>3, <3>5 DEF CommandIs
    <3> QED BY <1>2, <1>8, <2>1, <3>1, <3>4, <3>6, WorkKeeps
  <2> QED BY <1>8, <2>2, <2>3 DEF FindProfile
<1>9. CASE c.step = "called" /\ List(c)
  <2>1. UNCHANGED <<rows, live, journal, board>> /\ c.op = "list"
    BY <1>9 DEF List
  <2>2. CASE Moves(c, "refused")
    BY <1>2, <1>4, <1>9, <2>1, <2>2
  <2> DEFINE read == [i \in DOMAIN rows |-> FromRecord(rows[i].columns)]
             given == [i \in DOMAIN rows |-> [id |-> rows[i].id, profile |-> Shown(read[i])]]
             next == [c EXCEPT !.step = "done", !.read = given]
  <2>3. CASE Step(c, next)
    <3>1. DOMAIN next = DOMAIN c /\ next.op = c.op /\ next.step = "done" /\ next.read = given
      BY <1>1, MovedOn
    <3>2. given = RowsShown /\ RowsShown' = RowsShown
      BY <2>1 DEF RowsShown
    <3>3. commands' = (commands \ {c}) \union {next}
      BY <2>3 DEF Step
    <3> HIDE DEF next, given
    <3>4. CommandIs(next)
      BY <1>1, <2>1, <3>1 DEF CommandIs
    <3> QED BY <1>2, <1>9, <2>1, <3>1, <3>2, <3>3, <3>4, WorkKeeps
  <2> QED BY <1>9, <2>2, <2>3 DEF List
<1>10. CASE DeleteRow(c)
  <2>1. /\ c.op = "remove" /\ c.step = "closed" /\ Moves(c, "done")
        /\ UNCHANGED <<live, board>>
        /\ rows' = Picked(rows, DOMAIN rows \ RowOf(c.id))
        /\ journal' = [Detached(c.id) EXCEPT !.deleted = @ \/ journal.of = c.id]
    BY <1>10 DEF DeleteRow
  <2>2. (rows \in ProfileRows)'
    BY <1>1, <2>1, PickedIs DEF ProfileRows
  <2>3. JournalIs' /\ HistoryIsKept'
    BY <1>1, <2>1 DEF JournalIs, HistoryIsKept, Detached
  <2>4. Relists([c EXCEPT !.step = "done"])
    BY <1>1, <2>1, MovedOn DEF Relists
  <2> QED BY <1>2, <1>4, <2>1, <2>2, <2>3, <2>4
<1>11. CASE Bind(c)
  <2>1. c.op = "bind" /\ c.step = "found" /\ UNCHANGED <<rows, journal, board>>
    BY <1>11 DEF Bind
  <2>2. LiveIsSound'
    <3>1. SoundProfile(c.read[1])
      BY <1>1, <2>1 DEF CommandIs
    <3>2. UNCHANGED live \/ live' = [id |-> c.id, profile |-> c.read[1]]
      BY <1>11 DEF Bind
    <3>3. CASE live' = [id |-> c.id, profile |-> c.read[1]]
      BY <3>1, <3>3 DEF LiveIsSound, SoundProfile
    <3> QED BY <1>2, <3>2, <3>3
  <2>3. Moves(c, "done") \/ Moves(c, "refused")
    BY <1>11 DEF Bind
  <2> QED BY <1>2, <1>4, <2>1, <2>2, <2>3
<1>12. CASE c.step \in {"called", "closed"} /\ Fails(c)
  BY <1>2, <1>4, <1>12 DEF Fails
<1> QED BY <1>0, <1>5, <1>6, <1>7, <1>8, <1>9, <1>10, <1>11, <1>12

\* What changes neither the rows nor the live session.
LEMMA ScreenRests ==
  ASSUME ScreenInv, UNCHANGED <<rows, live>>,
         \A c \in commands' : c \in commands \/ CommandIs(c),
         JournalIs', HistoryIsKept', BoardIs', OneAtATime'
  PROVE  ScreenInv'
<1>1. (\A c \in commands : CommandIs(c))'
  BY DEF ScreenInv, CommandIs, SoundProfile
<1>2. (rows \in ProfileRows)' /\ LiveIsSound'
  BY DEF ScreenInv, LiveIsSound
<1> QED BY <1>1, <1>2 DEF ScreenInv

\* Every step of the screen.
LEMMA ScreenStep == ScreenInv /\ [ScreenNext]_screenVars => ScreenInv'
<1> SUFFICES ASSUME ScreenInv, [ScreenNext]_screenVars PROVE ScreenInv'
  OBVIOUS
<1>1. /\ BoardIs /\ OneAtATime /\ JournalIs /\ HistoryIsKept
      /\ \A c \in commands : CommandIs(c)
  BY DEF ScreenInv
<1>2. /\ UNCHANGED journal => JournalIs' /\ HistoryIsKept'
      /\ UNCHANGED rows => RowsShown' = RowsShown
      /\ UNCHANGED board => BoardIs'
  BY <1>1 DEF JournalIs, HistoryIsKept, RowsShown, BoardIs
<1>3. CASE OpenSessions
  <2> DEFINE called == Called("list", Absent, Absent, -board.opened)
  <2>1. /\ board' = [board EXCEPT !.opened = @ + 1, !.busy = TRUE]
        /\ commands' = commands \union {called} /\ UNCHANGED <<rows, live, journal>>
    BY <1>3 DEF OpenSessions
  <2>2. CommandIs(called) /\ called.op = "list" /\ called.step = "called"
    BY DEF CommandIs, Called
  <2> HIDE DEF called
  <2>3. BoardIs' /\ board'.opened = board.opened + 1 /\ board'.busy = TRUE
        /\ board'.listed = board.listed
    BY <1>1, <2>1 DEF BoardIs
  <2>4. OneAtATime'
    <3>1. board'.opened <= 1 => board.opened = 0
      BY <1>1, <2>3 DEF BoardIs
    <3>2. board.opened = 0 => commands = {} /\ ~board.listed
      BY <1>1 DEF OneAtATime
    <3> QED BY <1>1, <2>1, <2>2, <2>3, <3>1, <3>2 DEF OneAtATime, BoardIs
  <2> QED BY <1>1, <1>2, <2>1, <2>2, <2>3, <2>4, ScreenRests
<1>4. CASE Use
  <2>0. PICK op \in {"save", "remove", "bind", "unbind"}, id \in SessionIds :
          \E input \in IF op = "save" THEN Typed ELSE {Absent} :
            /\ commands' = commands \union {Called(op, id, input, board.used + 1)}
            /\ LET new == op = "save" /\ id \notin board.minted
               IN  board' = [board EXCEPT !.busy = TRUE, !.used = @ + 1,
                                          !.minted = IF new THEN @ \union {id} ELSE @]
    BY <1>4 DEF Use
  <2>1. PICK input \in IF op = "save" THEN Typed ELSE {Absent} :
          /\ commands' = commands \union {Called(op, id, input, board.used + 1)}
          /\ LET new == op = "save" /\ id \notin board.minted
             IN  board' = [board EXCEPT !.busy = TRUE, !.used = @ + 1,
                                        !.minted = IF new THEN @ \union {id} ELSE @]
    BY <2>0
  <2> DEFINE called == Called(op, id, input, board.used + 1)
  <2>2. CommandIs(called) /\ called.op = op /\ called.step = "called"
    BY DEF CommandIs, Called
  <2>3. commands' = commands \union {called}
    BY <2>1
  <2> HIDE DEF called
  <2>4. /\ BoardIs' /\ board'.opened = board.opened /\ board'.busy = TRUE
        /\ board'.listed = board.listed /\ board'.profiles = board.profiles
    BY <1>1, <2>1 DEF BoardIs
  <2>5. UNCHANGED <<rows, live, journal>> /\ ~board.busy /\ board.opened > 0
    BY <1>4 DEF Use
  <2>6. OneAtATime'
    <3>1. board.opened <= 1 =>
            commands = {} /\ (board.listed => board.profiles = RowsShown)
      BY <1>1, <2>5 DEF OneAtATime
    <3>2. called.op # "list"
      BY <2>2
    <3>3. board.opened # 0
      BY <2>5
    <3> QED BY <1>2, <2>2, <2>3, <2>4, <2>5, <3>1, <3>2, <3>3 DEF OneAtATime
  <2> QED BY <1>1, <1>2, <2>2, <2>3, <2>4, <2>5, <2>6, ScreenRests
<1>5. CASE Works
  BY <1>5, WorkStep
<1>6. CASE IsAnswered
  <2>1. PICK c \in commands :
          /\ c.step \in {"done", "refused"}
          /\ LET again == c.op \in {"save", "remove"} /\ c.step = "done"
                 next  == Called("list", Absent, Absent, c.n)
             IN  /\ commands' = (commands \ {c}) \union (IF again THEN {next} ELSE {})
                 /\ board' =
                      [board EXCEPT
                         !.busy = again,
                         !.listed = IF c.op = "list" THEN c.step = "done" ELSE @,
                         !.profiles = IF c.op = "list" /\ c.step = "done" THEN c.read ELSE @]
    BY <1>6 DEF IsAnswered
  <2>2. UNCHANGED <<rows, live, journal>>
    BY <1>6 DEF IsAnswered
  <2> DEFINE again == c.op \in {"save", "remove"} /\ c.step = "done"
             called == Called("list", Absent, Absent, c.n)
  <2>3. CommandIs(called) /\ called.op = "list" /\ called.step = "called"
    BY DEF CommandIs, Called
  <2>4. commands' = (commands \ {c}) \union (IF again THEN {called} ELSE {})
    BY <2>1
  <2>5. /\ BoardIs' /\ board'.opened = board.opened /\ (board'.busy <=> again)
        /\ c.op # "list" => board'.listed = board.listed /\ board'.profiles = board.profiles
        /\ c.op = "list" => (board'.listed <=> c.step = "done")
        /\ c.op = "list" /\ c.step = "done" => board'.profiles = c.read
    BY <1>1, <2>1 DEF BoardIs
  <2> HIDE DEF called
  <2>6. OneAtATime'
    <3> SUFFICES ASSUME board.opened <= 1
                 PROVE  /\ \A d, e \in commands' : d = e
                        /\ ~board'.busy => commands' = {}
                        /\ board.opened = 0 => commands' = {} /\ ~board'.listed
                        /\ \A d \in commands' : d.op = "list" /\ d.step = "done" => d.read = RowsShown'
                        /\ board'.listed => \/ board'.profiles = RowsShown'
                                            \/ \E d \in commands' : Relists(d)
      BY <2>5 DEF OneAtATime
    <3>1. /\ commands = {c} /\ board.opened # 0
          /\ c.op = "list" /\ c.step = "done" => c.read = RowsShown
          /\ board.listed => board.profiles = RowsShown \/ Relists(c)
      BY <1>1 DEF OneAtATime
    <3>2. commands' = IF again THEN {called} ELSE {}
      BY <2>4, <3>1
    <3>3. RowsShown' = RowsShown
      BY <1>2, <2>2
    <3>4. CASE again
      BY <2>3, <2>5, <3>1, <3>2, <3>4 DEF Relists
    <3>5. CASE ~again /\ c.op = "list"
      BY <2>1, <2>5, <3>1, <3>2, <3>3, <3>5
    <3>6. CASE ~again /\ c.op # "list"
      BY <2>5, <3>1, <3>2, <3>3, <3>6 DEF Relists
    <3> QED BY <3>4, <3>5, <3>6
  <2> QED BY <1>1, <1>2, <2>2, <2>3, <2>4, <2>5, <2>6, ScreenRests
<1>7. CASE WriteAhead
  <2>1. /\ journal' = [of |-> live.id, column |-> live.id, deleted |-> FALSE]
        /\ UNCHANGED <<rows, live, board, commands>>
    BY <1>7 DEF WriteAhead
  <2>2. JournalIs' /\ HistoryIsKept'
    BY <2>1 DEF JournalIs, HistoryIsKept
  <2>3. OneAtATime'
    BY <1>1, <1>2, <2>1 DEF OneAtATime
  <2> QED BY <1>2, <2>1, <2>2, <2>3, ScreenRests
<1>8. CASE UNCHANGED screenVars
  <2>1. UNCHANGED <<rows, live, journal, board, commands>>
    BY <1>8 DEF screenVars
  <2>2. OneAtATime'
    BY <1>1, <1>2, <2>1 DEF OneAtATime
  <2> QED BY <1>2, <2>1, <2>2, ScreenRests
<1> QED BY <1>3, <1>4, <1>5, <1>6, <1>7, <1>8 DEF ScreenNext

\* The form.
LEMMA FormStep == draft \in Drafts /\ [Edit]_formVars => draft' \in Drafts
<1> SUFFICES ASSUME draft \in Drafts, [Edit]_formVars PROVE draft' \in Drafts
  OBVIOUS
<1>1. CASE Edit
  BY <1>1, SetADraft DEF Edit
<1>2. CASE UNCHANGED formVars
  BY <1>2 DEF formVars
<1> QED BY <1>1, <1>2

\* What is promised of the form and of the screen.
LEMMA ProfilesSafe == draft \in Drafts /\ ScreenInv => ProfilesAreKept
<1> SUFFICES ASSUME draft \in Drafts, ScreenInv PROVE ProfilesAreKept
  OBVIOUS
<1>1. AcceptedReadsBack
  BY AcceptedIsKept DEF AcceptedReadsBack
<1>2. ScreenShowsTheRows
  BY DEF ScreenInv, OneAtATime, ScreenShowsTheRows, RowsShown
<1> QED BY <1>1, <1>2 DEF ScreenInv, ProfilesAreKept

-----------------------------------------------------------------------------
(* The hours of a day.                                                      *)

DayIs == Day \in Nat \ {0}

\* A local time is an hour of the day.
LEMMA ModIs ==
  ASSUME DayIs, NEW a \in Int
  PROVE  a % Day \in 0 .. Day - 1
BY DEF DayIs

\* The remainder of a multiple and a rest is the rest.
LEMMA ModOf ==
  ASSUME NEW D \in Nat, D > 0, NEW q \in Int, NEW r \in 0 .. D - 1
  PROVE  (D * q + r) % D = r
OBVIOUS

\* The hours of a day are those of the day before.
LEMMA ModDay ==
  ASSUME DayIs, NEW a \in Int
  PROVE  (a + Day) % Day = a % Day
<1>1. a % Day = a - Day * (a \div Day)
  BY DEF DayIs
<1>2. a \div Day \in Int /\ a % Day \in 0 .. Day - 1 /\ Day \in Nat /\ Day > 0
  BY DEF DayIs
<1>3. PICK q, r : q = a \div Day /\ r = a % Day
  OBVIOUS
<1>4. q \in Int /\ r \in 0 .. Day - 1 /\ r = a - Day * q
  BY <1>1, <1>2, <1>3
<1>5. Day * (q + 1) = Day * q + Day
  BY <1>2, <1>4
<1>6. a + Day = Day * (q + 1) + r /\ q + 1 \in Int
  BY <1>2, <1>4, <1>5
<1>7. (Day * (q + 1) + r) % Day = r
  BY <1>2, <1>4, <1>6, ModOf
<1> QED BY <1>3, <1>6, <1>7

\* Adding less than a day to a local time, before and past midnight.
LEMMA ModAdd ==
  ASSUME DayIs, NEW a \in Int, NEW k \in Int
  PROVE  /\ (a % Day) + k \in 0 .. Day - 1 => (a + k) % Day = (a % Day) + k
         /\ (a % Day) + k \in Day .. 2 * Day - 1 => (a + k) % Day = (a % Day) + k - Day
<1>1. \A n \in Int : (a % Day) + n \in 0 .. Day - 1 => (a + n) % Day = (a % Day) + n
  BY DEF DayIs
<1>2. (a % Day) + k \in Day .. 2 * Day - 1 => (a + k) % Day = (a % Day) + k - Day
  <2> SUFFICES ASSUME (a % Day) + k \in Day .. 2 * Day - 1
               PROVE  (a + k) % Day = (a % Day) + k - Day
    OBVIOUS
  <2>1. k - Day \in Int /\ Day \in Int /\ a % Day \in Int /\ a + (k - Day) \in Int
    BY DEF DayIs
  <2>2. (a % Day) + (k - Day) \in 0 .. Day - 1
    BY <2>1
  <2>3. (a + (k - Day)) % Day = (a % Day) + (k - Day)
    BY <1>1, <2>1, <2>2
  <2>4. ((a + (k - Day)) + Day) % Day = (a + (k - Day)) % Day
    BY <2>1, ModDay
  <2>5. (a + (k - Day)) + Day = a + k /\ (a % Day) + (k - Day) = (a % Day) + k - Day
    BY <2>1
  <2> QED BY <2>3, <2>4, <2>5
<1> QED BY <1>1, <1>2

IsHours(w) ==
  /\ w.open \in 0 .. Day - 1 /\ w.close \in 0 .. Day - 1 /\ w.open # w.close
  /\ w.offset \in Int

OpenAt(w, h) ==
  IF w.open < w.close THEN w.open <= h /\ h < w.close ELSE w.open <= h \/ h < w.close

\* The hours enumerated are those `contains` accepts, over midnight or not.
LEMMA OpenHoursAre ==
  ASSUME DayIs, NEW w, IsHours(w), NEW h \in 0 .. Day - 1
  PROVE  h \in OpenHours(w) <=> OpenAt(w, h)
<1> DEFINE n == (w.close - w.open) % Day
<1>1. /\ w.open \in 0 .. Day - 1 /\ w.close \in 0 .. Day - 1 /\ w.open # w.close
      /\ Day \in Nat /\ Day > 0
  BY DEF IsHours, DayIs
<1>2. n = IF w.open < w.close THEN w.close - w.open ELSE w.close - w.open + Day
  <2>1. PICK k : k = w.close - w.open
    OBVIOUS
  <2>2. k \in Int /\ 0 \in Int /\ 0 % Day = 0
    BY <1>1, <2>1, ModOf
  <2>3. CASE w.open < w.close
    <3>1. k \in 0 .. Day - 1 /\ 0 + k = k
      BY <1>1, <2>1, <2>3
    <3> QED BY <2>1, <2>2, <2>3, <3>1, ModAdd
  <2>4. CASE ~(w.open < w.close)
    <3>1. k + Day \in 0 .. Day - 1 /\ 0 + (k + Day) = k + Day /\ k + Day \in Int
      BY <1>1, <2>1, <2>2, <2>4
    <3>2. (k + Day) % Day = k + Day
      BY <2>2, <3>1, ModAdd
    <3> QED BY <2>1, <2>2, <2>4, <3>2, ModDay
  <2> QED BY <2>3, <2>4
<1> HIDE DEF n
<1>3. OpenHours(w) = {(w.open + i) % Day : i \in 0 .. n - 1}
  BY DEF OpenHours, n
<1>4. \A i \in 0 .. n - 1 :
        (w.open + i) % Day = IF w.open + i < Day THEN w.open + i ELSE w.open + i - Day
  <2> SUFFICES ASSUME NEW i \in 0 .. n - 1
               PROVE  (w.open + i) % Day =
                        IF w.open + i < Day THEN w.open + i ELSE w.open + i - Day
    OBVIOUS
  <2>1. i \in 0 .. Day - 1 /\ i \in Int /\ w.open \in Int /\ 0 \in Int /\ 0 + w.open = w.open
    BY <1>1, <1>2
  <2>2. 0 % Day = 0
    BY <1>1, ModOf
  <2>3. w.open % Day = w.open
    BY <1>1, <2>1, <2>2, ModAdd, ZenonT(40)
  <2>4. CASE w.open + i < Day
    <3>1. (w.open % Day) + i \in 0 .. Day - 1
      BY <1>1, <2>1, <2>3, <2>4
    <3> QED BY <2>1, <2>3, <2>4, <3>1, ModAdd
  <2>5. CASE ~(w.open + i < Day)
    <3>1. (w.open % Day) + i \in Day .. 2 * Day - 1
      BY <1>1, <2>1, <2>3, <2>5
    <3> QED BY <2>1, <2>3, <2>5, <3>1, ModAdd
  <2> QED BY <2>4, <2>5
<1>5. ASSUME NEW i \in 0 .. n - 1, h = (w.open + i) % Day PROVE OpenAt(w, h)
  <2>1. h = IF w.open + i < Day THEN w.open + i ELSE w.open + i - Day
    BY <1>4, <1>5
  <2> QED BY <1>1, <1>2, <2>1 DEF OpenAt
<1>6. ASSUME OpenAt(w, h) PROVE \E i \in 0 .. n - 1 : h = (w.open + i) % Day
  <2>1. PICK i : i = IF w.open <= h THEN h - w.open ELSE h - w.open + Day
    OBVIOUS
  <2>2. i \in 0 .. n - 1 /\ h = IF w.open + i < Day THEN w.open + i ELSE w.open + i - Day
    BY <1>1, <1>2, <1>6, <2>1 DEF OpenAt
  <2> QED BY <1>4, <2>2
<1> QED BY <1>3, <1>5, <1>6

\* The next opening is open, within a day, and no hour before it is.
LEMMA OpeningIs ==
  ASSUME DayIs, NEW w, IsHours(w), NEW t \in Int
  PROVE  /\ NextOpening(w, t) \in t .. t + Day
         /\ (NextOpening(w, t) + w.offset) % Day \in OpenHours(w)
         /\ \A u \in t .. NextOpening(w, t) - 1 : (u + w.offset) % Day \notin OpenHours(w)
<1>1. PICK local : local = (t + w.offset) % Day
  OBVIOUS
<1>2. /\ w.open \in 0 .. Day - 1 /\ w.close \in 0 .. Day - 1 /\ w.open # w.close
      /\ Day \in Nat /\ Day > 0 /\ w.offset \in Int /\ t + w.offset \in Int
  BY DEF IsHours, DayIs
<1>3. local \in 0 .. Day - 1
  BY <1>1, <1>2, ModIs
<1>4. \A k \in 0 .. Day :
        (t + k + w.offset) % Day = IF local + k < Day THEN local + k ELSE local + k - Day
  <2> SUFFICES ASSUME NEW k \in 0 .. Day
               PROVE  (t + k + w.offset) % Day =
                        IF local + k < Day THEN local + k ELSE local + k - Day
    OBVIOUS
  <2>1. t + k + w.offset = (t + w.offset) + k /\ k \in Int
    BY <1>2
  <2>2. CASE local + k < Day
    <3>1. local + k \in 0 .. Day - 1
      BY <1>2, <1>3, <2>2
    <3> QED BY <1>1, <1>2, <2>1, <2>2, <3>1, ModAdd
  <2>3. CASE ~(local + k < Day)
    <3>1. local + k \in Day .. 2 * Day - 1
      BY <1>2, <1>3, <2>3
    <3> QED BY <1>1, <1>2, <2>1, <2>3, <3>1, ModAdd
  <2> QED BY <2>2, <2>3
<1>5. PICK m : m = IF OpenAt(w, local) THEN 0
                   ELSE IF w.open > local THEN w.open - local ELSE w.open - local + Day
  OBVIOUS
<1>6. m \in 0 .. Day /\ NextOpening(w, t) = t + m
  <2>1. ContainsInstant(w, t) <=> OpenAt(w, local)
    BY <1>1 DEF ContainsInstant, LocalTime, OpenAt
  <2>2. m \in 0 .. Day
    BY <1>2, <1>3, <1>5 DEF OpenAt
  <2>3. NextOpening(w, t) =
          IF OpenAt(w, local) THEN t
          ELSE IF t - local + w.open > t THEN t - local + w.open ELSE t - local + w.open + Day
    BY <1>1, <2>1 DEF NextOpening, LocalTime
  <2>4. CASE OpenAt(w, local)
    BY <1>5, <2>2, <2>3, <2>4
  <2>5. CASE ~OpenAt(w, local)
    BY <1>2, <1>3, <1>5, <2>2, <2>3, <2>5
  <2> QED BY <2>2, <2>4, <2>5
<1> DEFINE hour(k) == IF local + k < Day THEN local + k ELSE local + k - Day
<1>7. \A k \in 0 .. m : hour(k) \in 0 .. Day - 1
  BY <1>2, <1>3, <1>6
<1>8. OpenAt(w, hour(m))
  BY <1>2, <1>3, <1>5 DEF OpenAt
<1>9. \A k \in 0 .. m - 1 : ~OpenAt(w, hour(k))
  BY <1>2, <1>3, <1>5 DEF OpenAt
<1>10. \A k \in 0 .. m : (t + k + w.offset) % Day \in OpenHours(w) <=> OpenAt(w, hour(k))
  <2> SUFFICES ASSUME NEW k \in 0 .. m
               PROVE  (t + k + w.offset) % Day \in OpenHours(w) <=> OpenAt(w, hour(k))
    OBVIOUS
  <2>1. (t + k + w.offset) % Day = hour(k) /\ hour(k) \in 0 .. Day - 1
    BY <1>2, <1>4, <1>6, <1>7
  <2> HIDE DEF hour
  <2> QED BY <2>1, OpenHoursAre
<1>11. NextOpening(w, t) \in t .. t + Day /\ m \in 0 .. m
  BY <1>2, <1>6
<1>12. (NextOpening(w, t) + w.offset) % Day \in OpenHours(w)
  BY <1>6, <1>8, <1>10, <1>11
<1>13. ASSUME NEW u \in t .. NextOpening(w, t) - 1 PROVE (u + w.offset) % Day \notin OpenHours(w)
  <2>1. PICK k : k = u - t
    OBVIOUS
  <2>2. k \in 0 .. m - 1 /\ k \in 0 .. m /\ u = t + k
    BY <1>6, <1>13, <2>1
  <2> QED BY <1>9, <1>10, <2>2
<1> QED BY <1>11, <1>12, <1>13

\* An element below every other is the minimum.
LEMMA LeastIs ==
  ASSUME NEW S, NEW n \in S, S \subseteq Int, \A u \in S : n <= u
  PROVE  Min(S) = n
<1>1. \A x \in S : (\A y \in S : x <= y) => x = n
  <2> SUFFICES ASSUME NEW x \in S, \A y \in S : x <= y PROVE x = n
    OBVIOUS
  <2>1. x <= n /\ n <= x /\ x \in Int /\ n \in Int
    OBVIOUS
  <2> QED BY <2>1
<1> QED BY <1>1 DEF Min

\* The first legal instant is the next opening.
LEMMA OpeningIsFirst ==
  ASSUME DayIs, NEW w, IsHours(w), NEW t \in Int
  PROVE  Min({u \in t .. t + Day : (u + w.offset) % Day \in OpenHours(w)}) = NextOpening(w, t)
<1> DEFINE S == {u \in t .. t + Day : (u + w.offset) % Day \in OpenHours(w)}
           n == NextOpening(w, t)
<1>1. n \in S /\ S \subseteq Int /\ S \subseteq t .. t + Day /\ Day \in Nat
  BY OpeningIs DEF DayIs
<1>2. \A u \in S : u \notin t .. n - 1
  BY OpeningIs
<1> HIDE DEF S, n
<1>3. ASSUME NEW u \in S PROVE n <= u
  BY <1>1, <1>2
<1>4. Min(S) = n
  BY <1>1, <1>3, LeastIs
<1> QED BY <1>4 DEF S, n

-----------------------------------------------------------------------------
(* A campaign waits for its hours, and a message for its next attempt.      *)

HoursInv ==
  /\ DOMAIN hours = {"start", "window", "now"}
  /\ hours.start \in Int /\ hours.now \in Int /\ IsHours(hours.window)

\* A new campaign's hours are as the invariant says.
LEMMA HoursStart == hours \in NewCampaigns => HoursInv
<1> SUFFICES ASSUME hours \in NewCampaigns PROVE HoursInv
  OBVIOUS
<1>1. /\ DOMAIN hours = {"start", "window", "now"} /\ hours.window \in DailyWindows
      /\ hours.start \in Int /\ hours.now \in Int
  BY WaitsAssumption DEF NewCampaigns
<1>2. IsHours(hours.window)
  BY <1>1, WaitsAssumption DEF DailyWindows, IsHours
<1> QED BY <1>1, <1>2 DEF HoursInv

\* Time passing keeps them so.
LEMMA HoursStep == HoursInv /\ [HourPasses]_hours => HoursInv'
BY DEF HoursInv, HourPasses, IsHours

\* A campaign sends in its hours, and waits no longer than to the next.
LEMMA HoursSafe == HoursInv => SchedulesAreRight
<1> SUFFICES ASSUME HoursInv PROVE SchedulesAreRight
  OBVIOUS
<1>1. PICK t : t = Higher(hours.start, hours.now)
  OBVIOUS
<1>2. t \in Int /\ t = IF hours.start > hours.now THEN hours.start ELSE hours.now
  BY <1>1 DEF HoursInv, Higher
<1>3. PICK w : w = hours.window
  OBVIOUS
<1>4. DayIs /\ IsHours(w)
  BY <1>3, WaitsAssumption DEF HoursInv, DayIs
<1>5. Min({u \in t .. t + Day : (u + w.offset) % Day \in OpenHours(w)}) = NextOpening(w, t)
  BY <1>2, <1>4, OpeningIsFirst
<1>6. Decide(hours.start, hours.window, hours.now) = NextOpening(w, t)
  BY <1>2, <1>3 DEF Decide
<1> QED BY <1>1, <1>3, <1>5, <1>6 DEF SchedulesAreRight

RetryInv ==
  /\ DOMAIN retry = {"policy", "first", "tried", "delay", "before", "last", "row", "fate"}
  /\ retry.first \in Int /\ retry.tried \in Int /\ retry.policy.tries \in Int
  /\ BudgetsAreKept

\* A new message's attempts are as the invariant says.
LEMMA RetryStart == retry \in NewMessages => RetryInv
<1> SUFFICES ASSUME retry \in NewMessages PROVE RetryInv
  OBVIOUS
<1>1. PICK p \in RetryPolicies, first \in 1 .. MaxTries + 1 :
        retry = [policy |-> p, first |-> first, tried |-> first, delay |-> 0, before |-> 0,
                 last |-> "none", row |-> "SENT", fate |-> "retrying"]
  BY DEF NewMessages
<1>2. p.tries \in Int /\ first \in Int
  BY WaitsAssumption DEF RetryPolicies
<1> QED BY <1>1, <1>2 DEF RetryInv, BudgetsAreKept, Higher

\* An attempt, failed or accepted, keeps the budget and the row in step.
LEMMA RetryStep == RetryInv /\ [RetryNext]_retry => RetryInv'
<1> SUFFICES ASSUME RetryInv, [RetryNext]_retry PROVE RetryInv'
  OBVIOUS
<1>1. CASE SubmissionAccepted
  BY <1>1 DEF SubmissionAccepted, RetryInv, BudgetsAreKept, Higher
<1>2. ASSUME NEW failure \in Failures, SubmissionFails(failure) PROVE RetryInv'
  <2>1. PICK decided : decided = RetryDecide(retry.policy, failure, retry.tried)
    OBVIOUS
  <2>2. PICK settled :
          settled = [retry EXCEPT !.last = failure, !.fate = decided,
                                  !.row = RowAfter(retry.policy, failure, retry.tried)]
    OBVIOUS
  <2>3. /\ DOMAIN settled = DOMAIN retry /\ settled.policy = retry.policy
        /\ settled.first = retry.first /\ settled.tried = retry.tried
        /\ settled.last = failure /\ settled.fate = decided
        /\ settled.row = RowAfter(retry.policy, failure, retry.tried)
    BY <2>2 DEF RetryInv
  <2>4. CASE decided # "retrying"
    <3>1. retry' = settled
      BY <1>2, <2>1, <2>2, <2>4 DEF SubmissionFails
    <3> QED BY <2>1, <2>3, <2>4, <3>1 DEF RetryInv, BudgetsAreKept, RetryDecide, RowAfter
  <2>5. CASE decided = "retrying"
    <3>1. PICK delay, before :
            retry' = [settled EXCEPT !.tried = @ + 1, !.before = before, !.delay = delay]
      BY <1>2, <2>1, <2>2, <2>5 DEF SubmissionFails
    <3>2. /\ DOMAIN retry' = DOMAIN retry /\ retry'.policy = retry.policy
          /\ retry'.first = retry.first /\ retry'.tried = retry.tried + 1
          /\ retry'.fate = decided
          /\ retry'.row = RowAfter(retry.policy, failure, retry.tried)
      BY <2>3, <3>1 DEF RetryInv
    <3> QED BY <2>1, <2>5, <3>2 DEF RetryInv, BudgetsAreKept, RetryDecide, RowAfter, Higher
  <2> QED BY <2>4, <2>5
<1>3. CASE UNCHANGED retry
  BY <1>3 DEF RetryInv, BudgetsAreKept
<1> QED BY <1>1, <1>2, <1>3 DEF RetryNext

-----------------------------------------------------------------------------
(* A back-off doubles, up to its ceiling.                                   *)

Exponent(n) == Lower(Higher(n - 1, 0), WordBits - 1)

\* The exponent is the attempt before this one, capped at the word.
LEMMA ExponentIs ==
  ASSUME NEW n \in Nat \ {0}
  PROVE  /\ Exponent(n) \in 0 .. WordBits - 1
         /\ Exponent(n) = IF n <= WordBits THEN n - 1 ELSE WordBits - 1
         /\ Exponent(n) = Lower(n - 1, WordBits - 1)
BY WaitsAssumption DEF Exponent, Lower, Higher

\* The power taken doubles from one attempt to the next, until the word ends.
LEMMA PowersGrow ==
  ASSUME NEW n \in Nat \ {0}
  PROVE  /\ PowerOfTwo[Exponent(n)] \in Nat \ {0} /\ PowerOfTwo[WordBits - 1] \in Nat \ {0}
         /\ PowerOfTwo[Exponent(n + 1)] \in Nat \ {0}
         /\ n < WordBits => PowerOfTwo[Exponent(n + 1)] = 2 * PowerOfTwo[Exponent(n)]
         /\ n >= WordBits => /\ PowerOfTwo[Exponent(n)] = PowerOfTwo[WordBits - 1]
                             /\ PowerOfTwo[Exponent(n + 1)] = PowerOfTwo[WordBits - 1]
<1>1. /\ Exponent(n) \in 0 .. WordBits - 1 /\ Exponent(n + 1) \in 0 .. WordBits - 1
      /\ Exponent(n) = IF n <= WordBits THEN n - 1 ELSE WordBits - 1
      /\ Exponent(n + 1) = IF n + 1 <= WordBits THEN n + 1 - 1 ELSE WordBits - 1
      /\ WordBits \in Nat \ {0}
  <2>1. n + 1 \in Nat \ {0}
    OBVIOUS
  <2> QED BY <2>1, ExponentIs, WaitsAssumption
<1>2. /\ PowerOfTwo[Exponent(n)] \in Nat \ {0} /\ PowerOfTwo[WordBits - 1] \in Nat \ {0}
      /\ PowerOfTwo[Exponent(n + 1)] \in Nat \ {0}
  BY <1>1, WaitsAssumption
<1>3. n < WordBits => PowerOfTwo[Exponent(n + 1)] = 2 * PowerOfTwo[Exponent(n)]
  <2> SUFFICES ASSUME n < WordBits PROVE PowerOfTwo[Exponent(n + 1)] = 2 * PowerOfTwo[Exponent(n)]
    OBVIOUS
  <2>1. Exponent(n + 1) = n /\ Exponent(n) = n - 1 /\ n \in 1 .. WordBits - 1
    BY <1>1
  <2> QED BY <2>1, WaitsAssumption
<1>4. n >= WordBits => Exponent(n) = WordBits - 1 /\ Exponent(n + 1) = WordBits - 1
  BY <1>1
<1> QED BY <1>2, <1>3, <1>4

\* The factor grows with n, and is at its most when the word is full.
Growth(f, g, most) ==
  /\ f \in Nat \ {0} /\ g \in Nat \ {0} /\ most \in Nat \ {0}
  /\ g = 2 * f \/ (f = most /\ g = most)

\* What a wait is for its factor.
Wait(wait, f, max, most) == Lower(Lower(wait * f, 2 * most - 1), max)

\* A wait doubles with its factor until it reaches the maximum, and stays there.
LEMMA WaitGrows ==
  ASSUME NEW wait \in Nat \ {0}, NEW max \in Nat, NEW f, NEW g, NEW most,
         Growth(f, g, most), wait <= max, max < most
  PROVE  /\ Wait(wait, f, max, most) \in wait .. max
         /\ Wait(wait, f, max, most) <= Wait(wait, g, max, most)
         /\ wait * f >= max \/ f = most => Wait(wait, f, max, most) = max
         /\ g = 2 * f /\ wait * g <= max => Wait(wait, g, max, most) = 2 * Wait(wait, f, max, most)
<1>1. PICK a, b : a = wait * f /\ b = wait * g
  OBVIOUS
<1>2. /\ f \in Nat \ {0} /\ g \in Nat \ {0} /\ most \in Nat \ {0} /\ a \in Nat /\ b \in Nat
      /\ g = 2 * f \/ (f = most /\ g = most)
  BY <1>1 DEF Growth
<1>3. a >= wait
  BY <1>1, <1>2
<1>4. (g = 2 * f => b = 2 * a) /\ (g = f => b = a)
  BY <1>1, <1>2
<1>5. f = most => a >= most
  BY <1>1, <1>2
<1>6. /\ Wait(wait, f, max, most) = IF a <= max THEN a ELSE max
      /\ Wait(wait, g, max, most) = IF b <= max THEN b ELSE max
  BY <1>1, <1>2 DEF Wait, Lower
<1> QED BY <1>1, <1>2, <1>3, <1>4, <1>5, <1>6

\* The seconds of a policy, in units of delay.
LEMMA SecondsAre ==
  ASSUME NEW min \in Nat \ {0}, NEW max \in Nat, min <= max, max <= MaxSeconds
  PROVE  /\ min * Tick \in Nat \ {0} /\ max * Tick \in Nat /\ min * Tick <= max * Tick
         /\ max * Tick < PowerOfTwo[WordBits - 1]
<1>1. Tick \in Nat \ {0} /\ MaxSeconds \in Nat
  BY WaitsAssumption
<1>2. min * Tick \in Nat \ {0} /\ max * Tick \in Nat /\ MaxSeconds * Tick \in Nat
  BY <1>1
<1>3. min * Tick <= max * Tick /\ max * Tick <= MaxSeconds * Tick
  BY <1>1
<1>4. MaxSeconds * Tick < PowerOfTwo[WordBits - 1] /\ PowerOfTwo[WordBits - 1] \in Nat
  <2>1. WordBits - 1 \in 0 .. WordBits - 1
    BY WaitsAssumption
  <2> QED BY <2>1, WaitsAssumption
<1> QED BY <1>2, <1>3, <1>4

\* The factors of two attempts in a row grow as `WaitGrows` needs.
LEMMA FactorsGrow ==
  ASSUME NEW n \in Nat \ {0}
  PROVE  Growth(PowerOfTwo[Exponent(n)], PowerOfTwo[Exponent(n + 1)], PowerOfTwo[WordBits - 1])
<1>1. WordBits \in Nat
  BY WaitsAssumption
<1>2. n < WordBits \/ n >= WordBits
  BY <1>1
<1> QED BY <1>2, PowersGrow DEF Growth

\* A retry waits no less than the one before.
LEMMA RetriesGrow ==
  ASSUME NEW p \in RetryPolicies, NEW n \in Nat \ {0}
  PROVE  /\ RetryDelay(p, n) \in p.base * Tick .. p.max * Tick
         /\ RetryDelay(p, n) <= RetryDelay(p, n + 1)
<1>1. /\ p.base \in Nat \ {0} /\ p.max \in Nat /\ p.base <= p.max /\ p.max <= MaxSeconds
  BY WaitsAssumption DEF RetryPolicies
<1>2. PICK wait, max, most : /\ wait = p.base * Tick /\ max = p.max * Tick
                             /\ most = PowerOfTwo[WordBits - 1]
  OBVIOUS
<1>3. wait \in Nat \ {0} /\ max \in Nat /\ wait <= max /\ max < most
  BY <1>1, <1>2, SecondsAre
<1>4. PICK f, g : f = PowerOfTwo[Exponent(n)] /\ g = PowerOfTwo[Exponent(n + 1)]
  OBVIOUS
<1>5. Growth(f, g, most)
  BY <1>2, <1>4, FactorsGrow
<1>6. CASE p.backoff = "fixed"
  <2>1. \A k : RetryDelay(p, k) = Lower(wait, max)
    BY <1>2, <1>6 DEF RetryDelay
  <2> QED BY <1>2, <1>3, <2>1 DEF Lower
<1>7. CASE p.backoff # "fixed"
  <2>1. /\ RetryDelay(p, n) = Wait(wait, f, max, most)
        /\ RetryDelay(p, n + 1) = Wait(wait, g, max, most)
    BY <1>2, <1>4, <1>7 DEF RetryDelay, Doubled, MaxWord, Exponent, Wait
  <2> QED BY <1>2, <1>3, <1>5, <2>1, WaitGrows
<1> QED BY <1>6, <1>7

\* So does the base of a reconnection's, and it doubles until its ceiling.
LEMMA BasesGrow ==
  ASSUME NEW p \in ReconnectPolicies, NEW n \in Nat \ {0}
  PROVE  /\ BaseDelay(p, n) \in p.min * Tick .. p.max * Tick
         /\ p.min * PowerOfTwo[Exponent(n)] >= p.max => BaseDelay(p, n) = p.max * Tick
         /\ p.min * PowerOfTwo[Exponent(n + 1)] <= p.max => BaseDelay(p, n + 1) = 2 * BaseDelay(p, n)
<1>1. /\ p.min \in Nat \ {0} /\ p.max \in Nat /\ p.min <= p.max /\ p.max <= MaxSeconds
      /\ Tick \in Nat \ {0} /\ MaxSeconds \in Nat
  BY WaitsAssumption DEF ReconnectPolicies
<1>2. PICK wait, max, most : /\ wait = p.min * Tick /\ max = p.max * Tick
                             /\ most = PowerOfTwo[WordBits - 1]
  OBVIOUS
<1>3. wait \in Nat \ {0} /\ max \in Nat /\ wait <= max /\ max < most
  BY <1>1, <1>2, SecondsAre
<1>4. PICK f, g : f = PowerOfTwo[Exponent(n)] /\ g = PowerOfTwo[Exponent(n + 1)]
  OBVIOUS
<1>5. Growth(f, g, most)
  BY <1>2, <1>4, FactorsGrow
<1>6. f \in Nat \ {0} /\ g \in Nat \ {0} /\ most \in Nat \ {0} /\ (g = 2 * f \/ (f = most /\ g = most))
  BY <1>5 DEF Growth
<1>7. /\ BaseDelay(p, n) = Wait(wait, f, max, most)
      /\ BaseDelay(p, n + 1) = Wait(wait, g, max, most)
  BY <1>2, <1>4 DEF BaseDelay, Doubled, MaxWord, Exponent, Wait
<1>8. p.min * f >= p.max => wait * f >= max
  <2>1. PICK a : a = p.min * f
    OBVIOUS
  <2>2. wait * f = a * Tick /\ a \in Nat
    BY <1>1, <1>2, <1>6, <2>1
  <2>3. a >= p.max => a * Tick >= p.max * Tick
    BY <1>1, <2>2
  <2> QED BY <1>2, <2>1, <2>2, <2>3
<1>9. p.min * g <= p.max => wait * g <= max
  <2>1. PICK a : a = p.min * g
    OBVIOUS
  <2>2. wait * g = a * Tick /\ a \in Nat
    BY <1>1, <1>2, <1>6, <2>1
  <2>3. a <= p.max => a * Tick <= p.max * Tick
    BY <1>1, <2>2
  <2> QED BY <1>2, <2>1, <2>2, <2>3
<1>10. p.min * g <= p.max => g = 2 * f
  <2>1. g = most => p.min * g >= most
    BY <1>1, <1>6
  <2>2. p.max * Tick >= p.max
    BY <1>1
  <2>3. p.max < most
    BY <1>1, <1>2, <1>3, <1>6, <2>2
  <2>4. p.min * g \in Nat
    BY <1>1, <1>6
  <2> QED BY <1>1, <1>6, <2>1, <2>3, <2>4
<1>11. /\ Wait(wait, f, max, most) \in wait .. max
       /\ wait * f >= max => Wait(wait, f, max, most) = max
       /\ g = 2 * f /\ wait * g <= max => Wait(wait, g, max, most) = 2 * Wait(wait, f, max, most)
  BY <1>3, <1>5, WaitGrows
<1> QED BY <1>2, <1>4, <1>7, <1>8, <1>9, <1>10, <1>11

\* The upper half of a base, and of one that has doubled.
LEMMA DelaysAre ==
  ASSUME NEW p \in ReconnectPolicies, NEW n \in Nat \ {0}, NEW delay \in DelaysFor(p, n)
  PROVE  /\ delay \in Nat /\ delay <= p.max * Tick /\ 2 * delay >= p.min * Tick - 1
         /\ p.min * PowerOfTwo[Exponent(n)] >= p.max => 2 * delay >= p.max * Tick - 1
         /\ p.min * PowerOfTwo[Exponent(n + 1)] <= p.max =>
              \A next \in DelaysFor(p, n + 1) : next >= delay
<1>1. /\ p.min \in Nat \ {0} /\ p.max \in Nat /\ p.min * Tick \in Nat /\ p.max * Tick \in Nat
  BY WaitsAssumption DEF ReconnectPolicies
<1>2. PICK b, c, least, most : /\ b = BaseDelay(p, n) /\ c = BaseDelay(p, n + 1)
                               /\ least = p.min * Tick /\ most = p.max * Tick
  OBVIOUS
<1>3. /\ least \in Nat /\ most \in Nat /\ b \in least .. most
      /\ p.min * PowerOfTwo[Exponent(n)] >= p.max => b = most
      /\ p.min * PowerOfTwo[Exponent(n + 1)] <= p.max => c = 2 * b
  BY <1>1, <1>2, BasesGrow
<1>4. delay \in b \div 2 .. b \/ delay = b
  BY <1>2 DEF DelaysFor
<1>5. \A next \in DelaysFor(p, n + 1) : next \in c \div 2 .. c \/ next = c
  BY <1>2 DEF DelaysFor
<1>6. delay \in Nat /\ delay <= b /\ 2 * delay >= b - 1
  BY <1>3, <1>4
<1>7. c = 2 * b => \A next \in DelaysFor(p, n + 1) : next >= b
  BY <1>3, <1>5
<1>8. c = 2 * b => \A next \in DelaysFor(p, n + 1) : next >= delay
  <2> SUFFICES ASSUME c = 2 * b, NEW next \in DelaysFor(p, n + 1) PROVE next >= delay
    OBVIOUS
  <2>1. next \in Int
    BY <1>3, <1>5
  <2> QED BY <1>3, <1>6, <1>7, <2>1
<1> QED BY <1>2, <1>3, <1>6, <1>8

LinkInv ==
  /\ DOMAIN link = {"policy", "attempt", "delay", "before", "fate"}
  /\ link.policy \in ReconnectPolicies /\ link.attempt \in Nat
  /\ link.fate = "reconnecting" =>
       /\ link.attempt = 0 => link.delay = 0
       /\ link.attempt > 0 => link.delay \in DelaysFor(link.policy, link.attempt)
       /\ link.attempt = 1 => link.before = 0
       /\ link.attempt > 1 => link.before \in DelaysFor(link.policy, link.attempt - 1)

\* A session that never failed satisfies the invariant of its waits.
LEMMA LinkStart == link \in NewLinks => LinkInv
BY DEF NewLinks, LinkInv

\* A failure or a bind keeps the invariant of a session's waits.
LEMMA LinkStep == LinkInv /\ [LinkNext]_link => LinkInv'
<1> SUFFICES ASSUME LinkInv, [LinkNext]_link PROVE LinkInv'
  OBVIOUS
<1>1. CASE AttemptBinds
  BY <1>1 DEF AttemptBinds, LinkInv
<1>2. ASSUME NEW error \in Errors, AttemptFails(error) PROVE LinkInv'
  <2>1. PICK decided, attempt :
          decided = Decision(link.policy, error) /\ attempt = link.attempt + 1
    OBVIOUS
  <2>2. link.fate = "reconnecting"
    BY <1>2 DEF AttemptFails
  <2>3. PICK delay \in IF decided = "reconnecting" THEN DelaysFor(link.policy, attempt) ELSE {0} :
          link' = [link EXCEPT !.attempt = attempt, !.delay = delay, !.before = link.delay,
                               !.fate = decided]
    BY <1>2, <2>1 DEF AttemptFails
  <2>4. /\ DOMAIN link' = DOMAIN link /\ link'.policy = link.policy /\ link'.attempt = attempt
        /\ link'.delay = delay /\ link'.before = link.delay /\ link'.fate = decided
    BY <2>3 DEF LinkInv
  <2>5. link.attempt \in Nat /\ attempt \in Nat /\ attempt > 0 /\ attempt - 1 = link.attempt
    BY <2>1 DEF LinkInv
  <2>6. decided = "reconnecting" => delay \in DelaysFor(link.policy, attempt)
    BY <2>3
  <2> QED BY <2>2, <2>4, <2>5, <2>6 DEF LinkInv
<1>3. CASE UNCHANGED link
  BY <1>3 DEF LinkInv
<1> QED BY <1>1, <1>2, <1>3 DEF LinkNext

\* The same bounds, of a retry.
WaitInv ==
  /\ RetryInv /\ retry.policy \in RetryPolicies /\ retry.first \in Nat \ {0}
  /\ retry.tried \in Nat /\ retry.tried >= retry.first
  /\ retry.fate = "retrying" =>
       /\ retry.tried = retry.first => retry.delay = 0
       /\ retry.tried > retry.first => retry.delay = RetryDelay(retry.policy, retry.tried - 1)
       /\ retry.tried = retry.first + 1 => retry.before = 0
       /\ retry.tried > retry.first + 1 => retry.before = RetryDelay(retry.policy, retry.tried - 2)

\* A message that was never retried satisfies the invariant of its waits.
LEMMA WaitStart == retry \in NewMessages => WaitInv
<1> SUFFICES ASSUME retry \in NewMessages PROVE WaitInv
  OBVIOUS
<1>1. PICK p \in RetryPolicies, first \in 1 .. MaxTries + 1 :
        retry = [policy |-> p, first |-> first, tried |-> first, delay |-> 0, before |-> 0,
                 last |-> "none", row |-> "SENT", fate |-> "retrying"]
  BY DEF NewMessages
<1>2. /\ retry.policy = p /\ retry.first = first /\ retry.tried = first /\ retry.delay = 0
      /\ first \in Nat \ {0}
  BY <1>1, WaitsAssumption
<1> QED BY <1>2, RetryStart DEF WaitInv

\* An attempt keeps the invariant of a message's waits.
LEMMA WaitStep == WaitInv /\ [RetryNext]_retry => WaitInv'
<1> SUFFICES ASSUME WaitInv, [RetryNext]_retry PROVE WaitInv'
  OBVIOUS
<1>1. RetryInv'
  BY RetryStep DEF WaitInv
<1>2. DOMAIN retry = {"policy", "first", "tried", "delay", "before", "last", "row", "fate"}
  BY DEF WaitInv, RetryInv
<1>3. CASE SubmissionAccepted
  <2>1. /\ retry'.policy = retry.policy /\ retry'.first = retry.first
        /\ retry'.tried = retry.tried /\ retry'.fate = "accepted"
    BY <1>2, <1>3 DEF SubmissionAccepted
  <2> QED BY <1>1, <2>1 DEF WaitInv
<1>4. ASSUME NEW failure \in Failures, SubmissionFails(failure) PROVE WaitInv'
  <2>1. PICK decided : decided = RetryDecide(retry.policy, failure, retry.tried)
    OBVIOUS
  <2>2. PICK settled :
          settled = [retry EXCEPT !.last = failure, !.fate = decided,
                                  !.row = RowAfter(retry.policy, failure, retry.tried)]
    OBVIOUS
  <2>3. /\ DOMAIN settled = DOMAIN retry /\ settled.policy = retry.policy
        /\ settled.first = retry.first /\ settled.tried = retry.tried /\ settled.fate = decided
    BY <1>2, <2>2
  <2>4. retry.fate = "retrying"
    BY <1>4 DEF SubmissionFails
  <2>5. CASE decided # "retrying"
    <3>1. retry' = settled
      BY <1>4, <2>1, <2>2, <2>5 DEF SubmissionFails
    <3> QED BY <1>1, <2>3, <2>5, <3>1 DEF WaitInv
  <2>6. CASE decided = "retrying"
    <3>1. retry' = [settled EXCEPT !.tried = @ + 1, !.before = retry.delay,
                                   !.delay = RetryDelay(retry.policy, retry.tried)]
      BY <1>4, <2>1, <2>2, <2>6 DEF SubmissionFails
    <3>2. /\ retry'.policy = retry.policy /\ retry'.first = retry.first
          /\ retry'.tried = retry.tried + 1 /\ retry'.before = retry.delay
          /\ retry'.delay = RetryDelay(retry.policy, retry.tried)
      BY <1>2, <2>3, <3>1
    <3>3. /\ retry.tried \in Nat /\ retry.first \in Nat /\ retry.tried >= retry.first
          /\ (retry.tried + 1) - 1 = retry.tried /\ (retry.tried + 1) - 2 = retry.tried - 1
      BY DEF WaitInv
    <3> QED BY <1>1, <2>4, <3>2, <3>3 DEF WaitInv
  <2> QED BY <2>5, <2>6
<1>5. CASE UNCHANGED retry
  BY <1>1, <1>5 DEF WaitInv
<1> QED BY <1>3, <1>4, <1>5 DEF RetryNext

\* The waits of a session and of a message never shrink, within their policies.
LEMMA BackoffsSafe == LinkInv /\ WaitInv => BackoffsGrow
<1> SUFFICES ASSUME LinkInv, WaitInv PROVE BackoffsGrow
  OBVIOUS
<1>1. ASSUME link.fate = "reconnecting", link.attempt > 0
      PROVE  LET p      == link.policy
                 factor == PowerOfTwo[Lower(link.attempt - 1, WordBits - 1)]
             IN  /\ link.delay <= p.max * Tick
                 /\ 2 * link.delay >= p.min * Tick - 1
                 /\ p.min * factor <= p.max => link.delay >= link.before
                 /\ p.min * factor >= p.max => 2 * link.delay >= p.max * Tick - 1
  <2>1. PICK p, n : p = link.policy /\ n = link.attempt
    OBVIOUS
  <2>2. p \in ReconnectPolicies /\ n \in Nat \ {0} /\ link.delay \in DelaysFor(p, n)
    BY <1>1, <2>1 DEF LinkInv
  <2>3. PowerOfTwo[Lower(link.attempt - 1, WordBits - 1)] = PowerOfTwo[Exponent(n)]
    BY <2>1, <2>2, ExponentIs
  <2>4. /\ link.delay \in Nat /\ link.delay <= p.max * Tick /\ 2 * link.delay >= p.min * Tick - 1
        /\ p.min * PowerOfTwo[Exponent(n)] >= p.max => 2 * link.delay >= p.max * Tick - 1
    BY <2>2, DelaysAre
  <2>5. p.min * PowerOfTwo[Exponent(n)] <= p.max => link.delay >= link.before
    <3>1. CASE n = 1
      BY <1>1, <2>1, <2>4, <3>1 DEF LinkInv
    <3>2. CASE n # 1
      <4>1. PICK m : m = n - 1
        OBVIOUS
      <4>2. m \in Nat \ {0} /\ m + 1 = n /\ n > 1
        BY <2>2, <3>2, <4>1
      <4>3. link.before \in DelaysFor(p, m)
        BY <1>1, <2>1, <4>1, <4>2 DEF LinkInv
      <4>4. p.min * PowerOfTwo[Exponent(m + 1)] <= p.max =>
              \A next \in DelaysFor(p, m + 1) : next >= link.before
        BY <2>2, <4>2, <4>3, DelaysAre
      <4> QED BY <2>2, <4>2, <4>4
    <3> QED BY <3>1, <3>2
  <2> QED BY <2>1, <2>3, <2>4, <2>5
<1>2. ASSUME retry.fate = "retrying", retry.tried > retry.first
      PROVE  /\ retry.delay \in retry.policy.base * Tick .. retry.policy.max * Tick
             /\ retry.delay >= retry.before
  <2>1. PICK p, n : p = retry.policy /\ n = retry.tried - 1
    OBVIOUS
  <2>2. /\ p \in RetryPolicies /\ n \in Nat \ {0} /\ retry.delay = RetryDelay(p, n)
        /\ retry.tried \in Nat /\ retry.first \in Nat \ {0}
    BY <1>2, <2>1 DEF WaitInv
  <2>3. RetryDelay(p, n) \in p.base * Tick .. p.max * Tick
    BY <2>2, RetriesGrow
  <2>4. p.base * Tick \in Nat /\ p.max * Tick \in Nat
    BY <2>2, WaitsAssumption, SMTT(30) DEF RetryPolicies
  <2>5. CASE retry.tried = retry.first + 1
    BY <1>2, <2>1, <2>2, <2>3, <2>4, <2>5 DEF WaitInv
  <2>6. CASE retry.tried # retry.first + 1
    <3>1. PICK m : m = n - 1
      OBVIOUS
    <3>2. m \in Nat \ {0} /\ m + 1 = n /\ m = retry.tried - 2 /\ retry.tried > retry.first + 1
      <4>1. PICK tried, first : tried = retry.tried /\ first = retry.first
        OBVIOUS
      <4>2. tried \in Nat /\ first \in Nat \ {0} /\ tried > first /\ tried # first + 1
        BY <1>2, <2>2, <2>6, <4>1
      <4>3. n = tried - 1 /\ m = n - 1
        BY <2>1, <3>1, <4>1
      <4> QED BY <4>1, <4>2, <4>3
    <3>3. retry.before = RetryDelay(p, m)
      BY <1>2, <2>1, <3>2 DEF WaitInv
    <3>4. RetryDelay(p, m) <= RetryDelay(p, n) /\ RetryDelay(p, m) \in p.base * Tick .. p.max * Tick
      BY <2>2, <3>2, RetriesGrow
    <3> QED BY <2>1, <2>2, <2>3, <2>4, <3>3, <3>4
  <2> QED BY <2>1, <2>2, <2>3, <2>5, <2>6
<1> QED BY <1>1, <1>2 DEF BackoffsGrow

-----------------------------------------------------------------------------
(* The acceptance rate.                                                     *)

\* Two seconds of a window fall in two slots.
LEMMA SlotsApart ==
  ASSUME NEW D \in Nat \ {0}, NEW s \in Nat, NEW t \in Nat, s % D = t % D, s < t
  PROVE  s <= t - D
<1>1. PICK q, u, r : q = s \div D /\ u = t \div D /\ r = s % D
  OBVIOUS
<1>2. q \in Int /\ u \in Int /\ r \in Int /\ s - D * q = r /\ t - D * u = r
  BY <1>1
<1>3. PICK a, b : a = D * q /\ b = D * u
  OBVIOUS
<1>4. a \in Int /\ b \in Int /\ a < b /\ t - s = b - a
  BY <1>2, <1>3
<1>5. q < u
  <2>1. q >= u => a >= b
    BY <1>2, <1>3
  <2> QED BY <1>2, <1>4, <2>1
<1>6. D * u >= D * (q + 1) /\ D * (q + 1) = a + D
  BY <1>2, <1>3, <1>5
<1> QED BY <1>3, <1>4, <1>6

SlotHolds(slot, i) ==
  slot.second = NoSecond \/ (/\ slot.second \in 0 .. rate.now /\ slot.second % RateSlots = i
                             /\ slot.count = rate.accepted[slot.second] /\ slot.count > 0)

RateInv ==
  /\ DOMAIN rate = {"ring", "now", "accepted"}
  /\ rate.ring \in [0 .. RateSlots - 1 -> [second : Int, count : Nat]]
  /\ rate.now \in 0 .. MaxRateClock /\ rate.accepted \in [0 .. MaxRateClock -> Nat]
  /\ \A s \in 0 .. MaxRateClock : s > rate.now => rate.accepted[s] = 0
  /\ \A i \in 0 .. RateSlots - 1 : SlotHolds(rate.ring[i], i)
  /\ \A s \in 0 .. rate.now :
       s > rate.now - RateSlots /\ rate.accepted[s] > 0 => rate.ring[s % RateSlots].second = s

\* An empty ring satisfies the invariant of the rate.
LEMMA RateStart == rate = NewRate => RateInv
<1> SUFFICES ASSUME rate = NewRate PROVE RateInv
  OBVIOUS
<1>1. /\ DOMAIN rate = {"ring", "now", "accepted"} /\ rate.ring = EmptyRate /\ rate.now = 0
      /\ rate.accepted = [s \in 0 .. MaxRateClock |-> 0]
  BY DEF NewRate
<1>2. RateSlots \in Nat \ {0} /\ MaxRateClock \in Nat /\ NoSecond \in Int
  BY WaitsAssumption DEF NoSecond
<1>3. /\ rate.ring \in [0 .. RateSlots - 1 -> [second : Int, count : Nat]]
      /\ \A i \in 0 .. RateSlots - 1 : rate.ring[i].second = NoSecond
  BY <1>1, <1>2 DEF EmptyRate
<1>4. rate.accepted \in [0 .. MaxRateClock -> Nat] /\ \A s \in 0 .. MaxRateClock : rate.accepted[s] = 0
  BY <1>1
<1> QED BY <1>1, <1>2, <1>3, <1>4 DEF RateInv, SlotHolds

\* An acceptance or a second passing keeps the ring in step with the history.
LEMMA RateStep == RateInv /\ [RateNext]_rate => RateInv'
<1> SUFFICES ASSUME RateInv, [RateNext]_rate PROVE RateInv'
  OBVIOUS
<1>0. RateSlots \in Nat \ {0} /\ MaxRateClock \in Nat /\ NoSecond = 0 - RateSlots
  BY WaitsAssumption DEF NoSecond
<1>1. ASSUME NEW n \in 1 .. MaxBurst, Accepts(n) PROVE RateInv'
  <2>1. PICK now, slot, old, ring : /\ now = rate.now /\ slot = now % RateSlots
                                    /\ old = rate.ring[slot] /\ ring = Recorded(rate.ring, now, n)
    OBVIOUS
  <2>2. /\ now \in 0 .. MaxRateClock /\ now \in Nat /\ slot \in 0 .. RateSlots - 1 /\ n \in Nat /\ n > 0
        /\ old \in [second : Int, count : Nat] /\ SlotHolds(old, slot)
    BY <1>0, <2>1, SMTT(30) DEF RateInv
  <2>3. PICK kept \in Nat : kept = rate.accepted[now]
    BY <2>2 DEF RateInv
  <2>4. rate' = [rate EXCEPT !.ring = ring, !.accepted[rate.now] = @ + n]
    BY <1>1, <2>1 DEF Accepts
  <2>5. /\ DOMAIN rate' = DOMAIN rate /\ rate'.now = now /\ rate'.ring = ring
        /\ rate'.accepted = [rate.accepted EXCEPT ![now] = kept + n]
    BY <2>1, <2>3, <2>4 DEF RateInv
  <2>6. PICK new : new = [second |-> now, count |-> (IF old.second = now THEN old.count ELSE 0) + n]
    OBVIOUS
  <2>7. ring = [rate.ring EXCEPT ![slot] = new]
    BY <2>1, <2>6 DEF Recorded
  <2>8. new \in [second : Int, count : Nat] /\ new.second = now /\ new.count = kept + n
    <3>1. CASE old.second = now
      <4>1. now # NoSecond
        BY <1>0, <2>2
      <4>2. old.count = kept
        BY <2>2, <2>3, <3>1, <4>1 DEF SlotHolds
      <4> QED BY <2>2, <2>6, <3>1, <4>2
    <3>2. CASE old.second # now
      <4>1. new = [second |-> now, count |-> n]
        BY <2>2, <2>6, <3>2
      <4>2. ~(kept > 0)
        <5>1. now > now - RateSlots /\ now \in 0 .. now
          BY <1>0, <2>2
        <5> QED BY <2>1, <2>3, <3>2, <5>1 DEF RateInv
      <4> QED BY <2>2, <4>1, <4>2
    <3> QED BY <3>1, <3>2
  <2>9. /\ \A s \in 0 .. MaxRateClock : s # now => rate'.accepted[s] = rate.accepted[s]
        /\ rate'.accepted[now] = kept + n /\ rate'.accepted \in [0 .. MaxRateClock -> Nat]
    <3>1. rate.accepted \in [0 .. MaxRateClock -> Nat] /\ kept + n \in Nat
      BY <2>2, <2>3 DEF RateInv
    <3>2. PICK accepted : accepted = rate.accepted
      OBVIOUS
    <3>3. accepted \in [0 .. MaxRateClock -> Nat] /\ rate'.accepted = [accepted EXCEPT ![now] = kept + n]
      BY <2>5, <3>1, <3>2
    <3> QED BY <2>2, <3>1, <3>2, <3>3
  <2>10. /\ \A i \in 0 .. RateSlots - 1 : i # slot => rate'.ring[i] = rate.ring[i]
         /\ rate'.ring[slot] = new
         /\ rate'.ring \in [0 .. RateSlots - 1 -> [second : Int, count : Nat]]
    <3>1. PICK before : before = rate.ring
      OBVIOUS
    <3>2. /\ before \in [0 .. RateSlots - 1 -> [second : Int, count : Nat]]
          /\ rate'.ring = [before EXCEPT ![slot] = new]
      BY <2>5, <2>7, <3>1 DEF RateInv
    <3> QED BY <2>2, <2>8, <3>1, <3>2
  <2>11. \A i \in 0 .. RateSlots - 1 : SlotHolds(rate.ring[i], i)'
    <3> SUFFICES ASSUME NEW i \in 0 .. RateSlots - 1 PROVE SlotHolds(rate.ring[i], i)'
      BY SMTT(30)
    <3>1. CASE i = slot
      BY <2>1, <2>2, <2>3, <2>5, <2>8, <2>9, <2>10, <3>1, SMTT(30) DEF SlotHolds
    <3>2. CASE i # slot
      <4>1. SlotHolds(rate.ring[i], i) /\ rate'.ring[i] = rate.ring[i]
        BY <2>10, <3>2 DEF RateInv
      <4>2. rate.ring[i].second # now \/ rate.ring[i].second = NoSecond
        BY <2>1, <3>2, <4>1 DEF SlotHolds
      <4>3. rate.ring[i].second \in 0 .. now => rate.ring[i].second \in 0 .. MaxRateClock
        BY <1>0, <2>2
      <4> QED BY <1>0, <2>1, <2>5, <2>9, <4>1, <4>2, <4>3 DEF SlotHolds
    <3> QED BY <3>1, <3>2
  <2>12. \A s \in 0 .. now :
           s > now - RateSlots /\ rate'.accepted[s] > 0 => rate'.ring[s % RateSlots].second = s
    <3> SUFFICES ASSUME NEW s \in 0 .. now, s > now - RateSlots, rate'.accepted[s] > 0
                 PROVE  rate'.ring[s % RateSlots].second = s
      OBVIOUS
    <3>1. CASE s = now
      BY <2>1, <2>8, <2>10, <3>1
    <3>2. CASE s # now
      <4>1. rate.ring[s % RateSlots].second = s
        <5>1. s \in 0 .. MaxRateClock
          BY <1>0, <2>2
        <5>2. rate'.accepted[s] = rate.accepted[s]
          BY <2>9, <3>2, <5>1
        <5>3. s \in 0 .. rate.now /\ s > rate.now - RateSlots /\ rate.accepted[s] > 0
          BY <2>1, <5>2
        <5> QED BY <5>3 DEF RateInv
      <4>2. s % RateSlots # slot
        <5>1. s \in Nat /\ s < now /\ ~(s <= now - RateSlots)
          BY <1>0, <2>2, <3>2
        <5> QED BY <1>0, <2>1, <2>2, <5>1, SlotsApart
      <4>3. s % RateSlots \in 0 .. RateSlots - 1
        BY <1>0, <2>2
      <4> QED BY <2>10, <4>1, <4>2, <4>3
    <3> QED BY <3>1, <3>2
  <2>13. \A s \in 0 .. MaxRateClock : s > now => rate'.accepted[s] = 0
    BY <2>1, <2>2, <2>9 DEF RateInv
  <2> QED BY <2>2, <2>5, <2>9, <2>10, <2>11, <2>12, <2>13 DEF RateInv
<1>2. CASE SecondPasses
  <2>1. rate' = [rate EXCEPT !.now = @ + 1] /\ rate.now < MaxRateClock
    BY <1>2 DEF SecondPasses
  <2>2. PICK now : now = rate.now
    OBVIOUS
  <2>3. /\ DOMAIN rate' = DOMAIN rate /\ rate'.now = now + 1 /\ rate'.ring = rate.ring
        /\ rate'.accepted = rate.accepted /\ now \in 0 .. MaxRateClock /\ now < MaxRateClock
    BY <2>1, <2>2 DEF RateInv
  <2>4. \A i \in 0 .. RateSlots - 1 : SlotHolds(rate.ring[i], i)'
    <3> SUFFICES ASSUME NEW i \in 0 .. RateSlots - 1 PROVE SlotHolds(rate.ring[i], i)'
      OBVIOUS
    <3>1. SlotHolds(rate.ring[i], i)
      BY DEF RateInv
    <3> QED BY <1>0, <2>2, <2>3, <3>1 DEF SlotHolds
  <2>5. \A s \in 0 .. now + 1 :
          s > (now + 1) - RateSlots /\ rate.accepted[s] > 0 => rate.ring[s % RateSlots].second = s
    <3> SUFFICES ASSUME NEW s \in 0 .. now + 1, s > (now + 1) - RateSlots, rate.accepted[s] > 0
                 PROVE  rate.ring[s % RateSlots].second = s
      OBVIOUS
    <3>1. s # now + 1
      <4>1. now + 1 \in 0 .. MaxRateClock /\ now + 1 > rate.now
        BY <1>0, <2>2, <2>3
      <4>2. rate.accepted[now + 1] = 0
        BY <4>1 DEF RateInv
      <4> QED BY <4>2
    <3>2. s \in 0 .. rate.now /\ s > rate.now - RateSlots
      BY <1>0, <2>2, <2>3, <3>1
    <3> QED BY <3>2 DEF RateInv
  <2>6. \A s \in 0 .. MaxRateClock : s > now + 1 => rate.accepted[s] = 0
    BY <1>0, <2>2, <2>3 DEF RateInv
  <2> QED BY <1>0, <2>3, <2>4, <2>5, <2>6 DEF RateInv
<1>3. CASE UNCHANGED rate
  BY <1>3 DEF RateInv, SlotHolds
<1> QED BY <1>1, <1>2, <1>3 DEF RateNext

\* The rate read from the ring is that of the seconds it covers.
LEMMA RatesSafe == RateInv => RatesAreRight
<1> SUFFICES ASSUME RateInv PROVE RatesAreRight
  OBVIOUS
<1>1. RateSlots \in Nat \ {0} /\ MaxRateClock \in Nat /\ NoSecond = 0 - RateSlots
  BY WaitsAssumption DEF NoSecond
<1>2. PICK now, counted, busy :
        /\ now = rate.now /\ counted = CountedAt(rate.ring, rate.now)
        /\ busy = {s \in 0 .. rate.now : s > rate.now - RateSlots /\ rate.accepted[s] > 0}
  OBVIOUS
<1>3. now \in Nat /\ rate.ring \in [0 .. RateSlots - 1 -> [second : Int, count : Nat]]
  BY <1>1, <1>2 DEF RateInv
<1>4. /\ DOMAIN counted = {i \in 0 .. RateSlots - 1 :
                             rate.ring[i].second \in now - RateSlots + 1 .. now}
      /\ \A i \in DOMAIN counted : counted[i] = rate.ring[i]
  BY <1>2, <1>3 DEF CountedAt, Restrict
<1>5. ASSUME NEW i \in DOMAIN counted
      PROVE  /\ i \in 0 .. RateSlots - 1 /\ counted[i] \in [second : Int, count : Nat]
             /\ counted[i].second \in busy /\ counted[i].second % RateSlots = i
             /\ counted[i].count = rate.accepted[counted[i].second]
  <2>1. /\ i \in 0 .. RateSlots - 1 /\ counted[i] = rate.ring[i] /\ SlotHolds(rate.ring[i], i)
        /\ rate.ring[i].second \in now - RateSlots + 1 .. now
    BY <1>4 DEF RateInv
  <2>2. rate.ring[i].second # NoSecond
    BY <1>1, <1>3, <2>1
  <2>3. PICK s : s = rate.ring[i].second
    OBVIOUS
  <2>4. /\ s \in 0 .. now /\ s % RateSlots = i /\ rate.ring[i].count = rate.accepted[s]
        /\ rate.ring[i].count > 0
    BY <1>2, <2>1, <2>2, <2>3 DEF SlotHolds
  <2>5. s > now - RateSlots
    BY <1>1, <1>3, <2>1, <2>3
  <2>6. s \in busy
    BY <1>2, <2>4, <2>5
  <2> QED BY <1>3, <2>1, <2>3, <2>4, <2>6
<1>6. ASSUME NEW i \in DOMAIN counted
      PROVE  counted[i] = [second |-> counted[i].second, count |-> rate.accepted[counted[i].second]]
  BY <1>5
<1>7. ASSUME NEW s \in busy
      PROVE  /\ s % RateSlots \in DOMAIN counted
             /\ counted[s % RateSlots] = [second |-> s, count |-> rate.accepted[s]]
  <2>1. s \in 0 .. now /\ s > now - RateSlots /\ rate.accepted[s] > 0
    BY <1>2
  <2>2. rate.ring[s % RateSlots].second = s /\ s % RateSlots \in 0 .. RateSlots - 1
    <3>1. s % RateSlots \in 0 .. RateSlots - 1
      BY <1>1, <1>3, <2>1
    <3>2. s \in 0 .. rate.now /\ s > rate.now - RateSlots /\ rate.accepted[s] > 0
      BY <1>2, <2>1
    <3> QED BY <3>1, <3>2 DEF RateInv
  <2>3. s % RateSlots \in DOMAIN counted /\ counted[s % RateSlots].second = s
    BY <1>1, <1>3, <1>4, <2>1, <2>2
  <2> QED BY <1>6, <2>3
<1>8. \A i, j \in DOMAIN counted : counted[i].second = counted[j].second => i = j
  <2> SUFFICES ASSUME NEW i \in DOMAIN counted, NEW j \in DOMAIN counted,
                      counted[i].second = counted[j].second
               PROVE  i = j
    OBVIOUS
  <2>1. counted[i].second % RateSlots = i
    BY <1>5
  <2>2. counted[j].second % RateSlots = j
    BY <1>5
  <2> QED BY <2>1, <2>2
<1>9. Range(counted) = {[second |-> s, count |-> rate.accepted[s]] : s \in busy}
  <2>1. \A i \in DOMAIN counted :
          counted[i] \in {[second |-> s, count |-> rate.accepted[s]] : s \in busy}
    <3> SUFFICES ASSUME NEW i \in DOMAIN counted
                 PROVE  counted[i] \in {[second |-> s, count |-> rate.accepted[s]] : s \in busy}
      OBVIOUS
    <3>1. counted[i].second \in busy
      BY <1>5
    <3> QED BY <1>6, <3>1
  <2>2. Range(counted) = {counted[i] : i \in DOMAIN counted}
    BY DEF Range
  <2>3. \A s \in busy : [second |-> s, count |-> rate.accepted[s]] \in Range(counted)
    BY <1>7, <2>2
  <2> QED BY <2>1, <2>2, <2>3
<1> QED BY <1>2, <1>8, <1>9 DEF RatesAreRight

\* What the four promise together.
LEMMA WaitsSafe == LinkInv /\ WaitInv /\ HoursInv /\ RateInv => WaitsAreRight
BY BackoffsSafe, HoursSafe, RatesSafe DEF WaitsAreRight, WaitInv, RetryInv

-----------------------------------------------------------------------------
(* From the form of a campaign to its run.                                  *)

BriefIs(d) ==
  /\ DOMAIN d = DOMAIN NewDraft
  /\ d.substitute \in BOOLEAN /\ d.abandon \in BOOLEAN /\ d.windowed \in BOOLEAN
  /\ d.startAt \in Int \union {NotSet}
  /\ d.open \in {1, 3, 4, NotSet} /\ d.close \in {2, 3} /\ d.offset \in Int

\* What refuses a configuration, and what one that is not refused has.
LEMMA RefusalsAre ==
  ASSUME NEW doc, NEW text
  PROVE  LET config == ReadDocument(doc)
             refused == ConfigRefusal(doc, text)
         IN  /\ refused \in {"sessionId", "template", "source", "retry", "window", "none"}
             /\ refused = "sessionId" => config.session = NotSet
             /\ refused = "none" =>
                  /\ config.session # NotSet /\ config.retry \in RetryPolicies
                  /\ config.schedule.window # NotSet => IsWindow(config.schedule.window)
<1> DEFINE config == ReadDocument(doc)
<1> HIDE DEF config
<1>1. /\ ConfigRefusal(doc, text) \in
           {"sessionId", "template", "source", "retry", "window", "none"}
      /\ ConfigRefusal(doc, text) = "sessionId" => config.session = NotSet
      /\ ConfigRefusal(doc, text) = "none" =>
           /\ config.session # NotSet /\ config.retry \in RetryPolicies
           /\ config.schedule.window # NotSet => IsWindow(config.schedule.window)
  BY DEF ConfigRefusal, config
<1> QED BY <1>1 DEF config

DocKeys == {"session", "list", "source", "encoding", "onMissing", "onUnanswered", "retry", "schedule"}

\* Every document of a campaign has the same fields.
LEMMA KeysAre ==
  /\ DOMAIN DefaultInput = DocKeys
  /\ \A d, z : DOMAIN DocumentOf(d, z) = DocKeys
BY DEF DefaultInput, DocumentOf, DocKeys

\* A whole document reads as it is.
LEMMA WholeReads ==
  ASSUME NEW d, NEW z
  PROVE  ReadDocument(DocumentOf(d, z)) = DocumentOf(d, z)
<1> DEFINE doc == DocumentOf(d, z)
<1>1. doc = [key \in DOMAIN doc |-> doc[key]]
  BY DEF DocumentOf
<1>2. DOMAIN doc = DOMAIN DefaultInput
  BY KeysAre
<1> HIDE DEF doc
<1>3. ReadDocument(doc) = doc
  BY <1>1, <1>2 DEF ReadDocument
<1> QED BY <1>3 DEF doc

\* Setting a field of a form gives a form.
LEMMA BriefStep ==
  ASSUME NEW d, BriefIs(d), NEW field \in DOMAIN d, NEW entry \in Entries[field]
  PROVE  BriefIs([d EXCEPT ![field] = entry])
<1> DEFINE e == [d EXCEPT ![field] = entry]
<1>1. {"substitute", "abandon", "windowed", "startAt", "open", "close", "offset"} \subseteq DOMAIN d
  BY DEF BriefIs, NewDraft
<1>2. DOMAIN e = DOMAIN d /\ \A other \in DOMAIN d : e[other] = IF other = field THEN entry ELSE d[other]
  OBVIOUS
<1>3. /\ Entries["substitute"] = {TRUE} /\ Entries["abandon"] = {TRUE} /\ Entries["windowed"] = {TRUE}
      /\ Entries["startAt"] = {0, 3} /\ Entries["open"] = {NotSet, 3, 4} /\ Entries["close"] = {2}
      /\ Entries["offset"] \subseteq Int
  <2>1. Day \div 2 \in Int
    BY WaitsAssumption
  <2>2. Entries["substitute"] = {TRUE}
    BY DEF Entries
  <2>3. Entries["abandon"] = {TRUE}
    BY DEF Entries
  <2>4. Entries["windowed"] = {TRUE}
    BY DEF Entries
  <2>5. /\ Entries["startAt"] = {0, 3} /\ Entries["open"] = {NotSet, 3, 4} /\ Entries["close"] = {2}
        /\ Entries["offset"] = {-(Day \div 2) - 1, -1, Day \div 2 + 1}
    BY DEF Entries
  <2> QED BY <2>1, <2>2, <2>3, <2>4, <2>5
<1> HIDE DEF e
<1>4. e["substitute"] \in BOOLEAN
  <2>1. e["substitute"] = d["substitute"] \/ (e["substitute"] = entry /\ entry \in {TRUE})
    BY <1>1, <1>2, <1>3
  <2> QED BY <2>1 DEF BriefIs
<1>5. e["abandon"] \in BOOLEAN
  <2>1. e["abandon"] = d["abandon"] \/ (e["abandon"] = entry /\ entry \in {TRUE})
    BY <1>1, <1>2, <1>3
  <2> QED BY <2>1 DEF BriefIs
<1>6. e["windowed"] \in BOOLEAN
  <2>1. e["windowed"] = d["windowed"] \/ (e["windowed"] = entry /\ entry \in {TRUE})
    BY <1>1, <1>2, <1>3
  <2> QED BY <2>1 DEF BriefIs
<1>7. e["startAt"] \in Int \union {NotSet}
  BY <1>1, <1>2, <1>3 DEF BriefIs
<1>8. e["open"] \in {1, 3, 4, NotSet}
  BY <1>1, <1>2, <1>3 DEF BriefIs
<1>9. e["close"] \in {2, 3}
  BY <1>1, <1>2, <1>3 DEF BriefIs
<1>10. e["offset"] \in Int
  BY <1>1, <1>2, <1>3 DEF BriefIs
<1>11. BriefIs(e)
  BY <1>2, <1>4, <1>5, <1>6, <1>7, <1>8, <1>9, <1>10 DEF BriefIs
<1> QED BY <1>11 DEF e

\* A campaign that is not refused means what was typed.
LEMMA PlanMeans ==
  ASSUME NEW d, NEW z \in Int, BriefIs(d), ConfigRefusal(DocumentOf(d, z), d.template) = "none"
  PROVE  Means(CampaignPlan(DocumentOf(d, z), d.template), d)
<1> DEFINE doc == DocumentOf(d, z)
           plan == CampaignPlan(doc, d.template)
<1>1. /\ plan.template = d.template /\ plan.selection = doc.list /\ plan.source = doc.source
      /\ plan.encoding = doc.encoding /\ plan.onMissing = doc.onMissing
      /\ plan.unanswered = doc.onUnanswered /\ plan.retry = doc.retry
  BY WholeReads DEF CampaignPlan
<1>2. doc.retry \in RetryPolicies
  BY RefusalsAre, WholeReads
<1>3. /\ doc.list = d.list /\ doc.source = d.source /\ doc.encoding = d.encoding
      /\ doc.onMissing = IF d.substitute THEN <<d.value>> ELSE <<>>
      /\ doc.onUnanswered = IF d.abandon THEN "abandon" ELSE "reemit"
      /\ doc.retry.tries = d.tries /\ doc.retry.backoff = d.backoff
      /\ doc.retry.base = d.base /\ doc.retry.max = d.max
  BY DEF DocumentOf
<1> HIDE DEF doc, plan
<1>4. (plan.onMissing = <<>>) = ~d.substitute
  <2>1. d.substitute \in BOOLEAN /\ <<d.value>> # <<>>
    BY DEF BriefIs
  <2> QED BY <1>1, <1>3, <2>1
<1>5. (plan.unanswered = "abandon") = d.abandon
  <2>1. d.abandon \in BOOLEAN
    BY DEF BriefIs
  <2> QED BY <1>1, <1>3, <2>1
<1>6. Means(plan, d)
  BY <1>1, <1>2, <1>3, <1>4, <1>5 DEF Means
<1> QED BY <1>6 DEF plan, doc

\* And it starts when it was typed to.
LEMMA PlanStarts ==
  ASSUME NEW d, NEW z \in Int, BriefIs(d), ConfigRefusal(DocumentOf(d, z), d.template) = "none"
  PROVE  StartsAsTyped(CampaignPlan(DocumentOf(d, z), d.template), d, z)
<1> DEFINE schedule == DocumentOf(d, z).schedule
<1>1. CampaignPlan(DocumentOf(d, z), d.template).schedule = schedule
  BY WholeReads DEF CampaignPlan
<1>2. schedule.start = Instant(d.startAt, z)
      /\ schedule.window = IF d.windowed THEN [open |-> d.open, close |-> d.close, offset |-> d.offset]
                           ELSE NotSet
  BY DEF DocumentOf
<1>3. schedule.window # NotSet => IsWindow(schedule.window)
  BY RefusalsAre, WholeReads
<1> HIDE DEF schedule
<1> SUFFICES ASSUME NEW now \in 0 .. Day
             PROVE  LET typed == IF d.startAt \in Int THEN Higher(d.startAt - z, now) ELSE now
                        IsOpen(t) == ~d.windowed \/ (t + d.offset) % Day \in
                                                      OpenHours([open |-> d.open, close |-> d.close])
                    IN  SendsAt(schedule, now) = Min({t \in typed .. typed + Day : IsOpen(t)})
  BY <1>1 DEF StartsAsTyped
<1>4. now \in Int /\ Day \in Nat /\ Day > 4 /\ DayIs
  BY WaitsAssumption, LaunchAssumption DEF DayIs
<1>5. PICK typed : typed = IF d.startAt \in Int THEN Higher(d.startAt - z, now) ELSE now
  OBVIOUS
<1>6. typed \in Int /\ typed >= now
  BY <1>4, <1>5 DEF Higher
<1>7. LET start == IF schedule.start = NotSet THEN now ELSE schedule.start
      IN  start \in Int /\ Higher(start, now) = typed
  <2>1. CASE d.startAt \in Int
    <3>1. schedule.start = d.startAt - z /\ d.startAt - z \in Int /\ schedule.start # NotSet
      BY <1>2, <2>1, LaunchAssumption DEF Instant
    <3> QED BY <1>5, <2>1, <3>1
  <2>2. CASE d.startAt \notin Int
    <3>1. schedule.start = NotSet
      BY <1>2, <2>2 DEF Instant
    <3> QED BY <1>4, <1>5, <2>2, <3>1 DEF Higher
  <2> QED BY <2>1, <2>2
<1>8. CASE ~d.windowed
  <2>1. SendsAt(schedule, now) = typed
    BY <1>2, <1>7, <1>8 DEF SendsAt
  <2>2. {t \in typed .. typed + Day : TRUE} = typed .. typed + Day
    OBVIOUS
  <2>3. Min(typed .. typed + Day) = typed
    <3>1. typed \in typed .. typed + Day /\ typed .. typed + Day \subseteq Int
          /\ \A u \in typed .. typed + Day : typed <= u
      BY <1>4, <1>6
    <3> QED BY <3>1, LeastIs
  <2>4. {t \in typed .. typed + Day :
           ~d.windowed \/ (t + d.offset) % Day \in OpenHours([open |-> d.open, close |-> d.close])}
          = typed .. typed + Day
    BY <1>8
  <2> QED BY <1>5, <2>1, <2>3, <2>4
<1>9. CASE d.windowed
  <2>1. PICK w : w = [open |-> d.open, close |-> d.close, offset |-> d.offset]
    OBVIOUS
  <2>2. w \in [open : Int \union {NotSet}, close : Int, offset : Int]
    BY <2>1 DEF BriefIs
  <2>3. schedule.window = w /\ w # NotSet
    BY <1>2, <1>9, <2>1, <2>2, LaunchAssumption
  <2>4. d.open \in Int /\ d.open # d.close
    BY <1>3, <2>1, <2>3 DEF IsWindow
  <2>5. IsHours(w)
    BY <1>4, <2>1, <2>4, LaunchAssumption DEF IsHours, BriefIs
  <2>6. SendsAt(schedule, now) = NextOpening(w, typed)
    <3>1. PICK start : start = IF schedule.start = NotSet THEN now ELSE schedule.start
      OBVIOUS
    <3>2. SendsAt(schedule, now) = NextOpening(w, IF start > now THEN start ELSE now)
      BY <2>3, <3>1 DEF SendsAt, Decide
    <3>3. typed = IF start > now THEN start ELSE now
      BY <1>4, <1>7, <3>1 DEF Higher
    <3> QED BY <3>2, <3>3
  <2>7. Min({u \in typed .. typed + Day : (u + w.offset) % Day \in OpenHours(w)})
          = NextOpening(w, typed)
    BY <1>4, <1>6, <2>5, OpeningIsFirst
  <2>8. OpenHours(w) = OpenHours([open |-> d.open, close |-> d.close]) /\ w.offset = d.offset
    BY <2>1 DEF OpenHours
  <2>9. {t \in typed .. typed + Day :
           ~d.windowed \/ (t + d.offset) % Day \in OpenHours([open |-> d.open, close |-> d.close])}
          = {u \in typed .. typed + Day : (u + w.offset) % Day \in OpenHours(w)}
    BY <1>9, <2>8
  <2> QED BY <1>5, <2>6, <2>7, <2>9
<1>10. d.windowed \in BOOLEAN
  BY DEF BriefIs
<1> QED BY <1>8, <1>9, <1>10

\* A document of an older version that is not refused gives the plan of a form
\* nobody touched.
LEMMA OlderPlan ==
  ASSUME NEW doc \in OlderDocuments, Readable(doc), ConfigRefusal(doc, "whole") = "none"
  PROVE  /\ CampaignPlan(doc, "whole") = CampaignPlan(DocumentOf(NewDraft, 0), "whole")
         /\ "session" \in DOMAIN doc
<1>1. PICK whole : whole = DocumentOf(NewDraft, 0)
  OBVIOUS
<1>2. /\ DOMAIN whole = DocKeys /\ DOMAIN DefaultInput = DocKeys
      /\ \A key \in DocKeys \ {"session", "schedule"} : DefaultInput[key] = whole[key]
      /\ whole.schedule = [start |-> Instant(NotSet, 0), window |-> NotSet]
  <2>1. DOMAIN whole = DocKeys /\ DOMAIN DefaultInput = DocKeys
    BY <1>1, KeysAre
  <2>2. /\ DefaultInput["list"] = whole["list"] /\ DefaultInput["source"] = whole["source"]
        /\ DefaultInput["encoding"] = whole["encoding"]
        /\ DefaultInput["onUnanswered"] = whole["onUnanswered"]
        /\ DefaultInput["onMissing"] = whole["onMissing"]
        /\ DefaultInput["retry"] = whole["retry"]
    BY <1>1 DEF DefaultInput, DocumentOf, NewDraft
  <2>3. whole.schedule = [start |-> Instant(NotSet, 0), window |-> NotSet]
    BY <1>1 DEF DocumentOf, NewDraft
  <2> QED BY <2>1, <2>2, <2>3 DEF DocKeys
<1>3. DefaultInput["schedule"] = whole["schedule"]
  <2>1. Instant(NotSet, 0) = NotSet
    BY LaunchAssumption DEF Instant
  <2> QED BY <1>2, <2>1 DEF DefaultInput
<1>4. ReadDocument(doc).session # NotSet
  BY RefusalsAre
<1>5. PICK key \in DocKeys : doc = Restrict(whole, DocKeys \ {key})
  <2>1. doc = [whole EXCEPT !.retry = NotSet] \/ \E key \in DocKeys : doc = Restrict(whole, DocKeys \ {key})
    BY <1>1, <1>2 DEF OlderDocuments
  <2>2. doc # [whole EXCEPT !.retry = NotSet]
    BY <1>2 DEF Readable, DocKeys
  <2> QED BY <2>1, <2>2
<1>6. /\ DOMAIN doc = DocKeys \ {key} /\ \A other \in DocKeys \ {key} : doc[other] = whole[other]
  BY <1>5 DEF Restrict
<1>7. DOMAIN ReadDocument(doc) = DocKeys
      /\ \A other \in DocKeys : ReadDocument(doc)[other] =
                               IF other # key THEN whole[other] ELSE DefaultInput[other]
  BY <1>2, <1>6 DEF ReadDocument
<1>8. key # "session"
  <2>1. DefaultInput.session = NotSet
    BY DEF DefaultInput
  <2> QED BY <1>4, <1>7, <2>1 DEF DocKeys
<1>9. \A other \in DocKeys : ReadDocument(doc)[other] = whole[other]
  BY <1>2, <1>3, <1>7, <1>8
<1>10. ReadDocument(whole) = whole
  BY <1>1, WholeReads
<1>11. CampaignPlan(doc, "whole") = CampaignPlan(whole, "whole")
  <2>1. /\ ReadDocument(doc).list = whole.list /\ ReadDocument(doc).source = whole.source
        /\ ReadDocument(doc).encoding = whole.encoding
        /\ ReadDocument(doc).onMissing = whole.onMissing
        /\ ReadDocument(doc).onUnanswered = whole.onUnanswered
        /\ ReadDocument(doc).retry = whole.retry
        /\ ReadDocument(doc).schedule = whole.schedule
    BY <1>9 DEF DocKeys
  <2> QED BY <1>10, <2>1 DEF CampaignPlan
<1> QED BY <1>1, <1>6, <1>8, <1>11 DEF DocKeys

Statuses == {"CREATED", "VALIDATED", "RUNNING", "PAUSED"} \union Ended

RowIs ==
  campaign # NoCampaign =>
    /\ DOMAIN campaign = {"doc", "template", "status", "live", "typed", "ran"}
    /\ campaign.status \in Statuses /\ campaign.live \in BOOLEAN /\ campaign.ran \in BOOLEAN
    /\ campaign.live => campaign.ran /\ campaign.status \notin Ended \union {"CREATED"}
    /\ campaign.status = "VALIDATED" => ~campaign.ran
    /\ campaign.typed = NotSet => campaign.doc \in OlderDocuments /\ campaign.template = "whole"
    /\ campaign.typed # NotSet => /\ BriefIs(campaign.typed)
                                  /\ campaign.doc = DocumentOf(campaign.typed, office.zone)
                                  /\ campaign.template = campaign.typed.template

OfficeIs ==
  /\ DOMAIN office = {"zone", "asked", "refusal", "bound", "members"} /\ office.zone \in Int
  /\ office.asked # NotSet => BriefIs(office.asked) /\ Ready(office.asked) /\ campaign = NoCampaign

\* A row that is told not to have been started is not one of a run that was
\* killed: that panel is gone.
PanelIs ==
  panel # NotSet =>
    /\ campaign # NoCampaign /\ panel.live \in BOOLEAN
    /\ panel.status = "VALIDATED" /\ campaign.ran => campaign.live \/ campaign.status \in Ended
    /\ panel.status = "CREATED" => campaign.status \in Ended \union {"CREATED"}

RunIs ==
  launched # NotSet =>
    /\ campaign # NoCampaign /\ Readable(campaign.doc)
    /\ ConfigRefusal(campaign.doc, campaign.template) = "none"
    /\ launched.plan = CampaignPlan(campaign.doc, campaign.template)
    /\ launched.ran => launched.resuming
    /\ campaign.status # "CREATED"

LaunchInv ==
  BriefIs(brief) /\ RowIs /\ OfficeIs /\ PanelIs /\ RunIs /\ RefusalsHaveReasons

\* What the invariant promises.
LEMMA LaunchSafe == LaunchInv => LaunchedAsComposed
<1> SUFFICES ASSUME LaunchInv PROVE LaunchedAsComposed
  OBVIOUS
<1>1. RowIs /\ OfficeIs /\ RunIs /\ RefusalsHaveReasons
  BY DEF LaunchInv
<1>2. RunsAreAsTyped
  <2> SUFFICES ASSUME launched # NotSet, campaign.typed # NotSet
               PROVE  /\ Means(launched.plan, campaign.typed)
                      /\ StartsAsTyped(launched.plan, campaign.typed, office.zone)
    BY DEF RunsAreAsTyped
  <2>1. PICK d, z : d = campaign.typed /\ z = office.zone
    OBVIOUS
  <2>2. /\ BriefIs(d) /\ z \in Int /\ ConfigRefusal(DocumentOf(d, z), d.template) = "none"
        /\ launched.plan = CampaignPlan(DocumentOf(d, z), d.template)
    BY <1>1, <2>1 DEF RowIs, OfficeIs, RunIs
  <2> QED BY <2>1, <2>2, PlanMeans, PlanStarts
<1>3. OlderRowsRun
  <2> SUFFICES ASSUME campaign # NoCampaign, campaign.typed = NotSet, launched # NotSet
               PROVE  /\ launched.plan = CampaignPlan(DocumentOf(NewDraft, 0), "whole")
                      /\ "session" \in DOMAIN campaign.doc /\ Readable(campaign.doc)
                      /\ campaign.status # "CREATED"
    BY DEF OlderRowsRun
  <2>1. /\ campaign.doc \in OlderDocuments /\ campaign.template = "whole"
        /\ Readable(campaign.doc) /\ ConfigRefusal(campaign.doc, "whole") = "none"
        /\ launched.plan = CampaignPlan(campaign.doc, "whole")
        /\ campaign.status # "CREATED"
    BY <1>1 DEF RowIs, RunIs
  <2> QED BY <2>1, OlderPlan
<1>4. FreshOnce
  BY <1>1 DEF RunIs, FreshOnce
<1>5. ButtonsAreGood
  <2> SUFFICES ASSUME campaign # NoCampaign, panel = [status |-> campaign.status, live |-> campaign.live]
               PROVE  /\ \A control \in Buttons(panel) :
                           ControlRefusal(control) \in {"busy", "transition"} =>
                             control = "start" /\ panel.status = "CREATED"
                      /\ panel.status \notin Ended =>
                           /\ "cancel" \in Buttons(panel)
                           /\ Buttons(panel) \intersect
                                {"start", "resume", IF panel.live THEN "pause" ELSE "start"} # {}
    BY DEF ButtonsAreGood
  <2>1. /\ campaign.status \in Statuses /\ campaign.live \in BOOLEAN
        /\ campaign.live => campaign.ran /\ campaign.status \notin Ended \union {"CREATED"}
        /\ campaign.status = "VALIDATED" => ~campaign.ran
        /\ panel.status = campaign.status /\ panel.live = campaign.live
    BY <1>1 DEF RowIs
  <2>2. ~campaign.live /\ campaign.status \notin Ended \union {"CREATED"} =>
          LaunchRefusal \notin {"busy", "transition"}
    BY RefusalsAre DEF LaunchRefusal, Starts
  <2>3. CASE campaign.status \in Ended
    BY <2>1, <2>3 DEF Buttons
  <2>4. CASE campaign.status \notin Ended /\ campaign.live
    <3>1. Buttons(panel) = {IF campaign.status = "PAUSED" THEN "resume" ELSE "pause", "cancel"}
      BY <2>1, <2>4 DEF Buttons
    <3>2. campaign.status \in {"RUNNING", "PAUSED"}
      BY <2>1, <2>4 DEF Statuses
    <3>3. /\ ControlRefusal("resume") = "none" /\ ControlRefusal("cancel") = "none"
          /\ ControlRefusal("pause") = "none"
      BY <2>4, <3>2 DEF ControlRefusal
    <3> QED BY <2>1, <2>4, <3>1, <3>3
  <2>5. CASE campaign.status \notin Ended /\ ~campaign.live
    <3>1. Buttons(panel) = {IF campaign.status \in Startable THEN "start" ELSE "resume", "cancel"}
      BY <2>1, <2>5 DEF Buttons
    <3>2. /\ ControlRefusal("cancel") = "none" /\ ControlRefusal("start") = LaunchRefusal
          /\ ControlRefusal("resume") = LaunchRefusal
      BY <2>5 DEF ControlRefusal
    <3> QED BY <2>1, <2>2, <2>5, <3>1, <3>2 DEF Startable
  <2> QED BY <2>1, <2>3, <2>4, <2>5
<1> QED BY <1>1, <1>2, <1>3, <1>4, <1>5 DEF LaunchedAsComposed

\* A blank form beside a stored campaign satisfies the invariant.
LEMMA LaunchStart ==
  LaunchInit /\ office \in NewOffices /\ campaign \in StoredCampaigns => LaunchInv
<1> SUFFICES ASSUME LaunchInit, office \in NewOffices, campaign \in StoredCampaigns
             PROVE  LaunchInv
  OBVIOUS
<1>1. BriefIs(brief)
  <2>1. brief.substitute = FALSE /\ brief.abandon = FALSE /\ brief.windowed = FALSE
    BY DEF LaunchInit, NewDraft
  <2>2. brief.substitute \in BOOLEAN /\ brief.abandon \in BOOLEAN /\ brief.windowed \in BOOLEAN
    BY <2>1
  <2>3. /\ DOMAIN brief = DOMAIN NewDraft /\ brief.startAt = NotSet
        /\ brief.open = 1 /\ brief.close = 3 /\ brief.offset = 0
    BY DEF LaunchInit, NewDraft
  <2> QED BY <2>2, <2>3 DEF BriefIs
<1>2. RowIs
  <2> SUFFICES ASSUME campaign # NoCampaign
               PROVE  /\ DOMAIN campaign = {"doc", "template", "status", "live", "typed", "ran"}
                      /\ campaign.status \in Statuses /\ campaign.live \in BOOLEAN
                      /\ campaign.ran \in BOOLEAN /\ ~campaign.live
                      /\ campaign.status = "VALIDATED" => ~campaign.ran
                      /\ campaign.typed = NotSet
                      /\ campaign.doc \in OlderDocuments /\ campaign.template = "whole"
    BY DEF RowIs
  <2>1. PICK doc \in OlderDocuments, status \in Statuses :
          campaign = Row(doc, "whole", status, NotSet, status # "VALIDATED")
    BY DEF StoredCampaigns, Statuses
  <2>2. (status # "VALIDATED") \in BOOLEAN /\ FALSE \in BOOLEAN
    OBVIOUS
  <2> QED BY <2>1, <2>2 DEF Row
<1>3. OfficeIs /\ RefusalsHaveReasons
  <2>1. /\ DOMAIN office = {"zone", "asked", "refusal", "bound", "members"}
        /\ office.zone \in Zones /\ office.asked = NotSet /\ office.refusal = "none"
    BY DEF NewOffices
  <2> QED BY <2>1, LaunchAssumption DEF OfficeIs, RefusalsHaveReasons
<1>4. PanelIs /\ RunIs
  BY DEF LaunchInit, PanelIs, RunIs
<1> QED BY <1>1, <1>2, <1>3, <1>4 DEF LaunchInv

\* A row that is there, whatever is written on it, is not the one that is not.
LEMMA RowIsThere ==
  /\ NoCampaign.status = "NONE"
  /\ \A row : row.status \in Statuses => row # NoCampaign
<1>1. NoCampaign.status = "NONE"
  BY DEF NoCampaign, Row
<1>2. "NONE" \notin Statuses
  BY DEF Statuses, Ended
<1> QED BY <1>1, <1>2

\* What only moves the status and the liveness of a row.
LEMMA RowMoves ==
  ASSUME LaunchInv, campaign # NoCampaign, UNCHANGED <<brief, office, launched>>,
         NEW status \in Statuses, NEW isLive \in BOOLEAN, NEW ran \in BOOLEAN,
         campaign' = [campaign EXCEPT !.status = status, !.live = isLive, !.ran = ran],
         isLive => ran /\ status \notin Ended \union {"CREATED"}, status = "VALIDATED" => ~ran,
         status = "CREATED" => campaign.status = "CREATED", PanelIs'
  PROVE  LaunchInv'
<1>1. BriefIs(brief) /\ RowIs /\ OfficeIs /\ RunIs /\ RefusalsHaveReasons
  BY DEF LaunchInv
<1>2. /\ DOMAIN campaign' = DOMAIN campaign /\ campaign'.doc = campaign.doc
      /\ campaign'.template = campaign.template /\ campaign'.typed = campaign.typed
      /\ campaign'.status = status /\ campaign'.live = isLive /\ campaign'.ran = ran
  BY <1>1 DEF RowIs
<1>3. campaign' # NoCampaign
  BY <1>2, RowIsThere
<1>4. RowIs'
  BY <1>1, <1>2 DEF RowIs, BriefIs
<1>5. OfficeIs'
  BY <1>1 DEF OfficeIs
<1>6. RunIs'
  BY <1>1, <1>2, <1>3 DEF RunIs
<1>7. RefusalsHaveReasons'
  BY <1>1 DEF RefusalsHaveReasons
<1>8. BriefIs(brief)'
  BY <1>1 DEF BriefIs
<1> QED BY <1>4, <1>5, <1>6, <1>7, <1>8 DEF LaunchInv

\* The same without the attempt's mark.
LEMMA RowEdits ==
  ASSUME LaunchInv, campaign # NoCampaign, NEW status, NEW isLive
  PROVE  /\ [campaign EXCEPT !.status = status, !.live = isLive]
              = [campaign EXCEPT !.status = status, !.live = isLive, !.ran = campaign.ran]
         /\ [campaign EXCEPT !.status = status]
              = [campaign EXCEPT !.status = status, !.live = campaign.live, !.ran = campaign.ran]
         /\ [campaign EXCEPT !.live = isLive]
              = [campaign EXCEPT !.status = campaign.status, !.live = isLive, !.ran = campaign.ran]
BY DEF LaunchInv, RowIs

\* A run is launched: fresh, only of a campaign that never ran.
LEMMA LaunchRunKeeps ==
  ASSUME LaunchInv, campaign # NoCampaign, LaunchRefusal = "none", NEW resuming \in BOOLEAN,
         campaign.ran => resuming, LaunchRun(resuming), UNCHANGED <<brief, office, panel>>
  PROVE  LaunchInv'
<1>1. BriefIs(brief) /\ RowIs /\ OfficeIs /\ PanelIs /\ RefusalsHaveReasons
  BY DEF LaunchInv
<1>2. /\ campaign' = [campaign EXCEPT !.status = "RUNNING", !.live = TRUE, !.ran = TRUE]
      /\ launched' = [plan |-> CampaignPlan(campaign.doc, campaign.template),
                      resuming |-> resuming, ran |-> campaign.ran]
  BY DEF LaunchRun
<1>3. /\ DOMAIN campaign' = DOMAIN campaign /\ campaign'.doc = campaign.doc
      /\ campaign'.template = campaign.template /\ campaign'.typed = campaign.typed
      /\ campaign'.status = "RUNNING"
  BY <1>1, <1>2 DEF RowIs
<1>a. campaign'.live /\ campaign'.ran /\ campaign'.live \in BOOLEAN /\ campaign'.ran \in BOOLEAN
  BY <1>1, <1>2 DEF RowIs
<1>4. campaign' # NoCampaign
  BY <1>3, RowIsThere DEF Statuses
<1>5. RowIs'
  BY <1>1, <1>3, <1>a DEF RowIs, BriefIs, Statuses, Ended
<1>b. campaign.status # "CREATED" /\ campaign.status \notin Ended
  BY <1>1, RefusalsAre DEF LaunchRefusal, Starts, RowIs
<1>6. /\ Readable(campaign.doc) /\ ConfigRefusal(campaign.doc, campaign.template) = "none"
  BY DEF LaunchRefusal
<1>7. /\ launched'.plan = CampaignPlan(campaign.doc, campaign.template)
      /\ launched'.ran = campaign.ran /\ launched'.resuming = resuming
  BY <1>2
<1>8. RunIs'
  BY <1>3, <1>4, <1>6, <1>7 DEF RunIs
<1>9. OfficeIs' /\ RefusalsHaveReasons'
  BY <1>1 DEF OfficeIs, RefusalsHaveReasons, BriefIs
<1>10. PanelIs'
  BY <1>1, <1>4, <1>a, <1>b DEF PanelIs
<1>11. BriefIs(brief)'
  BY <1>1 DEF BriefIs
<1> QED BY <1>5, <1>8, <1>9, <1>10, <1>11 DEF LaunchInv

\* A button of the panel.
LEMMA ButtonStep ==
  ASSUME LaunchInv, PressStart \/ PressPause \/ PressResume \/ PressCancel
  PROVE  LaunchInv'
<1>1. /\ RowIs /\ PanelIs /\ campaign # NoCampaign /\ panel # NotSet
      /\ UNCHANGED <<brief, office, panel>>
  BY DEF LaunchInv, PressStart, PressPause, PressResume, PressCancel, Pressed
<1>2. /\ campaign.status \in Statuses /\ campaign.live \in BOOLEAN /\ campaign.ran \in BOOLEAN
      /\ campaign.live => campaign.ran /\ campaign.status \notin Ended \union {"CREATED"}
      /\ campaign.status = "VALIDATED" => ~campaign.ran
      /\ panel.live \in BOOLEAN
      /\ panel.status = "VALIDATED" /\ campaign.ran => campaign.live \/ campaign.status \in Ended
      /\ panel.status = "CREATED" => campaign.status \in Ended \union {"CREATED"}
  BY <1>1 DEF RowIs, PanelIs
<1>3. LaunchRefusal = "none" =>
        ~campaign.live /\ campaign.status \notin Ended \union {"CREATED"}
  BY <1>2, RefusalsAre DEF LaunchRefusal, Starts
<1>4. ASSUME NEW status \in Statuses \ {"CREATED"}, MovesTo(status),
             campaign.live => status \notin Ended, status = "VALIDATED" => campaign.status = "VALIDATED",
             campaign.live \/ status \in Ended
      PROVE  LaunchInv'
  <2>1. campaign' = [campaign EXCEPT !.status = status, !.live = campaign.live, !.ran = campaign.ran]
        /\ UNCHANGED launched
    BY <1>1, <1>4, RowEdits DEF MovesTo
  <2>2. campaign'.status = status /\ campaign'.live = campaign.live
    BY <1>1, <2>1 DEF RowIs
  <2>3. campaign' # NoCampaign
    BY <2>2, RowIsThere
  <2>4. PanelIs'
    BY <1>1, <1>2, <1>4, <2>2, <2>3 DEF PanelIs
  <2>5. /\ status \in Statuses /\ campaign.live \in BOOLEAN /\ campaign.ran \in BOOLEAN
        /\ campaign.live => campaign.ran /\ status \notin Ended \union {"CREATED"}
        /\ status = "VALIDATED" => ~campaign.ran
        /\ status = "CREATED" => campaign.status = "CREATED"
    BY <1>2, <1>4
  <2> QED BY <1>1, <2>1, <2>4, <2>5, RowMoves
<1>5. CASE PressStart
  <2>1. /\ "start" \in Buttons(panel) /\ ControlRefusal("start") = "none" /\ LaunchRun(FALSE)
    BY <1>5 DEF PressStart, Pressed
  <2>2. LaunchRefusal = "none"
    BY <2>1 DEF ControlRefusal
  <2>3. panel.status = "VALIDATED"
    BY <1>2, <1>3, <2>1, <2>2 DEF Buttons, Startable
  <2>4. ~campaign.ran
    BY <1>2, <1>3, <2>2, <2>3
  <2> QED BY <1>1, <2>1, <2>2, <2>4, LaunchRunKeeps
<1>6. CASE PressPause
  <2>1. ControlRefusal("pause") = "none" /\ MovesTo("PAUSED") /\ "pause" \in Buttons(panel)
    BY <1>6 DEF PressPause, Pressed
  <2>2. campaign.status \in {"RUNNING", "PAUSED"}
    BY <2>1 DEF ControlRefusal
  <2>3. "PAUSED" \in Statuses /\ "PAUSED" \notin Ended /\ campaign.status \notin Ended
    BY <2>2 DEF Statuses, Ended
  <2>4. panel.status # "VALIDATED" \/ campaign.live \/ ~campaign.ran
    BY <1>2, <2>3, SMTT(30)
  <2>5. campaign' = [campaign EXCEPT !.status = "PAUSED", !.live = campaign.live,
                                     !.ran = campaign.ran] /\ UNCHANGED launched
    BY <1>1, <2>1, RowEdits DEF MovesTo
  <2>6. /\ campaign'.status = "PAUSED" /\ campaign'.live = campaign.live
        /\ campaign'.ran = campaign.ran
    BY <1>1, <2>5 DEF RowIs
  <2>7. campaign' # NoCampaign
    BY <2>3, <2>6, RowIsThere
  <2>8. PanelIs'
    BY <1>1, <1>2, <2>2, <2>3, <2>4, <2>6, <2>7 DEF PanelIs
  <2>9. /\ "PAUSED" \in Statuses /\ campaign.live \in BOOLEAN /\ campaign.ran \in BOOLEAN
        /\ campaign.live => campaign.ran /\ "PAUSED" \notin Ended \union {"CREATED"}
        /\ "PAUSED" = "VALIDATED" => ~campaign.ran
        /\ "PAUSED" = "CREATED" => campaign.status = "CREATED"
    BY <1>2, <2>3
  <2> QED BY <1>1, <2>5, <2>8, <2>9, RowMoves
<1>7. CASE PressResume
  <2>1. ControlRefusal("resume") = "none"
    BY <1>7 DEF PressResume, Pressed
  <2>2. CASE campaign.live
    <3>1. MovesTo("RUNNING") /\ "RUNNING" \in Statuses /\ "RUNNING" \notin Ended
      BY <1>7, <2>2 DEF PressResume, Statuses, Ended
    <3> QED BY <1>4, <2>2, <3>1
  <2>3. CASE ~campaign.live
    <3>1. LaunchRun(TRUE)
      BY <1>7, <2>3 DEF PressResume
    <3>2. LaunchRefusal = "none"
      BY <2>1, <2>3 DEF ControlRefusal
    <3> QED BY <1>1, <3>1, <3>2, LaunchRunKeeps
  <2> QED BY <2>2, <2>3
<1>8. CASE PressCancel
  <2>1. MovesTo(IF campaign.live THEN campaign.status ELSE "CANCELLED")
    BY <1>8 DEF PressCancel
  <2>2. "CANCELLED" \in Statuses /\ "CANCELLED" \in Ended
    BY DEF Statuses, Ended
  <2> QED BY <1>2, <1>4, <2>1, <2>2
<1> QED BY <1>5, <1>6, <1>7, <1>8

\* Every step of the form, the panel and the run keeps the invariant.
LEMMA LaunchStep == LaunchInv /\ [LaunchNext]_launchVars => LaunchInv'
<1> SUFFICES ASSUME LaunchInv, [LaunchNext]_launchVars PROVE LaunchInv'
  OBVIOUS
<1>1. BriefIs(brief) /\ RowIs /\ OfficeIs /\ PanelIs /\ RunIs /\ RefusalsHaveReasons
  BY DEF LaunchInv
<1>2. /\ UNCHANGED brief => BriefIs(brief)'
      /\ UNCHANGED <<campaign, office>> => RowIs' /\ OfficeIs' /\ RefusalsHaveReasons'
      /\ UNCHANGED <<campaign, panel>> => PanelIs'
      /\ UNCHANGED <<campaign, launched>> => RunIs'
  BY <1>1 DEF BriefIs, RowIs, OfficeIs, RefusalsHaveReasons, PanelIs, RunIs
<1>3. CASE EditDraft
  <2>1. PICK field \in DOMAIN brief : \E entry \in Entries[field] :
          brief' = [brief EXCEPT ![field] = entry]
    BY <1>3 DEF EditDraft
  <2>2. BriefIs(brief')
    BY <1>1, <2>1, BriefStep, ZenonT(40)
  <2>3. BriefIs(brief)'
    BY <2>2 DEF BriefIs
  <2> QED BY <1>2, <1>3, <2>3 DEF EditDraft, LaunchInv
<1>4. CASE Submit
  <2>1. /\ office' = [office EXCEPT !.asked = brief, !.refusal = "none"] /\ Ready(brief)
        /\ campaign = NoCampaign /\ UNCHANGED <<brief, campaign, panel, launched>>
    BY <1>4 DEF Submit
  <2>2. /\ DOMAIN office' = DOMAIN office /\ office'.zone = office.zone
        /\ office'.asked = brief /\ office'.refusal = "none"
    BY <1>1, <2>1 DEF OfficeIs
  <2>3. OfficeIs' /\ RefusalsHaveReasons'
    BY <1>1, <2>1, <2>2 DEF OfficeIs, RefusalsHaveReasons, BriefIs, Ready
  <2>4. RowIs'
    BY <1>1, <2>1, <2>2 DEF RowIs
  <2> QED BY <1>2, <2>1, <2>3, <2>4 DEF LaunchInv
<1>5. CASE CreateCampaign
  <2> DEFINE doc     == DocumentOf(office.asked, office.zone)
             refused == ConfigRefusal(doc, office.asked.template)
             counted == IF doc.list = NotSet THEN 1 ELSE office.members
             refusal == IF refused = "none" /\ counted = 0 THEN "no recipients" ELSE refused
  <2>1. /\ office.asked # NotSet
        /\ office' = [office EXCEPT !.asked = NotSet, !.refusal = refusal]
        /\ refusal = "none" => 
             /\ campaign' = Row(doc, office.asked.template, "VALIDATED", office.asked, FALSE)
             /\ panel' = [status |-> "VALIDATED", live |-> FALSE]
        /\ refusal # "none" => UNCHANGED <<campaign, panel>>
        /\ UNCHANGED <<brief, launched>>
    BY <1>5 DEF CreateCampaign
  <2>2. BriefIs(office.asked) /\ Ready(office.asked) /\ campaign = NoCampaign
    BY <1>1, <2>1 DEF OfficeIs
  <2>3. launched = NotSet
    BY <1>1, <2>2 DEF RunIs
  <2>4. refused \in {"template", "source", "retry", "window", "none"}
    <3>1. ReadDocument(doc) = doc /\ office.asked.session # NotSet
      BY <2>2, WholeReads DEF Ready
    <3>2. doc.session = office.asked.session
      BY DEF DocumentOf
    <3> HIDE DEF doc
    <3> QED BY <3>1, <3>2, RefusalsAre
  <2> HIDE DEF refused, counted
  <2>5. refusal # "none" => refusal \in {"no recipients", "template", "source", "retry", "window"}
    BY <2>4
  <2> HIDE DEF refusal
  <2>6. /\ DOMAIN office' = DOMAIN office /\ office'.zone = office.zone
        /\ office'.asked = NotSet /\ office'.refusal = refusal
    BY <1>1, <2>1 DEF OfficeIs
  <2>7. OfficeIs'
    BY <1>1, <2>6 DEF OfficeIs
  <2>8. RunIs'
    BY <2>1, <2>3 DEF RunIs
  <2>9. BriefIs(brief)'
    BY <1>2, <2>1
  <2>10. CASE refusal = "none"
    <3>1. RefusalsHaveReasons'
      BY <2>6, <2>10 DEF RefusalsHaveReasons
    <3> DEFINE typed == office.asked
    <3>2. /\ DOMAIN campaign' = {"doc", "template", "status", "live", "typed", "ran"}
          /\ campaign'.doc = doc /\ campaign'.template = typed.template
          /\ campaign'.status = "VALIDATED" /\ campaign'.typed = typed
      BY <2>1, <2>10 DEF Row
    <3>3. campaign'.live = FALSE
      BY <2>1, <2>10 DEF Row
    <3>4. campaign'.ran = FALSE
      BY <2>1, <2>10 DEF Row
    <3>5. campaign' # NoCampaign
      BY <3>2, RowIsThere DEF Statuses
    <3>6. PanelIs'
      <4>1. panel'.live = FALSE /\ panel'.status = "VALIDATED"
        BY <2>1, <2>10
      <4> QED BY <3>4, <3>5, <4>1 DEF PanelIs
    <3>7. doc = DocumentOf(campaign'.typed, office'.zone) /\ BriefIs(campaign'.typed)
      BY <2>2, <2>6, <3>2
    <3> HIDE DEF doc
    <3>8. RowIs'
      <4>1. BriefIs(campaign.typed)'
        BY <3>7 DEF BriefIs
      <4>2. (campaign.doc = DocumentOf(campaign.typed, office.zone))'
        BY <3>2, <3>7 DEF DocumentOf, Instant
      <4> QED BY <2>1, <3>2, <3>3, <3>4, <4>1, <4>2 DEF RowIs, Statuses
    <3> QED BY <2>7, <2>8, <2>9, <3>1, <3>6, <3>8 DEF LaunchInv
  <2>11. CASE refusal # "none"
    <3>1. RefusalsHaveReasons'
      BY <2>1, <2>2, <2>5, <2>6, <2>11 DEF RefusalsHaveReasons
    <3>2. RowIs' /\ PanelIs'
      BY <1>2, <2>1, <2>2, <2>11 DEF RowIs, PanelIs
    <3> QED BY <2>7, <2>8, <2>9, <3>1, <3>2 DEF LaunchInv
  <2> QED BY <2>10, <2>11
<1>6. CASE WorldMoves
  <2>1. UNCHANGED <<brief, campaign, panel, launched>>
        /\ DOMAIN office' = DOMAIN office /\ office'.zone = office.zone
        /\ office'.asked = office.asked /\ office'.refusal = office.refusal
    BY <1>1, <1>6 DEF WorldMoves, OfficeIs
  <2>2. RowIs' /\ OfficeIs' /\ RefusalsHaveReasons'
    BY <1>1, <2>1, ZenonT(40) DEF RowIs, OfficeIs, RefusalsHaveReasons, BriefIs, Ready
  <2> QED BY <1>2, <2>1, <2>2 DEF LaunchInv
<1>7. CASE ReloadCampaigns
  <2>1. /\ campaign # NoCampaign /\ UNCHANGED <<brief, office, campaign, launched>>
        /\ panel' = [status |-> campaign.status, live |-> campaign.live]
    BY <1>7 DEF ReloadCampaigns
  <2>2. PanelIs'
    BY <1>1, <2>1 DEF PanelIs, RowIs
  <2> QED BY <1>2, <2>1, <2>2 DEF LaunchInv
<1>8. CASE RunReturns
  <2>1. PICK status \in Ended :
          /\ campaign' = [campaign EXCEPT !.status = status, !.live = FALSE]
          /\ panel' = IF panel = NotSet THEN panel ELSE [status |-> status, live |-> FALSE]
    BY <1>8 DEF RunReturns
  <2>2. campaign # NoCampaign /\ UNCHANGED <<brief, office, launched>>
    BY <1>8 DEF RunReturns
  <2>3. campaign' = [campaign EXCEPT !.status = status, !.live = FALSE, !.ran = campaign.ran]
    BY <2>1, <2>2, RowEdits
  <2>4. campaign'.status = status /\ status \in Statuses /\ status # "VALIDATED"
    BY <1>1, <2>2, <2>3 DEF RowIs, Statuses, Ended
  <2>a. status # "CREATED"
    BY DEF Ended
  <2>5. campaign' # NoCampaign
    BY <2>4, RowIsThere
  <2>6. PanelIs'
    <3>1. panel' # NotSet => panel'.live = FALSE
      BY <2>1
    <3> QED BY <2>4, <2>5, <3>1 DEF PanelIs, Ended
  <2>7. campaign.ran \in BOOLEAN
    BY <1>1, <2>2 DEF RowIs
  <2> QED BY <2>2, <2>3, <2>4, <2>a, <2>6, <2>7, RowMoves
<1>9. CASE Restarted
  <2>1. /\ campaign # NoCampaign /\ campaign' = [campaign EXCEPT !.live = FALSE]
        /\ panel' = NotSet /\ UNCHANGED <<brief, office, launched>>
    BY <1>9, SMTT(30) DEF Restarted
  <2>2. campaign' = [campaign EXCEPT !.status = campaign.status, !.live = FALSE,
                                     !.ran = campaign.ran]
    BY <2>1, RowEdits
  <2>3. PanelIs'
    BY <2>1 DEF PanelIs
  <2>4. /\ campaign.status \in Statuses /\ campaign.ran \in BOOLEAN
        /\ campaign.status = "VALIDATED" => ~campaign.ran
    BY <1>1, <2>1 DEF RowIs
  <2> QED BY <2>1, <2>2, <2>3, <2>4, RowMoves
<1>10. CASE PressStart \/ PressPause \/ PressResume \/ PressCancel
  BY <1>10, ButtonStep
<1>11. CASE UNCHANGED launchVars
  BY <1>2, <1>11 DEF launchVars, LaunchInv
<1> QED BY <1>3, <1>4, <1>5, <1>6, <1>7, <1>8, <1>9, <1>10, <1>11 DEF LaunchNext

-----------------------------------------------------------------------------
(* The send screen.                                                         *)

Alive(s) == s \in Hosts \union {Unset}

\* A preview that was asked carries what was on screen; the latest still is.
PreviewIs(p) ==
  /\ DOMAIN p = {"n", "text", "choice", "session", "step", "answer"}
  /\ p.n \in 1 .. writing.generation /\ p.step \in {"asked", "answered"}
  /\ IsLatest(p) =>
       /\ p.session = writing.session
       /\ writing.open /\ ~writing.armed => p.text = writing.text /\ p.choice = writing.choice
  /\ p.step = "answered" /\ p.answer # Unset =>
       /\ p.answer.text = p.text /\ p.answer.choice = p.choice /\ p.answer.session = p.session
       /\ IsLatest(p) => writing.rebound \/ p.answer.alphabet = AlphabetOf(p.session)

CounterIs ==
  (\A p \in previews : ~IsLatest(p)) /\ writing.preview # Unset =>
    /\ writing.open /\ ~writing.armed => /\ writing.preview.text = writing.text
                                         /\ writing.preview.choice = writing.choice
    /\ writing.preview.session = writing.session
    /\ writing.rebound \/ writing.preview.alphabet = AlphabetOf(writing.session)

WritingIs ==
  /\ DOMAIN writing = {"session", "text", "choice", "open", "armed", "generation", "rebound",
                       "preview", "sending", "result", "progress"}
  /\ writing.generation \in Nat /\ Alive(writing.session)
  /\ writing.open \in BOOLEAN /\ writing.armed \in BOOLEAN /\ writing.rebound \in BOOLEAN
  /\ writing.armed => writing.open

OneEach == \A p, q \in previews : p.n = q.n => p = q

SendInv ==
  /\ DOMAIN hosts = Hosts /\ WritingIs
  /\ \A p \in previews : PreviewIs(p)
  /\ OneEach /\ CounterIs /\ BadgeIsItsOwn

\* The send screen opens as its invariant says.
LEMMA SendStart == ComposeInit => SendInv
<1> SUFFICES ASSUME ComposeInit PROVE SendInv
  OBVIOUS
<1>1. PICK s \in Hosts : s = CHOOSE x \in Hosts : TRUE
  BY ComposeAssumption
<1>2. /\ DOMAIN hosts = Hosts /\ previews = {}
      /\ writing = [session |-> s, text |-> "plain", choice |-> "automatic",
                    open |-> TRUE, armed |-> TRUE, generation |-> 0, rebound |-> FALSE,
                    preview |-> Unset, sending |-> FALSE, result |-> Unset, progress |-> Unset]
  BY <1>1 DEF ComposeInit
<1>3. WritingIs
  BY <1>2 DEF WritingIs, Alive
<1>4. CounterIs /\ BadgeIsItsOwn
  BY <1>2 DEF CounterIs, BadgeIsItsOwn
<1> QED BY <1>2, <1>3, <1>4 DEF SendInv, OneEach

\* What a step that leaves the previews, and what they are of, keeps.
Untouched ==
  /\ writing'.generation = writing.generation /\ writing'.session = writing.session
  /\ writing'.preview = writing.preview
  /\ writing.rebound => writing'.rebound

SameText ==
  writing'.open /\ ~writing'.armed =>
    /\ writing.open /\ ~writing.armed
    /\ writing'.text = writing.text /\ writing'.choice = writing.choice

SameAlphabet == writing'.rebound \/ AlphabetOf(writing.session)' = AlphabetOf(writing.session)

\* A step that leaves the text and its alphabet alone leaves the previews true.
LEMMA PreviewsStand ==
  ASSUME SendInv, UNCHANGED previews, Untouched, SameText, SameAlphabet, WritingIs',
         DOMAIN hosts' = Hosts, BadgeIsItsOwn'
  PROVE  SendInv'
<1>1. ASSUME NEW p \in previews PROVE PreviewIs(p)'
  <2>1. PreviewIs(p) /\ (IsLatest(p)' <=> IsLatest(p))
    BY DEF SendInv, IsLatest, Untouched
  <2>2. IsLatest(p) => p.session = writing.session /\ p.session = writing'.session
    BY <2>1 DEF PreviewIs, Untouched
  <2>3. IsLatest(p) /\ writing'.open /\ ~writing'.armed =>
          p.text = writing'.text /\ p.choice = writing'.choice
    BY <2>1 DEF PreviewIs, SameText
  <2>4. IsLatest(p) => writing'.rebound \/ AlphabetOf(p.session)' = AlphabetOf(p.session)
    BY <2>2 DEF SameAlphabet, AlphabetOf, Untouched
  <2>5. p.step = "answered" /\ p.answer # Unset /\ IsLatest(p) =>
          writing'.rebound \/ p.answer.alphabet = AlphabetOf(p.session)'
    BY <2>1, <2>4 DEF PreviewIs, Untouched
  <2> QED BY <2>1, <2>2, <2>3, <2>5 DEF PreviewIs, Untouched
<1>2. CounterIs'
  <2> SUFFICES ASSUME \A p \in previews : ~IsLatest(p)', writing'.preview # Unset
               PROVE  /\ writing'.open /\ ~writing'.armed => /\ writing'.preview.text = writing'.text
                                                             /\ writing'.preview.choice = writing'.choice
                      /\ writing'.preview.session = writing'.session
                      /\ writing'.rebound \/ writing'.preview.alphabet = AlphabetOf(writing.session)'
    BY DEF CounterIs, IsLatest
  <2>1. \A p \in previews : ~IsLatest(p)
    BY DEF IsLatest, Untouched
  <2>2. writing.preview # Unset /\ CounterIs
    BY DEF Untouched, SendInv
  <2> QED BY <2>1, <2>2 DEF CounterIs, Untouched, SameText, SameAlphabet
<1>3. OneEach'
  BY DEF SendInv, OneEach
<1> QED BY <1>1, <1>2, <1>3 DEF SendInv

\* The alphabet is that of the session, which such a step does not change.
LEMMA AlphabetStands ==
  ASSUME UNCHANGED hosts, writing'.session = writing.session
  PROVE  AlphabetOf(writing.session)' = AlphabetOf(writing.session)
BY DEF AlphabetOf

\* A preview is asked for: the latest is of what is on screen.
LEMMA PreviewAsked ==
  ASSUME SendInv, UNCHANGED hosts, NEW w, RefreshPreview(w), DOMAIN w = DOMAIN writing,
         w.generation = writing.generation, Alive(w.session), w.open \in BOOLEAN,
         w.armed \in BOOLEAN, w.armed => w.open, w.result = writing.result,
         w.progress = writing.progress
  PROVE  SendInv'
<1>1. PICK n, new : /\ n = writing.generation + 1
                    /\ new = [n |-> n, text |-> w.text, choice |-> w.choice, session |-> w.session,
                              step |-> "asked", answer |-> Unset]
  OBVIOUS
<1>2. writing' = [w EXCEPT !.generation = n, !.rebound = FALSE] /\ previews' = previews \union {new}
  BY <1>1 DEF RefreshPreview
<1>3. writing.generation \in Nat /\ n \in Nat
  BY <1>1 DEF SendInv, WritingIs
<1>4. /\ DOMAIN writing' = DOMAIN writing /\ writing'.generation = n
      /\ writing'.session = w.session /\ writing'.text = w.text /\ writing'.choice = w.choice
      /\ writing'.result = w.result /\ writing'.progress = w.progress
  BY <1>2 DEF SendInv, WritingIs
<1>a. /\ writing'.open = w.open
  BY <1>2 DEF SendInv, WritingIs
<1>b. /\ writing'.armed = w.armed
  BY <1>2 DEF SendInv, WritingIs
<1>c. writing'.rebound = FALSE
  BY <1>2 DEF SendInv, WritingIs
<1>5. WritingIs'
  BY <1>3, <1>4, <1>a, <1>b, <1>c DEF SendInv, WritingIs, Alive
<1>6. PreviewIs(new)'
  <2>1. new.step = "asked" /\ new.n = n /\ new.session = w.session /\ new.text = w.text
        /\ new.choice = w.choice /\ DOMAIN new = {"n", "text", "choice", "session", "step", "answer"}
    BY <1>1
  <2> QED BY <1>1, <1>3, <1>4, <2>1 DEF PreviewIs
<1>7. ASSUME NEW p \in previews PROVE PreviewIs(p)' /\ p.n # n
  <2>1. PreviewIs(p)
    BY DEF SendInv
  <2>2. p.n \in 1 .. n /\ p.n # n
    BY <1>1, <1>3, <2>1 DEF PreviewIs
  <2>3. ~IsLatest(p)'
    BY <1>4, <2>2 DEF IsLatest
  <2> QED BY <1>4, <2>1, <2>2, <2>3 DEF PreviewIs
<1>8. OneEach'
  <2>1. new.n = n
    BY <1>1
  <2> QED BY <1>2, <1>7, <2>1 DEF SendInv, OneEach
<1>9. CounterIs'
  <2>1. IsLatest(new)' /\ new \in previews'
    BY <1>1, <1>2, <1>4 DEF IsLatest
  <2> QED BY <2>1 DEF CounterIs
<1>10. BadgeIsItsOwn'
  BY <1>4 DEF SendInv, BadgeIsItsOwn
<1>11. \A p \in previews' : PreviewIs(p)'
  BY <1>2, <1>6, <1>7
<1> QED BY <1>5, <1>8, <1>9, <1>10, <1>11 DEF SendInv

\* Every step of the send screen keeps the invariant.
LEMMA SendStep == SendInv /\ [SendNext]_sendVars => SendInv'
<1> SUFFICES ASSUME SendInv, [SendNext]_sendVars PROVE SendInv'
  OBVIOUS
<1>1. WritingIs /\ BadgeIsItsOwn /\ DOMAIN hosts = Hosts
  BY DEF SendInv
<1>2. CASE Keystroke
  <2>1. PICK text, choice : writing' = [writing EXCEPT !.text = text, !.choice = choice, !.armed = TRUE]
    BY <1>2 DEF Keystroke
  <2>2. writing.open /\ UNCHANGED <<hosts, previews>>
    BY <1>2 DEF Keystroke
  <2>3. /\ DOMAIN writing' = DOMAIN writing /\ writing'.generation = writing.generation
        /\ writing'.session = writing.session /\ writing'.preview = writing.preview
        /\ writing'.result = writing.result /\ writing'.progress = writing.progress
    BY <1>1, <2>1 DEF WritingIs
  <2>4. writing'.armed = TRUE
    BY <1>1, <2>1 DEF WritingIs
  <2>5. writing'.open = writing.open
    BY <1>1, <2>1 DEF WritingIs
  <2>6. writing'.rebound = writing.rebound
    BY <1>1, <2>1 DEF WritingIs
  <2>7. WritingIs' /\ Untouched /\ SameText /\ SameAlphabet /\ BadgeIsItsOwn'
    BY <1>1, <2>2, <2>3, <2>4, <2>5, <2>6, AlphabetStands
       DEF WritingIs, Alive, Untouched, SameText, SameAlphabet, BadgeIsItsOwn
  <2> QED BY <1>1, <2>2, <2>7, PreviewsStand
<1>3. CASE Elapse
  <2>1. PICK w : w = [writing EXCEPT !.armed = FALSE]
    OBVIOUS
  <2>2. RefreshPreview(w) /\ UNCHANGED hosts
    BY <1>3, <2>1 DEF Elapse
  <2>3. /\ DOMAIN w = DOMAIN writing /\ w.generation = writing.generation
        /\ w.session = writing.session /\ w.result = writing.result
        /\ w.progress = writing.progress
    BY <1>1, <2>1 DEF WritingIs
  <2>4. w.armed = FALSE
    BY <1>1, <2>1 DEF WritingIs
  <2>5. w.open = writing.open
    BY <1>1, <2>1 DEF WritingIs
  <2>6. w.open \in BOOLEAN /\ w.armed \in BOOLEAN /\ (w.armed => w.open) /\ Alive(w.session)
    BY <1>1, <2>3, <2>4, <2>5 DEF WritingIs
  <2> QED BY <2>2, <2>3, <2>6, PreviewAsked
<1>4. CASE ChooseSession
  <2>1. PICK s \in Hosts \union {Unset} : RefreshPreview([writing EXCEPT !.session = s])
    BY <1>4 DEF ChooseSession
  <2>2. PICK w : w = [writing EXCEPT !.session = s]
    OBVIOUS
  <2>3. /\ DOMAIN w = DOMAIN writing /\ w.generation = writing.generation
        /\ w.session = s /\ w.result = writing.result /\ w.progress = writing.progress
    BY <1>1, <2>2 DEF WritingIs
  <2>4. w.armed = writing.armed
    BY <1>1, <2>2 DEF WritingIs
  <2>5. w.open = writing.open
    BY <1>1, <2>2 DEF WritingIs
  <2>6. w.open \in BOOLEAN /\ w.armed \in BOOLEAN /\ (w.armed => w.open) /\ Alive(w.session)
    BY <1>1, <2>3, <2>4, <2>5 DEF WritingIs, Alive
  <2>7. UNCHANGED hosts
    BY <1>4 DEF ChooseSession
  <2> QED BY <2>1, <2>2, <2>3, <2>6, <2>7, PreviewAsked
<1>5. CASE Leave
  <2>1. writing' = [writing EXCEPT !.open = ~writing.open, !.armed = ~writing.open]
        /\ UNCHANGED <<hosts, previews>>
    BY <1>5 DEF Leave
  <2>3. /\ DOMAIN writing' = DOMAIN writing /\ writing'.generation = writing.generation
        /\ writing'.session = writing.session /\ writing'.preview = writing.preview
        /\ writing'.result = writing.result /\ writing'.progress = writing.progress
    BY <1>1, <2>1 DEF WritingIs
  <2>4. writing'.armed = ~writing.open
    BY <1>1, <2>1 DEF WritingIs
  <2>5. writing'.open = ~writing.open
    BY <1>1, <2>1 DEF WritingIs
  <2>6. writing'.rebound = writing.rebound
    BY <1>1, <2>1 DEF WritingIs
  <2>7. WritingIs' /\ Untouched /\ SameText /\ SameAlphabet /\ BadgeIsItsOwn'
    BY <1>1, <2>1, <2>3, <2>4, <2>5, <2>6, AlphabetStands
       DEF WritingIs, Alive, Untouched, SameText, SameAlphabet, BadgeIsItsOwn
  <2> QED BY <1>1, <2>1, <2>7, PreviewsStand
<1>6. CASE Rebind
  <2>1. PICK s, alphabet :
          /\ s \in Hosts
          /\ hosts' = [hosts EXCEPT ![s] = alphabet]
          /\ writing' = [writing EXCEPT !.rebound = writing.rebound \/ s = writing.session]
    BY <1>6 DEF Rebind
  <2>2. UNCHANGED previews
    BY <1>6 DEF Rebind
  <2>3. /\ DOMAIN writing' = DOMAIN writing /\ writing'.generation = writing.generation
        /\ writing'.session = writing.session /\ writing'.preview = writing.preview
        /\ writing'.result = writing.result /\ writing'.progress = writing.progress
        /\ writing'.text = writing.text /\ writing'.choice = writing.choice
    BY <1>1, <2>1 DEF WritingIs
  <2>4. writing'.armed = writing.armed
    BY <1>1, <2>1 DEF WritingIs
  <2>5. writing'.open = writing.open
    BY <1>1, <2>1 DEF WritingIs
  <2>6. writing'.rebound = (writing.rebound \/ s = writing.session)
    BY <1>1, <2>1 DEF WritingIs
  <2>7. SameAlphabet
    <3>1. CASE s = writing.session
      BY <2>6, <3>1 DEF SameAlphabet
    <3>2. CASE s # writing.session
      <4>1. Alive(writing.session) /\ DOMAIN hosts = Hosts
        BY <1>1 DEF WritingIs
      <4>2. writing.session \in Hosts => hosts'[writing.session] = hosts[writing.session]
        BY <2>1, <3>2, <4>1
      <4>3. AlphabetOf(writing.session)' = AlphabetOf(writing.session)
        BY <2>3, <4>1, <4>2 DEF AlphabetOf, Alive
      <4> QED BY <4>3 DEF SameAlphabet
    <3> QED BY <3>1, <3>2
  <2>8. WritingIs' /\ Untouched /\ SameText /\ BadgeIsItsOwn' /\ DOMAIN hosts' = Hosts
    BY <1>1, <2>1, <2>3, <2>4, <2>5, <2>6
       DEF WritingIs, Alive, Untouched, SameText, BadgeIsItsOwn
  <2> QED BY <2>2, <2>7, <2>8, PreviewsStand
<1>7. CASE ComputePreview
  <2>1. UNCHANGED <<hosts, writing>>
    BY <1>7 DEF ComputePreview
  <2>2. PICK p, answer :
          /\ p \in previews
          /\ p.step = "asked"
          /\ previews' = (previews \ {p}) \union {[p EXCEPT !.step = "answered", !.answer = answer]}
          /\ answer # Unset => answer = [text |-> p.text, choice |-> p.choice, session |-> p.session,
                                         alphabet |-> AlphabetOf(p.session)]
    BY <1>7 DEF ComputePreview
  <2>3. PICK q : q = [p EXCEPT !.step = "answered", !.answer = answer]
    OBVIOUS
  <2>4. PreviewIs(p)
    BY <2>2 DEF SendInv
  <2>5. /\ DOMAIN q = DOMAIN p /\ q.n = p.n /\ q.text = p.text /\ q.choice = p.choice
        /\ q.session = p.session /\ q.step = "answered" /\ q.answer = answer
    BY <2>3, <2>4 DEF PreviewIs
  <2>6. answer # Unset => /\ answer.text = p.text /\ answer.choice = p.choice
                          /\ answer.session = p.session /\ answer.alphabet = AlphabetOf(p.session)
    BY <2>2
  <2>7. PreviewIs(q)'
    BY <2>1, <2>4, <2>5, <2>6 DEF PreviewIs, IsLatest, AlphabetOf
  <2>8. \A o \in previews : PreviewIs(o)'
    BY <2>1 DEF SendInv, PreviewIs, IsLatest, AlphabetOf
  <2>9. OneEach'
    <3> SUFFICES ASSUME NEW a \in previews', NEW b \in previews', a.n = b.n PROVE a = b
      BY DEF OneEach
    <3>1. \A o \in previews : o.n = p.n => o = p
      BY <2>2 DEF SendInv, OneEach
    <3>2. previews' = (previews \ {p}) \union {q} /\ q.n = p.n
      BY <2>2, <2>3, <2>5
    <3>3. CASE a = q
      BY <3>1, <3>2, <3>3
    <3>4. CASE b = q
      BY <3>1, <3>2, <3>4
    <3>5. CASE a # q /\ b # q
      <4>1. a \in previews /\ b \in previews
        BY <3>2, <3>5
      <4> QED BY <4>1 DEF SendInv, OneEach
    <3> QED BY <3>3, <3>4, <3>5
  <2>10. CounterIs'
    <3>1. (\A o \in previews' : ~IsLatest(o)') => \A o \in previews : ~IsLatest(o)
      BY <2>1, <2>2, <2>3, <2>5 DEF IsLatest
    <3> QED BY <2>1, <3>1 DEF SendInv, CounterIs, IsLatest, AlphabetOf
  <2>11. \A o \in previews' : PreviewIs(o)'
    BY <2>2, <2>3, <2>7, <2>8
  <2>12. WritingIs' /\ BadgeIsItsOwn' /\ DOMAIN hosts' = Hosts
    BY <1>1, <2>1 DEF WritingIs, BadgeIsItsOwn
  <2> QED BY <2>9, <2>10, <2>11, <2>12 DEF SendInv
<1>8. CASE AdoptPreview
  <2>1. UNCHANGED hosts
    BY <1>8 DEF AdoptPreview
  <2>2. PICK p \in previews :
          /\ p.step = "answered" /\ previews' = previews \ {p}
          /\ writing' = IF IsLatest(p) THEN [writing EXCEPT !.preview = p.answer] ELSE writing
    BY <1>8 DEF AdoptPreview
  <2>3. /\ DOMAIN writing' = DOMAIN writing /\ writing'.generation = writing.generation
        /\ writing'.session = writing.session /\ writing'.text = writing.text
        /\ writing'.choice = writing.choice
        /\ writing'.result = writing.result /\ writing'.progress = writing.progress
    BY <1>1, <2>2 DEF WritingIs
  <2>4. writing'.open = writing.open
    BY <1>1, <2>2 DEF WritingIs
  <2>5. writing'.armed = writing.armed
    BY <1>1, <2>2 DEF WritingIs
  <2>6. writing'.rebound = writing.rebound
    BY <1>1, <2>2 DEF WritingIs
  <2>7. WritingIs' /\ BadgeIsItsOwn'
    BY <1>1, <2>3, <2>4, <2>5, <2>6 DEF WritingIs, Alive, BadgeIsItsOwn
  <2>8. \A o \in previews : PreviewIs(o)' /\ (IsLatest(o)' <=> IsLatest(o))
    BY <2>1, <2>3, <2>4, <2>5, <2>6 DEF SendInv, PreviewIs, IsLatest, AlphabetOf
  <2>9. OneEach'
    BY <2>2 DEF SendInv, OneEach
  <2>10. CounterIs'
    <3>1. CASE IsLatest(p)
      <4>1. writing'.preview = p.answer
        BY <1>1, <2>2, <3>1 DEF WritingIs
      <4>2. PreviewIs(p)
        BY DEF SendInv
      <4> QED BY <2>1, <2>2, <2>3, <2>4, <2>5, <2>6, <3>1, <4>1, <4>2
              DEF CounterIs, PreviewIs, AlphabetOf
    <3>2. CASE ~IsLatest(p)
      <4>1. writing' = writing
        BY <2>2, <3>2
      <4>2. (\A o \in previews' : ~IsLatest(o)') => \A o \in previews : ~IsLatest(o)
        BY <2>2, <2>8, <3>2
      <4> QED BY <2>1, <4>1, <4>2 DEF SendInv, CounterIs, IsLatest, AlphabetOf
    <3> QED BY <3>1, <3>2
  <2>11. \A o \in previews' : PreviewIs(o)'
    BY <2>2, <2>8
  <2> QED BY <1>1, <2>1, <2>7, <2>9, <2>10, <2>11 DEF SendInv
<1>9. ASSUME UNCHANGED <<hosts, previews>>, BadgeIsItsOwn',
             \/ UNCHANGED writing
             \/ \E sending, result, progress :
                  writing' = [writing EXCEPT !.sending = sending, !.result = result,
                                             !.progress = progress]
      PROVE  SendInv'
  <2>1. /\ DOMAIN writing' = DOMAIN writing /\ writing'.generation = writing.generation
        /\ writing'.session = writing.session /\ writing'.preview = writing.preview
        /\ writing'.text = writing.text /\ writing'.choice = writing.choice
    BY <1>1, <1>9 DEF WritingIs
  <2>2. writing'.open = writing.open
    BY <1>1, <1>9 DEF WritingIs
  <2>3. writing'.armed = writing.armed
    BY <1>1, <1>9 DEF WritingIs
  <2>4. writing'.rebound = writing.rebound
    BY <1>1, <1>9 DEF WritingIs
  <2>5. WritingIs' /\ Untouched /\ SameText /\ SameAlphabet
    BY <1>1, <1>9, <2>1, <2>2, <2>3, <2>4, AlphabetStands
       DEF WritingIs, Alive, Untouched, SameText, SameAlphabet
  <2> QED BY <1>1, <1>9, <2>5, PreviewsStand
<1>10. CASE Send
  <2>1. writing' = [writing EXCEPT !.sending = TRUE, !.result = Unset, !.progress = Unset]
        /\ UNCHANGED <<hosts, previews>>
    BY <1>10 DEF Send
  <2>2. writing'.result = Unset
    BY <1>1, <2>1 DEF WritingIs
  <2>3. BadgeIsItsOwn'
    BY <2>2 DEF BadgeIsItsOwn
  <2> QED BY <1>9, <2>1, <2>3
<1>11. CASE Posts
  <2>1. UNCHANGED <<hosts, writing, previews>>
    BY <1>11 DEF Posts
  <2> QED BY <1>1, <1>9, <2>1 DEF BadgeIsItsOwn
<1>12. CASE SendAnswers
  <2>1. PICK i \in DOMAIN outbox :
          writing' = IF outbox[i].call = "refused" THEN [writing EXCEPT !.sending = FALSE]
                     ELSE [writing EXCEPT !.sending = FALSE, !.result = i,
                                          !.progress = [of |-> i, state |-> outbox[i].call]]
    BY <1>12 DEF SendAnswers
  <2>2. UNCHANGED <<hosts, previews>>
    BY <1>12 DEF SendAnswers
  <2>3. CASE outbox[i].call = "refused"
    <3>1. writing' = [writing EXCEPT !.sending = FALSE]
      BY <2>1, <2>3
    <3>2. writing' = [writing EXCEPT !.sending = FALSE, !.result = writing.result,
                                     !.progress = writing.progress]
      BY <1>1, <3>1 DEF WritingIs
    <3>3. writing'.result = writing.result /\ writing'.progress = writing.progress
      BY <1>1, <3>1 DEF WritingIs
    <3> QED BY <1>1, <1>9, <2>2, <3>2, <3>3 DEF BadgeIsItsOwn
  <2>4. CASE outbox[i].call # "refused"
    <3>1. writing' = [writing EXCEPT !.sending = FALSE, !.result = i,
                                     !.progress = [of |-> i, state |-> outbox[i].call]]
      BY <2>1, <2>4
    <3>2. writing'.result = i /\ writing'.progress = [of |-> i, state |-> outbox[i].call]
      BY <1>1, <3>1 DEF WritingIs
    <3>3. BadgeIsItsOwn'
      BY <3>2 DEF BadgeIsItsOwn
    <3> QED BY <1>9, <2>2, <3>1, <3>3
  <2> QED BY <2>3, <2>4
<1>13. CASE Hear
  <2>1. /\ UNCHANGED <<hosts, previews>>
        /\ writing' = IF writing.open /\ writing.result \in {Unset, Head(news).of}
                      THEN [writing EXCEPT !.progress = Head(news)] ELSE writing
    BY <1>13 DEF Hear
  <2>2. CASE writing.open /\ writing.result \in {Unset, Head(news).of}
    <3>1. writing' = [writing EXCEPT !.progress = Head(news)]
      BY <2>1, <2>2
    <3>2. writing' = [writing EXCEPT !.sending = writing.sending, !.result = writing.result,
                                     !.progress = Head(news)]
      BY <1>1, <3>1 DEF WritingIs
    <3>3. writing'.result = writing.result /\ writing'.progress = Head(news)
      BY <1>1, <3>1 DEF WritingIs
    <3>4. BadgeIsItsOwn'
      <4>1. writing'.result = Unset \/ writing'.result = writing'.progress.of
        BY <2>2, <3>3
      <4> QED BY <4>1 DEF BadgeIsItsOwn
    <3>5. PICK sending, result, progress :
            writing' = [writing EXCEPT !.sending = sending, !.result = result,
                                       !.progress = progress]
      BY <3>2
    <3>6. UNCHANGED <<hosts, previews>>
      BY <2>1
    <3> QED BY <1>9, <3>4, <3>5, <3>6
  <2>3. CASE ~(writing.open /\ writing.result \in {Unset, Head(news).of})
    <3>1. UNCHANGED writing
      BY <2>1, <2>3
    <3> QED BY <1>1, <1>9, <2>1, <3>1 DEF BadgeIsItsOwn
  <2> QED BY <2>2, <2>3
<1>14. CASE UNCHANGED sendVars
  BY <1>1, <1>9, <1>14 DEF sendVars, BadgeIsItsOwn
<1> QED BY <1>2, <1>3, <1>4, <1>5, <1>6, <1>7, <1>8, <1>10, <1>11, <1>12, <1>13, <1>14 DEF SendNext

\* Its counter is that of its text, and its badge that of its message.
LEMMA SendSafe == SendInv => CounterIsOfTheText /\ BadgeIsItsOwn
BY DEF SendInv, CounterIs, CounterIsOfTheText

-----------------------------------------------------------------------------
(* The addresses of a message.                                              *)

\* The digits of what was typed, by their places.
Sevens(s) == {i \in DOMAIN s : s[i] = "7"}

AllSevens(n) == [k \in 1 .. n |-> "7"]

\* The digits of what was typed, by their places, are picked in order.
LEMMA SevensAre ==
  ASSUME NEW s \in Seq(Keys)
  PROVE  /\ IsFiniteSet(Sevens(s)) /\ Sevens(s) \in SUBSET Nat
         /\ Cardinality(Sevens(s)) \in Nat
         /\ Picked(s, Sevens(s)) = AllSevens(Cardinality(Sevens(s)))
<1>1. DOMAIN s = 1 .. Len(s) /\ Len(s) \in Nat /\ IsFiniteSet(1 .. Len(s))
  BY FS_Interval
<1>2. PICK S : S = Sevens(s)
  OBVIOUS
<1>3. /\ S \in SUBSET (1 .. Len(s)) /\ S \in SUBSET Nat /\ \A i \in S : s[i] = "7"
  BY <1>1, <1>2 DEF Sevens
<1>4. IsFiniteSet(S)
  BY <1>1, <1>3, FS_Subset
<1>5. PICK first : first = ById(S)
  OBVIOUS
<1>6. /\ Cardinality(S) \in Nat /\ first \in Seq(S) /\ DOMAIN first = 1 .. Cardinality(S)
      /\ Len(first) = Cardinality(S)
  BY <1>3, <1>4, <1>5, ByIdIsTheSet
<1>7. \A k \in 1 .. Cardinality(S) : s[first[k]] = "7"
  <2> SUFFICES ASSUME NEW k \in 1 .. Cardinality(S) PROVE s[first[k]] = "7"
    OBVIOUS
  <2>1. first[k] \in S
    BY <1>6
  <2> QED BY <1>3, <2>1
<1>8. Picked(s, S) = [k \in 1 .. Cardinality(S) |-> s[first[k]]]
  BY <1>5, <1>6 DEF Picked
<1>9. Picked(s, S) = AllSevens(Cardinality(S))
  BY <1>7, <1>8 DEF AllSevens
<1> QED BY <1>2, <1>3, <1>4, <1>6, <1>9

\* A part of what was typed that holds all its digits.
PieceOf(s, raw, a) ==
  /\ s \in Seq(Keys) /\ raw \in Seq(Keys) /\ a \in Nat /\ a + Len(s) <= Len(raw)
  /\ \A i \in 1 .. Len(s) : s[i] = raw[a + i]
  /\ \A i \in 1 .. Len(raw) : raw[i] = "7" => i > a /\ i <= a + Len(s)

\* A piece that leaves no digit out has as many of them.
LEMMA PieceCounts ==
  ASSUME NEW s, NEW raw, NEW a, PieceOf(s, raw, a)
  PROVE  Cardinality(Sevens(s)) = Cardinality(Sevens(raw))
<1>1. /\ s \in Seq(Keys) /\ raw \in Seq(Keys) /\ a \in Nat
      /\ DOMAIN s = 1 .. Len(s) /\ DOMAIN raw = 1 .. Len(raw)
      /\ Len(s) \in Nat /\ Len(raw) \in Nat /\ a + Len(s) <= Len(raw)
      /\ \A i \in 1 .. Len(s) : s[i] = raw[a + i]
      /\ \A i \in 1 .. Len(raw) : raw[i] = "7" => i > a /\ i <= a + Len(s)
  BY DEF PieceOf
<1>2. PICK S, T : S = Sevens(s) /\ T = Sevens(raw)
  OBVIOUS
<1>3. /\ S \in SUBSET (1 .. Len(s)) /\ T \in SUBSET (1 .. Len(raw))
      /\ \A i \in 1 .. Len(s) : i \in S <=> a + i \in T
      /\ \A j \in T : j - a \in S
  BY <1>1, <1>2 DEF Sevens
<1>4. PICK f : f = [i \in S |-> a + i]
  OBVIOUS
<1>5. f \in [S -> T] /\ \A i \in S : f[i] = a + i
  BY <1>3, <1>4
<1>6. \A i, j \in S : f[i] = f[j] => i = j
  BY <1>1, <1>3, <1>5
<1>7. \A j \in T : \E i \in S : f[i] = j
  <2> SUFFICES ASSUME NEW j \in T PROVE \E i \in S : f[i] = j
    OBVIOUS
  <2>1. j - a \in S /\ a + (j - a) = j
    BY <1>1, <1>3
  <2> QED BY <1>5, <2>1
<1>8. f \in Bijection(S, T)
  BY <1>5, <1>6, <1>7 DEF Bijection, Injection, Surjection, IsInjective
<1>9. IsFiniteSet(S)
  BY <1>1, <1>2, SevensAre
<1> QED BY <1>2, <1>8, <1>9, FS_Bijection DEF ExistsBijection

\* A piece of a piece is a piece.
LEMMA PieceOfPiece ==
  ASSUME NEW s, NEW t, NEW raw, NEW a, NEW b, PieceOf(s, t, a), PieceOf(t, raw, b)
  PROVE  PieceOf(s, raw, a + b)
<1>1. /\ s \in Seq(Keys) /\ raw \in Seq(Keys) /\ t \in Seq(Keys) /\ a \in Nat /\ b \in Nat
      /\ Len(s) \in Nat /\ Len(raw) \in Nat /\ Len(t) \in Nat
      /\ a + Len(s) <= Len(t) /\ b + Len(t) <= Len(raw)
  BY DEF PieceOf
<1>2. ASSUME NEW i \in 1 .. Len(s) PROVE s[i] = raw[(a + b) + i]
  <2>1. a + i \in 1 .. Len(t) /\ b + (a + i) = (a + b) + i
    BY <1>1
  <2>2. s[i] = t[a + i] /\ t[a + i] = raw[b + (a + i)]
    BY <2>1 DEF PieceOf
  <2> QED BY <2>1, <2>2
<1>3. ASSUME NEW i \in 1 .. Len(raw), raw[i] = "7" PROVE i > a + b /\ i <= (a + b) + Len(s)
  <2>1. i > b /\ i <= b + Len(t)
    BY <1>3 DEF PieceOf
  <2>2. i - b \in 1 .. Len(t) /\ b + (i - b) = i
    BY <1>1, <2>1
  <2>3. t[i - b] = "7"
    BY <1>3, <2>2 DEF PieceOf
  <2>4. i - b > a /\ i - b <= a + Len(s)
    BY <2>2, <2>3 DEF PieceOf
  <2> QED BY <1>1, <2>4
<1> QED BY <1>1, <1>2, <1>3 DEF PieceOf

\* A set of naturals that is finite and not empty has its minimum.
LEMMA MinOf ==
  ASSUME NEW S \in SUBSET Nat, IsFiniteSet(S), S # {}
  PROVE  Min(S) \in S /\ \A i \in S : Min(S) <= i
<1>1. Cardinality(S) \in Nat /\ Cardinality(S) # 0
  BY FS_CardinalityType, FS_EmptySet
<1>2. 0 \in 0 .. Cardinality(S) - 1
  BY <1>1
<1>3. PICK m \in S : Cardinality(Before(S, m)) = 0
  BY <1>2, RanksAreDistinct
<1>4. Before(S, m) = {}
  <2>1. IsFiniteSet(Before(S, m))
    BY FS_Subset DEF Before
  <2> QED BY <1>3, <2>1, FS_EmptySet
<1>5. \A i \in S : m <= i
  BY <1>4 DEF Before
<1> QED BY <1>5 DEF Min

\* Trimming separators leaves a piece with every digit.
LEMMA TrimIs ==
  ASSUME NEW raw \in Seq(Keys), NEW keys, "7" \notin keys
  PROVE  \E a : PieceOf(TrimOf(raw, keys), raw, a)
<1>1. PICK kept : kept = {i \in DOMAIN raw : raw[i] \notin keys}
  OBVIOUS
<1>2. /\ DOMAIN raw = 1 .. Len(raw) /\ Len(raw) \in Nat /\ IsFiniteSet(1 .. Len(raw))
      /\ \A i \in 1 .. Len(raw) : raw[i] \in Keys
  BY FS_Interval
<1>3. /\ kept \in SUBSET (1 .. Len(raw)) /\ kept \in SUBSET Nat
      /\ \A i \in 1 .. Len(raw) : raw[i] = "7" => i \in kept
  BY <1>1, <1>2
<1>4. CASE kept = {}
  <2>1. TrimOf(raw, keys) = <<>>
    BY <1>1, <1>4 DEF TrimOf
  <2>2. PieceOf(<<>>, raw, 0)
    BY <1>2, <1>3, <1>4 DEF PieceOf
  <2> QED BY <2>1, <2>2
<1>5. CASE kept # {}
  <2>1. IsFiniteSet(kept)
    BY <1>2, <1>3, FS_Subset
  <2>2. PICK m, n : m = Min(kept) /\ n = Max(kept)
    OBVIOUS
  <2>3. /\ m \in kept /\ n \in kept /\ \A i \in kept : m <= i /\ i <= n
    BY <1>3, <1>5, <2>1, <2>2, MinOf, MaxOf
  <2>4. /\ m \in 1 .. Len(raw) /\ n \in 1 .. Len(raw) /\ m <= n /\ m \in Int /\ n \in Int
        /\ \A i \in m .. n : i \in 1 .. Len(raw) /\ raw[i] \in Keys
    BY <1>2, <1>3, <2>3
  <2>5. PICK s : s = SubSeq(raw, m, n)
    OBVIOUS
  <2>6. TrimOf(raw, keys) = s
    BY <1>1, <1>5, <2>2, <2>5 DEF TrimOf
  <2>7. /\ s \in Seq(Keys) /\ Len(s) = n - m + 1
        /\ \A i \in 1 .. n - m + 1 : s[i] = raw[m + i - 1]
    BY <2>4, <2>5, SubSeqProperties
  <2>8. PICK a : a = m - 1
    OBVIOUS
  <2>9. a \in Nat /\ a + Len(s) <= Len(raw) /\ a + Len(s) = n
    BY <1>2, <2>4, <2>7, <2>8
  <2>10. \A i \in 1 .. Len(s) : s[i] = raw[a + i]
    <3> SUFFICES ASSUME NEW i \in 1 .. Len(s) PROVE s[i] = raw[a + i]
      OBVIOUS
    <3>1. a + i = m + i - 1
      BY <2>4, <2>8
    <3> QED BY <2>7, <3>1
  <2>11. \A i \in 1 .. Len(raw) : raw[i] = "7" => i > a /\ i <= a + Len(s)
    BY <1>3, <2>3, <2>4, <2>8, <2>9
  <2>12. PieceOf(s, raw, a)
    BY <2>7, <2>9, <2>10, <2>11 DEF PieceOf
  <2> QED BY <2>6, <2>12
<1> QED BY <1>4, <1>5

\* So does taking the leading plus away.
LEMMA NoPlusIs ==
  ASSUME NEW raw \in Seq(Keys)
  PROVE  \E a : PieceOf(NoPlus(raw), raw, a)
<1>1. CASE raw # <<>> /\ raw[1] = "+"
  <2>1. PICK s : s = Tail(raw)
    OBVIOUS
  <2>2. /\ s \in Seq(Keys) /\ Len(s) = Len(raw) - 1 /\ Len(raw) \in Nat
        /\ \A i \in 1 .. Len(s) : s[i] = raw[i + 1]
    BY <1>1, <2>1, HeadTailProperties
  <2>3. Len(raw) > 0
    BY <1>1, EmptySeq
  <2>4. \A i \in 1 .. Len(s) : s[i] = raw[1 + i]
    <3> SUFFICES ASSUME NEW i \in 1 .. Len(s) PROVE s[i] = raw[1 + i]
      OBVIOUS
    <3>1. i + 1 = 1 + i
      OBVIOUS
    <3> QED BY <2>2, <3>1
  <2>5. \A i \in 1 .. Len(raw) : raw[i] = "7" => i > 1 /\ i <= 1 + Len(s)
    BY <1>1, <2>2
  <2>6. PieceOf(s, raw, 1)
    BY <2>2, <2>3, <2>4, <2>5 DEF PieceOf
  <2> QED BY <1>1, <2>1, <2>6 DEF NoPlus
<1>2. CASE ~(raw # <<>> /\ raw[1] = "+")
  <2>1. PieceOf(raw, raw, 0)
    BY DEF PieceOf
  <2> QED BY <1>2, <2>1 DEF NoPlus
<1> QED BY <1>1, <1>2

\* A number is its digits, and there are enough of them.
LEMMA NumberIs ==
  ASSUME NEW raw \in Seq(Keys)
  PROVE  LET n == Cardinality(Sevens(raw))
         IN  /\ n \in Nat
             /\ NumberOf(raw) # Unset => NumberOf(raw) = AllSevens(n) /\ n \in MinDigits .. MaxDigits
             /\ (\A i \in DOMAIN raw : raw[i] = "7") /\ n \in MinDigits .. MaxDigits =>
                  NumberOf(raw) = AllSevens(n)
<1>1. PICK n : n = Cardinality(Sevens(raw))
  OBVIOUS
<1>2. PICK trimmed, t : trimmed = TrimOf(raw, Separators) /\ t = NoPlus(trimmed)
  OBVIOUS
<1>3. PICK b : PieceOf(trimmed, raw, b)
  <2>1. "7" \notin Separators
    BY DEF Separators
  <2> QED BY <1>2, <2>1, TrimIs
<1>4. trimmed \in Seq(Keys)
  BY <1>3 DEF PieceOf
<1>5. PICK a : PieceOf(t, trimmed, a)
  BY <1>2, <1>4, NoPlusIs
<1>6. PICK c : PieceOf(t, raw, c)
  BY <1>3, <1>5, PieceOfPiece
<1>7. /\ t \in Seq(Keys) /\ DOMAIN t = 1 .. Len(t) /\ Len(t) \in Nat
      /\ \A i \in 1 .. Len(t) : t[i] \in Keys
  BY <1>6 DEF PieceOf
<1>8. n \in Nat /\ Cardinality(Sevens(t)) = n
  BY <1>1, <1>6, SevensAre, PieceCounts
<1>9. PICK P, digits : /\ P = {i \in DOMAIN t : t[i] \notin Separators \union {"."}}
                       /\ digits = Picked(t, P)
  OBVIOUS
<1>10. NumberOf(raw) = IF Range(digits) \subseteq {"7"} /\ Len(digits) \in MinDigits .. MaxDigits
                       THEN digits ELSE Unset
  BY <1>2, <1>9 DEF NumberOf, LessKeys
<1>11. P \in SUBSET (1 .. Len(t)) /\ P \in SUBSET Nat /\ IsFiniteSet(P)
  <2>1. P \in SUBSET (1 .. Len(t)) /\ P \in SUBSET Nat
    BY <1>7, <1>9
  <2>2. IsFiniteSet(1 .. Len(t))
    BY <1>7, FS_Interval
  <2> QED BY <2>1, <2>2, FS_Subset
<1>12. PICK first : first = ById(P)
  OBVIOUS
<1>13. /\ DOMAIN first = 1 .. Cardinality(P) /\ ToSet(first) = P /\ Cardinality(P) \in Nat
       /\ digits = [k \in 1 .. Cardinality(P) |-> t[first[k]]]
  BY <1>9, <1>11, <1>12, ByIdIsTheSet DEF Picked
<1>14. ASSUME P = Sevens(t) PROVE digits = AllSevens(n) /\ Len(digits) = n
  <2>1. digits = AllSevens(n)
    BY <1>7, <1>8, <1>9, <1>14, SevensAre
  <2> QED BY <1>8, <2>1 DEF AllSevens
<1>15. ASSUME Range(digits) \subseteq {"7"} PROVE P = Sevens(t)
  <2>1. \A i \in P : t[i] = "7"
    <3> SUFFICES ASSUME NEW i \in P PROVE t[i] = "7"
      OBVIOUS
    <3>1. PICK k \in 1 .. Cardinality(P) : first[k] = i
      BY <1>13 DEF ToSet
    <3>2. digits[k] = t[i] /\ k \in DOMAIN digits
      BY <1>13, <3>1
    <3> QED BY <1>15, <3>2 DEF Range
  <2>2. \A i \in DOMAIN t : t[i] = "7" => i \in P
    BY <1>9 DEF Separators
  <2> QED BY <1>9, <2>1, <2>2 DEF Sevens
<1>16. NumberOf(raw) # Unset => NumberOf(raw) = AllSevens(n) /\ n \in MinDigits .. MaxDigits
  BY <1>10, <1>14, <1>15
<1>17. ASSUME \A i \in DOMAIN raw : raw[i] = "7", n \in MinDigits .. MaxDigits
       PROVE  NumberOf(raw) = AllSevens(n)
  <2>1. \A i \in 1 .. Len(t) : t[i] = "7"
    <3> SUFFICES ASSUME NEW i \in 1 .. Len(t) PROVE t[i] = "7"
      OBVIOUS
    <3>1. c + i \in 1 .. Len(raw) /\ t[i] = raw[c + i] /\ raw \in Seq(Keys)
      BY <1>6, <1>7 DEF PieceOf
    <3> QED BY <1>17, <3>1
  <2>2. P = Sevens(t)
    BY <1>7, <1>9, <2>1 DEF Sevens, Separators
  <2>3. digits = AllSevens(n) /\ Len(digits) = n
    BY <1>14, <2>2
  <2>4. Range(digits) \subseteq {"7"}
    BY <2>3 DEF Range, AllSevens
  <2> QED BY <1>10, <1>17, <2>3, <2>4
<1> QED BY <1>1, <1>8, <1>16, <1>17

-----------------------------------------------------------------------------
(* The form of a message.                                                   *)

FieldsInv ==
  /\ DOMAIN fields = DOMAIN NewFields
  /\ fields.destination \in Seq(Keys) /\ fields.source \in Seq(Keys)
  /\ fields.destTon \in DOMAIN Ton /\ fields.destNpi \in DOMAIN Npi
  /\ fields.sourceTon \in {Unset} \union DOMAIN Ton
  /\ fields.sourceNpi \in {Unset} \union DOMAIN Npi
  /\ fields.tlv \in {Unset} \union Tlvs
  /\ fields.segment \in {"whole", "header", "sar", "payload"}

\* A number of n digits is something that can be typed.
LEMMA DigitsAreKeys ==
  ASSUME NEW n \in Nat
  PROVE  AllSevens(n) \in Seq(Keys) /\ Len(AllSevens(n)) = n /\ DOMAIN AllSevens(n) = 1 .. n
         /\ \A i \in 1 .. n : AllSevens(n)[i] = "7"
<1>1. "7" \in Keys
  BY DEF Keys
<1> QED BY <1>1 DEF AllSevens

\* The form of a message as it opens.
LEMMA BlankFieldsAre ==
  /\ NewFields.destination = AllSevens(MinDigits) /\ NewFields.source = <<>>
  /\ NewFields.destTon = "international" /\ NewFields.destNpi = "isdn"
  /\ NewFields.sourceTon = Unset /\ NewFields.sourceNpi = Unset
  /\ NewFields.tlv = Unset /\ NewFields.segment = "whole"
  /\ NewFields.serviceType = 0 /\ NewFields.scheduleDeliveryTime = 0
  /\ NewFields.validityPeriod = 0 /\ NewFields.priorityFlag = 0
  /\ DOMAIN NewFields = {"destination", "destTon", "destNpi", "source", "sourceTon", "sourceNpi",
                         "serviceType", "scheduleDeliveryTime", "validityPeriod", "protocolId",
                         "priorityFlag", "smDefaultMsgId", "registeredDelivery",
                         "replaceIfPresent", "tlv", "segment"}
BY DEF NewFields, AllSevens

\* It satisfies the invariant of the fields.
LEMMA FieldsStart == fields = NewFields => FieldsInv
<1> SUFFICES ASSUME fields = NewFields PROVE FieldsInv
  OBVIOUS
<1>1. AllSevens(MinDigits) \in Seq(Keys)
  BY ComposeAssumption, DigitsAreKeys
<1> QED BY <1>1, BlankFieldsAre DEF FieldsInv, Ton, Npi

\* What each field of the form offers is of its type.
LEMMA OfferedAre ==
  /\ Offered("destTon") \subseteq DOMAIN Ton /\ Offered("destNpi") \subseteq DOMAIN Npi
  /\ Offered("sourceTon") \subseteq DOMAIN Ton /\ Offered("sourceNpi") \subseteq DOMAIN Npi
  /\ Offered("tlv") = Tlvs /\ Offered("segment") = {"header", "sar", "payload"}
  /\ Offered("destination") = {} /\ Offered("source") = {}
<1>1. DOMAIN AddressTypes = {"destTon", "destNpi", "sourceTon", "sourceNpi"}
  BY DEF AddressTypes
<1>2. /\ Offered("destTon") = AddressTypes["destTon"] /\ Offered("destNpi") = AddressTypes["destNpi"]
      /\ Offered("sourceTon") = AddressTypes["sourceTon"]
      /\ Offered("sourceNpi") = AddressTypes["sourceNpi"]
  BY <1>1 DEF Offered
<1>3. /\ AddressTypes["destTon"] = {"national", "alphanumeric"} /\ AddressTypes["destNpi"] = {"private"}
      /\ AddressTypes["sourceTon"] = {"national"} /\ AddressTypes["sourceNpi"] = {"private"}
  BY DEF AddressTypes
<1>4. {"national", "alphanumeric"} \subseteq DOMAIN Ton /\ "private" \in DOMAIN Npi
  BY DEF Ton, Npi
<1>5. Offered("tlv") = Tlvs
  BY <1>1 DEF Offered
<1>6. Offered("segment") = {"header", "sar", "payload"}
  BY <1>1 DEF Offered
<1>7. Offered("destination") = {} /\ Offered("source") = {}
  BY <1>1 DEF Offered
<1> QED BY <1>2, <1>3, <1>4, <1>5, <1>6, <1>7

\* Filling a field keeps the invariant.
LEMMA FieldsStep == FieldsInv /\ [Fill]_composeVars => FieldsInv'
<1> SUFFICES ASSUME FieldsInv, [Fill]_composeVars PROVE FieldsInv'
  OBVIOUS
<1>1. ASSUME NEW raw \in Seq(Keys), fields' = [fields EXCEPT !.source = raw] PROVE FieldsInv'
  <2>1. /\ DOMAIN fields' = DOMAIN fields /\ fields'.source = raw
        /\ \A field \in DOMAIN fields : field # "source" => fields'[field] = fields[field]
    BY <1>1, BlankFieldsAre DEF FieldsInv
  <2> QED BY <2>1, BlankFieldsAre DEF FieldsInv
<1>2. ASSUME NEW raw \in Seq(Keys), fields' = [fields EXCEPT !.destination = raw] PROVE FieldsInv'
  <2>1. /\ DOMAIN fields' = DOMAIN fields /\ fields'.destination = raw
        /\ \A field \in DOMAIN fields : field # "destination" => fields'[field] = fields[field]
    BY <1>2, BlankFieldsAre DEF FieldsInv
  <2> QED BY <2>1, BlankFieldsAre DEF FieldsInv
<1>3. ASSUME NEW field \in DOMAIN fields, NEW value \in Offered(field),
             fields' = [fields EXCEPT ![field] = value]
      PROVE  FieldsInv'
  <2>1. /\ DOMAIN fields' = DOMAIN fields
        /\ \A other \in DOMAIN fields : fields'[other] = IF other = field THEN value ELSE fields[other]
    BY <1>3
  <2>2. DOMAIN fields = DOMAIN NewFields
    BY DEF FieldsInv
  <2>3. fields'["destination"] = fields["destination"] /\ fields'["source"] = fields["source"]
    BY <2>1, <2>2, OfferedAre, BlankFieldsAre
  <2>4. fields'["destTon"] \in DOMAIN Ton
    BY <2>1, <2>2, OfferedAre, BlankFieldsAre DEF FieldsInv
  <2>5. fields'["destNpi"] \in DOMAIN Npi
    BY <2>1, <2>2, OfferedAre, BlankFieldsAre DEF FieldsInv
  <2>6. fields'["sourceTon"] \in {Unset} \union DOMAIN Ton
    BY <2>1, <2>2, OfferedAre, BlankFieldsAre DEF FieldsInv
  <2>7. fields'["sourceNpi"] \in {Unset} \union DOMAIN Npi
    BY <2>1, <2>2, OfferedAre, BlankFieldsAre DEF FieldsInv
  <2>8. fields'["tlv"] \in {Unset} \union Tlvs
    BY <2>1, <2>2, OfferedAre, BlankFieldsAre DEF FieldsInv
  <2>9. fields'["segment"] \in {"whole", "header", "sar", "payload"}
    BY <2>1, <2>2, OfferedAre, BlankFieldsAre DEF FieldsInv
  <2> QED BY <2>1, <2>2, <2>3, <2>4, <2>5, <2>6, <2>7, <2>8, <2>9 DEF FieldsInv
<1>4. /\ fields.source \in Seq(Keys) /\ fields.destination \in Seq(Keys) /\ <<>> \in Seq(Keys)
      /\ \A key \in Keys : /\ Append(fields.source, key) \in Seq(Keys)
                           /\ Append(fields.destination, key) \in Seq(Keys)
                           /\ <<key>> \o fields.destination \in Seq(Keys)
  BY DEF FieldsInv
<1>5. CASE Fill
  <2>1. \/ \E key \in Keys : fields' = [fields EXCEPT !.source = Append(fields.source, key)]
        \/ \E key \in Keys : fields' = [fields EXCEPT !.destination = Append(fields.destination, key)]
        \/ \E key \in Keys : fields' = [fields EXCEPT !.destination = <<key>> \o fields.destination]
        \/ fields' = [fields EXCEPT !.destination = <<>>]
        \/ \E field \in DOMAIN fields : \E value \in Offered(field) :
             fields' = [fields EXCEPT ![field] = value]
    BY <1>5 DEF Fill
  <2>2. ASSUME NEW key \in Keys, fields' = [fields EXCEPT !.source = Append(fields.source, key)]
        PROVE  FieldsInv'
    BY <1>1, <1>4, <2>2
  <2>3. ASSUME NEW key \in Keys,
               fields' = [fields EXCEPT !.destination = Append(fields.destination, key)]
        PROVE  FieldsInv'
    BY <1>2, <1>4, <2>3
  <2>4. ASSUME NEW key \in Keys,
               fields' = [fields EXCEPT !.destination = <<key>> \o fields.destination]
        PROVE  FieldsInv'
    BY <1>2, <1>4, <2>4
  <2>5. CASE fields' = [fields EXCEPT !.destination = <<>>]
    BY <1>2, <1>4, <2>5
  <2> QED BY <1>3, <2>1, <2>2, <2>3, <2>4, <2>5
<1>6. CASE UNCHANGED composeVars
  BY <1>6 DEF composeVars, FieldsInv
<1> QED BY <1>5, <1>6

\* A recipient that is not refused, and a sender.
LEMMA DestinationIs ==
  ASSUME NEW f, f.destination \in Seq(Keys)
  PROVE  LET n == Cardinality(Sevens(f.destination))
         IN  /\ DestinationOf(f) # Unset =>
                  /\ n \in MinDigits .. MaxDigits /\ n \in Nat
                  /\ DestinationOf(f).value = AllSevens(n)
             /\ f.destTon \in DOMAIN Ton /\ f.destNpi \in DOMAIN Npi =>
                  (DestinationOf(f) = Unset <=> NumberOf(f.destination) = Unset)
<1>1. PICK raw, n : raw = f.destination /\ n = Cardinality(Sevens(raw))
  OBVIOUS
<1>2. /\ n \in Nat
      /\ NumberOf(raw) # Unset => NumberOf(raw) = AllSevens(n) /\ n \in MinDigits .. MaxDigits
  BY <1>1, NumberIs
<1>3. DestinationOf(f) = IF NumberOf(raw) = Unset THEN Unset
                         ELSE Address(NumberOf(raw), f.destTon, f.destNpi)
  BY <1>1 DEF DestinationOf
<1>4. DestinationOf(f) # Unset => /\ n \in MinDigits .. MaxDigits
                                  /\ DestinationOf(f).value = AllSevens(n)
  BY <1>2, <1>3 DEF Address
<1>5. f.destTon \in DOMAIN Ton /\ f.destNpi \in DOMAIN Npi /\ NumberOf(raw) # Unset =>
        Address(NumberOf(raw), f.destTon, f.destNpi) # Unset
  <2> SUFFICES ASSUME f.destTon \in DOMAIN Ton, f.destNpi \in DOMAIN Npi, NumberOf(raw) # Unset
               PROVE  Address(NumberOf(raw), f.destTon, f.destNpi) # Unset
    OBVIOUS
  <2>1. AllSevens(n) \in Seq(Keys)
    BY <1>2, DigitsAreKeys
  <2>2. Ton[f.destTon] \in Nat /\ Npi[f.destNpi] \in Nat
    BY DEF Ton, Npi
  <2>3. Address(NumberOf(raw), f.destTon, f.destNpi) \in [value : Seq(Keys), ton : Nat, npi : Nat]
    BY <1>2, <2>1, <2>2 DEF Address
  <2> QED BY <2>3, ComposeAssumption
<1> QED BY <1>1, <1>2, <1>3, <1>4, <1>5

\* What the operator typed for the recipient.
LEMMA TypedDigitsAre ==
  ASSUME NEW raw \in Seq(Keys)
  PROVE  LessKeys(raw, Keys \ {"7"}) = AllSevens(Cardinality(Sevens(raw)))
<1>1. \A i \in DOMAIN raw : raw[i] \in Keys
  OBVIOUS
<1>2. {i \in DOMAIN raw : raw[i] \notin Keys \ {"7"}} = Sevens(raw)
  BY <1>1 DEF Sevens, Keys
<1>3. LessKeys(raw, Keys \ {"7"}) = Picked(raw, Sevens(raw))
  BY <1>2 DEF LessKeys
<1> QED BY <1>3, SevensAre

\* What is left of an address without its plus could have been typed.
LEMMA NoPlusIsTyped ==
  ASSUME NEW s \in Seq(Keys)
  PROVE  NoPlus(s) \in Seq(Keys)
<1>1. \E a : PieceOf(NoPlus(s), s, a)
  BY NoPlusIs
<1> QED BY <1>1 DEF PieceOf

\* A sender that is not refused is a number, or a name that is announced as such.
LEMMA SenderIs ==
  ASSUME NEW s \in Seq(Keys), s # <<>>, SenderOf(s) # Unset
  PROVE  /\ IsNumeric(s) => /\ NoPlus(s) # <<>>
                            /\ SenderOf(s).ton = Ton.international
                            /\ SenderOf(s).npi = Npi.isdn
         /\ ~IsNumeric(s) => /\ SenderOf(s).ton = Ton.alphanumeric
                             /\ SenderOf(s).npi = Npi.unknown
         /\ SenderOf(s).value \in Seq(Keys) /\ SenderOf(s).value # <<>>
         /\ Len(SenderOf(s).value) <= MaxDigits
         /\ SenderOf(s) = [value |-> SenderOf(s).value, ton |-> SenderOf(s).ton,
                           npi |-> SenderOf(s).npi]
         /\ SenderOf(s).ton \in Nat /\ SenderOf(s).npi \in Nat
<1>1. PICK n : n = Cardinality(Sevens(s))
  OBVIOUS
<1>2. /\ n \in Nat
      /\ NumberOf(s) # Unset => NumberOf(s) = AllSevens(n) /\ n \in MinDigits .. MaxDigits
  BY <1>1, NumberIs
<1>3. CASE IsNumeric(s)
  <2>1. NumberOf(s) # Unset
        /\ SenderOf(s) = [value |-> NumberOf(s), ton |-> Ton["international"], npi |-> Npi["isdn"]]
    BY <1>3 DEF SenderOf, Address
  <2>2. NumberOf(s) = AllSevens(n) /\ n \in MinDigits .. MaxDigits /\ n # 0 /\ n <= MaxDigits
    BY <1>2, <2>1, ComposeAssumption
  <2>3. AllSevens(n) \in Seq(Keys) /\ Len(AllSevens(n)) = n /\ AllSevens(n) # <<>>
    BY <1>2, <2>2, DigitsAreKeys, EmptySeq
  <2>4. Ton["international"] \in Nat /\ Npi["isdn"] \in Nat
    BY DEF Ton, Npi
  <2>5. ASSUME NoPlus(s) = <<>> PROVE FALSE
    <3>1. PICK a : PieceOf(NoPlus(s), s, a)
      BY NoPlusIs
    <3>2. Cardinality(Sevens(s)) = Cardinality(Sevens(NoPlus(s)))
      BY <3>1, PieceCounts
    <3>3. Sevens(NoPlus(s)) = {}
      BY <2>5 DEF Sevens
    <3> QED BY <1>1, <2>2, <3>2, <3>3, FS_EmptySet
  <2> QED BY <1>3, <2>1, <2>2, <2>3, <2>4, <2>5
<1>4. CASE ~IsNumeric(s)
  <2>1. Len(s) <= MaxSender
        /\ SenderOf(s) = [value |-> s, ton |-> Ton["alphanumeric"], npi |-> Npi["unknown"]]
    BY <1>4 DEF SenderOf, Address
  <2>2. Ton["alphanumeric"] \in Nat /\ Npi["unknown"] \in Nat
    BY DEF Ton, Npi
  <2>3. Len(s) \in Nat /\ Len(s) <= MaxDigits
    BY <2>1, ComposeAssumption
  <2> QED BY <1>4, <2>1, <2>2, <2>3
<1> QED BY <1>3, <1>4

\* What is announced of a sender that is not refused, as the operator chose.
LEMMA AnnouncedIs ==
  ASSUME FieldsInv, NEW s \in Seq(Keys), s # <<>>, SenderOf(s) # Unset
  PROVE  LET source == Announced(SenderOf(s), fields)
         IN  /\ source # Unset
             /\ source.value = SenderOf(s).value
             /\ source.ton = IF fields.sourceTon = Unset THEN SenderOf(s).ton ELSE Ton[fields.sourceTon]
             /\ source.npi = IF fields.sourceNpi = Unset THEN SenderOf(s).npi ELSE Npi[fields.sourceNpi]
<1>1. PICK sender : sender = SenderOf(s)
  OBVIOUS
<1>2. /\ sender.value \in Seq(Keys) /\ sender.ton \in Nat /\ sender.npi \in Nat
      /\ sender = [value |-> sender.value, ton |-> sender.ton, npi |-> sender.npi]
  BY <1>1, SenderIs
<1>3. PICK ton, npi : /\ ton = IF fields.sourceTon = Unset THEN sender.ton ELSE Ton[fields.sourceTon]
                      /\ npi = IF fields.sourceNpi = Unset THEN sender.npi ELSE Npi[fields.sourceNpi]
  OBVIOUS
<1>4. Announced(sender, fields) = [value |-> sender.value, ton |-> ton, npi |-> npi]
  BY <1>2, <1>3 DEF Announced
<1>5. ton \in Nat
  <2>1. fields.sourceTon # Unset => Ton[fields.sourceTon] \in Nat
    BY DEF FieldsInv, Ton
  <2> QED BY <1>2, <1>3, <2>1
<1>6. npi \in Nat
  <2>1. fields.sourceNpi # Unset => Npi[fields.sourceNpi] \in Nat
    BY DEF FieldsInv, Npi
  <2> QED BY <1>2, <1>3, <2>1
<1>7. [value |-> sender.value, ton |-> ton, npi |-> npi] \in [value : Seq(Keys), ton : Nat, npi : Nat]
  BY <1>2, <1>5, <1>6
<1>8. Announced(sender, fields) # Unset
  BY <1>4, <1>7, ComposeAssumption
<1> QED BY <1>1, <1>3, <1>4, <1>8

\* The sender on the wire is the one the form showed.
LEMMA ShownSenders == FieldsInv => SendersAreAsShown
<1> SUFFICES ASSUME FieldsInv, Refusal(fields) = "none" PROVE SendersAreAsShown
  BY DEF SendersAreAsShown
<1>1. DestinationOf(fields) # Unset /\ SourceOf(fields) # Unset
  BY DEF Refusal
<1>2. PICK pdu : pdu = SubmitOf(fields)
  OBVIOUS
<1>3. pdu.destination = DestinationOf(fields) /\ pdu.source = SourceOf(fields)
  BY <1>2 DEF SubmitOf
<1>4. pdu.destination.value = LessKeys(fields.destination, Keys \ {"7"})
  <2>1. fields.destination \in Seq(Keys)
    BY DEF FieldsInv
  <2> QED BY <1>1, <1>3, <2>1, DestinationIs, TypedDigitsAre
<1>5. PICK typed : typed = TrimOf(fields.source, {" "})
  OBVIOUS
<1>6. typed \in Seq(Keys)
  <2>1. fields.source \in Seq(Keys)
    BY DEF FieldsInv
  <2>2. \E a : PieceOf(typed, fields.source, a)
    BY <1>5, <2>1, TrimIs
  <2> QED BY <2>2 DEF PieceOf
<1>7. typed = <<>> => pdu.source = Address(<<>>, "unknown", "unknown")
  BY <1>3, <1>5 DEF SourceOf
<1>8. ASSUME typed # <<>>
      PROVE  /\ pdu.source.value # <<>> /\ Len(pdu.source.value) <= MaxDigits
             /\ fields.sourceTon # Unset => pdu.source.ton = Ton[fields.sourceTon]
             /\ fields.sourceNpi # Unset => pdu.source.npi = Npi[fields.sourceNpi]
             /\ fields.sourceTon = Unset => (pdu.source.ton = Ton.alphanumeric) = Warned(fields)
             /\ fields.sourceNpi = Unset => (pdu.source.npi = Npi.unknown) = Warned(fields)
  <2>1. SenderOf(typed) # Unset /\ pdu.source = Announced(SenderOf(typed), fields)
    BY <1>1, <1>3, <1>5, <1>8 DEF SourceOf
  <2>2. /\ pdu.source.value = SenderOf(typed).value
        /\ pdu.source.ton = IF fields.sourceTon = Unset THEN SenderOf(typed).ton
                            ELSE Ton[fields.sourceTon]
        /\ pdu.source.npi = IF fields.sourceNpi = Unset THEN SenderOf(typed).npi
                            ELSE Npi[fields.sourceNpi]
    BY <1>6, <1>8, <2>1, AnnouncedIs
  <2>3. Warned(fields) <=> NoPlus(typed) = <<>> \/ ~IsNumeric(typed)
    BY <1>5, <1>8 DEF Warned
  <2>4. /\ IsNumeric(typed) => ~Warned(fields) /\ SenderOf(typed).ton = 1 /\ SenderOf(typed).npi = 1
        /\ ~IsNumeric(typed) => Warned(fields) /\ SenderOf(typed).ton = 5 /\ SenderOf(typed).npi = 0
    BY <1>6, <1>8, <2>1, <2>3, SenderIs DEF Ton, Npi
  <2>5. Warned(fields) \in BOOLEAN
    BY DEF Warned
  <2>6. fields.sourceTon = Unset => (pdu.source.ton = Ton.alphanumeric) = Warned(fields)
    BY <2>2, <2>4, <2>5 DEF Ton
  <2>7. fields.sourceNpi = Unset => (pdu.source.npi = Npi.unknown) = Warned(fields)
    BY <2>2, <2>4, <2>5 DEF Npi
  <2> QED BY <1>6, <1>8, <2>1, <2>2, <2>6, <2>7, SenderIs
<1> QED BY <1>2, <1>4, <1>5, <1>7, <1>8 DEF SendersAreAsShown

-----------------------------------------------------------------------------
(* What goes with a message.                                                *)

\* Half of a number, and the length of a list given by its places.
LEMMA HalfIs == ASSUME NEW n \in Nat PROVE n \div 2 \in Nat
OBVIOUS

\* A function on the first n naturals is a sequence of length n.
LEMMA LengthIs ==
  ASSUME NEW n \in Nat, NEW T, NEW f \in [1 .. n -> T]
  PROVE  Len(f) = n
<1>1. f \in Seq(T)
  OBVIOUS
<1>2. DOMAIN f = 1 .. Len(f) /\ DOMAIN f = 1 .. n /\ Len(f) \in Nat
  BY <1>1
<1> QED BY <1>2

\* A value that is not refused takes two digits an octet.
LEMMA OctetsAre ==
  ASSUME NEW hex, OctetsOf(hex) # Unset
  PROVE  LET bare == LessKeys(hex, {" "})
         IN  Len(bare) \in Nat => 2 * Len(OctetsOf(hex)) = Len(bare)
<1> SUFFICES ASSUME Len(LessKeys(hex, {" "})) \in Nat
             PROVE  2 * Len(OctetsOf(hex)) = Len(LessKeys(hex, {" "}))
  OBVIOUS
<1>1. PICK bare, count : bare = LessKeys(hex, {" "}) /\ count = Len(bare) \div 2
  OBVIOUS
<1>2. PICK Pair : Pair = [i \in 1 .. count |-> SubSeq(bare, 2 * i - 1, 2 * i)]
  OBVIOUS
<1>3. /\ Len(bare) = 2 * count
      /\ OctetsOf(hex) = [i \in 1 .. count |->
                            IF SubSeq(bare, 2 * i - 1, 2 * i) = <<"F", "F">> THEN 255 ELSE 15]
  BY <1>1 DEF OctetsOf
<1>4. count \in Nat
  <2>1. PICK n : n = Len(bare)
    OBVIOUS
  <2>2. n \in Nat
    BY <1>1, <2>1
  <2>4. n \div 2 \in Nat
    BY <2>2, HalfIs
  <2>3. count = n \div 2
    BY <1>1, <2>1
  <2> QED BY <2>3, <2>4
<1>5. Len(OctetsOf(hex)) = count
  <2>1. PICK octet : octet = [i \in 1 .. count |->
                               IF SubSeq(bare, 2 * i - 1, 2 * i) = <<"F", "F">> THEN 255 ELSE 15]
    OBVIOUS
  <2>3. PICK T : T = {15, 255}
    OBVIOUS
  <2>4. octet \in [1 .. count -> T]
    BY <2>1, <2>3
  <2>2. Len(octet) = count
    BY <1>4, <2>4, LengthIs
  <2> QED BY <1>3, <2>1, <2>2
<1> QED BY <1>1, <1>3, <1>5

\* Hexadecimal without its blanks still has a length.
LEMMA BareLength ==
  ASSUME NEW hex, NEW keys, DOMAIN hex = 1 .. Len(hex), Len(hex) \in Nat
  PROVE  Len(LessKeys(hex, keys)) \in Nat
<1>1. PICK P : P = {i \in DOMAIN hex : hex[i] \notin keys}
  OBVIOUS
<1>2. P \in SUBSET (1 .. Len(hex)) /\ P \in SUBSET Nat
  BY <1>1
<1>3. IsFiniteSet(P)
  <2>1. IsFiniteSet(1 .. Len(hex))
    BY FS_Interval
  <2> QED BY <1>2, <2>1, FS_Subset
<1>4. DOMAIN ById(P) = 1 .. Cardinality(P) /\ Cardinality(P) \in Nat
  BY <1>2, <1>3, ByIdIsTheSet
<1>5. LessKeys(hex, keys) = [k \in DOMAIN ById(P) |-> hex[ById(P)[k]]]
  BY <1>1 DEF LessKeys, Picked
<1> QED BY <1>4, <1>5

\* What the segmenter refuses is refused, and what it cuts is sent as cut.
LEMMA LastWord == FieldsInv => SegmenterHasTheLastWord
<1> SUFFICES ASSUME FieldsInv, Refusal(fields) = "none" PROVE SegmenterHasTheLastWord
  BY DEF SegmenterHasTheLastWord
<1>1. PICK pdu, tlvs : pdu = SubmitOf(fields) /\ tlvs = pdu.tlvs
  OBVIOUS
<1>2. pdu.shortMessage = (fields.segment # "payload") /\ tlvs = TlvsOf(fields)
  BY <1>1 DEF SubmitOf
<1>3. ASSUME fields.tlv # Unset
      PROVE  /\ fields.tlv.tag \in {"vendor", "sar", "payload"}
             /\ fields.tlv.hex \in Hexes
             /\ OctetsOf(fields.tlv.hex) # Unset
  <2>1. PICK parameter : parameter = fields.tlv
    OBVIOUS
  <2>2. parameter \in Tlvs
    BY <1>3, <2>1 DEF FieldsInv
  <2>4. parameter.tag \in {"vendor", "sar", "payload"} /\ parameter.hex \in Hexes
    BY <2>2 DEF Tlvs
  <2>5. OctetsOf(fields.tlv.hex) # Unset
    BY <1>3 DEF Refusal
  <2> QED BY <2>1, <2>4, <2>5
<1>4. fields.segment \in {"whole", "header", "sar", "payload"}
  BY DEF FieldsInv
<1>5. PICK mine, theirs :
        /\ mine = IF fields.tlv = Unset THEN <<>>
                  ELSE <<Owned(fields.tlv.tag, OctetsOf(fields.tlv.hex))>>
        /\ theirs = CASE fields.segment = "sar" -> <<Owned("sar", "reference")>>
                      [] fields.segment = "payload" -> <<Owned("payload", "body")>>
                      [] OTHER -> <<>>
  OBVIOUS
<1>6. tlvs = mine \o theirs
  BY <1>2, <1>5 DEF TlvsOf
<1>7. /\ fields.tlv = Unset => mine = <<>>
      /\ fields.tlv # Unset => mine = <<Owned(fields.tlv.tag, OctetsOf(fields.tlv.hex))>>
      /\ fields.segment = "sar" => theirs = <<Owned("sar", "reference")>>
      /\ fields.segment = "payload" => theirs = <<Owned("payload", "body")>>
      /\ fields.segment \in {"whole", "header"} => theirs = <<>>
  BY <1>5
<1>8. /\ Len(mine) = (IF fields.tlv = Unset THEN 0 ELSE 1)
      /\ Len(theirs) = (IF fields.segment \in {"sar", "payload"} THEN 1 ELSE 0)
  BY <1>4, <1>7
<1>9. /\ DOMAIN tlvs = 1 .. Len(mine) + Len(theirs)
      /\ \A i \in DOMAIN tlvs : tlvs[i] = IF i <= Len(mine) THEN mine[i] ELSE theirs[i - Len(mine)]
  <2>1. PICK S : S = {mine[1], theirs[1]}
    OBVIOUS
  <2>2. ASSUME NEW T, NEW t \in T PROVE <<>> \in Seq(T) /\ <<t>> \in Seq(T)
    OBVIOUS
  <2>3. mine = <<>> \/ mine = <<mine[1]>>
    BY <1>7
  <2>5. theirs = <<>> \/ theirs = <<theirs[1]>>
    BY <1>4, <1>7
  <2>6. PICK x, y : x = mine[1] /\ y = theirs[1]
    OBVIOUS
  <2>7. x \in S /\ y \in S
    BY <2>1, <2>6
  <2>8. <<>> \in Seq(S) /\ <<x>> \in Seq(S) /\ <<y>> \in Seq(S)
    BY <2>2, <2>7
  <2>4. mine \in Seq(S) /\ theirs \in Seq(S)
    BY <2>3, <2>5, <2>6, <2>8
  <2> QED BY <1>6, <2>4, ConcatProperties
<1>10. fields.tlv # Unset =>
         /\ 1 \in DOMAIN tlvs /\ tlvs[1].tag = fields.tlv.tag
         /\ tlvs[1].value = OctetsOf(fields.tlv.hex)
  BY <1>7, <1>8, <1>9 DEF Owned
<1>11. ASSUME NEW tag, NEW value, theirs = <<Owned(tag, value)>>,
              fields.segment \in {"sar", "payload"}
       PROVE  tlvs[Max({i \in DOMAIN tlvs : tlvs[i].tag = tag})].value = value
  <2>1. PICK m : m = Len(mine) + 1
    OBVIOUS
  <2>2. m \in {1, 2} /\ DOMAIN tlvs = 1 .. m
    BY <1>8, <1>9, <1>11, <2>1
  <2>3. tlvs[m].tag = tag /\ tlvs[m].value = value
    BY <1>8, <1>9, <1>11, <2>1, <2>2 DEF Owned
  <2>4. PICK S : S = {i \in DOMAIN tlvs : tlvs[i].tag = tag}
    OBVIOUS
  <2>5. m \in S /\ \A i \in S : i <= m
    BY <2>2, <2>3, <2>4
  <2>6. S \in SUBSET (1 .. m) /\ S \in SUBSET Nat
    BY <2>2, <2>4
  <2>7. IsFiniteSet(S)
    <3>1. IsFiniteSet(1 .. m)
      BY <2>2, FS_Interval
    <3> QED BY <2>6, <3>1, FS_Subset
  <2>8. PICK x : x = Max(S)
    OBVIOUS
  <2>10. x \in S /\ \A i \in S : i <= x
    BY <2>5, <2>6, <2>7, <2>8, MaxOf
  <2>11. m \in Nat /\ x \in Nat /\ x <= m /\ m <= x
    BY <2>2, <2>5, <2>6, <2>10
  <2>9. Max(S) = m
    BY <2>8, <2>11
  <2> QED BY <2>3, <2>4, <2>9
<1>12. /\ fields.segment = "payload" => \E i \in DOMAIN tlvs : tlvs[i].tag = "payload"
       /\ (\E i \in DOMAIN tlvs : tlvs[i].tag = "payload") /\ fields.segment # "payload"
            => fields.tlv.tag = "payload"
  <2>1. CASE fields.segment = "payload"
    <3>1. Len(mine) + 1 \in DOMAIN tlvs /\ tlvs[Len(mine) + 1].tag = "payload"
      BY <1>7, <1>8, <1>9, <2>1 DEF Owned
    <3> QED BY <2>1, <3>1
  <2>2. CASE fields.segment # "payload"
    <3> SUFFICES ASSUME NEW i \in DOMAIN tlvs, tlvs[i].tag = "payload"
                 PROVE  fields.tlv.tag = "payload"
      BY <2>2
    <3>1. CASE i <= Len(mine)
      <4>1. fields.tlv # Unset /\ i = 1
        BY <1>8, <1>9, <3>1
      <4> QED BY <1>10, <4>1
    <3>2. CASE ~(i <= Len(mine))
      <4>1. fields.segment = "sar" /\ i = Len(mine) + 1
        BY <1>4, <1>8, <1>9, <2>2, <3>2
      <4>2. tlvs[i] = Owned("sar", "reference")
        BY <1>7, <1>8, <1>9, <3>2, <4>1
      <4> QED BY <4>2 DEF Owned
    <3> QED BY <3>1, <3>2
  <2> QED BY <2>1, <2>2
<1>13. ASSUME fields.tlv # Unset
       PROVE  2 * Len(tlvs[1].value) = Len(LessKeys(fields.tlv.hex, {" "}))
  <2>1. PICK hex : hex = fields.tlv.hex
    OBVIOUS
  <2>2. hex \in Hexes
    BY <1>3, <1>13, <2>1
  <2>5. DOMAIN hex = 1 .. Len(hex) /\ Len(hex) \in Nat
    <3>1. CASE hex = <<"F", " ", "F">>
      <4>1. PICK x, y : x = "F" /\ y = " "
        OBVIOUS
      <4>2. DOMAIN <<x, y, x>> = 1 .. Len(<<x, y, x>>) /\ Len(<<x, y, x>>) \in Nat
        OBVIOUS
      <4> QED BY <3>1, <4>1, <4>2
    <3>2. CASE hex = <<"F">>
      BY <3>2
    <3>3. CASE hex = <<"+", "F">>
      BY <3>3
    <3> QED BY <2>2, <3>1, <3>2, <3>3 DEF Hexes
  <2>4. Len(LessKeys(hex, {" "})) \in Nat
    BY <2>5, BareLength
  <2> QED BY <1>3, <1>10, <1>13, <2>1, <2>4, OctetsAre
<1>14. /\ fields.segment = "sar" =>
            tlvs[Max({i \in DOMAIN tlvs : tlvs[i].tag = "sar"})].value = "reference"
       /\ fields.segment = "payload" =>
            tlvs[Max({i \in DOMAIN tlvs : tlvs[i].tag = "payload"})].value = "body"
  BY <1>7, <1>11
<1>15. /\ pdu.shortMessage \/ InPayload(pdu)
       /\ pdu.shortMessage /\ InPayload(pdu) => fields.tlv.tag = "payload"
  BY <1>1, <1>2, <1>12 DEF InPayload
<1> QED BY <1>1, <1>13, <1>14, <1>15 DEF SegmenterHasTheLastWord

\* The form of the fields that were kept, the others blank, is refused as they are.
LEMMA NamedField == FieldsInv => RefusalNamesTheField
<1> SUFFICES ASSUME FieldsInv, Refusal(fields) # "none" PROVE RefusalNamesTheField
  BY DEF RefusalNamesTheField
<1>1. PICK code, kept :
        /\ code = Refusal(fields)
        /\ kept = CASE code = "destination" -> {"destination"}
                    [] code = "source" -> {"source"}
                    [] code = "tlv" -> {"tlv"}
                    [] OTHER -> Blanks \union {"priorityFlag"}
  OBVIOUS
<1>2. PICK alone : alone = [field \in DOMAIN fields |->
                             IF field \in kept THEN fields[field] ELSE NewFields[field]]
  OBVIOUS
<1>3. /\ code \in {"destination", "source", "tlv", "field"}
      /\ code = "destination" => kept = {"destination"}
      /\ code = "source" => kept = {"source"}
      /\ code = "tlv" => kept = {"tlv"}
      /\ code = "field" => kept = {"serviceType", "scheduleDeliveryTime", "validityPeriod",
                                   "priorityFlag"}
  <2>1. code \in {"destination", "source", "tlv", "field"}
    BY <1>1 DEF Refusal
  <2> QED BY <1>1, <2>1 DEF Blanks
<1>4. DOMAIN fields = DOMAIN NewFields
  BY DEF FieldsInv
<1>5. /\ DOMAIN alone = DOMAIN NewFields
      /\ \A field \in DOMAIN NewFields :
           alone[field] = IF field \in kept THEN fields[field] ELSE NewFields[field]
  BY <1>2, <1>4
<1>6. /\ code # "destination" => alone.destination = AllSevens(MinDigits)
      /\ code # "source" => alone.source = <<>>
      /\ code # "tlv" => alone.tlv = Unset
      /\ alone.destTon = "international" /\ alone.destNpi = "isdn"
      /\ alone.sourceTon = Unset /\ alone.sourceNpi = Unset
  BY <1>3, <1>5, BlankFieldsAre
<1>7. ASSUME code # "destination" PROVE DestinationOf(alone) # Unset
  <2>1. /\ AllSevens(MinDigits) \in Seq(Keys) /\ MinDigits \in Nat
        /\ MinDigits \in MinDigits .. MaxDigits
        /\ DOMAIN AllSevens(MinDigits) = 1 .. MinDigits
        /\ \A i \in DOMAIN AllSevens(MinDigits) : AllSevens(MinDigits)[i] = "7"
    BY ComposeAssumption, DigitsAreKeys
  <2>2. Sevens(AllSevens(MinDigits)) = 1 .. MinDigits
    BY <2>1 DEF Sevens
  <2>3. Cardinality(Sevens(AllSevens(MinDigits))) = MinDigits
    BY <2>1, <2>2, FS_Interval
  <2>4. NumberOf(AllSevens(MinDigits)) = AllSevens(MinDigits)
    BY <2>1, <2>3, NumberIs
  <2>5. NumberOf(alone.destination) # Unset
    BY <1>6, <1>7, <2>1, <2>4, ComposeAssumption
  <2>6. alone.destTon \in DOMAIN Ton /\ alone.destNpi \in DOMAIN Npi
    BY <1>6 DEF Ton, Npi
  <2> QED BY <1>6, <1>7, <2>1, <2>5, <2>6, DestinationIs
<1>8. ASSUME code # "source" PROVE SourceOf(alone) # Unset
  <2>1. alone.source = <<>>
    BY <1>6, <1>8
  <2>2. TrimOf(alone.source, {" "}) = <<>>
    <3>1. {i \in DOMAIN alone.source : alone.source[i] \notin {" "}} = {}
      BY <2>1
    <3> QED BY <3>1 DEF TrimOf
  <2>3. SourceOf(alone) = Address(<<>>, "unknown", "unknown")
    BY <2>2 DEF SourceOf
  <2>4. Address(<<>>, "unknown", "unknown") \in [value : Seq(Keys), ton : Nat, npi : Nat]
    BY DEF Address, Ton, Npi
  <2> QED BY <2>3, <2>4, ComposeAssumption
<1>9. ASSUME code = "destination" PROVE Refusal(alone) = code
  <2>1. DestinationOf(fields) = Unset
    BY <1>1, <1>9 DEF Refusal
  <2>2. NumberOf(fields.destination) = Unset
    BY <2>1, DestinationIs DEF FieldsInv
  <2>3. alone.destination = fields.destination
    BY <1>3, <1>5, <1>9, BlankFieldsAre
  <2>4. DestinationOf(alone) = Unset
    BY <2>2, <2>3 DEF DestinationOf
  <2> QED BY <1>9, <2>4 DEF Refusal
<1>10. ASSUME code = "source" PROVE Refusal(alone) = code
  <2>1. SourceOf(fields) = Unset
    BY <1>1, <1>10 DEF Refusal
  <2>2. alone.source = fields.source
    BY <1>3, <1>5, <1>10, BlankFieldsAre
  <2>3. PICK typed : typed = TrimOf(fields.source, {" "})
    OBVIOUS
  <2>4. typed \in Seq(Keys)
    <3>1. fields.source \in Seq(Keys)
      BY DEF FieldsInv
    <3>2. \E a : PieceOf(typed, fields.source, a)
      BY <2>3, <3>1, TrimIs
    <3> QED BY <3>2 DEF PieceOf
  <2>5. typed # <<>>
    <3>1. Address(<<>>, "unknown", "unknown") \in [value : Seq(Keys), ton : Nat, npi : Nat]
      BY DEF Address, Ton, Npi
    <3> QED BY <2>1, <2>3, <3>1, ComposeAssumption DEF SourceOf
  <2>6. SenderOf(typed) = Unset
    <3>1. SenderOf(typed) # Unset => Announced(SenderOf(typed), fields) # Unset
      BY <2>4, <2>5, AnnouncedIs
    <3> QED BY <2>1, <2>3, <2>5, <3>1 DEF SourceOf
  <2>7. SourceOf(alone) = Unset
    BY <2>2, <2>3, <2>5, <2>6 DEF SourceOf
  <2> QED BY <1>7, <1>10, <2>7 DEF Refusal
<1>11. ASSUME code = "tlv" PROVE Refusal(alone) = code
  <2>1. fields.tlv # Unset /\ OctetsOf(fields.tlv.hex) = Unset
    BY <1>1, <1>11 DEF Refusal
  <2>2. alone.tlv = fields.tlv
    BY <1>3, <1>5, <1>11, BlankFieldsAre
  <2> QED BY <1>7, <1>8, <1>11, <2>1, <2>2 DEF Refusal
<1>12. ASSUME code = "field" PROVE Refusal(alone) = code
  <2>1. \/ fields.priorityFlag > 3 \/ fields.serviceType > 5
        \/ {fields.scheduleDeliveryTime, fields.validityPeriod} \ {0, 16} # {}
    BY <1>1, <1>12 DEF Refusal
  <2>2. /\ alone.priorityFlag = fields.priorityFlag /\ alone.serviceType = fields.serviceType
        /\ alone.scheduleDeliveryTime = fields.scheduleDeliveryTime
        /\ alone.validityPeriod = fields.validityPeriod
    BY <1>3, <1>5, <1>12, BlankFieldsAre
  <2> QED BY <1>6, <1>7, <1>8, <1>12, <2>1, <2>2 DEF Refusal
<1>13. Refusal(alone) = code
  BY <1>3, <1>9, <1>10, <1>11, <1>12
<1> QED BY <1>1, <1>2, <1>13 DEF RefusalNamesTheField

\* What is composed is what is counted, refused and sent.
LEMMA FieldsSafe ==
  FieldsInv => SendersAreAsShown /\ SegmenterHasTheLastWord /\ RefusalNamesTheField
BY ShownSenders, LastWord, NamedField

-----------------------------------------------------------------------------
(* The octets of a connection.                                              *)

Octet == [of : Nat, at : Nat]

\* Where each PDU begins in what the peer wrote, and where the next will.
StartsAt(start, wire, sent) ==
  /\ start \in [1 .. Len(sent) + 1 -> Nat]
  /\ start[1] = 0 /\ start[Len(sent) + 1] = Len(wire)
  /\ \A k \in 1 .. Len(sent) + 1 : start[k] <= Len(wire)
  /\ \A k \in 1 .. Len(sent) :
       /\ start[k + 1] = start[k] + SizeOf(sent[k])
       /\ \A at \in 1 .. SizeOf(sent[k]) : wire[start[k] + at] = [of |-> k, at |-> at]

\* A buffer holds what arrived from some place on.
HoldsFrom(src, wire, taken, arrived) ==
  /\ src \in Seq(Octet) /\ taken \in Nat /\ arrived \in Nat
  /\ Len(src) = arrived - taken /\ arrived <= Len(wire)
  /\ \A i \in 1 .. Len(src) : src[i] = wire[taken + i]

\* It begins where the next PDU does.
BeginsAt(next, src, wire, sent, arrived) ==
  \E start : /\ StartsAt(start, wire, sent)
             /\ next \in 1 .. Len(sent) + 1
             /\ HoldsFrom(src, wire, start[next], arrived)

\* A PDU on the wire has at least the octets of its length.
LEMMA SizeIs ==
  ASSUME NEW pdu \in PeerPdus
  PROVE  /\ pdu.says \in Nat /\ SizeOf(pdu) \in Nat /\ LengthField <= SizeOf(pdu)
         /\ Trusted(pdu) => SizeOf(pdu) = pdu.says
BY FramesAssumption DEF SizeOf, Trusted

\* A PDU's octets are numbered by their place in it.
LEMMA OctetsSent ==
  ASSUME NEW pdu \in PeerPdus, NEW n \in Nat
  PROVE  /\ Octets(pdu, n) \in Seq(Octet) /\ Len(Octets(pdu, n)) = SizeOf(pdu)
         /\ \A at \in 1 .. SizeOf(pdu) : Octets(pdu, n)[at] = [of |-> n, at |-> at]
<1>1. PICK size : size = SizeOf(pdu) /\ size \in Nat
  BY SizeIs
<1>2. PICK S : S = Octet
  OBVIOUS
<1>3. \A at \in 1 .. size : [of |-> n, at |-> at] \in S
  BY <1>1, <1>2 DEF Octet
<1>4. PICK f : f = Octets(pdu, n)
  OBVIOUS
<1>5. f = [at \in 1 .. size |-> [of |-> n, at |-> at]]
  BY <1>1, <1>4 DEF Octets
<1>6. f \in Seq(S)
  BY <1>1, <1>3, <1>5
<1>7. Len(f) = size
  BY <1>1, <1>5
<1> QED BY <1>1, <1>2, <1>4, <1>5, <1>6, <1>7

\* A PDU that is sent begins where what was written ended, and moves no other.
LEMMA WireGrows ==
  ASSUME NEW sent \in Seq(PeerPdus), NEW wire \in Seq(Octet), NEW start,
         StartsAt(start, wire, sent), NEW pdu \in PeerPdus
  PROVE  LET more == wire \o Octets(pdu, Len(sent) + 1)
         IN  /\ more \in Seq(Octet) /\ Len(wire) <= Len(more)
             /\ \A i \in 1 .. Len(wire) : more[i] = wire[i]
             /\ \E longer : /\ StartsAt(longer, more, Append(sent, pdu))
                            /\ \A k \in 1 .. Len(sent) + 1 : longer[k] = start[k]
<1>1. PICK n, l, size : n = Len(sent) /\ l = Len(wire) /\ size = SizeOf(pdu)
  OBVIOUS
<1>2. n \in Nat /\ l \in Nat /\ size \in Nat
  BY <1>1, SizeIs
<1>3. PICK last, more, all : /\ last = Octets(pdu, n + 1) /\ more = wire \o last
                             /\ all = Append(sent, pdu)
  OBVIOUS
<1>4. /\ last \in Seq(Octet) /\ Len(last) = size
      /\ \A at \in 1 .. size : last[at] = [of |-> n + 1, at |-> at]
  BY <1>1, <1>2, <1>3, OctetsSent
<1>5. /\ more \in Seq(Octet) /\ Len(more) = l + size
      /\ \A i \in 1 .. l : more[i] = wire[i]
      /\ \A at \in 1 .. size : more[l + at] = last[at]
  <2>1. PICK S : S = Octet
    OBVIOUS
  <2>2. wire \in Seq(S) /\ last \in Seq(S)
    BY <1>4, <2>1
  <2>6. /\ more \in Seq(S) /\ Len(more) = Len(wire) + Len(last)
        /\ \A i \in 1 .. Len(more) : more[i] = IF i <= Len(wire) THEN wire[i]
                                              ELSE last[i - Len(wire)]
    BY <1>3, <2>2, ConcatProperties
  <2>3. /\ more \in Seq(S) /\ Len(more) = l + size
        /\ \A i \in 1 .. l + size : more[i] = IF i <= l THEN wire[i] ELSE last[i - l]
    BY <1>1, <1>4, <2>6
  <2>4. \A i \in 1 .. l : more[i] = wire[i]
    BY <1>2, <2>3
  <2>5. ASSUME NEW at \in 1 .. size PROVE more[l + at] = last[at]
    <3>1. l + at \in 1 .. l + size /\ ~(l + at <= l) /\ (l + at) - l = at
      BY <1>2
    <3> QED BY <2>3, <3>1
  <2> QED BY <2>1, <2>3, <2>4, <2>5
<1>6. /\ Len(all) = n + 1 /\ all[n + 1] = pdu
      /\ \A k \in 1 .. n : all[k] = sent[k]
  BY <1>1, <1>3
<1>7. PICK longer : longer = [k \in 1 .. n + 2 |-> IF k <= n + 1 THEN start[k] ELSE l + size]
  OBVIOUS
<1>8. /\ start \in [1 .. n + 1 -> Nat] /\ start[1] = 0 /\ start[n + 1] = l
      /\ \A k \in 1 .. n + 1 : start[k] <= l
      /\ \A k \in 1 .. n : start[k + 1] = start[k] + SizeOf(sent[k])
  BY <1>1 DEF StartsAt
<1>9. /\ \A k \in 1 .. n + 1 : longer[k] = start[k]
      /\ longer[n + 2] = l + size /\ longer \in [1 .. n + 2 -> Nat]
  BY <1>2, <1>7, <1>8
<1>10. ASSUME NEW k \in 1 .. n + 1
       PROVE  /\ longer[k + 1] = longer[k] + SizeOf(all[k])
              /\ \A at \in 1 .. SizeOf(all[k]) : more[longer[k] + at] = [of |-> k, at |-> at]
  <2>1. CASE k = n + 1
    <3>1. SizeOf(all[k]) = size /\ longer[k] = l /\ longer[k + 1] = l + size
      BY <1>1, <1>2, <1>6, <1>8, <1>9, <2>1
    <3> QED BY <1>4, <1>5, <2>1, <3>1
  <2>2. CASE k \in 1 .. n
    <3>1. /\ SizeOf(all[k]) = SizeOf(sent[k]) /\ longer[k] = start[k]
          /\ longer[k + 1] = start[k + 1] /\ start[k + 1] = start[k] + SizeOf(sent[k])
      BY <1>2, <1>6, <1>8, <1>9, <2>2
    <3>2. ASSUME NEW at \in 1 .. SizeOf(sent[k])
          PROVE  more[start[k] + at] = [of |-> k, at |-> at]
      <4>1. sent[k] \in PeerPdus /\ SizeOf(sent[k]) \in Nat
        BY <1>1, <2>2, SizeIs
      <4>2. start[k] \in Nat /\ start[k + 1] <= l
        BY <1>2, <1>8, <2>2
      <4>3. start[k] + at \in 1 .. l
        BY <1>2, <3>1, <4>1, <4>2
      <4>4. wire[start[k] + at] = [of |-> k, at |-> at]
        BY <1>1, <2>2 DEF StartsAt
      <4> QED BY <1>5, <4>3, <4>4
    <3> QED BY <3>1, <3>2
  <2> QED BY <1>2, <2>1, <2>2
<1>11. \A k \in 1 .. n + 2 : longer[k] <= l + size
  BY <1>2, <1>8, <1>9
<1>12. StartsAt(longer, more, all)
  <2>1. Len(all) + 1 = n + 2 /\ longer[1] = 0
    BY <1>2, <1>6, <1>8, <1>9, SMTT(30)
  <2> QED BY <1>5, <1>6, <1>9, <1>10, <1>11, <2>1 DEF StartsAt
<1>13. Len(wire) <= Len(more)
  BY <1>1, <1>2, <1>5
<1> QED BY <1>1, <1>3, <1>5, <1>9, <1>12, <1>13

\* The length of the PDU a buffer begins with.
LEMMA HeadIs ==
  ASSUME NEW bytes, NEW sent, NEW k, Len(bytes) \in Nat, Len(bytes) >= LengthField,
         \A at \in 1 .. LengthField : bytes[at] = [of |-> k, at |-> at]
  PROVE  AnnouncedLength(bytes, sent) = sent[k].says /\ bytes[1].of = k
<1>1. 1 \in 1 .. LengthField /\ LengthField \in Nat
  BY FramesAssumption
<1>2. bytes[1].of = k
  <2>1. bytes[1] = [of |-> k, at |-> 1]
    BY <1>1
  <2> QED BY <2>1
<1>3. ~(Len(bytes) < LengthField)
  BY <1>1
<1> QED BY <1>2, <1>3 DEF AnnouncedLength

\* The buffer begins with a length that was sent, once it holds one.
LEMMA BufferBegins ==
  ASSUME NEW sent \in Seq(PeerPdus), NEW wire \in Seq(Octet), NEW src, NEW next, NEW arrived,
         BeginsAt(next, src, wire, sent, arrived)
  PROVE  /\ Len(src) \in Nat /\ next \in Nat
         /\ Len(src) < LengthField => AnnouncedLength(src, sent) = Unknown
         /\ Len(src) >= LengthField =>
              /\ next \in 1 .. Len(sent) /\ sent[next] \in PeerPdus
              /\ AnnouncedLength(src, sent) = sent[next].says /\ sent[next].says \in Nat
              /\ src[1].of = next
              /\ \A at \in 1 .. LengthField : src[at] = [of |-> next, at |-> at]
<1>1. PICK start : /\ StartsAt(start, wire, sent) /\ next \in 1 .. Len(sent) + 1
                   /\ HoldsFrom(src, wire, start[next], arrived)
  BY DEF BeginsAt
<1>2. PICK a, n : a = start[next] /\ n = Len(sent)
  OBVIOUS
<1>3. /\ src \in Seq(Octet) /\ a \in Nat /\ arrived \in Nat /\ Len(src) = arrived - a
      /\ arrived <= Len(wire) /\ Len(wire) \in Nat /\ n \in Nat /\ Len(src) \in Nat
      /\ \A i \in 1 .. Len(src) : src[i] = wire[a + i]
  <2>1. PICK S : S = Octet
    OBVIOUS
  <2>2. /\ src \in Seq(S) /\ a \in Nat /\ arrived \in Nat /\ Len(src) = arrived - a
        /\ arrived <= Len(wire) /\ \A i \in 1 .. Len(src) : src[i] = wire[a + i]
    BY <1>1, <1>2, <2>1 DEF HoldsFrom
  <2>3. wire \in Seq(S)
    BY <2>1
  <2>4. Len(wire) \in Nat /\ Len(sent) \in Nat /\ Len(src) \in Nat
    BY <2>2, <2>3
  <2> QED BY <1>2, <2>1, <2>2, <2>4
<1>4. Len(src) < LengthField => AnnouncedLength(src, sent) = Unknown
  BY DEF AnnouncedLength
<1>5. ASSUME Len(src) >= LengthField
      PROVE  /\ next \in 1 .. Len(sent) /\ sent[next] \in PeerPdus
             /\ AnnouncedLength(src, sent) = sent[next].says /\ sent[next].says \in Nat
             /\ src[1].of = next
             /\ \A at \in 1 .. LengthField : src[at] = [of |-> next, at |-> at]
  <2>1. LengthField \in Nat /\ LengthField >= 1
    BY FramesAssumption
  <2>2. next # n + 1
    <3>1. start[n + 1] = Len(wire)
      BY <1>1, <1>2 DEF StartsAt
    <3> QED BY <1>2, <1>3, <1>5, <2>1, <3>1
  <2>3. next \in 1 .. n /\ sent[next] \in PeerPdus
    BY <1>1, <1>2, <1>3, <2>2
  <2>4. LengthField <= SizeOf(sent[next]) /\ SizeOf(sent[next]) \in Nat /\ sent[next].says \in Nat
    BY <2>3, SizeIs
  <2>5. ASSUME NEW at \in 1 .. LengthField PROVE src[at] = [of |-> next, at |-> at]
    <3>1. at \in 1 .. SizeOf(sent[next]) /\ at \in 1 .. Len(src)
      BY <1>3, <1>5, <2>1, <2>4
    <3>2. wire[a + at] = [of |-> next, at |-> at]
      BY <1>1, <1>2, <2>3, <3>1 DEF StartsAt
    <3> QED BY <1>3, <3>1, <3>2
  <2>6. AnnouncedLength(src, sent) = sent[next].says /\ src[1].of = next
    BY <1>3, <1>5, <2>5, HeadIs, ZenonT(40)
  <2> QED BY <1>2, <2>3, <2>4, <2>5, <2>6
<1> QED BY <1>1, <1>2, <1>3, <1>4, <1>5

\* What is left of a buffer once its first PDU was taken begins with the next.
LEMMA FrameLeaves ==
  ASSUME NEW sent \in Seq(PeerPdus), NEW wire \in Seq(Octet), NEW src \in Seq(Octet), NEW next,
         NEW arrived, BeginsAt(next, src, wire, sent, arrived),
         NEW count, count = AnnouncedLength(src, sent), count \in PduHeader .. MaxLength,
         count <= Len(src)
  PROVE  /\ next \in 1 .. Len(sent) /\ src[1].of = next
         /\ sent[next].says = count /\ Trusted(sent[next])
         /\ DecodePdu(SubSeq(src, 1, count), sent) = sent[next].is
         /\ SubSeq(src, count + 1, Len(src)) \in Seq(Octet)
         /\ BeginsAt(next + 1, SubSeq(src, count + 1, Len(src)), wire, sent, arrived)
<1>1. /\ Len(src) \in Nat /\ count \in Nat /\ LengthField <= count /\ LengthField \in Nat
      /\ PduHeader \in Nat /\ MaxLength \in Nat /\ PduHeader <= count /\ count <= MaxLength
  BY FramesAssumption
<1>2. Len(src) >= LengthField
  BY <1>1
<1>3. /\ next \in 1 .. Len(sent) /\ next \in Nat /\ sent[next] \in PeerPdus
      /\ sent[next].says = count /\ src[1].of = next
  BY <1>2, BufferBegins
<1>4. \A at \in 1 .. LengthField : src[at] = [of |-> next, at |-> at]
  BY <1>2, BufferBegins
<1>5. Trusted(sent[next]) /\ SizeOf(sent[next]) = count
  BY <1>3, SizeIs DEF Trusted
<1>6. DecodePdu(SubSeq(src, 1, count), sent) = sent[next].is
  <2>1. PICK bytes : bytes = SubSeq(src, 1, count)
    OBVIOUS
  <2>2. Len(bytes) = count /\ \A i \in 1 .. count : bytes[i] = src[i]
    <3>1. PICK S : S = Octet
      OBVIOUS
    <3>2. src \in Seq(S) /\ 1 \in 1 .. Len(src) + 1 /\ \A i \in 1 .. count : src[i] \in S
      BY <1>1, <3>1
    <3>3. /\ bytes \in Seq(S) /\ Len(bytes) = IF 1 <= count THEN count - 1 + 1 ELSE 0
          /\ \A i \in 1 .. count - 1 + 1 : bytes[i] = src[1 + i - 1]
      BY <1>1, <2>1, <3>2, SubSeqProperties
    <3>4. \A i \in 1 .. count : 1 + i - 1 = i
      BY <1>1
    <3> QED BY <1>1, <3>3, <3>4
  <2>3. \A at \in 1 .. LengthField : bytes[at] = [of |-> next, at |-> at]
    BY <1>1, <1>4, <2>2
  <2>4. AnnouncedLength(bytes, sent) = count /\ bytes[1].of = next
    BY <1>1, <1>3, <2>2, <2>3, HeadIs
  <2>5. DecodePdu(bytes, sent) = sent[bytes[1].of].is
    BY <1>1, <2>2, <2>4 DEF DecodePdu, Unknown
  <2> QED BY <2>1, <2>4, <2>5
<1>7. PICK start : /\ StartsAt(start, wire, sent) /\ next \in 1 .. Len(sent) + 1
                   /\ HoldsFrom(src, wire, start[next], arrived)
  BY DEF BeginsAt
<1>8. PICK rest : rest = SubSeq(src, count + 1, Len(src))
  OBVIOUS
<1>9. /\ rest \in Seq(Octet) /\ Len(rest) = Len(src) - count
      /\ \A i \in 1 .. Len(rest) : rest[i] = src[count + i]
  <2>1. PICK S : S = Octet
    OBVIOUS
  <2>2. src \in Seq(S) /\ \A i \in count + 1 .. Len(src) : src[i] \in S
    BY <1>1, <2>1
  <2>3. /\ rest \in Seq(S)
        /\ Len(rest) = IF count + 1 <= Len(src) THEN Len(src) - (count + 1) + 1 ELSE 0
        /\ \A i \in 1 .. Len(src) - (count + 1) + 1 : rest[i] = src[(count + 1) + i - 1]
    BY <1>1, <1>8, <2>2, SubSeqProperties, SMTT(30)
  <2>4. Len(rest) = Len(src) - count
    BY <1>1, <2>3
  <2>5. ASSUME NEW i \in 1 .. Len(rest) PROVE rest[i] = src[count + i]
    <3>1. i \in 1 .. Len(src) - (count + 1) + 1 /\ (count + 1) + i - 1 = count + i
      BY <1>1, <2>4
    <3> QED BY <2>3, <3>1
  <2> QED BY <2>1, <2>3, <2>4, <2>5
<1>10. start[next + 1] = start[next] + count /\ start[next] \in Nat
  BY <1>3, <1>5, <1>7 DEF StartsAt
<1>11. PICK a, b, most, left :
         a = start[next] /\ b = start[next + 1] /\ most = Len(src) /\ left = Len(rest)
  OBVIOUS
<1>12. /\ a \in Nat /\ most \in Nat /\ count \in Nat /\ b = a + count /\ left = most - count
       /\ count <= most
  BY <1>1, <1>9, <1>10, <1>11
<1>13. HoldsFrom(rest, wire, b, arrived)
  <2>1. /\ arrived \in Nat /\ most = arrived - a /\ arrived <= Len(wire)
        /\ \A i \in 1 .. most : src[i] = wire[a + i]
    BY <1>7, <1>11 DEF HoldsFrom
  <2>2. b \in Nat /\ left = arrived - b
    BY <1>12, <2>1, SMTT(30)
  <2>3. ASSUME NEW i \in 1 .. left PROVE rest[i] = wire[b + i]
    <3>1. count + i \in 1 .. most /\ a + (count + i) = b + i
      BY <1>12, SMTT(30)
    <3>2. rest[i] = src[count + i]
      BY <1>9, <1>11
    <3>3. src[count + i] = wire[a + (count + i)]
      BY <2>1, <3>1
    <3> QED BY <3>1, <3>2, <3>3
  <2> QED BY <1>9, <1>11, <2>1, <2>2, <2>3 DEF HoldsFrom
<1>14. next + 1 \in 1 .. Len(sent) + 1
  BY <1>3
<1>15. BeginsAt(next + 1, rest, wire, sent, arrived)
  BY <1>7, <1>11, <1>13, <1>14 DEF BeginsAt
<1> QED BY <1>3, <1>5, <1>6, <1>8, <1>9, <1>15

\* What the socket hands over goes on from there.
LEMMA BufferGrows ==
  ASSUME NEW sent \in Seq(PeerPdus), NEW wire \in Seq(Octet), NEW src \in Seq(Octet), NEW next,
         NEW arrived \in Nat, BeginsAt(next, src, wire, sent, arrived),
         NEW count \in Nat, arrived + count <= Len(wire)
  PROVE  LET more == src \o SubSeq(wire, arrived + 1, arrived + count)
         IN  more \in Seq(Octet) /\ BeginsAt(next, more, wire, sent, arrived + count)
<1>1. PICK start : /\ StartsAt(start, wire, sent) /\ next \in 1 .. Len(sent) + 1
                   /\ HoldsFrom(src, wire, start[next], arrived)
  BY DEF BeginsAt
<1>2. PICK S, a, piece, more : /\ S = Octet /\ a = start[next]
                               /\ piece = SubSeq(wire, arrived + 1, arrived + count)
                               /\ more = src \o piece
  OBVIOUS
<1>3. /\ src \in Seq(S) /\ wire \in Seq(S) /\ Len(wire) \in Nat /\ Len(src) \in Nat
  BY <1>2
<1>4. /\ a \in Nat /\ Len(src) = arrived - a /\ arrived <= Len(wire)
      /\ \A i \in 1 .. Len(src) : src[i] = wire[a + i]
  BY <1>1, <1>2 DEF HoldsFrom
<1>5. /\ piece \in Seq(S) /\ Len(piece) = count
      /\ \A i \in 1 .. count : piece[i] = wire[arrived + i]
  <2>1. \A i \in arrived + 1 .. arrived + count : wire[i] \in S
    BY <1>3
  <2>2. /\ piece \in Seq(S)
        /\ Len(piece) = IF arrived + 1 <= arrived + count
                        THEN (arrived + count) - (arrived + 1) + 1 ELSE 0
        /\ \A i \in 1 .. (arrived + count) - (arrived + 1) + 1 :
             piece[i] = wire[(arrived + 1) + i - 1]
    BY <1>2, <1>3, <2>1, SubSeqProperties
  <2>3. Len(piece) = count
    BY <2>2
  <2>4. ASSUME NEW i \in 1 .. count PROVE piece[i] = wire[arrived + i]
    <3>1. /\ i \in 1 .. (arrived + count) - (arrived + 1) + 1
          /\ (arrived + 1) + i - 1 = arrived + i
      OBVIOUS
    <3> QED BY <2>2, <3>1
  <2> QED BY <2>2, <2>3, <2>4
<1>6. /\ more \in Seq(S) /\ Len(more) = Len(src) + Len(piece)
      /\ \A i \in 1 .. Len(more) : more[i] = IF i <= Len(src) THEN src[i] ELSE piece[i - Len(src)]
  <2>1. src \in Seq(S) /\ piece \in Seq(S)
    BY <1>3, <1>5
  <2>2. more = src \o piece
    BY <1>2
  <2> QED BY <2>1, <2>2, ConcatProperties
<1>7. Len(more) = (arrived + count) - a
  BY <1>3, <1>4, <1>5, <1>6
<1>8. ASSUME NEW i \in 1 .. Len(more) PROVE more[i] = wire[a + i]
  <2>1. CASE i <= Len(src)
    <3>1. i \in 1 .. Len(src)
      BY <1>3, <2>1
    <3> QED BY <1>4, <1>6, <2>1, <3>1
  <2>2. CASE ~(i <= Len(src))
    <3>1. i - Len(src) \in 1 .. count /\ arrived + (i - Len(src)) = a + i
      BY <1>3, <1>4, <1>7, <2>2
    <3> QED BY <1>5, <1>6, <2>2, <3>1
  <2> QED BY <2>1, <2>2
<1>9. HoldsFrom(more, wire, a, arrived + count)
  <2>1. more \in Seq(Octet)
    BY <1>2, <1>6
  <2> QED BY <1>4, <1>7, <1>8, <2>1 DEF HoldsFrom
<1>10. BeginsAt(next, more, wire, sent, arrived + count)
  BY <1>1, <1>2, <1>9 DEF BeginsAt
<1>11. more \in Seq(Octet)
  BY <1>2, <1>6
<1> QED BY <1>2, <1>10, <1>11

\* A PDU that is sent leaves a buffer where it begins.
LEMMA SendLeaves ==
  ASSUME NEW sent \in Seq(PeerPdus), NEW wire \in Seq(Octet), NEW src, NEW next, NEW arrived,
         BeginsAt(next, src, wire, sent, arrived), NEW pdu \in PeerPdus
  PROVE  LET more == wire \o Octets(pdu, Len(sent) + 1)
         IN  more \in Seq(Octet) /\ BeginsAt(next, src, more, Append(sent, pdu), arrived)
<1>1. PICK start : /\ StartsAt(start, wire, sent) /\ next \in 1 .. Len(sent) + 1
                   /\ HoldsFrom(src, wire, start[next], arrived)
  BY DEF BeginsAt
<1>2. PICK more, all : more = wire \o Octets(pdu, Len(sent) + 1) /\ all = Append(sent, pdu)
  OBVIOUS
<1>3. /\ more \in Seq(Octet) /\ Len(wire) <= Len(more)
      /\ \A i \in 1 .. Len(wire) : more[i] = wire[i]
  BY <1>1, <1>2, WireGrows
<1>4. PICK longer : /\ StartsAt(longer, more, all)
                    /\ \A k \in 1 .. Len(sent) + 1 : longer[k] = start[k]
  BY <1>1, <1>2, WireGrows
<1>5. PICK a : a = start[next] /\ longer[next] = a
  BY <1>1, <1>4
<1>6. /\ src \in Seq(Octet) /\ a \in Nat /\ arrived \in Nat
      /\ Len(src) = arrived - a /\ arrived <= Len(wire)
      /\ \A i \in 1 .. Len(src) : src[i] = wire[a + i]
  BY <1>1, <1>5 DEF HoldsFrom
<1>7. Len(wire) \in Nat /\ Len(more) \in Nat /\ Len(src) \in Nat /\ Len(sent) \in Nat
  <2>1. PICK S : S = Octet
    OBVIOUS
  <2>2. wire \in Seq(S) /\ more \in Seq(S) /\ src \in Seq(S)
    BY <1>3, <1>6, <2>1
  <2> QED BY <2>2
<1>8. \A i \in 1 .. Len(src) : src[i] = more[a + i]
  <2> SUFFICES ASSUME NEW i \in 1 .. Len(src) PROVE src[i] = more[a + i]
    OBVIOUS
  <2>1. a + i \in 1 .. Len(wire)
    BY <1>6, <1>7
  <2> QED BY <1>3, <1>6, <2>1
<1>9. HoldsFrom(src, more, a, arrived)
  <2>1. arrived <= Len(more)
    BY <1>3, <1>6, <1>7
  <2> QED BY <1>6, <1>8, <2>1 DEF HoldsFrom
<1>10. next \in 1 .. Len(all) + 1
  <2>1. Len(all) = Len(sent) + 1
    BY <1>2
  <2> QED BY <1>1, <1>7, <2>1
<1>11. HoldsFrom(src, more, longer[next], arrived)
  BY <1>5, <1>9
<1>12. BeginsAt(next, src, more, all, arrived)
  BY <1>4, <1>10, <1>11 DEF BeginsAt
<1> QED BY <1>2, <1>3, <1>12

\* A connection.
Kinds == {pdu.is : pdu \in PeerPdus}
Ends == {"none", "Eof", "Truncated", "InvalidData", "InvalidInput", "Protocol",
         "UnexpectedResponse", "BindRejected"}

Streams ==
  [mode : BindModes, phase : {"binding", "bound"}, sent : Seq(PeerPdus), wire : Seq(Octet),
   closed : BOOLEAN, arrived : Nat, src : Seq(Octet), room : Int,
   items : Seq([of : Nat, is : Kinds]), nacks : Nat, written : Seq(Nat), end : Ends]

Unparsed(items) == {k \in DOMAIN items : items[k].is = "unparsed"}

\* What was taken, and what the next octet is of.
Taken(s) ==
  /\ \A k \in 1 .. Len(s.items) :
       s.items[k] = [of |-> k, is |-> s.sent[k].is] /\ Trusted(s.sent[k])
  /\ BeginsAt(Len(s.items) + 1, s.src, s.wire, s.sent, s.arrived)

\* A bind that succeeded, and one that was not answered.
Bound(s) ==
  /\ s.phase = "binding" /\ s.end = "none" => s.items = <<>>
  /\ s.phase = "bound" =>
       /\ s.items # <<>>
       /\ s.sent[1].is = MatchingResponse(BindRequest(s.mode)) /\ s.sent[1].status = "ok"
       /\ s.end \notin {"Protocol", "UnexpectedResponse", "BindRejected"}

\* Why it ended.
EndIs(s) ==
  /\ s.end \in {"Eof", "Truncated"} => s.closed
  /\ s.end = "Eof" => Len(s.items) = Len(s.sent)
  /\ s.end = "InvalidData" => /\ Len(s.items) + 1 \in 1 .. Len(s.sent)
                              /\ ~Trusted(s.sent[Len(s.items) + 1])
  /\ s.end = "Truncated" => Len(s.items) + 1 <= Len(s.sent)

\* What it asked and answered.
Asked(s) ==
  /\ s.nacks = IF s.phase = "binding" THEN 0 ELSE Cardinality(Unparsed(s.items))
  /\ s.room <= MaxLength

FrameIs(s) == s \in Streams /\ Taken(s) /\ Bound(s) /\ EndIs(s) /\ Asked(s)
FrameInv == FrameIs(stream)

\* The fields of a connection.
LEMMA StreamIs ==
  ASSUME NEW s \in Streams
  PROVE  /\ s.phase \in {"binding", "bound"} /\ s.sent \in Seq(PeerPdus)
         /\ s.wire \in Seq(Octet) /\ s.closed \in BOOLEAN /\ s.arrived \in Nat
         /\ s.src \in Seq(Octet) /\ s.room \in Int
         /\ s.items \in Seq([of : Nat, is : Kinds]) /\ s.nacks \in Nat
         /\ s.end \in Ends /\ s.mode \in BindModes
BY DEF Streams

\* The lengths of what a connection holds.
LEMMA LengthsAre ==
  ASSUME NEW s \in Streams
  PROVE  /\ Len(s.sent) \in Nat /\ Len(s.wire) \in Nat /\ Len(s.src) \in Nat
         /\ Len(s.items) \in Nat /\ DOMAIN s.items = 1 .. Len(s.items)
         /\ DOMAIN s.sent = 1 .. Len(s.sent)
<1>1. PICK S, T : S = Octet /\ T = [of : Nat, is : Kinds]
  OBVIOUS
<1>2. PICK sent, wire, src, items :
        sent = s.sent /\ wire = s.wire /\ src = s.src /\ items = s.items
  OBVIOUS
<1>3. sent \in Seq(PeerPdus) /\ wire \in Seq(S) /\ src \in Seq(S) /\ items \in Seq(T)
  BY <1>1, <1>2, StreamIs
<1> QED BY <1>2, <1>3

\* A connection begins as the invariant says.
LEMMA FrameStart == stream \in NewStreams => FrameInv
<1> SUFFICES ASSUME stream \in NewStreams PROVE FrameInv
  OBVIOUS
<1>1. PICK s : s = stream
  OBVIOUS
<1>2. /\ s.mode \in BindModes /\ s.phase = "binding" /\ s.sent = <<>> /\ s.wire = <<>>
      /\ s.closed = FALSE /\ s.arrived = 0 /\ s.src = <<>> /\ s.room = 0 /\ s.items = <<>>
      /\ s.nacks = 0 /\ s.written = <<>> /\ s.end = "none"
  BY <1>1 DEF NewStreams
<1>3. s \in Streams
  <2>1. PICK P, O, I, W, E : /\ P = Seq(PeerPdus) /\ O = Seq(Octet) /\ W = Seq(Nat) /\ E = Ends
                             /\ I = Seq([of : Nat, is : Kinds])
    OBVIOUS
  <2>2. <<>> \in P /\ <<>> \in O /\ <<>> \in W /\ "none" \in E
    BY <2>1 DEF Ends
  <2>3. <<>> \in I
    BY <2>1
  <2>4. PICK M, B, F : M = BindModes /\ B = BOOLEAN /\ F = {FALSE}
    OBVIOUS
  <2>5. F \subseteq B
    BY <2>4
  <2>6. s \in [mode : M, phase : {"binding"}, sent : {<<>>}, wire : {<<>>}, closed : F,
               arrived : {0}, src : {<<>>}, room : {0}, items : {<<>>}, nacks : {0},
               written : {<<>>}, end : {"none"}]
    BY <1>1, <2>4 DEF NewStreams
  <2>7. s \in [mode : M, phase : {"binding", "bound"}, sent : P, wire : O,
               closed : B, arrived : Nat, src : O, room : Int, items : I, nacks : Nat,
               written : W, end : E]
    BY <2>2, <2>3, <2>5, <2>6
  <2> QED BY <2>1, <2>4, <2>7 DEF Streams
<1>4. StartsAt([k \in 1 .. 1 |-> 0], <<>>, <<>>)
  BY DEF StartsAt
<1>5. HoldsFrom(<<>>, <<>>, 0, 0)
  BY DEF HoldsFrom
<1>6. BeginsAt(1, <<>>, <<>>, <<>>, 0)
  <2>1. PICK start : start = [k \in 1 .. 1 |-> 0]
    OBVIOUS
  <2>2. StartsAt(start, <<>>, <<>>) /\ start[1] = 0 /\ 1 \in 1 .. Len(<<>>) + 1
    BY <1>4, <2>1
  <2> QED BY <1>5, <2>2 DEF BeginsAt
<1>7. Taken(s)
  BY <1>2, <1>6 DEF Taken
<1>8. Bound(s) /\ EndIs(s)
  BY <1>2 DEF Bound, EndIs
<1>9. Asked(s)
  BY <1>2, FramesAssumption DEF Asked
<1> QED BY <1>1, <1>3, <1>7, <1>8, <1>9 DEF FrameInv, FrameIs

\* The peer sending a PDU keeps the octets on the wire in step with the PDUs.
LEMMA FrameSends ==
  ASSUME NEW s, FrameIs(s), ~s.closed, NEW pdu \in PeerPdus, NEW t,
         t = [s EXCEPT !.sent = Append(s.sent, pdu),
                       !.wire = s.wire \o Octets(pdu, Len(s.sent) + 1)]
  PROVE  FrameIs(t)
<1>1. s \in Streams /\ Taken(s) /\ Bound(s) /\ EndIs(s) /\ Asked(s)
  BY DEF FrameIs
<1>2. PICK sent, wire, n : /\ sent = Append(s.sent, pdu) /\ n = Len(s.sent)
                           /\ wire = s.wire \o Octets(pdu, Len(s.sent) + 1)
  OBVIOUS
<1>3. wire \in Seq(Octet) /\ sent \in Seq(PeerPdus)
  <2>1. wire \in Seq(Octet)
    BY <1>1, <1>2, StreamIs, SendLeaves DEF Taken
  <2>2. sent \in Seq(PeerPdus)
    BY <1>1, <1>2, StreamIs
  <2> QED BY <2>1, <2>2
<1>4. /\ n \in Nat /\ Len(sent) = n + 1 /\ \A k \in 1 .. n : sent[k] = s.sent[k]
      /\ Len(s.items) \in Nat
  BY <1>1, <1>2, StreamIs, LengthsAre
<1>5. /\ t.sent = sent /\ t.wire = wire /\ t.mode = s.mode /\ t.phase = s.phase
      /\ t.closed = s.closed /\ t.arrived = s.arrived /\ t.src = s.src /\ t.room = s.room
      /\ t.items = s.items /\ t.nacks = s.nacks /\ t.written = s.written /\ t.end = s.end
  BY <1>1, <1>2 DEF Streams
<1>6. t \in Streams
  BY <1>1, <1>2, <1>3 DEF Streams
<1>7. /\ Len(s.items) + 1 \in 1 .. n + 1
      /\ BeginsAt(Len(s.items) + 1, s.src, s.wire, s.sent, s.arrived)
  BY <1>1, <1>2 DEF Taken, BeginsAt
<1>8. Taken(t)
  <2>1. BeginsAt(Len(s.items) + 1, s.src, wire, sent, s.arrived)
    BY <1>1, <1>2, <1>7, StreamIs, SendLeaves
  <2>2. \A k \in 1 .. Len(s.items) : sent[k] = s.sent[k]
    BY <1>4, <1>7
  <2>3. \A k \in 1 .. Len(s.items) :
          s.items[k] = [of |-> k, is |-> s.sent[k].is] /\ Trusted(s.sent[k])
    BY <1>1 DEF Taken
  <2> QED BY <1>5, <2>1, <2>2, <2>3, ZenonT(40) DEF Taken
<1>9. Bound(t)
  <2>1. s.items # <<>> => sent[1] = s.sent[1]
    <3>1. s.items # <<>> => Len(s.items) # 0
      BY <1>1, StreamIs, EmptySeq
    <3> QED BY <1>4, <1>7, <3>1
  <2> QED BY <1>1, <1>5, <2>1 DEF Bound
<1>10. EndIs(t)
  <2>1. s.end \notin {"Eof", "Truncated"}
    BY <1>1 DEF EndIs
  <2>2. s.end = "InvalidData" => /\ Len(s.items) + 1 \in 1 .. n
                                /\ ~Trusted(sent[Len(s.items) + 1])
    BY <1>1, <1>2, <1>4 DEF EndIs
  <2> QED BY <1>4, <1>5, <2>1, <2>2 DEF EndIs
<1>11. Asked(t)
  BY <1>1, <1>5 DEF Asked
<1> QED BY <1>6, <1>8, <1>9, <1>10, <1>11 DEF FrameIs

\* A step that leaves what was sent and taken as it was.
LEMMA FrameKeeps ==
  ASSUME NEW s, FrameIs(s), NEW t \in Streams,
         t.sent = s.sent, t.wire = s.wire, t.items = s.items, t.mode = s.mode,
         t.phase = s.phase, t.nacks = s.nacks, t.room <= MaxLength,
         BeginsAt(Len(s.items) + 1, t.src, s.wire, s.sent, t.arrived),
         EndIs(t), s.end = "none" \/ t.end = s.end,
         t.end \notin {"Protocol", "UnexpectedResponse", "BindRejected"} \/ t.end = s.end
  PROVE  FrameIs(t)
<1>1. s \in Streams /\ Taken(s) /\ Bound(s) /\ Asked(s)
  BY DEF FrameIs
<1>2. Taken(t)
  BY <1>1 DEF Taken
<1>3. Bound(t)
  BY <1>1 DEF Bound
<1>4. Asked(t)
  BY <1>1 DEF Asked
<1> QED BY <1>2, <1>3, <1>4 DEF FrameIs

\* Octets that arrive extend the buffer by what follows it on the wire.
LEMMA FrameArrives ==
  ASSUME NEW s, FrameIs(s), ~Untrusted(s), NEW count \in Nat, s.end = "none",
         s.arrived + count <= Len(s.wire), NEW t,
         t = [s EXCEPT !.src = s.src \o SubSeq(s.wire, s.arrived + 1, s.arrived + count),
                       !.arrived = s.arrived + count,
                       !.room = IF AnnouncedLength(s.src, s.sent) = Unknown THEN 0
                                ELSE AnnouncedLength(s.src, s.sent)]
  PROVE  FrameIs(t)
<1>1. s \in Streams /\ Taken(s) /\ EndIs(s)
  BY DEF FrameIs
<1>2. PICK src, arrived, needed, room :
        /\ src = s.src \o SubSeq(s.wire, s.arrived + 1, s.arrived + count)
        /\ arrived = s.arrived + count /\ needed = AnnouncedLength(s.src, s.sent)
        /\ room = IF needed = Unknown THEN 0 ELSE needed
  OBVIOUS
<1>3. arrived \in Nat
  BY <1>1, <1>2, StreamIs
<1>4. src \in Seq(Octet) /\ BeginsAt(Len(s.items) + 1, src, s.wire, s.sent, arrived)
  BY <1>1, <1>2, StreamIs, BufferGrows DEF Taken
<1>5. room \in Int /\ room <= MaxLength
  <2>1. needed \in {Unknown} \union PduHeader .. MaxLength
    BY <1>2 DEF Untrusted
  <2> QED BY <1>2, <2>1, FramesAssumption
<1>6. /\ t.src = src /\ t.arrived = arrived /\ t.room = room /\ t.sent = s.sent
      /\ t.wire = s.wire /\ t.mode = s.mode /\ t.phase = s.phase /\ t.closed = s.closed
      /\ t.items = s.items /\ t.nacks = s.nacks /\ t.end = s.end
  BY <1>1, <1>2 DEF Streams
<1>7. t \in Streams
  BY <1>1, <1>2, <1>3, <1>4, <1>5 DEF Streams
<1>8. EndIs(t)
  BY <1>1, <1>6 DEF EndIs
<1> QED BY <1>4, <1>5, <1>6, <1>7, <1>8, FrameKeeps

\* A connection that ends, or that writes, where it stands.
LEMMA FrameEnds ==
  ASSUME NEW s, FrameIs(s), s.end = "none", NEW t \in Streams,
         t.sent = s.sent, t.wire = s.wire, t.items = s.items, t.mode = s.mode,
         t.phase = s.phase, t.nacks = s.nacks, t.room = s.room, t.src = s.src,
         t.arrived = s.arrived,
         t.end \notin {"Protocol", "UnexpectedResponse", "BindRejected"}, EndIs(t)
  PROVE  FrameIs(t)
<1>1. Taken(s) /\ Asked(s)
  BY DEF FrameIs
<1>2. BeginsAt(Len(s.items) + 1, t.src, s.wire, s.sent, t.arrived)
  BY <1>1 DEF Taken
<1>3. t.room <= MaxLength
  BY <1>1 DEF Asked
<1> QED BY <1>2, <1>3, FrameKeeps

\* Only the next of the PDUs that were sent makes a length that is refused, and
\* nothing is left of the last when the end is clean.
LEMMA LengthsOf ==
  ASSUME NEW s, FrameIs(s)
  PROVE  /\ Untrusted(s) => /\ Len(s.items) + 1 \in 1 .. Len(s.sent)
                            /\ ~Trusted(s.sent[Len(s.items) + 1])
         /\ s.arrived = Len(s.wire) /\ s.src = <<>> => Len(s.items) = Len(s.sent)
         /\ s.arrived = Len(s.wire) /\ s.src # <<>> => Len(s.items) + 1 <= Len(s.sent)
<1>1. s \in Streams /\ Taken(s)
  BY DEF FrameIs
<1>2. PICK next, n : next = Len(s.items) + 1 /\ n = Len(s.sent)
  OBVIOUS
<1>3. /\ n \in Nat /\ next \in Nat /\ Len(s.items) = next - 1
      /\ Len(s.src) \in Nat /\ Len(s.wire) \in Nat
  BY <1>1, <1>2, LengthsAre
<1>4. BeginsAt(next, s.src, s.wire, s.sent, s.arrived)
  BY <1>1, <1>2 DEF Taken
<1>5. ASSUME Untrusted(s) PROVE next \in 1 .. n /\ ~Trusted(s.sent[next])
  <2>1. AnnouncedLength(s.src, s.sent) \notin {Unknown} \union PduHeader .. MaxLength
    BY <1>5 DEF Untrusted
  <2>2. Len(s.src) >= LengthField
    <3>1. Len(s.src) < LengthField => AnnouncedLength(s.src, s.sent) = Unknown
      BY <1>1, <1>4, StreamIs, BufferBegins
    <3> QED BY <1>3, <2>1, <3>1, FramesAssumption
  <2>3. next \in 1 .. n /\ AnnouncedLength(s.src, s.sent) = s.sent[next].says
    BY <1>1, <1>2, <1>4, <2>2, StreamIs, BufferBegins
  <2> QED BY <2>1, <2>3 DEF Trusted
<1>6. PICK start : /\ StartsAt(start, s.wire, s.sent) /\ next \in 1 .. n + 1
                   /\ HoldsFrom(s.src, s.wire, start[next], s.arrived)
  BY <1>2, <1>4 DEF BeginsAt
<1>7. /\ start[next] \in Nat /\ Len(s.src) = s.arrived - start[next] /\ s.arrived \in Nat
      /\ start[n + 1] = Len(s.wire)
  BY <1>2, <1>6 DEF HoldsFrom, StartsAt
<1>8. ASSUME s.arrived = Len(s.wire), s.src = <<>> PROVE Len(s.items) = n
  <2>1. start[next] = Len(s.wire)
    BY <1>3, <1>7, <1>8
  <2>2. ASSUME next \in 1 .. n PROVE FALSE
    <3>1. s.sent[next] \in PeerPdus
      BY <1>1, <1>2, <2>2, StreamIs
    <3>2. SizeOf(s.sent[next]) \in Nat /\ SizeOf(s.sent[next]) >= 1
      BY <3>1, SizeIs, FramesAssumption
    <3>3. start[next + 1] = start[next] + SizeOf(s.sent[next]) /\ start[next + 1] <= Len(s.wire)
      <4>1. next \in 1 .. Len(s.sent) /\ next + 1 \in 1 .. Len(s.sent) + 1
        BY <1>2, <1>3, <2>2
      <4>2. /\ \A k \in 1 .. Len(s.sent) + 1 : start[k] <= Len(s.wire)
            /\ \A k \in 1 .. Len(s.sent) : start[k + 1] = start[k] + SizeOf(s.sent[k])
        BY <1>6 DEF StartsAt
      <4> QED BY <4>1, <4>2
    <3> QED BY <1>3, <2>1, <3>2, <3>3
  <2> QED BY <1>3, <1>6, <2>2
<1>9. ASSUME s.arrived = Len(s.wire), s.src # <<>> PROVE next <= n
  <2>1. Len(s.src) # 0
    BY <1>1, <1>9, StreamIs, EmptySeq
  <2>2. next # n + 1
    BY <1>3, <1>7, <1>9, <2>1
  <2> QED BY <1>3, <1>6, <2>2
<1> QED BY <1>2, <1>5, <1>8, <1>9

\* The PDU that is taken, in the order it was sent and for what it is.
LEMMA FrameTakes ==
  ASSUME NEW s, FrameIs(s), s.end = "none", ~WaitsForMore(s), ~Untrusted(s)
  PROVE  LET count  == AnnouncedLength(s.src, s.sent)
             next   == Len(s.items) + 1
             rest   == SubSeq(s.src, count + 1, Len(s.src))
         IN  /\ next \in 1 .. Len(s.sent) /\ s.src[1].of = next /\ Trusted(s.sent[next])
             /\ DecodePdu(SubSeq(s.src, 1, count), s.sent) = s.sent[next].is
             /\ rest \in Seq(Octet)
             /\ BeginsAt(next + 1, rest, s.wire, s.sent, s.arrived)
<1>1. s \in Streams /\ Taken(s)
  BY DEF FrameIs
<1>2. PICK count : count = AnnouncedLength(s.src, s.sent)
  OBVIOUS
<1>3. /\ count \in {Unknown} \union PduHeader .. MaxLength
      /\ count \in 0 .. Len(s.src)
  BY <1>2 DEF WaitsForMore, Untrusted
<1>4. count \in PduHeader .. MaxLength /\ count <= Len(s.src)
  <2>1. Len(s.src) \in Nat
    BY <1>1, LengthsAre
  <2> QED BY <1>3, <2>1 DEF Unknown
<1>5. BeginsAt(Len(s.items) + 1, s.src, s.wire, s.sent, s.arrived)
  BY <1>1 DEF Taken
<1>6. PICK sent, wire, src, next, arrived :
        /\ sent = s.sent /\ wire = s.wire /\ src = s.src /\ arrived = s.arrived
        /\ next = Len(s.items) + 1
  OBVIOUS
<1>7. sent \in Seq(PeerPdus) /\ wire \in Seq(Octet) /\ src \in Seq(Octet)
  BY <1>1, <1>6, StreamIs
<1>8. BeginsAt(next, src, wire, sent, arrived) /\ count = AnnouncedLength(src, sent)
  BY <1>2, <1>5, <1>6
<1>9. count <= Len(src)
  BY <1>4, <1>6
<1>10. /\ next \in 1 .. Len(sent) /\ src[1].of = next /\ Trusted(sent[next])
       /\ DecodePdu(SubSeq(src, 1, count), sent) = sent[next].is
       /\ SubSeq(src, count + 1, Len(src)) \in Seq(Octet)
       /\ BeginsAt(next + 1, SubSeq(src, count + 1, Len(src)), wire, sent, arrived)
  BY <1>4, <1>7, <1>8, <1>9, FrameLeaves
<1> QED BY <1>2, <1>6, <1>10

\* What was answered of the PDUs taken so far, and of one more.
LEMMA UnparsedGrows ==
  ASSUME NEW T, NEW items \in Seq(T), NEW item \in T
  PROVE  Cardinality(Unparsed(Append(items, item)))
         = IF item.is = "unparsed" THEN Cardinality(Unparsed(items)) + 1
           ELSE Cardinality(Unparsed(items))
<1>1. PICK n, more, S : /\ n = Len(items) /\ more = Append(items, item)
                        /\ S = Unparsed(items)
  OBVIOUS
<1>2. /\ n \in Nat /\ DOMAIN items = 1 .. n /\ DOMAIN more = 1 .. n + 1
      /\ more[n + 1] = item /\ \A k \in 1 .. n : more[k] = items[k]
  BY <1>1
<1>3. S \in SUBSET (1 .. n) /\ n + 1 \notin S
  BY <1>1, <1>2 DEF Unparsed
<1>4. IsFiniteSet(S)
  <2>1. IsFiniteSet(1 .. n)
    BY <1>2, FS_Interval
  <2> QED BY <1>3, <2>1, FS_Subset
<1>5. item.is = "unparsed" => Unparsed(more) = S \union {n + 1}
  BY <1>1, <1>2 DEF Unparsed
<1>6. item.is # "unparsed" => Unparsed(more) = S
  BY <1>1, <1>2 DEF Unparsed
<1>7. Cardinality(S \union {n + 1}) = Cardinality(S) + 1
  BY <1>3, <1>4, FS_AddElement
<1> QED BY <1>1, <1>5, <1>6, <1>7

\* What follows from a PDU that was taken, whatever it decides of the bind.
LEMMA FrameMoves ==
  ASSUME NEW s, FrameIs(s), s.end = "none", NEW t \in Streams, NEW item,
         Len(s.items) + 1 \in 1 .. Len(s.sent), Trusted(s.sent[Len(s.items) + 1]),
         item = [of |-> Len(s.items) + 1, is |-> s.sent[Len(s.items) + 1].is],
         BeginsAt(Len(s.items) + 2, t.src, s.wire, s.sent, s.arrived),
         t.items = Append(s.items, item), t.sent = s.sent, t.wire = s.wire, t.mode = s.mode,
         t.arrived = s.arrived, t.closed = s.closed, t.room = 0,
         t.end \in {"none", "Protocol", "UnexpectedResponse", "BindRejected"},
         Bound(t),
         t.nacks = IF t.phase = "binding" THEN 0 ELSE Cardinality(Unparsed(t.items))
  PROVE  FrameIs(t)
<1>1. s \in Streams /\ Taken(s) /\ EndIs(s)
  BY DEF FrameIs
<1>2. PICK n, items, more : n = Len(s.items) /\ items = s.items /\ more = t.items
  OBVIOUS
<1>3. /\ n \in Nat /\ Len(more) = n + 1 /\ more[n + 1] = item
      /\ \A k \in 1 .. n : more[k] = items[k]
  <2>1. PICK T : T = [of : Nat, is : Kinds]
    OBVIOUS
  <2>2. items \in Seq(T)
    BY <1>1, <1>2, <2>1, StreamIs
  <2>3. more = Append(items, item)
    BY <1>2
  <2> QED BY <1>2, <2>2, <2>3
<1>4. \A k \in 1 .. n : items[k] = [of |-> k, is |-> s.sent[k].is] /\ Trusted(s.sent[k])
  BY <1>1, <1>2 DEF Taken
<1>5. Taken(t)
  <2>1. \A k \in 1 .. n + 1 : more[k] = [of |-> k, is |-> s.sent[k].is] /\ Trusted(s.sent[k])
    BY <1>2, <1>3, <1>4
  <2>2. Len(t.items) = n + 1 /\ Len(t.items) + 1 = Len(s.items) + 2
    BY <1>2, <1>3
  <2> QED BY <1>2, <2>1, <2>2 DEF Taken
<1>6. EndIs(t)
  BY DEF EndIs
<1>7. Asked(t)
  BY FramesAssumption DEF Asked
<1> QED BY <1>5, <1>6, <1>7 DEF FrameIs

\* Every step of a connection keeps the invariant.
LEMMA FrameStep == FrameInv /\ [FramesNext]_framesVars => FrameInv'
<1> SUFFICES ASSUME FrameInv, [FramesNext]_framesVars PROVE FrameInv'
  OBVIOUS
<1>1. PICK s, t : s = stream /\ t = stream'
  OBVIOUS
<1>2. FrameIs(s) /\ s \in Streams /\ Bound(s) /\ EndIs(s) /\ Asked(s)
  BY <1>1 DEF FrameInv, FrameIs
<1>3. SUFFICES FrameIs(t)
  BY <1>1 DEF FrameInv
<1>4. CASE \E pdu \in PeerPdus : PeerSends(pdu)
  <2>1. PICK pdu \in PeerPdus : PeerSends(pdu)
    BY <1>4
  <2>2. ~s.closed /\ t = [s EXCEPT !.sent = Append(s.sent, pdu),
                                   !.wire = s.wire \o Octets(pdu, Len(s.sent) + 1)]
    BY <1>1, <2>1 DEF PeerSends
  <2> QED BY <1>2, <2>2, FrameSends
<1>5. CASE PeerCloses
  <2>1. t = [s EXCEPT !.closed = TRUE]
    BY <1>1, <1>5 DEF PeerCloses
  <2>2. /\ t.sent = s.sent /\ t.wire = s.wire /\ t.items = s.items /\ t.mode = s.mode
        /\ t.phase = s.phase /\ t.nacks = s.nacks /\ t.room = s.room /\ t.src = s.src
        /\ t.arrived = s.arrived /\ t.end = s.end
    BY <1>2, <2>1 DEF Streams
  <2>3. t.closed
    BY <1>2, <2>1 DEF Streams
  <2>4. t \in Streams
    BY <1>2, <2>1 DEF Streams
  <2>5. EndIs(t)
    BY <1>2, <2>2, <2>3 DEF EndIs
  <2>6. BeginsAt(Len(s.items) + 1, t.src, s.wire, s.sent, t.arrived) /\ t.room <= MaxLength
    BY <1>2, <2>2 DEF FrameIs, Taken, Asked
  <2> QED BY <1>2, <2>2, <2>4, <2>5, <2>6, FrameKeeps
<1>6. CASE \E count \in 1 .. MaxPdus * MaxLength : Arrive(count)
  <2>1. PICK count \in 1 .. MaxPdus * MaxLength : Arrive(count)
    BY <1>6
  <2>2. count \in Nat
    OBVIOUS
  <2>3. /\ s.end = "none" /\ ~Untrusted(s) /\ s.arrived + count <= Len(s.wire)
        /\ t = [s EXCEPT !.src = s.src \o SubSeq(s.wire, s.arrived + 1, s.arrived + count),
                         !.arrived = s.arrived + count,
                         !.room = IF AnnouncedLength(s.src, s.sent) = Unknown THEN 0
                                  ELSE AnnouncedLength(s.src, s.sent)]
    BY <1>1, <2>1 DEF Arrive, WaitsForMore
  <2> QED BY <1>2, <2>2, <2>3, FrameArrives
<1>7. CASE LengthRefused
  <2>1. s.end = "none" /\ Untrusted(s) /\ t = [s EXCEPT !.end = "InvalidData"]
    BY <1>1, <1>7 DEF LengthRefused
  <2>2. /\ t.sent = s.sent /\ t.wire = s.wire /\ t.items = s.items /\ t.mode = s.mode
        /\ t.phase = s.phase /\ t.nacks = s.nacks /\ t.room = s.room /\ t.src = s.src
        /\ t.arrived = s.arrived /\ t.end = "InvalidData"
    BY <1>2, <2>1 DEF Streams
  <2>3. t \in Streams
    BY <1>2, <2>1 DEF Streams, Ends
  <2>4. EndIs(t)
    BY <1>2, <2>1, <2>2, LengthsOf DEF EndIs
  <2> QED BY <1>2, <2>1, <2>2, <2>3, <2>4, FrameEnds
<1>8. CASE EndOfStream
  <2>1. PICK end : end = IF s.src = <<>> THEN "Eof" ELSE "Truncated"
    OBVIOUS
  <2>2. s.end = "none" /\ s.closed /\ s.arrived = Len(s.wire) /\ t = [s EXCEPT !.end = end]
    BY <1>1, <1>8, <2>1 DEF EndOfStream
  <2>3. /\ t.sent = s.sent /\ t.wire = s.wire /\ t.items = s.items /\ t.mode = s.mode
        /\ t.phase = s.phase /\ t.nacks = s.nacks /\ t.room = s.room /\ t.src = s.src
        /\ t.arrived = s.arrived /\ t.end = end
    BY <1>2, <2>2 DEF Streams
  <2>4. t.closed
    BY <1>2, <2>2 DEF Streams
  <2>5. t \in Streams
    BY <1>2, <2>1, <2>2 DEF Streams, Ends
  <2>6. EndIs(t)
    BY <1>2, <2>1, <2>2, <2>3, <2>4, LengthsOf DEF EndIs
  <2>7. t.end \notin {"Protocol", "UnexpectedResponse", "BindRejected"}
    BY <2>1, <2>3
  <2> QED BY <1>2, <2>2, <2>3, <2>5, <2>6, <2>7, FrameEnds
<1>9. CASE \E length \in {MaxLength, MaxLength + 1} : WritePdu(length)
  <2>1. PICK length \in {MaxLength, MaxLength + 1} : WritePdu(length)
    BY <1>9
  <2>2. length \in Nat
    BY FramesAssumption
  <2>3. s.end = "none" /\ (\/ t = [s EXCEPT !.written = Append(s.written, length)]
                           \/ t = [s EXCEPT !.end = "InvalidInput"])
    BY <1>1, <2>1 DEF WritePdu
  <2>4. Append(s.written, length) \in Seq(Nat)
    BY <1>2, <2>2 DEF Streams
  <2>5. /\ t.sent = s.sent /\ t.wire = s.wire /\ t.items = s.items /\ t.mode = s.mode
        /\ t.phase = s.phase /\ t.nacks = s.nacks /\ t.room = s.room /\ t.src = s.src
        /\ t.arrived = s.arrived /\ t.end \in {"none", "InvalidInput"}
    BY <1>2, <2>3 DEF Streams
  <2>6. t \in Streams
    BY <1>2, <2>3, <2>4, ZenonT(40) DEF Streams, Ends
  <2>7. EndIs(t)
    BY <2>5 DEF EndIs
  <2> QED BY <1>2, <2>3, <2>5, <2>6, <2>7, FrameEnds
<1>10. CASE TakeFrame
  <2>1. PICK count, next, rest, item, is :
          /\ count = AnnouncedLength(s.src, s.sent) /\ next = Len(s.items) + 1
          /\ rest = SubSeq(s.src, count + 1, Len(s.src))
          /\ is = s.sent[next].is /\ item = [of |-> next, is |-> is]
    OBVIOUS
  <2>2. s.end = "none" /\ ~WaitsForMore(s) /\ ~Untrusted(s)
    BY <1>1, <1>10 DEF TakeFrame
  <2>3. /\ next \in 1 .. Len(s.sent) /\ s.src[1].of = next /\ Trusted(s.sent[next])
        /\ DecodePdu(SubSeq(s.src, 1, count), s.sent) = is
        /\ rest \in Seq(Octet) /\ BeginsAt(next + 1, rest, s.wire, s.sent, s.arrived)
    BY <1>2, <2>1, <2>2, FrameTakes
  <2>4. PICK end : end = AfterBind(is, s.sent[next].status)
    OBVIOUS
  <2>5. PICK taken : taken = [s EXCEPT !.src = rest, !.items = Append(s.items, item), !.room = 0]
    OBVIOUS
  <2>6. t = IF s.phase = "binding"
            THEN [taken EXCEPT !.end = end, !.phase = IF end = "none" THEN "bound" ELSE "binding"]
            ELSE [taken EXCEPT !.nacks = IF is = "unparsed" THEN taken.nacks + 1 ELSE taken.nacks]
    BY <1>1, <1>10, <2>1, <2>3, <2>4, <2>5 DEF TakeFrame, SplitAt
  <2>7. /\ Len(s.items) \in Nat /\ next \in Nat /\ next + 1 = Len(s.items) + 2
        /\ Len(s.items) + 1 = next
    BY <1>2, <2>1, LengthsAre
  <2>8. item \in [of : Nat, is : Kinds]
    <3>1. s.sent[next] \in PeerPdus
      BY <1>2, <2>3, StreamIs
    <3> QED BY <2>1, <2>7, <3>1 DEF Kinds
  <2>9. Append(s.items, item) \in Seq([of : Nat, is : Kinds])
    <3>1. PICK T, items : T = [of : Nat, is : Kinds] /\ items = s.items
      OBVIOUS
    <3>2. item \in T /\ items \in Seq(T)
      BY <1>2, <2>8, <3>1, StreamIs
    <3>3. Append(items, item) \in Seq(T)
      BY <3>2
    <3> QED BY <3>1, <3>3
  <2>10. /\ taken \in Streams /\ taken.src = rest /\ taken.items = Append(s.items, item)
         /\ taken.room = 0 /\ taken.sent = s.sent /\ taken.wire = s.wire /\ taken.mode = s.mode
         /\ taken.arrived = s.arrived /\ taken.closed = s.closed /\ taken.nacks = s.nacks
         /\ taken.phase = s.phase /\ taken.end = "none"
    <3>1. PICK I, items : /\ I = Seq([of : Nat, is : Kinds]) /\ items = Append(s.items, item)
                          /\ items \in I
      BY <2>9
    <3>2. PICK O : O = Seq(Octet) /\ rest \in O
      BY <2>3
    <3>3. taken = [s EXCEPT !.src = rest, !.items = items, !.room = 0]
      BY <2>5, <3>1
    <3>4. PICK C : C = [mode : BindModes, phase : {"binding", "bound"}, sent : Seq(PeerPdus),
                        wire : O, closed : BOOLEAN, arrived : Nat, src : O, room : Int,
                        items : I, nacks : Nat, written : Seq(Nat), end : Ends]
      OBVIOUS
    <3>8. s \in C
      BY <1>2, <3>1, <3>2, <3>4 DEF Streams
    <3>9. PICK one, two : one = [s EXCEPT !.src = rest] /\ two = [one EXCEPT !.items = items]
      OBVIOUS
    <3>10. one \in C
      BY <3>2, <3>4, <3>8, <3>9
    <3>11. two \in C
      BY <3>1, <3>4, <3>9, <3>10
    <3>12. [two EXCEPT !.room = 0] \in C
      BY <3>4, <3>11
    <3>13. taken = [two EXCEPT !.room = 0]
      BY <3>3, <3>9
    <3>5. taken \in C
      BY <3>12, <3>13
    <3>6. /\ taken.src = rest /\ taken.items = items /\ taken.room = 0 /\ taken.sent = s.sent
          /\ taken.wire = s.wire /\ taken.mode = s.mode /\ taken.arrived = s.arrived
          /\ taken.closed = s.closed /\ taken.nacks = s.nacks /\ taken.phase = s.phase
          /\ taken.end = s.end
      BY <3>3, <3>4, <3>8
    <3>7. taken \in Streams
      BY <3>1, <3>2, <3>4, <3>5 DEF Streams
    <3> QED BY <2>2, <3>1, <3>6, <3>7
  <2>11. Append(s.items, item) # <<>>
    BY <1>2, StreamIs
  <2>12. CASE s.phase = "binding"
    <3>1. s.items = <<>> /\ s.nacks = 0 /\ next = 1
      <4>1. s.items = <<>> /\ s.nacks = 0
        BY <1>2, <2>2, <2>12 DEF Bound, Asked
      <4> QED BY <2>1, <4>1
    <3>2. end \in {"none", "Protocol", "UnexpectedResponse", "BindRejected"}
      BY <2>4 DEF AfterBind
    <3>3. end = "none" => /\ is # "unparsed" /\ s.sent[1].status = "ok"
                          /\ is = MatchingResponse(BindRequest(s.mode))
      BY <1>1, <2>4, <3>1 DEF AfterBind
    <3>4. PICK phase : phase = IF end = "none" THEN "bound" ELSE "binding"
      OBVIOUS
    <3>5. t = [taken EXCEPT !.end = end, !.phase = phase]
      BY <2>6, <2>12, <3>4
    <3>6. /\ t.src = rest /\ t.items = Append(s.items, item) /\ t.room = 0
          /\ t.sent = s.sent /\ t.wire = s.wire /\ t.mode = s.mode /\ t.arrived = s.arrived
          /\ t.closed = s.closed /\ t.nacks = 0 /\ t.phase = phase /\ t.end = end
      BY <2>10, <3>1, <3>5 DEF Streams
    <3>7. t \in Streams
      BY <2>10, <3>2, <3>4, <3>5 DEF Streams, Ends
    <3>8. Bound(t)
      BY <2>1, <2>11, <3>1, <3>3, <3>4, <3>6 DEF Bound
    <3>9. is # "unparsed" => Cardinality(Unparsed(t.items)) = 0
      <4>1. PICK T : T = [of : Nat, is : Kinds]
        OBVIOUS
      <4>2. is # "unparsed" =>
              Cardinality(Unparsed(Append(s.items, item))) = Cardinality(Unparsed(s.items))
        <5>1. Cardinality(Unparsed(Append(s.items, item)))
              = IF item.is = "unparsed" THEN Cardinality(Unparsed(s.items)) + 1
                ELSE Cardinality(Unparsed(s.items))
          BY <1>2, <2>8, <4>1, StreamIs, UnparsedGrows
        <5> QED BY <2>1, <5>1
      <4>3. Unparsed(s.items) = {}
        BY <3>1 DEF Unparsed
      <4> QED BY <3>6, <4>2, <4>3, FS_EmptySet
    <3>10. t.nacks = IF t.phase = "binding" THEN 0 ELSE Cardinality(Unparsed(t.items))
      BY <3>3, <3>4, <3>6, <3>9
    <3> QED BY <1>2, <2>1, <2>2, <2>3, <2>7, <3>2, <3>6, <3>7, <3>8, <3>10, FrameMoves
  <2>13. CASE s.phase # "binding"
    <3>1. s.phase = "bound"
      BY <1>2, <2>13, StreamIs
    <3>2. PICK nacks : nacks = IF is = "unparsed" THEN s.nacks + 1 ELSE s.nacks
      OBVIOUS
    <3>3. t = [taken EXCEPT !.nacks = nacks]
      BY <2>6, <2>10, <2>13, <3>2
    <3>4. nacks \in Nat
      BY <1>2, <3>2, StreamIs
    <3>5. /\ t.src = rest /\ t.items = Append(s.items, item) /\ t.room = 0
          /\ t.sent = s.sent /\ t.wire = s.wire /\ t.mode = s.mode /\ t.arrived = s.arrived
          /\ t.closed = s.closed /\ t.nacks = nacks /\ t.phase = "bound" /\ t.end = "none"
      BY <2>10, <3>1, <3>3 DEF Streams
    <3>6. t \in Streams
      BY <2>10, <3>3, <3>4 DEF Streams
    <3>7. Bound(t)
      BY <1>2, <2>11, <3>1, <3>5 DEF Bound
    <3>8. nacks = Cardinality(Unparsed(t.items))
      <4>1. PICK T : T = [of : Nat, is : Kinds]
        OBVIOUS
      <4>2. Cardinality(Unparsed(Append(s.items, item)))
            = IF item.is = "unparsed" THEN Cardinality(Unparsed(s.items)) + 1
              ELSE Cardinality(Unparsed(s.items))
        BY <1>2, <2>8, <4>1, StreamIs, UnparsedGrows
      <4>3. s.nacks = Cardinality(Unparsed(s.items)) /\ item.is = is
        BY <1>2, <2>1, <3>1 DEF Asked
      <4> QED BY <3>2, <3>5, <4>2, <4>3
    <3>9. t.nacks = IF t.phase = "binding" THEN 0 ELSE Cardinality(Unparsed(t.items))
      BY <3>5, <3>8
    <3>10. t.end \in {"none", "Protocol", "UnexpectedResponse", "BindRejected"}
      BY <3>5
    <3> QED BY <1>2, <2>1, <2>2, <2>3, <2>7, <3>5, <3>6, <3>7, <3>9, <3>10, FrameMoves
  <2> QED BY <2>12, <2>13
<1>11. CASE UNCHANGED framesVars
  <2>1. t = s
    BY <1>1, <1>11 DEF framesVars
  <2> QED BY <1>2, <2>1
<1> QED BY <1>4, <1>5, <1>6, <1>7, <1>8, <1>9, <1>10, <1>11 DEF FramesNext

\* The buffer is the last of what has arrived, from where the next PDU begins.
LEMMA FramesSafe == FrameInv => FramesStayAligned
<1> SUFFICES ASSUME FrameInv PROVE FramesStayAligned
  OBVIOUS
<1>1. PICK s : s = stream
  OBVIOUS
<1>2. s \in Streams /\ Taken(s) /\ Bound(s) /\ EndIs(s) /\ Asked(s)
  BY <1>1 DEF FrameInv, FrameIs
<1>3. /\ DOMAIN s.items = 1 .. Len(s.items) /\ DOMAIN s.sent = 1 .. Len(s.sent)
      /\ Len(s.items) \in Nat /\ Len(s.sent) \in Nat /\ Len(s.src) \in Nat
      /\ Len(s.wire) \in Nat
  BY <1>2, LengthsAre
<1>4. PdusAreWhole
  BY <1>1, <1>2, <1>3 DEF PdusAreWhole, Taken
<1>5. BufferIsAligned
  <2>1. PICK next, n, a : next = Len(s.items) + 1 /\ n = Len(s.sent)
                          /\ a = s.arrived - Len(s.src)
    OBVIOUS
  <2>2. PICK start : /\ StartsAt(start, s.wire, s.sent) /\ next \in 1 .. n + 1
                     /\ HoldsFrom(s.src, s.wire, start[next], s.arrived)
    BY <1>2, <2>1 DEF Taken, BeginsAt
  <2>3. /\ s.arrived \in Nat /\ start[next] \in Nat /\ Len(s.src) = s.arrived - start[next]
        /\ s.arrived <= Len(s.wire) /\ start[n + 1] = Len(s.wire)
    BY <2>1, <2>2 DEF HoldsFrom, StartsAt
  <2>4. \A i \in 1 .. Len(s.src) : s.src[i] = s.wire[start[next] + i]
    BY <2>2 DEF HoldsFrom
  <2>5. a = start[next]
    BY <1>3, <2>1, <2>3
  <2>6. s.src = SubSeq(s.wire, a + 1, s.arrived)
    <3>1. PICK S, src, wire, m, piece :
            /\ S = Octet /\ src = s.src /\ wire = s.wire /\ m = s.arrived
            /\ piece = SubSeq(wire, a + 1, m)
      OBVIOUS
    <3>2. src \in Seq(S) /\ wire \in Seq(S) /\ a \in Nat /\ m \in Nat
      BY <1>2, <2>3, <2>5, <3>1, StreamIs
    <3>3. \A i \in a + 1 .. m : wire[i] \in S
      BY <1>3, <2>3, <3>1, <3>2
    <3>4. /\ piece \in Seq(S) /\ Len(piece) = IF a + 1 <= m THEN m - (a + 1) + 1 ELSE 0
          /\ \A i \in 1 .. m - (a + 1) + 1 : piece[i] = wire[(a + 1) + i - 1]
      BY <3>1, <3>2, <3>3, SubSeqProperties
    <3>5. Len(src) = m - a /\ Len(src) \in Nat
      BY <1>3, <2>3, <2>5, <3>1
    <3>6. Len(piece) = Len(src)
      BY <3>2, <3>4, <3>5
    <3>7. \A i \in 1 .. Len(src) : src[i] = piece[i]
      <4> SUFFICES ASSUME NEW i \in 1 .. Len(src) PROVE src[i] = piece[i]
        OBVIOUS
      <4>1. i \in 1 .. m - (a + 1) + 1 /\ (a + 1) + i - 1 = a + i
        BY <3>2, <3>5
      <4>2. src[i] = wire[a + i]
        BY <2>4, <2>5, <3>1
      <4> QED BY <3>4, <4>1, <4>2
    <3>8. src = piece
      BY <3>2, <3>4, <3>6, <3>7, SeqEqual
    <3> QED BY <3>1, <3>8
  <2>7. next \in 1 .. n => s.wire[a + 1] = [of |-> next, at |-> 1]
    <3> SUFFICES ASSUME next \in 1 .. n PROVE s.wire[a + 1] = [of |-> next, at |-> 1]
      OBVIOUS
    <3>1. s.sent[next] \in PeerPdus
      BY <1>2, <2>1, StreamIs
    <3>2. 1 \in 1 .. SizeOf(s.sent[next])
      <4>1. SizeOf(s.sent[next]) \in Nat /\ LengthField <= SizeOf(s.sent[next])
        BY <3>1, SizeIs
      <4> QED BY <4>1, FramesAssumption
    <3> QED BY <2>1, <2>2, <2>5, <3>2 DEF StartsAt
  <2>8. next \notin 1 .. n => a = Len(s.wire)
    BY <1>3, <2>1, <2>2, <2>3, <2>5, SMTT(30)
  <2> QED BY <1>1, <1>3, <2>1, <2>6, <2>7, <2>8 DEF BufferIsAligned
<1>6. EndsForAReason
  <2>1. s.end = "Eof" => Len(s.items) + 1 = Len(s.sent) + 1
    BY <1>2, <1>3 DEF EndIs
  <2> QED BY <1>1, <1>2, <2>1 DEF EndsForAReason, EndIs, Bound
<1>7. NoMoreThanAsked
  BY <1>1, <1>2 DEF NoMoreThanAsked, Asked, Unparsed
<1> QED BY <1>4, <1>5, <1>6, <1>7 DEF FramesStayAligned

-----------------------------------------------------------------------------
(* The tools together: each keeps its invariant, in use or at rest.         *)

ToolsInv ==
  /\ LogsInv /\ BookInv /\ draft \in Drafts /\ ScreenInv
  /\ LinkInv /\ WaitInv /\ HoursInv /\ RateInv
  /\ FieldsInv /\ SendInv /\ FrameInv
  /\ focus = "campaign" => LaunchInv

\* A tool at rest is where a use of it starts: there is such a place.
LEMMA RestsAreStarts ==
  ASSUME NEW tool, NEW starts, starts # {}, NEW place, place \in From(tool, starts)
  PROVE  place \in starts
<1>1. (CHOOSE start \in starts : TRUE) \in starts
  OBVIOUS
<1> QED BY <1>1 DEF From

\* The waits of the console start, whichever of them is in use.
LEMMA PlacesToStart ==
  NewLinks # {} /\ NewMessages # {} /\ NewCampaigns # {} /\ NewStreams # {}
<1>1. NewLinks # {}
  <2>1. PICK p \in ReconnectPolicies : TRUE
    <3>1. [enabled |-> TRUE, min |-> 1, max |-> 1, jitter |-> TRUE] \in ReconnectPolicies
      BY WaitsAssumption DEF ReconnectPolicies
    <3> QED BY <3>1
  <2>2. [policy |-> p, attempt |-> 0, delay |-> 0, before |-> 0, fate |-> "reconnecting"]
          \in NewLinks
    BY <2>1 DEF NewLinks
  <2> QED BY <2>2
<1>2. NewMessages # {}
  <2>1. PICK p \in RetryPolicies : TRUE
    <3>1. [tries |-> 1, base |-> 1, max |-> 1, backoff |-> "fixed"] \in RetryPolicies
      BY WaitsAssumption DEF RetryPolicies
    <3> QED BY <3>1
  <2>2. 1 \in 1 .. MaxTries + 1
    BY WaitsAssumption
  <2>3. [policy |-> p, first |-> 1, tried |-> 1, delay |-> 0, before |-> 0, last |-> "none",
         row |-> "SENT", fate |-> "retrying"] \in NewMessages
    BY <2>1, <2>2, SMT DEF NewMessages
  <2> QED BY <2>3
<1>3. NewCampaigns # {}
  <2>1. PICK w \in DailyWindows : TRUE
    <3>1. [open |-> 0, close |-> 1, offset |-> 0] \in DailyWindows
      BY WaitsAssumption, LaunchAssumption DEF DailyWindows
    <3> QED BY <3>1
  <2>2. [start |-> 0, window |-> w, now |-> 0] \in NewCampaigns
    BY <2>1, WaitsAssumption DEF NewCampaigns
  <2> QED BY <2>2
<1>4. NewStreams # {}
  <2>1. [mode |-> "receiver", phase |-> "binding", sent |-> <<>>, wire |-> <<>>,
         closed |-> FALSE, arrived |-> 0, src |-> <<>>, room |-> 0, items |-> <<>>,
         nacks |-> 0, written |-> <<>>, end |-> "none"] \in NewStreams
    BY DEF NewStreams, BindModes
  <2> QED BY <2>1
<1> QED BY <1>1, <1>2, <1>3, <1>4

\* Each tool starts as its invariant says.
LEMMA ToolsStart == Init => ToolsInv
<1> SUFFICES ASSUME Init PROVE ToolsInv
  OBVIOUS
<1>1. LogsInv /\ BookInv /\ draft \in Drafts /\ ScreenInv
  BY LogsStart, BookStart, ScreenStart, BlankIsADraft DEF Init, ProfilesInit
<1>2. link \in NewLinks /\ retry \in NewMessages /\ hours \in NewCampaigns /\ stream \in NewStreams
  <2>1. /\ link \in From("link", NewLinks) /\ retry \in From("retry", NewMessages)
        /\ hours \in From("hours", NewCampaigns) /\ stream \in From("frames", NewStreams)
    BY DEF Init
  <2> QED BY <2>1, PlacesToStart, RestsAreStarts
<1>3. LinkInv /\ WaitInv /\ HoursInv /\ RateInv /\ FrameInv
  BY <1>2, LinkStart, WaitStart, HoursStart, RateStart, FrameStart DEF Init
<1>4. FieldsInv /\ SendInv
  BY FieldsStart, SendStart DEF Init, ComposeInit
<1>5. focus = "campaign" => LaunchInv
  BY LaunchStart DEF Init, From
<1> QED BY <1>1, <1>3, <1>4, <1>5 DEF ToolsInv

\* The tool in use takes one of its steps, and the others none.
LEMMA ToolsStep == ToolsInv /\ [Next]_consoleVars => ToolsInv'
<1> SUFFICES ASSUME ToolsInv, [Next]_consoleVars PROVE ToolsInv'
  OBVIOUS
<1>1. [LogsNext]_vars
  <2>1. CASE focus = "logs"
    BY <2>1 DEF Next, consoleVars
  <2>2. CASE focus # "logs"
    BY <2>2 DEF Next, consoleVars, Others, Rests
  <2> QED BY <2>1, <2>2
<1>2. [BookNext]_bookVars
  <2>1. CASE focus = "book"
    BY <2>1 DEF Next, consoleVars
  <2>2. CASE focus # "book"
    BY <2>2 DEF Next, consoleVars, Others, Rests
  <2> QED BY <2>1, <2>2
<1>3. [Edit]_formVars
  <2>1. CASE focus = "form"
    BY <2>1 DEF Next, consoleVars
  <2>2. CASE focus # "form"
    BY <2>2 DEF Next, consoleVars, Others, Rests
  <2> QED BY <2>1, <2>2
<1>4. [ScreenNext]_screenVars
  <2>1. CASE focus = "sessions"
    BY <2>1 DEF Next, consoleVars
  <2>2. CASE focus # "sessions"
    BY <2>2 DEF Next, consoleVars, Others, Rests
  <2> QED BY <2>1, <2>2
<1>5. [LinkNext]_link
  <2>1. CASE focus = "link"
    BY <2>1 DEF Next, consoleVars
  <2>2. CASE focus # "link"
    BY <2>2 DEF Next, consoleVars, Others, Rests
  <2> QED BY <2>1, <2>2
<1>6. [RetryNext]_retry
  <2>1. CASE focus = "retry"
    BY <2>1 DEF Next, consoleVars
  <2>2. CASE focus # "retry"
    BY <2>2 DEF Next, consoleVars, Others, Rests
  <2> QED BY <2>1, <2>2
<1>7. [HourPasses]_hours
  <2>1. CASE focus = "hours"
    BY <2>1 DEF Next, consoleVars
  <2>2. CASE focus # "hours"
    BY <2>2 DEF Next, consoleVars, Others, Rests
  <2> QED BY <2>1, <2>2
<1>8. [RateNext]_rate
  <2>1. CASE focus = "rate"
    BY <2>1 DEF Next, consoleVars
  <2>2. CASE focus # "rate"
    BY <2>2 DEF Next, consoleVars, Others, Rests
  <2> QED BY <2>1, <2>2
<1>9. [Fill]_composeVars
  <2>1. CASE focus = "fields"
    BY <2>1 DEF Next, consoleVars
  <2>2. CASE focus # "fields"
    BY <2>2 DEF Next, consoleVars, Others, Rests
  <2> QED BY <2>1, <2>2
<1>10. [SendNext]_sendVars
  <2>1. CASE focus = "send"
    BY <2>1 DEF Next, consoleVars
  <2>2. CASE focus # "send"
    BY <2>2 DEF Next, consoleVars, Others, Rests
  <2> QED BY <2>1, <2>2
<1>11. [FramesNext]_framesVars
  <2>1. CASE focus = "frames"
    BY <2>1 DEF Next, consoleVars
  <2>2. CASE focus # "frames"
    BY <2>2 DEF Next, consoleVars, Others, Rests
  <2> QED BY <2>1, <2>2
<1>12. focus' = focus /\ (focus = "campaign" => [LaunchNext]_launchVars)
  BY DEF Next, consoleVars, Others
<1>13. LogsInv' /\ BookInv' /\ (draft \in Drafts)' /\ ScreenInv'
  BY <1>1, <1>2, <1>3, <1>4, LogsStep, BookStep, FormStep, ScreenStep DEF ToolsInv
<1>14. LinkInv' /\ WaitInv' /\ HoursInv' /\ RateInv'
  BY <1>5, <1>6, <1>7, <1>8, LinkStep, WaitStep, HoursStep, RateStep DEF ToolsInv
<1>15. FieldsInv' /\ SendInv' /\ FrameInv'
  BY <1>9, <1>10, <1>11, FieldsStep, SendStep, FrameStep DEF ToolsInv
<1>16. (focus = "campaign" => LaunchInv)'
  BY <1>12, LaunchStep DEF ToolsInv
<1> QED BY <1>13, <1>14, <1>15, <1>16 DEF ToolsInv

(* The log holds, and its screen shows, what was seen, once and in order,  *)
(* through pauses, closures, lagging subscriptions and busy stores         *)
(* (pdu_log.rs, journal.rs, page.rs).                                      *)
THEOREM ConsoleLogsAreWhole == Spec => []LogsAreWhole
<1>1. ToolsInv => LogsAreWhole
  BY LogsSafe DEF ToolsInv, LogsAreWhole
<1> QED BY <1>1, ToolsStart, ToolsStep, PTL DEF Spec

(* The contacts screen shows the selection it was given, whole and in      *)
(* order, whatever was edited, deleted or answered late (contacts.ts).     *)
THEOREM ConsoleBookIsTheSelection == Spec => []BookIsTheSelection
<1>1. ToolsInv => BookIsTheSelection
  BY BookSafe DEF ToolsInv, BookIsTheSelection
<1> QED BY <1>1, ToolsStart, ToolsStep, PTL DEF Spec

(* A profile stays what was accepted: in its row, in the session that is   *)
(* bound under it, on the screen, and in the messages that refer to it     *)
(* (profile.rs, session_profiles.rs, sessions.ts).                         *)
THEOREM ConsoleProfilesStand == Spec => []ProfilesStand
<1>1. ToolsInv => ProfilesStand
  BY ProfilesSafe DEF ToolsInv, ProfilesStand
<1> QED BY <1>1, ToolsStart, ToolsStep, PTL DEF Spec

(* A back-off never shrinks nor leaves its policy, a retry never exceeds   *)
(* its budget, a campaign sends in its hours only and waits no longer than *)
(* it must, and the rate shown counts each second once (reconnect.rs,      *)
(* retry.rs, schedule.rs, progress.rs).                                    *)
THEOREM ConsoleDelaysAreRight == Spec => []DelaysAreRight
<1>1. ToolsInv => DelaysAreRight
  BY WaitsSafe DEF ToolsInv, DelaysAreRight
<1> QED BY <1>1, ToolsStart, ToolsStep, PTL DEF Spec

(* A message is sent from the address and in the encoding that were shown, *)
(* a refusal names the field at fault, and the counter and the badge of    *)
(* the send screen are those of the text and the message they stand by,    *)
(* whatever answers late (message.rs, submit.rs, send.ts).                 *)
THEOREM ConsoleMessagesAreAsComposed == Spec => []MessagesAreAsComposed
<1>1. ToolsInv => MessagesAreAsComposed
  BY FieldsSafe, SendSafe DEF ToolsInv, MessagesAreAsComposed, SentAsComposed
<1> QED BY <1>1, ToolsStart, ToolsStep, PTL DEF Spec

(* A campaign runs the plan its form was filled with, at the instant the   *)
(* form names, and a refusal has its reason, for a campaign of this        *)
(* version or an older one (CampaignForm.tsx, CampaignPanel.tsx,           *)
(* commands/campaign.rs).                                                  *)
THEOREM ConsoleCampaignsAreAsComposed == Spec => []CampaignsAreAsComposed
<1>1. ToolsInv => CampaignsAreAsComposed
  BY LaunchSafe DEF ToolsInv, CampaignsAreAsComposed
<1> QED BY <1>1, ToolsStart, ToolsStep, PTL DEF Spec

(* The PDUs of a connection are read where they begin, however the bytes   *)
(* arrive: what is yielded is what was sent, in order, each once, and what *)
(* cannot be read ends the connection or is answered (framing.rs,          *)
(* codec.rs).                                                              *)
THEOREM ConsolePdusAreFramed == Spec => []PdusAreFramed
<1>1. ToolsInv => PdusAreFramed
  BY FramesSafe DEF ToolsInv, PdusAreFramed
<1> QED BY <1>1, ToolsStart, ToolsStep, PTL DEF Spec
=============================================================================
