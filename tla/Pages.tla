------------------------------- MODULE Pages -------------------------------
(***************************************************************************)
(* A table read by pages (persistence/src/repositories/page.rs): a page    *)
(* holds the first rows after a cursor, and the identifier of its last row *)
(* is the next cursor.                                                     *)
(***************************************************************************)
EXTENDS Integers, SequencesExt

\* `ORDER BY id`.
ById(ids) ==
  [k \in 1 .. Cardinality(ids) |->
     CHOOSE i \in ids : Cardinality({j \in ids : j < i}) = k - 1]

\* The rows of a table that stand in some places.
Picked(table, places) ==
  LET first == ById(places) IN [k \in DOMAIN first |-> table[first[k]]]

\* `LIMIT`.
FirstOf(ids, limit) == {i \in ids : Cardinality({j \in ids : j < i}) < limit}

\* `into_page`: a full page may be followed.
IntoPage(after, limit) ==
  LET rows == FirstOf(after, limit)
  IN  [rows |-> ById(rows), next |-> IF Cardinality(rows) = limit THEN Max(rows) ELSE 0]
=============================================================================
