-------------------------------- MODULE Rows --------------------------------
(***************************************************************************)
(* What the contacts crate makes of one file before anything is written:   *)
(* which row names the columns, which column holds the number, which rows  *)
(* are blank, which numbers the numbering plan accepts, and how a repeated *)
(* number is folded into the first.  Pure operators: Import runs them.     *)
(*                                                                         *)
(* A cell is a record [t, v].  The text of a number keeps only what decides*)
(* its fate: whether it is written internationally, the country it names,  *)
(* the subscriber, how it fits the plan of its country and its line type.  *)
(***************************************************************************)
EXTENDS Naturals, Sequences, FiniteSets, SequencesExt

CONSTANTS
    Regions,    \* the two-letter countries the plan database knows
    None        \* no country, no list, no header row

Blank == [t |-> "blank", v |-> ""]
Word(w) == [t |-> "word", v |-> w]
Number(n) == [t |-> "number", v |-> n]

----------------------------------------------------------------------------
(* The readers: spreadsheet cells, blank rows, the header row.             *)

(* A whole number comes back as its digits, a fraction, a date or an error *)
(* cell as nothing a number can be read out of.                            *)
RenderCell(c) ==
    CASE c.t = "integral" -> Number(c.v)
      [] c.t \in {"fraction", "date", "error"} -> [t |-> "unreadable", v |-> ""]
      [] OTHER -> c

Rendered(row) == [k \in DOMAIN row |-> RenderCell(row[k])]

(* An unreadable cell is not an empty one.                                 *)
IsBlank(row) == \A k \in DOMAIN row : row[k].t = "blank"

LooksLikeNumber(c) == c.t = "number" /\ c.v.fits # "short"

LooksLikeHeader(row) == \A k \in DOMAIN row : ~LooksLikeNumber(row[k])

(* A row the parser stops on is the sequence of one broken cell.           *)
Broken == << [t |-> "broken", v |-> ""] >>

AllRows(file) ==
    IF file.kind = "xlsx" THEN [k \in DOMAIN file.rows |-> Rendered(file.rows[k])]
    ELSE file.rows

(* The header candidate: the first row that holds something in a CSV, the  *)
(* first row of the used range in a workbook.  Past the end, none.         *)
Candidate(file) ==
    LET rows == AllRows(file)
    IN  IF file.kind = "xlsx" THEN 1
        ELSE CHOOSE k \in 1..(Len(rows) + 1) :
                /\ k <= Len(rows) => ~IsBlank(rows[k])
                /\ \A j \in 1..(k - 1) : IsBlank(rows[j])

Opens(file) ==
    Candidate(file) <= Len(file.rows) => file.rows[Candidate(file)] # Broken

HasHeaders(file, mode) ==
    /\ Candidate(file) <= Len(file.rows)
    /\ \/ mode = "present"
       \/ mode = "detect" /\ LooksLikeHeader(AllRows(file)[Candidate(file)])

Headers(file, mode) ==
    IF HasHeaders(file, mode) THEN AllRows(file)[Candidate(file)] ELSE <<>>

DataRows(file, mode) ==
    IF HasHeaders(file, mode) THEN RemoveAt(AllRows(file), Candidate(file))
    ELSE AllRows(file)

----------------------------------------------------------------------------
(* The column mapping.                                                     *)

NoColumn == 0

(* A name is looked up in the header row, a position in the width of the   *)
(* file; a mapping that cannot be resolved refuses the whole file.         *)
ResolveColumn(ref, headers, width) ==
    IF ref.by = "name" THEN
        LET at == {k \in DOMAIN headers : headers[k] = Word(ref.value)}
        IN  IF at = {} THEN NoColumn ELSE CHOOSE k \in at : \A j \in at : k <= j
    ELSE IF ref.value <= width THEN ref.value ELSE NoColumn

MappingFits(mapping, headers, width) ==
    LET number == ResolveColumn(mapping.msisdn, headers, width)
        wanted == {mapping.attributes[v] : v \in DOMAIN mapping.attributes}
                    \cup (IF mapping.country = None THEN {} ELSE {mapping.country})
    IN  /\ number # NoColumn
        /\ \A ref \in wanted : ResolveColumn(ref, headers, width) # NoColumn
        /\ mapping.country # None =>
               ResolveColumn(mapping.country, headers, width) # number

(* The cell of a short row is empty, never a fault.                        *)
CellAt(row, column) == IF column \in DOMAIN row THEN row[column] ELSE Blank

AttributesOf(mapping, headers, width, row) ==
    [v \in DOMAIN mapping.attributes |->
        CellAt(row, ResolveColumn(mapping.attributes[v], headers, width)).v]

----------------------------------------------------------------------------
(* The validation of one number.                                           *)

(* The region the value is read in: its own country code first, then the   *)
(* country column of the row, then the default of the import.  A cell the  *)
(* reader could not render reads as an empty one.                          *)
RegionFor(country, options) ==
    IF country.t \in {"blank", "unreadable"} THEN options.region ELSE country.v

Validate(raw, country, options) ==
    LET region == RegionFor(country, options)
        home == IF raw.v.intl THEN raw.v.country ELSE region
        Refuse(reason) == [ok |-> FALSE, reason |-> reason]
    IN  CASE raw.t = "blank" -> Refuse("EMPTY")
          [] raw.t # "blank" /\ region \notin Regions \cup {None} -> Refuse("UNKNOWN_REGION")
          [] OTHER ->
             CASE raw.t = "word" -> Refuse("ILLEGAL_CHARACTER")
               [] raw.t # "word" /\ home = None -> Refuse("MISSING_REGION")
               [] OTHER ->
                  CASE home \notin Regions -> Refuse("UNKNOWN_COUNTRY_CODE")
                    [] home \in Regions /\ raw.v.fits = "short" -> Refuse("TOO_SHORT")
                    [] home \in Regions /\ raw.v.fits = "long" -> Refuse("TOO_LONG")
                    [] home \in Regions /\ raw.v.fits = "unlisted" -> Refuse("NOT_IN_PLAN")
                    [] OTHER ->
                       IF options.mobiles /\ raw.v.line \notin {"MOBILE", "FIXED_OR_MOBILE"}
                       THEN Refuse("LINE_TYPE_EXCLUDED")
                       ELSE [ok |-> TRUE, msisdn |-> <<home, raw.v.subscriber>>]

(* What the reader hands over for a row: nothing to count, a refusal, or a *)
(* contact.  A number cell the reader could not render is refused for that *)
(* and not for being empty.                                                *)
OutcomeOf(row, line, headers, width, options) ==
    LET mapping == options.mapping
        raw == CellAt(row, ResolveColumn(mapping.msisdn, headers, width))
        country == IF mapping.country = None THEN Blank
                   ELSE CellAt(row, ResolveColumn(mapping.country, headers, width))
        number == Validate(raw, country, options)
    IN  CASE row = Broken -> [kind |-> "broken"]
          [] IsBlank(row) -> [kind |-> "blank"]
          [] row # Broken /\ ~IsBlank(row) /\ raw.t = "unreadable" ->
                [kind |-> "rejected", reason |-> "UNREADABLE_CELL"]
          [] OTHER ->
             IF number.ok
             THEN [kind |-> "accepted", line |-> line, msisdn |-> number.msisdn,
                   attributes |-> AttributesOf(mapping, headers, width, row)]
             ELSE [kind |-> "rejected", reason |-> number.reason]

----------------------------------------------------------------------------
(* Deduplication: `kept` holds the first contact of each number, in order. *)

Holds(kept, msisdn) == \E k \in DOMAIN kept : kept[k].msisdn = msisdn

(* Mutant: the last row that fills a column wins.                          *)
MutantMergeAttributes(held, incoming) ==
    [v \in DOMAIN held |-> IF incoming[v] # "" THEN incoming[v] ELSE held[v]]

(* The first occurrence wins, except where it left the column empty.       *)
MergeAttributes(held, incoming) ==
    [v \in DOMAIN held |-> IF held[v] = "" THEN incoming[v] ELSE held[v]]

Folded(kept, contact) ==
    [k \in DOMAIN kept |->
        IF kept[k].msisdn = contact.msisdn
        THEN [kept[k] EXCEPT !.attributes = MergeAttributes(@, contact.attributes)]
        ELSE kept[k]]

(* Offer: what is remembered once the contact has been offered.            *)
Offered(strategy, kept, contact) ==
    CASE ~Holds(kept, contact.msisdn) -> Append(kept, contact)
      [] Holds(kept, contact.msisdn) /\ strategy = "merge_attributes" -> Folded(kept, contact)
      [] OTHER -> kept
=============================================================================
