-------------------------------- MODULE Book --------------------------------
(***************************************************************************)
(* The address book and the contacts screen                                *)
(* (crates/contacts/src/lists.rs, persistence/src/repositories/contacts.rs,*)
(* src-tauri/src/commands/contacts.rs, ui/src/store/contacts.ts,           *)
(* ui/src/views/Contacts).                                                 *)
(*                                                                         *)
(* An import writes its contacts by batches, each followed by the          *)
(* memberships of the batch in a transaction of their own.  The screen     *)
(* pages meanwhile through a selection of the book: each request reads its *)
(* page, then its count, and is answered in any order, while the operator  *)
(* changes the selection, the search or the screen.                        *)
(***************************************************************************)
EXTENDS Pages

CONSTANTS
  BookLists,    \* the contact lists
  Selections,   \* the selections a query may span, as the bridge carries them
  ContactRows,  \* PAGE: the rows of a page
  MaxContacts,  \* (bound) contacts of the book
  MaxImports,   \* (bound) imports the operator starts
  MaxQueries,   \* (bound) queries the operator makes
  MaxAsked      \* (bound) requests on their way before the operator asks again

ASSUME BookAssumption ==
  /\ \A s \in Selections : /\ s.combination \in {"everything", "union", "intersection"}
                           /\ s.lists \in Seq(BookLists) /\ s.excluded \in Seq(BookLists)
  /\ ContactRows \in Nat \ {0}
  /\ MaxContacts \in Nat /\ MaxImports \in Nat /\ MaxQueries \in Nat
  /\ MaxAsked \in Nat \ {0}

VARIABLES
  contacts, \* the contacts by rowid: [found, lists], whether the search finds it
  loader,   \* [step, list, fresh, runs]: the import command
  table,    \* the store of the screen
  asked     \* the page requests that are not answered yet

bookVars == <<contacts, loader, table, asked>>

NoList == "none"
Top == 0          \* `Cursor::start()`, and the `null` of the bridge

-----------------------------------------------------------------------------
(* Selections.                                                             *)

\* `deduplicated`: each list once, where it first occurs.
Once(lists) == Picked(lists, {i \in DOMAIN lists : \A j \in 1 .. i - 1 : lists[j] # lists[i]})

\* The constructors of `ListSelection`.
ListSelection(combination, lists, excluded) ==
  [combination |-> combination, excluded |-> Once(excluded),
   lists       |-> IF combination = "everything" THEN <<>> ELSE Once(lists)]

\* `SelectionInput::parse`.
Parsed(input) == ListSelection(input.combination, input.lists, input.excluded)

SelectsNothing(s) == s.combination # "everything" /\ s.lists = <<>>

\* The distinct lists of the selection that hold a contact.
HeldBy(s, c) == contacts[c].lists \intersect ToSet(s.lists)

\* The condition of the three queries.
Matches(s, c) ==
  /\ \/ s.combination = "everything"
     \/ s.combination = "union" /\ HeldBy(s, c) # {}
     \/ s.combination = "intersection" /\ Cardinality(HeldBy(s, c)) = Len(s.lists)
  /\ contacts[c].lists \intersect ToSet(s.excluded) = {}

\* `stream_contacts`: whom a selection spans.
Spanned(s) == IF SelectsNothing(s) THEN {} ELSE {c \in DOMAIN contacts : Matches(s, c)}

CountOf(s) == Cardinality(Spanned(s))

\* `page_contacts`.
PageOf(s, search, cursor) ==
  IntoPage({c \in Spanned(s) : c > cursor /\ (search => contacts[c].found)}, ContactRows)

-----------------------------------------------------------------------------
(* The screen.                                                             *)

BookInit ==
  /\ contacts = <<>>
  /\ loader = [step |-> "idle", list |-> NoList, fresh |-> {}, runs |-> 0]
  /\ table \in [rows : {<<>>}, total : {0}, cursor : {Top}, loading : {FALSE},
                complete : {FALSE}, generation : {0},
                selection : {s \in Selections : s.combination = "everything" /\ s.excluded = <<>>},
                search : {FALSE}]
  /\ asked = {}

\* A page request leaves the screen.
Request(t, cursor, kind) ==
  [kind |-> kind, generation |-> t.generation, selection |-> t.selection, search |-> t.search,
   cursor |-> cursor, step |-> "page", rows |-> <<>>, next |-> Top]

\* `reload`: a query that supersedes the others, whatever they are doing.
Reloaded(t) ==
  LET now == [t EXCEPT !.loading = TRUE, !.generation = @ + 1]
  IN  table' = now /\ asked' = asked \union {Request(now, Top, "replace")}

Emptied(t) == [t EXCEPT !.rows = <<>>, !.cursor = Top, !.complete = FALSE]

MayAsk == table.generation < MaxQueries + loader.runs /\ Cardinality(asked) < MaxAsked

\* The screen opens: `ContactsView` reloads each time it is mounted.
OpenBook == MayAsk /\ Reloaded(table) /\ UNCHANGED <<contacts, loader>>

\* `setSelection`.
SetSelection ==
  /\ MayAsk
  /\ \E s \in Selections : Reloaded([Emptied(table) EXCEPT !.selection = s])
  /\ UNCHANGED <<contacts, loader>>

\* `setSearch`.
SetSearch ==
  /\ MayAsk
  /\ Reloaded([Emptied(table) EXCEPT !.search = ~@])
  /\ UNCHANGED <<contacts, loader>>

\* `loadMore`: the window nears the end of the rows it holds.
LoadMore ==
  /\ ~table.loading /\ ~table.complete /\ table.cursor # Top
  /\ table' = [table EXCEPT !.loading = TRUE]
  /\ asked' = asked \union {Request(table, table.cursor, "append")}
  /\ UNCHANGED <<contacts, loader>>

MutantOfThisQuery(r) == TRUE
OfThisQuery(r) == r.generation = table.generation

\* `contacts_page` reads the page.  A read made for a superseded request
\* changes nothing, and is left out.
ReadPage ==
  \E r \in asked :
    LET page == PageOf(Parsed(r.selection), r.search, r.cursor)
    IN  /\ r.step = "page" /\ OfThisQuery(r)
        /\ asked' = (asked \ {r})
             \union {[r EXCEPT !.step = "count", !.rows = page.rows, !.next = page.next]}
        /\ UNCHANGED <<contacts, loader, table>>

\* It counts in a query of its own, later, and the answer reaches the screen:
\* one of an earlier query is dropped.
Arrives ==
  \E r \in asked :
    /\ r.step = "count" \/ ~OfThisQuery(r)
    /\ asked' = asked \ {r}
    /\ table' = IF ~OfThisQuery(r) THEN table
                ELSE [table EXCEPT !.rows = IF r.kind = "append" THEN @ \o r.rows ELSE r.rows,
                                   !.total = CountOf(Parsed(r.selection)), !.cursor = r.next,
                                   !.complete = r.next = Top, !.loading = FALSE]
    /\ UNCHANGED <<contacts, loader>>

\* The store refuses one of the two queries, and the screen keeps what it has.
Refuses ==
  \E r \in asked :
    /\ asked' = asked \ {r}
    /\ table' = IF OfThisQuery(r) THEN [table EXCEPT !.loading = FALSE] ELSE table
    /\ UNCHANGED <<contacts, loader>>

-----------------------------------------------------------------------------
(* The import.                                                             *)

\* `runImport`: one at a time, into a list or into none.
RunImport ==
  /\ loader.step = "idle" /\ loader.runs < MaxImports
  /\ \E l \in BookLists \union {NoList} :
       loader' = [step |-> "running", list |-> l, fresh |-> {}, runs |-> loader.runs + 1]
  /\ UNCHANGED <<contacts, table, asked>>

\* `insert_contacts`: the contacts of a batch, in one transaction.
InsertBatch ==
  /\ loader.step = "running"
  /\ \E batch \in {<<TRUE>>, <<FALSE, TRUE>>} :
       LET rows == [i \in DOMAIN batch |-> [found |-> batch[i], lists |-> {}]]
       IN  /\ Len(contacts) + Len(batch) <= MaxContacts
           /\ contacts' = contacts \o rows
           /\ loader' = [loader EXCEPT !.step = IF loader.list = NoList THEN "running" ELSE "joining",
                                       !.fresh = DOMAIN contacts' \ DOMAIN contacts]
  /\ UNCHANGED <<table, asked>>

\* `add_contacts_to_list`: their memberships, in another.
JoinList ==
  /\ loader.step = "joining"
  /\ contacts' = [c \in DOMAIN contacts |->
                    IF c \in loader.fresh
                      THEN [contacts[c] EXCEPT !.lists = @ \union {loader.list}] ELSE contacts[c]]
  /\ loader' = [loader EXCEPT !.step = "running"]
  /\ UNCHANGED <<table, asked>>

\* The table starts again, whatever the import came to.
AfterImport(t) == Reloaded(Emptied(t))

\* The end of the file, a cancellation, or a refusal of the store.
ImportReturns ==
  /\ loader.step \in {"running", "joining"}
  /\ loader' = [loader EXCEPT !.step = "idle"]
  /\ AfterImport(table)
  /\ UNCHANGED contacts

BookNext ==
  \/ OpenBook \/ SetSelection \/ SetSearch \/ LoadMore
  \/ ReadPage \/ Arrives \/ Refuses
  \/ RunImport \/ InsertBatch \/ JoinList \/ ImportReturns

-----------------------------------------------------------------------------
\* Whom an input means: union, intersection, nobody for no list, and what is
\* excluded excluded (lists.rs, "the trap this module exists to spell out").
Meant(input) ==
  LET wanted == ToSet(input.lists)
  IN  {c \in DOMAIN contacts :
         /\ CASE input.combination = "everything"   -> TRUE
              [] input.combination = "union"        -> \E l \in wanted : l \in contacts[c].lists
              [] input.combination = "intersection" -> wanted # {} /\ wanted \subseteq contacts[c].lists
         /\ ToSet(input.excluded) \intersect contacts[c].lists = {}}

\* What the table is asked to show.
Sought == {c \in Meant(table.selection) : table.search => contacts[c].found}

(***************************************************************************)
(* The screen never mixes two queries: its rows follow the book's order,   *)
(* none is there twice, and each is of the search and of the lists in      *)
(* force, however late the answers of earlier queries are (contacts.ts,    *)
(* "without it, an operator typing ab can end up looking at the results    *)
(* of a").                                                                 *)
(***************************************************************************)
RowsAreOneQuery ==
  /\ \A i, j \in DOMAIN table.rows : i < j => table.rows[i] < table.rows[j]
  /\ table.selection.excluded = <<>> => ToSet(table.rows) \subseteq Sought

(***************************************************************************)
(* A table that says it is complete, with no import running and no request *)
(* on its way, shows exactly whom the selection means, and counts them:    *)
(* what an import wrote while the table was being read is never missing    *)
(* from it (contacts.ts, `runImport`, "a table that did not refresh would  *)
(* be showing fewer contacts than the database holds").                    *)
(***************************************************************************)
CompleteIsWhole ==
  table.complete /\ asked = {} /\ loader.step = "idle" =>
    ToSet(table.rows) = Sought /\ table.total = Cardinality(Meant(table.selection))

(* A table waits for an answer exactly while one of its query is on its    *)
(* way: a superseded request neither frees it early nor leaves it waiting. *)
WaitsForItsQuery == table.loading <=> \E r \in asked : OfThisQuery(r)

(* The contacts screen shows the selection it names.                       *)
TableIsTheSelection == RowsAreOneQuery /\ CompleteIsWhole /\ WaitsForItsQuery
=============================================================================
