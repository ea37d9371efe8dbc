------------------------------- MODULE Search -------------------------------
(***************************************************************************)
(* The search field of the top bar (shared/layout/SearchBar.tsx,           *)
(* shared/search): a text, the rows it lists and the one that is           *)
(* highlighted. Two of the four lists are static, two are fetched while    *)
(* the field has the focus and may change under the same text.             *)
(*                                                                         *)
(* A row is where it leads and what it carries there: a table a query for  *)
(* the editor, a job or a run itself for the screen of the pipelines.      *)
(* Which rows match a term is data.                                        *)
(*                                                                         *)
(* The field "aim" is history: the row that was highlighted when the user  *)
(* last typed, pressed an arrow or moved the mouse over a row, and the     *)
(* list it was in, for as long as neither that list nor one above it is    *)
(* answered anew. The code has no such thing and no guard here reads it.   *)
(***************************************************************************)
EXTENDS Integers, Sequences

CONSTANTS
  Routes,         \* the paths of the console
  TableSql,       \* the queries the rows of tables carry
  JobTypes,       \* the jobs that rows of jobs carry
  RunIds,         \* the runs that rows of runs carry
  Terms,          \* what is searched for, none of them blank
  Static,         \* the screens and jobs each term matches, in order
  MaxHits         \* the most rows of one fetched list

VARIABLE search

\* What the screen of a path can be handed with the address.
Handed(path) ==
  {""} \cup (IF path = "/sql-editor" THEN TableSql ELSE {})
       \cup (IF path = "/pipelines" THEN JobTypes \cup RunIds ELSE {})

Carried == {""} \cup TableSql \cup JobTypes \cup RunIds
Row == {row \in [to : Routes, carries : Carried] : row.carries \in Handed(row.to)}

ASSUME SearchAssumption ==
  /\ "" \notin Terms \cup TableSql \cup JobTypes \cup RunIds
  /\ {"/pipelines", "/sql-editor"} \subseteq Routes
  /\ Static \in [Terms -> Seq(Row)] /\ MaxHits \in Nat

TableRow(q) == [to |-> "/sql-editor", carries |-> q]
RunRow(id) == [to |-> "/pipelines", carries |-> id]

\* The rows of the two fetched lists. A list not fetched yet, or whose fetch
\* failed, has none.
TableLists == UNION {[1..n -> {TableRow(q) : q \in TableSql}] :
                       n \in 0..MaxHits}
RunLists == UNION {[1..n -> {RunRow(id) : id \in RunIds}] : n \in 0..MaxHits}

NoAim == [list |-> "none", row |-> [to |-> "", carries |-> ""]]
Aims == {NoAim} \cup [list : {"static", "tables", "runs"}, row : Row]

Blank == [query |-> "", focused |-> FALSE, highlighted |-> 0,
          tables |-> <<>>, runs |-> <<>>, aim |-> NoAim]

\* Mutant: the fetched lists come above the static ones.
ListedFetchedFirst(s) ==
  IF s.focused /\ s.query # "" THEN s.tables \o s.runs \o Static[s.query]
  ELSE <<>>

Listed(s) ==
  IF s.focused /\ s.query # "" THEN Static[s.query] \o s.tables \o s.runs
  ELSE <<>>

\* The list that holds row i.
ListOf(s, i) ==
  IF i <= Len(Static[s.query]) THEN "static"
  ELSE IF i <= Len(Static[s.query]) + Len(s.tables) THEN "tables" ELSE "runs"

Aimed(s) ==
  LET i == s.highlighted + 1
  IN  [s EXCEPT !.aim = IF i \in DOMAIN Listed(s)
                        THEN [list |-> ListOf(s, i), row |-> Listed(s)[i]]
                        ELSE NoAim]

SearchInit == search = Blank

Focus == search' = [search EXCEPT !.focused = TRUE]
Blur == search.focused /\ search' = [search EXCEPT !.focused = FALSE]

\* Another text lists other rows, and its first one is highlighted again.
Type ==
  /\ search.focused
  /\ \E term \in Terms \ {search.query}, ts \in TableLists, rs \in RunLists :
       search' = Aimed([search EXCEPT !.query = term, !.highlighted = 0,
                                      !.tables = ts, !.runs = rs])

\* The text is emptied by hand or by its button, which takes the focus.
Clear == search.query # "" /\ search' = [Blank EXCEPT !.focused = TRUE]

Escape == search.focused /\ search' = Blank

\* A fetch or a refetch is answered, also after the field lost the focus: the
\* highlight stays where it was, whatever row comes under it.
AimIf(lists) == IF search.aim.list \in lists THEN search.aim ELSE NoAim

TablesArrive ==
  /\ search.query # ""
  /\ \E ts \in TableLists :
       search' = [search EXCEPT !.tables = ts, !.aim = AimIf({"static"})]

RunsArrive ==
  /\ search.query # ""
  /\ \E rs \in RunLists :
       search' = [search EXCEPT !.runs = rs, !.aim = AimIf({"static", "tables"})]

Arrow(by) ==
  LET n == Len(Listed(search))
  IN  /\ n > 0
      /\ search' = Aimed([search EXCEPT !.highlighted = (@ + by + n) % n])

Hover(i) ==
  /\ i \in DOMAIN Listed(search)
  /\ search' = Aimed([search EXCEPT !.highlighted = i - 1])

SearchStep ==
  \/ Focus \/ Blur \/ Type \/ Clear \/ Escape \/ TablesArrive \/ RunsArrive
  \/ \E by \in {-1, 1} : Arrow(by)
  \/ \E i \in DOMAIN Listed(search) : Hover(i)

\* What can be opened: any row with the mouse, the highlighted one with Enter.
\* A list that became shorter may leave nothing under the highlight, and Enter
\* then does nothing.
select(i) == i \in DOMAIN Listed(search) /\ search' = Blank

SearchTypeOK ==
  /\ search.query \in Terms \cup {""} /\ search.focused \in BOOLEAN
  /\ search.tables \in TableLists /\ search.runs \in RunLists
  /\ search.highlighted \in Nat
  /\ search.aim \in Aims
=============================================================================
