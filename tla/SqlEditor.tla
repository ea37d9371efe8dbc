----------------------------- MODULE SqlEditor ------------------------------
(***************************************************************************)
(* The SQL editor screen (sql-editor/ui, useRunQuery, useQueryHistory):    *)
(* one text, one query at a time, its outcome and the run history. A text  *)
(* is a member of a small set; the history in localStorage is whatever an  *)
(* earlier visit or another tab left there, so the screen may open on any. *)
(***************************************************************************)
EXTENDS Integers, Sequences

CONSTANTS
  Queries,        \* the texts that are tried, none of them blank
  DefaultSql,     \* the one the screen begins with
  MaxEntries,     \* the length of the history
  MaxQueryRows    \* rows the control-plane reads of a result

ASSUME SqlEditorAssumption ==
  /\ "" \notin Queries /\ DefaultSql \in Queries
  /\ MaxEntries \in Nat \ {0} /\ MaxQueryRows \in Nat \ {0}

VARIABLES
  editor,         \* the screen: the text, the mutation and its outcome
  entries         \* the run history of this tab, newest first

sqlVars == <<editor, entries>>

Texts == Queries \cup {""}
Entry == [sql : Queries, success : BOOLEAN]
Histories == UNION {[1..n -> Entry] : n \in 0..MaxEntries}

\* The outcome of a mutation: none yet (or lost in transport), a rejection by
\* the check or by Postgres, or rows.
Lost == [is |-> "none", rowCount |-> 0, truncated |-> FALSE]
QueryError == [is |-> "error", rowCount |-> 0, truncated |-> FALSE]

\* RunReadOnlyQuery over a result of k rows.
QueryResult(k) ==
  [is |-> "rows", truncated |-> k > MaxQueryRows,
   rowCount |-> IF k > MaxQueryRows THEN MaxQueryRows ELSE k]
Outcomes == {QueryError} \cup {QueryResult(k) : k \in 0..(MaxQueryRows + 1)}

EditorClosed == [open |-> FALSE, sql |-> "", pending |-> FALSE, ran |-> "",
                 outcome |-> Lost, dead |-> FALSE]

SqlInit == editor = EditorClosed /\ entries = <<>>

EditorUp == editor.open /\ ~ editor.dead

\* Opened with the default text, or with the one of a search result.
OpenEditor(text) ==
  /\ ~ editor.open
  /\ editor' = [EditorClosed EXCEPT !.open = TRUE, !.sql = text]
  /\ entries' \in Histories

\* A query in flight goes on without the screen: its answer is not recorded.
LeaveEditor == editor.open /\ editor' = EditorClosed /\ entries' = <<>>

(***************************************************************************)
(* The text. The field and its Clear are disabled while a query runs; the  *)
(* history and the catalog are not.                                        *)
(***************************************************************************)
TypeSql ==
  /\ EditorUp /\ ~ editor.pending
  /\ \E text \in Texts : editor' = [editor EXCEPT !.sql = text]
  /\ UNCHANGED entries

\* A click on a table of the catalog puts its name where the cursor is.
InsertTable ==
  /\ EditorUp
  /\ \E text \in Queries : editor' = [editor EXCEPT !.sql = text]
  /\ UNCHANGED entries

SelectEntry(i) ==
  /\ EditorUp /\ i \in DOMAIN entries
  /\ editor' = [editor EXCEPT !.sql = entries[i].sql]
  /\ UNCHANGED entries

ClearHistory == EditorUp /\ entries # <<>> /\ entries' = <<>> /\ UNCHANGED editor

(***************************************************************************)
(* The query.                                                              *)
(***************************************************************************)
handleRun ==
  /\ EditorUp /\ ~ editor.pending /\ editor.sql # ""
  /\ editor' = [editor EXCEPT !.pending = TRUE, !.ran = editor.sql,
                              !.outcome = Lost]
  /\ UNCHANGED entries

\* Mutant: the history has no limit.
AddedUncapped(entry) == <<entry>> \o entries

\* Mutant: a full history drops what is new instead of what is old.
AddedLast(entry) ==
  SubSeq(Append(entries, entry), 1,
         IF Len(entries) < MaxEntries THEN Len(entries) + 1 ELSE MaxEntries)

\* The newest entry goes first and the oldest one too many goes.
Added(entry) ==
  SubSeq(<<entry>> \o entries, 1,
         IF Len(entries) < MaxEntries THEN Len(entries) + 1 ELSE MaxEntries)

\* A result without rows comes without the field rows (omitempty), and the
\* table that reads its length throws: the render, the new entry with it, is
\* lost with the page.
RowsField(o) == o.is = "rows" => o.rowCount > 0

Answered ==
  /\ EditorUp /\ editor.pending
  /\ \E o \in Outcomes :
       \/ /\ RowsField(o)
          /\ editor' = [editor EXCEPT !.pending = FALSE, !.outcome = o]
          /\ entries' = Added([sql |-> editor.ran, success |-> o.is = "rows"])
       \/ /\ ~ RowsField(o)
          /\ editor' = [editor EXCEPT !.pending = FALSE, !.dead = TRUE]
          /\ UNCHANGED entries

\* The request itself fails: the screen is as if nothing had been run, and
\* nothing is recorded.
TransportFails ==
  /\ EditorUp /\ editor.pending
  /\ editor' = [editor EXCEPT !.pending = FALSE]
  /\ UNCHANGED entries

SqlStep ==
  \/ TypeSql \/ InsertTable \/ ClearHistory
  \/ \E i \in DOMAIN entries : SelectEntry(i)
  \/ handleRun \/ Answered \/ TransportFails

SqlNext ==
  \/ \E text \in Queries : OpenEditor(text)
  \/ LeaveEditor \/ SqlStep
SqlSpec == SqlInit /\ [][SqlNext]_sqlVars

(***************************************************************************)
(* Properties.                                                             *)
(***************************************************************************)
SqlTypeOK ==
  /\ editor \in [open : BOOLEAN, sql : Texts, pending : BOOLEAN, ran : Texts,
                 outcome : Outcomes \cup {Lost}, dead : BOOLEAN]
  /\ entries \in Histories

\* The result on the screen is that of the newest entry of the history, unless
\* the history was cleared since: the two are updated by one answer, whatever
\* was typed, selected or inserted while the query ran
\* (SqlEditorScreen.tsx:41-54, useQueryHistory.ts:39-41).
ShownIsRecorded ==
  editor.outcome # Lost /\ entries # <<>> =>
    entries[1] = [sql |-> editor.ran, success |-> editor.outcome.is = "rows"]
=============================================================================
