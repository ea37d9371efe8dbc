------------------------------ MODULE Catalog ------------------------------
(***************************************************************************)
(* The Data Catalog screen: the tables of Postgres, each with a preview    *)
(* that is asked for when the table is first expanded, and the layers of   *)
(* the lake (data-catalog/ui, useTablePreview, useLakeCatalog).            *)
(*                                                                         *)
(* A preview is two queries at once, a count and a sample, each a          *)
(* transaction of its own: either may be refused, and they may disagree.   *)
(***************************************************************************)
CONSTANTS
  Tables, Layers

VARIABLES
  schema,         \* the list of tables: its query
  previews,       \* each table's row of the panel
  lake,           \* the inventory of the lake: its query, and the open layers
  lost            \* has a render thrown?

catalogVars == <<schema, previews, lake, lost>>

Fetches == {"closed", "loading", "error", "ok"}
Counts == {"refused", "zero", "some"}
Samples == {"refused", "empty", "rows"}
Untouched == [expanded |-> FALSE, is |-> "none", count |-> "refused", sample |-> "refused"]
Collapsed == [t \in Tables |-> Untouched]
LakeShows(st) == [st |-> st, expanded |-> {}]

CatalogInit ==
  /\ schema = "closed" /\ previews = Collapsed
  /\ lake = LakeShows("closed") /\ lost = FALSE

\* Both queries may still be cached, for ten minutes without a new fetch.
OpenCatalog ==
  /\ schema = "closed"
  /\ schema' \in {"loading", "ok"} /\ previews' = Collapsed
  /\ lake' \in {LakeShows(st) : st \in {"loading", "unreachable", "empty", "ok"}}
  /\ lost' = FALSE

LeaveCatalog ==
  /\ schema # "closed"
  /\ schema' = "closed" /\ previews' = Collapsed
  /\ lake' = LakeShows("closed") /\ lost' = FALSE

CatalogUp == schema # "closed" /\ ~ lost

\* A panel that is in error has no rows, and rows that come back are new ones.
SchemaAnswered ==
  /\ CatalogUp
  /\ \/ schema' = "ok" /\ UNCHANGED previews
     \/ schema' = "error" /\ previews' = Collapsed
  /\ UNCHANGED <<lake, lost>>

\* The listing may fail, the store may be down, and all of it may be empty.
LakeAnswered ==
  /\ CatalogUp
  /\ lake' \in {LakeShows(st) : st \in {"error", "unreachable", "empty"}}
       \cup {[lake EXCEPT !.st = "ok"]}
  /\ UNCHANGED <<schema, previews, lost>>

ToggleLayer(l) ==
  /\ CatalogUp /\ lake.st = "ok"
  /\ lake' = [lake EXCEPT !.expanded = IF l \in @ THEN @ \ {l} ELSE @ \cup {l}]
  /\ UNCHANGED <<schema, previews, lost>>

\* A sample without rows has no field rows, and its table throws.
SampleThrows(row) == row.expanded /\ row.is = "data" /\ row.sample = "empty"

ShowRow(t, row) ==
  previews' = [previews EXCEPT ![t] = row] /\ lost' = SampleThrows(row)

\* What was shown or is asked for is not asked for again; what failed is.
handleToggle(t) ==
  /\ CatalogUp /\ schema = "ok"
  /\ LET row == previews[t]
         asks == ~ row.expanded /\ row.is \notin {"data", "pending"}
     IN  ShowRow(t, [row EXCEPT !.expanded = ~ @, !.is = IF asks THEN "pending" ELSE @])
  /\ UNCHANGED <<schema, lake>>

PreviewAnswered(t) ==
  /\ CatalogUp /\ previews[t].is = "pending"
  /\ \E count \in Counts, sample \in Samples :
       ShowRow(t, [previews[t] EXCEPT !.is = "data", !.count = count, !.sample = sample])
  /\ UNCHANGED <<schema, lake>>

\* Either request is lost: there is no preview at all.
PreviewFails(t) ==
  /\ CatalogUp /\ previews[t].is = "pending"
  /\ ShowRow(t, [previews[t] EXCEPT !.is = "failed"])
  /\ UNCHANGED <<schema, lake>>

CatalogStep ==
  \/ SchemaAnswered \/ LakeAnswered
  \/ \E l \in Layers : ToggleLayer(l)
  \/ \E t \in Tables : handleToggle(t) \/ PreviewAnswered(t) \/ PreviewFails(t)

CatalogTypeOK ==
  /\ schema \in Fetches /\ lost \in BOOLEAN
  /\ previews \in [Tables -> [expanded : BOOLEAN, is : {"none", "pending", "failed", "data"},
                              count : Counts, sample : Samples]]
  /\ lake \in [st : Fetches \cup {"unreachable", "empty"}, expanded : SUBSET Layers]
  /\ lake.expanded # {} => lake.st = "ok"
=============================================================================
