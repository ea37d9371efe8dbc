------------------------------ MODULE Console ------------------------------
(***************************************************************************)
(* The console in one tab (app/router.tsx, shared/layout): a bar with the  *)
(* search field that stays, and one screen at a time below it. A screen    *)
(* begins anew each time it is visited; what its caches and localStorage   *)
(* keep for it is in the choices of its Open action.                       *)
(*                                                                         *)
(* The screens modelled here are Dashboards, SqlEditor, Catalog and        *)
(* Infrastructure. Pipelines, Streaming and Settings have modules of their *)
(* own (PipelinesScreen, TripStream, ReplayControl, Appearance), and of    *)
(* the others only the address is here.                                    *)
(***************************************************************************)
EXTENDS Dashboards, SqlEditor, Infrastructure, Catalog, Search

VARIABLES
  screen,   \* the path, or Away: no page of the console is loaded
  given     \* what the screen was handed with the address when it was mounted

vars == <<screen, given, search, dashVars, sqlVars, infraVars, catalogVars>>

ASSUME ConsoleAssumption ==
  /\ {"/dashboards", "/sql-editor", "/infrastructure", "/data-catalog"} \subseteq Routes
  /\ TableSql \subseteq Queries

Away == "away"

Init ==
  /\ screen = Away /\ given = "" /\ SearchInit
  /\ DashInit /\ SqlInit /\ InfraInit /\ CatalogInit

\* A render that throws takes the whole page with it: no route has an error
\* element of its own.
PageLost == chart.dead \/ editor.dead \/ lost

(***************************************************************************)
(* Navigation: the part of each screen in a change of path.                *)
(***************************************************************************)
ToDashboards(path) ==
  \/ path = "/dashboards" /\ OpenDashboards
  \/ screen = "/dashboards" /\ LeaveDashboards
  \/ "/dashboards" \notin {path, screen} /\ UNCHANGED dashVars

\* The text a search result carries is read once, when the screen is mounted.
FirstText(carried) == IF carried = "" THEN DefaultSql ELSE carried

ToSqlEditor(path, carried) ==
  \/ path = "/sql-editor" /\ OpenEditor(FirstText(carried))
  \/ screen = "/sql-editor" /\ LeaveEditor
  \/ "/sql-editor" \notin {path, screen} /\ UNCHANGED sqlVars

ToInfrastructure(path) ==
  \/ path = "/infrastructure" /\ OpenInfrastructure
  \/ screen = "/infrastructure" /\ LeaveInfrastructure
  \/ "/infrastructure" \notin {path, screen} /\ UNCHANGED infraVars

ToCatalog(path) ==
  \/ path = "/data-catalog" /\ OpenCatalog
  \/ screen = "/data-catalog" /\ LeaveCatalog
  \/ "/data-catalog" \notin {path, screen} /\ UNCHANGED catalogVars

screenVars == <<screen, given, dashVars, sqlVars, infraVars, catalogVars>>

\* To the path the console is on already, nothing is mounted anew: the screen
\* keeps what it was handed first.
navigate(path, carried) ==
  \/ path = screen /\ UNCHANGED screenVars
  \/ /\ path # screen /\ screen' = path /\ given' = carried
     /\ ToDashboards(path) /\ ToSqlEditor(path, carried)
     /\ ToInfrastructure(path) /\ ToCatalog(path)

\* A link of the sidebar or of the account menu, which hands over nothing, or
\* the browser's Back, which hands over what the address had. That the links
\* may hide behind the drawer only says which can be reached.
FollowLink(path) ==
  /\ screen # Away /\ ~ PageLost /\ path # screen
  /\ \E carried \in Handed(path) : navigate(path, carried)
  /\ UNCHANGED search

\* Any row is opened with the mouse, the highlighted one with Enter.
OpenResult(i) ==
  /\ screen # Away /\ ~ PageLost
  /\ select(i) /\ navigate(Listed(search)[i].to, Listed(search)[i].carries)

Enter == OpenResult(search.highlighted + 1)

\* The page is loaded, or left or reloaded, whatever it shows. A reload keeps
\* what the address had.
LoadPage(path) ==
  /\ screen = Away
  /\ \E carried \in Handed(path) : navigate(path, carried)
  /\ UNCHANGED search

LeavePage == screen # Away /\ navigate(Away, "") /\ search' = Blank

(***************************************************************************)
(* What happens on the page.                                               *)
(***************************************************************************)
InSearch ==
  /\ screen # Away /\ ~ PageLost
  /\ SearchStep /\ UNCHANGED screenVars

InDashboards == DashStep /\ UNCHANGED <<screen, given, search, sqlVars, infraVars, catalogVars>>
InSqlEditor == SqlStep /\ UNCHANGED <<screen, given, search, dashVars, infraVars, catalogVars>>
InInfrastructure == InfraStep /\ UNCHANGED <<screen, given, search, dashVars, sqlVars, catalogVars>>
InCatalog == CatalogStep /\ UNCHANGED <<screen, given, search, dashVars, sqlVars, infraVars>>

Next ==
  \/ \E path \in Routes : LoadPage(path) \/ FollowLink(path)
  \/ \E i \in DOMAIN Listed(search) : OpenResult(i)
  \/ LeavePage
  \/ InSearch \/ InDashboards \/ InSqlEditor \/ InInfrastructure \/ InCatalog

Spec == Init /\ [][Next]_vars

(***************************************************************************)
(* Properties.                                                             *)
(***************************************************************************)

\* The screens are well typed, and only the one that is shown has a state.
TypeOK ==
  /\ screen \in Routes \cup {Away} /\ given \in Handed(screen)
  /\ SearchTypeOK /\ DashTypeOK /\ SqlTypeOK /\ InfraTypeOK /\ CatalogTypeOK
  /\ overview # Closed <=> screen = "/dashboards"
  /\ editor.open <=> screen = "/sql-editor"
  /\ health.st # "closed" <=> screen = "/infrastructure"
  /\ schema # "closed" <=> screen = "/data-catalog"

\* Enter opens the row the user has highlighted and no other, although the
\* lists are answered while the user looks at them: an answer that comes to a
\* list below that row does not move it from under the highlight. From another
\* screen it lands on that row's, which gets what the row carries, and the
\* editor starts with it (SearchBar.tsx:13-18, 28-35 and 61-71).
HighlightedIsOpened ==
  [][search.aim # NoAim /\ Enter
     => LET row == search.aim.row
        IN  /\ screen' = row.to
            /\ screen' # screen =>
                 /\ given' = row.carries
                 /\ row.to = "/sql-editor" =>
                      editor'.sql = FirstText(row.carries)]_vars

\* An empty table is no reason to lose the page: an empty result, in the editor
\* or in a preview, is shown as "Query succeeded with no rows returned."
\* (ResultsTable.tsx:49-52).
EmptyResultIsShown == ~ editor.dead /\ ~ lost
=============================================================================
