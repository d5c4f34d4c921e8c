----------------------------- MODULE Navigation -----------------------------
(* What the designer's main area shows (App.tsx, router.ts), the browser     *)
(* history that mirrors it, and the command palette that jumps about it      *)
(* (CommandPalette.tsx, search.ts, recent.ts). A browser task and the        *)
(* effects of its render are one step.                                       *)
EXTENDS Integers, Sequences, FiniteSets, SequencesExt

CONSTANTS Indexes,      \* the index names the user works with
          LoadedIndexes,\* those of the project on disk, in order
          Landings,     \* the routes the user opens the designer at
          RecentCap,    \* picks remembered (3 in the code)
          MaxEntries,   \* bound: entries of the browser history
          MaxMoves      \* bound: what the user does

VARIABLES rows,      \* the indexes of the edited document, in order
          pastRows,  \* those before the last change, for undo
          browse,    \* the table browser is up
          active,    \* the index, or "config"
          raw,       \* Code mode
          entries,   \* the browser history, as routes
          at,        \* the place in it
          routed,    \* routedOnce: a route was written
          astray,    \* history: Back or Forward met an index that is gone
          undone,    \* history: an undo or redo took the active index away
          recents,   \* the remembered picks
          sidebar, wizard,  \* the sidebar is open; New index was asked for
          moves

navVars == <<rows, pastRows, browse, active, raw, entries, at, routed, astray, undone,
             recents, sidebar, wizard, moves>>
Shelf == <<recents, sidebar, wizard>>

----------------------------------------------------------------------------
(* Routes. A path the router does not know is Nowhere. *)

Route(view, name, code) == [view |-> view, name |-> name, code |-> code]
Nowhere == Route("none", "", FALSE)
Deployment == Route("deployment", "", FALSE)
TablesRoute == Route("tables", "", FALSE)
formatRoute(b, a, r) ==
    IF b THEN TablesRoute
    ELSE IF a = "config" THEN Deployment ELSE Route("index", a, r)

URL == entries[at]
Shows == formatRoute(browse, active, raw)

(* The view a route asks for: the flags after applyRoute. *)
Bug_applyRouteKeepsMode(route, b, a, r) ==
    IF route.view = "tables" THEN [browse |-> TRUE, active |-> a, raw |-> r]
    ELSE IF route.view = "deployment" THEN [browse |-> FALSE, active |-> "config", raw |-> FALSE]
    ELSE IF route.name \in ToSet(rows) THEN [browse |-> FALSE, active |-> route.name, raw |-> r]
    ELSE [browse |-> FALSE, active |-> a, raw |-> r]
applyRoute(route, b, a, r) ==
    IF route.view = "tables" THEN [browse |-> TRUE, active |-> a, raw |-> r]
    ELSE IF route.view = "deployment" THEN [browse |-> FALSE, active |-> "config", raw |-> FALSE]
    ELSE IF route.name \in ToSet(rows) THEN [browse |-> FALSE, active |-> route.name, raw |-> route.code]
    ELSE [browse |-> FALSE, active |-> a, raw |-> r]

(* The effect that writes the URL, when the document or the route changed:   *)
(* the first write replaces the entry, the others push and drop what is      *)
(* forward.                                                                  *)
Bug_WriteUrl(from, path) ==
    /\ at' = from + 1
    /\ entries' = Append(SubSeq(entries, 1, from), path)
    /\ from < MaxEntries
    /\ routed' = TRUE
WriteUrl(from, path) ==
    IF path = entries[from] \/ (path = Shows /\ rows' = rows)
    THEN /\ at' = from
         /\ UNCHANGED <<entries, routed>>
    ELSE /\ routed' = TRUE
         /\ IF routed
            THEN /\ from < MaxEntries
                 /\ at' = from + 1
                 /\ entries' = Append(SubSeq(entries, 1, from), path)
            ELSE /\ at' = from
                 /\ entries' = [entries EXCEPT ![from] = path]

Move == moves < MaxMoves /\ moves' = moves + 1
(* Another view, of the rows after the step. *)
Show(b, a, r) ==
    /\ Move
    /\ browse' = b /\ active' = a /\ raw' = r
    /\ WriteUrl(at, formatRoute(b, a, r))
    /\ astray' = (astray /\ formatRoute(b, a, r) = Shows /\ rows' = rows)
    /\ undone' = (undone /\ a \notin ToSet(rows') \cup {"config"})
SameRows == UNCHANGED <<rows, pastRows>>

----------------------------------------------------------------------------
(* The sidebar, the top bar and the palette. *)

ShowDeployment == SameRows /\ Show(FALSE, "config", raw)
ShowTables == SameRows /\ Show(TRUE, active, raw)
openIndex(n) == SameRows /\ Show(FALSE, n, raw)
(* The switch works behind the table browser too; not on the deployment.     *)
ToggleMode == active # "config" /\ SameRows /\ Show(browse, active, ~raw)
(* A field or a node is on the canvas of its index. *)
JumpToField(n) == SameRows /\ Show(FALSE, n, FALSE)

(* recordPickRecent: to the front, once, capped. *)
Bug_recordUncapped(list, pick) == <<pick>> \o SelectSeq(list, LAMBDA p : p # pick)
recordPickRecent(list, pick) ==
    LET next == <<pick>> \o SelectSeq(list, LAMBDA p : p # pick)
    IN SubSeq(next, 1, IF Len(next) > RecentCap THEN RecentCap ELSE Len(next))
Picked(record) == recents' = recordPickRecent(recents, record)

Rest == SameRows /\ UNCHANGED <<browse, active, raw, entries, at, routed, astray, undone>>
Record(kind, name) == [kind |-> kind, name |-> name]
(* onSelect: remember the pick, then run its command or jump to its target.  *)
onSelect ==
    \/ Picked(Record("deployment", "")) /\ ShowDeployment /\ UNCHANGED <<sidebar, wizard>>
    \/ Picked(Record("tables", "")) /\ ShowTables /\ UNCHANGED <<sidebar, wizard>>
    \/ Picked(Record("mode", "")) /\ ToggleMode /\ UNCHANGED <<sidebar, wizard>>
    \/ \E n \in ToSet(rows) :
           \/ Picked(Record("index", n)) /\ openIndex(n) /\ UNCHANGED <<sidebar, wizard>>
           \/ Picked(Record("field", n)) /\ JumpToField(n) /\ UNCHANGED <<sidebar, wizard>>
    \/ Picked(Record("sidebar", "")) /\ Move /\ sidebar' = ~sidebar /\ Rest /\ UNCHANGED wizard
    \/ Picked(Record("newIndex", "")) /\ Move /\ wizard' = TRUE /\ Rest /\ UNCHANGED sidebar

removeRecent(pick) ==
    /\ Move /\ Rest
    /\ pick \in ToSet(recents)
    /\ recents' = SelectSeq(recents, LAMBDA p : p # pick)
    /\ UNCHANGED <<sidebar, wizard>>

toggleSidebar == Move /\ sidebar' = ~sidebar /\ Rest /\ UNCHANGED <<recents, wizard>>
(* The button is in the sidebar; so is the dialog. *)
OpenWizard == Move /\ sidebar /\ ~wizard /\ wizard' = TRUE /\ Rest /\ UNCHANGED <<recents, sidebar>>
CloseWizard == Move /\ sidebar /\ wizard /\ wizard' = FALSE /\ Rest /\ UNCHANGED <<recents, sidebar>>

----------------------------------------------------------------------------
(* Changes of the document that move the view. *)

Edit(next) == rows' = next /\ pastRows' = rows
createIndex(n) ==
    /\ sidebar /\ wizard
    /\ n \notin ToSet(rows)
    /\ Edit(Append(rows, n))
    /\ Show(browse, n, raw)
    /\ wizard' = FALSE
    /\ UNCHANGED <<recents, sidebar>>
(* The deployment's table of indexes. *)
OnDeployment == ~browse /\ active = "config"
removeIndex(n) ==
    /\ OnDeployment
    /\ Edit(SelectSeq(rows, LAMBDA r : r # n))
    /\ Show(browse, active, raw)
    /\ UNCHANGED Shelf
renameIndex(n, m) ==
    /\ OnDeployment
    /\ m \notin ToSet(rows)
    /\ Edit([k \in DOMAIN rows |-> IF rows[k] = n THEN m ELSE rows[k]])
    /\ Show(browse, active, raw)
    /\ UNCHANGED Shelf
(* Undo and redo: the document alone. *)
Undo ==
    /\ pastRows # rows
    /\ Edit(pastRows)
    /\ Move
    /\ WriteUrl(at, Shows)
    /\ astray' = FALSE
    /\ undone' = (active \notin ToSet(rows') \cup {"config"})
    /\ UNCHANGED <<browse, active, raw>>
    /\ UNCHANGED Shelf
Bug_revertKeepsActive ==
    /\ rows # LoadedIndexes
    /\ Edit(LoadedIndexes)
    /\ Show(browse, active, raw)
    /\ UNCHANGED Shelf
revertChanges ==
    /\ rows # LoadedIndexes
    /\ Edit(LoadedIndexes)
    /\ Show(browse, IF active \in ToSet(LoadedIndexes) \cup {"config"} THEN active
                    ELSE IF LoadedIndexes # <<>> THEN LoadedIndexes[1] ELSE "config", raw)
    /\ UNCHANGED Shelf

----------------------------------------------------------------------------
(* Back and Forward: the browser moves, popstate applies the route, and the  *)
(* effect writes a route only when the view changed to another one. No entry *)
(* is Nowhere: the load replaces the landing's.                              *)
Gone(route) == route.view = "index" /\ route.name \notin ToSet(rows)
Travel(to) ==
    LET v == applyRoute(entries[to], browse, active, raw)
        path == formatRoute(v.browse, v.active, v.raw)
    IN /\ Move
       /\ to \in DOMAIN entries
       /\ SameRows
       /\ UNCHANGED Shelf
       /\ browse' = v.browse /\ active' = v.active /\ raw' = v.raw
       /\ WriteUrl(to, path)
       /\ astray' = (Gone(entries[to]) /\ path = Shows)
       /\ undone' = (undone /\ v.active = active)
Back == Travel(at - 1)
Forward == Travel(at + 1)

(* The project loads with its first index active; the landing route wins.    *)
NavInit ==
    /\ rows = LoadedIndexes /\ pastRows = LoadedIndexes
    /\ \E landing \in Landings :
          LET first == IF rows = <<>> THEN "config" ELSE rows[1]
              v == IF landing = Nowhere THEN [browse |-> FALSE, active |-> first, raw |-> FALSE]
                   ELSE applyRoute(landing, FALSE, first, FALSE)
              path == formatRoute(v.browse, v.active, v.raw)
          IN /\ browse = v.browse /\ active = v.active /\ raw = v.raw
             /\ entries = <<path>>
             /\ routed = (path # landing)
    /\ at = 1
    /\ astray = FALSE /\ undone = FALSE
    /\ recents = <<>>
    /\ sidebar = TRUE /\ wizard = FALSE
    /\ moves = 0

NavNext ==
    \/ (ShowDeployment \/ ShowTables \/ ToggleMode) /\ UNCHANGED Shelf
    \/ \E n \in ToSet(rows) : openIndex(n) /\ UNCHANGED Shelf
    \/ onSelect
    \/ \E pick \in ToSet(recents) : removeRecent(pick)
    \/ toggleSidebar
    \/ OpenWizard
    \/ CloseWizard
    \/ \E n \in Indexes : createIndex(n)
    \/ \E n \in ToSet(rows) : removeIndex(n) \/ \E m \in Indexes : renameIndex(n, m)
    \/ Undo
    \/ revertChanges
    \/ Back
    \/ Forward

----------------------------------------------------------------------------
(* Properties *)

(* Types. *)
NavTypeOK ==
    /\ ToSet(rows) \subseteq Indexes /\ Len(rows) = Cardinality(ToSet(rows))
    /\ active \in Indexes \cup {"config"}
    /\ {browse, raw, routed, sidebar, wizard} \subseteq BOOLEAN
    /\ at \in DOMAIN entries /\ Len(entries) <= MaxEntries
    /\ Len(recents) <= RecentCap /\ moves \in 0..MaxMoves

(* The address names what the main area shows (router.ts:12), unless Back or *)
(* Forward met an index that is gone.                                        *)
UrlMirrorsView == astray \/ URL = Shows

(* Going back or forward to a place that still exists shows it and loses no  *)
(* entry of the history (App.tsx: the state's own write "can't loop").       *)
Stands(to) == to \in DOMAIN entries /\ ~Gone(entries[to])
HistoryKept ==
    \A to \in {at - 1, at + 1} :
        Stands(to) /\ Travel(to) =>
            entries' = entries /\ formatRoute(browse', active', raw') = entries[to]
TravelKeepsHistory == [][HistoryKept]_navVars

(* The main area is never blank: an active index has its row, unless an undo *)
(* took it away (revertChanges, design.ts:222).                              *)
MainIsNeverBlank == undone \/ browse \/ active \in ToSet(rows) \cup {"config"}
=============================================================================
