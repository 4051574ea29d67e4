----------------------------- MODULE ShellView -----------------------------
(***************************************************************************)
(* The window of shell/shell.c: which row of the tree is shown, and the    *)
(* timers a shown entry starts: update_field() for each field that asks    *)
(* for an UpdateInterval, kept in the list update_sfusrc, reload_section() *)
(* and rescan_section() for the whole entry, kept nowhere.  A timer finds  *)
(* out by itself that its entry is no longer selected.  module_selected(), *)
(* shell_do_reload() and reload_section() let events pass while they work  *)
(* or while the entry is scanned, so timers and clicks are dispatched      *)
(* inside them: `stack' has the calls that do.                             *)
(***************************************************************************)
EXTENDS Integers, Sequences

CONSTANTS
  Entries, None,
  Summary,   \* the row of a module, which has a summary and no entry
  Fields,    \* per entry: how many fields ask for an UpdateInterval
  Reloads,   \* the entries that ask for a ReloadInterval
  Rescans,   \* and for a RescanInterval
  Slow,      \* the entries whose scan spawns a command or pulses the status
             \* bar, which lets events pass
  MaxShows,  \* bound on the calls of module_selected_show_info()
  MaxDepth   \* and on how deep calls nest

(* The two entries with a RescanInterval, Memory Usage and Sensors, read   *)
(* files and sockets and spawn nothing (computer.c:378, devices.c:769).    *)
ASSUME ViewAssumption ==
  /\ None \notin Entries /\ Summary \notin Entries /\ None # Summary
  /\ Fields \in [Entries -> Nat] /\ MaxShows \in Nat /\ MaxDepth \in Nat
  /\ Reloads \subseteq Entries /\ Rescans \subseteq Entries /\ Slow \subseteq Entries
  /\ Rescans \cap Slow = {}

Row   == Entries \cup {Summary}
Show  == 1 .. MaxShows
Field == UNION {1 .. Fields[e] : e \in Entries}
Fu    == Show \X Field      \* the ShellFieldUpdates and their sources

VARIABLES
  tree,      \* the selected row of the tree
  stack,     \* the calls letting events pass: [at, row], innermost first
  current,   \* module_selected()'s static
  selected,  \* per entry: entry->selected
  scanned,   \* per entry: its scan function's static, which makes scans quick
  shellSelected,   \* shell->selected
  refreshOn, \* RefreshAction is sensitive
  shown,     \* what the window shows: [row, show]
  shows, showOf,   \* the shows there were, and what each showed
  tbl,       \* update_tbl: per entry the show that put its items there, or 0
  mem, source,     \* per ShellFieldUpdate: its memory, its timeout
  list,      \* update_sfusrc
  reload, rescan   \* per entry: how many timeouts

tree_vars  == <<tree, current, selected, scanned, shellSelected, refreshOn>>
view_vars  == <<shown, shows, showOf, tbl>>
timer_vars == <<mem, source, list, reload, rescan>>
vars       == <<stack, tree_vars, view_vars, timer_vars>>

FuOf(k, e) == {u \in Fu : u[1] = k /\ u[2] <= Fields[e]}

Init ==
  /\ tree = None /\ stack = <<>> /\ current = None
  /\ selected = [e \in Entries |-> FALSE] /\ scanned = [e \in Entries |-> FALSE]
  /\ shellSelected = None
  /\ refreshOn = FALSE
  /\ shown = [row |-> None, show |-> 0] /\ shows = 0
  /\ showOf = [k \in Show |-> None] /\ tbl = [e \in Entries |-> 0]
  /\ mem = [u \in Fu |-> "none"] /\ source = [u \in Fu |-> FALSE] /\ list = {}
  /\ reload = [e \in Entries |-> 0] /\ rescan = [e \in Entries |-> 0]
-----------------------------------------------------------------------------
(* module_selected_show_info(): the old field timers go, those the entry   *)
(* asks for come, and another one reloads or rescans it.                   *)
LateClear(e, k)     == {}
Timed(e, k)         == FuOf(k, e)

Again(e, n)    == IF e \in Reloads THEN [n EXCEPT ![e] = @ + 1] ELSE n

ShowInfo(e, again, timers) ==
  /\ shows < MaxShows
  /\ shows' = shows + 1
  /\ showOf' = [showOf EXCEPT ![shows + 1] = e]
  /\ shown' = [row |-> e, show |-> shows + 1]
  /\ tbl' = IF again THEN [tbl EXCEPT ![e] = shows + 1]
            ELSE [x \in Entries |-> IF x = e THEN shows + 1 ELSE 0]
  /\ mem' = [u \in Fu |-> IF u \in list THEN "freed"
                          ELSE IF u \in FuOf(shows + 1, e) THEN "live" ELSE mem[u]]
  /\ source' = [u \in Fu |-> (source[u] /\ u \notin list) \/ u \in Timed(e, shows + 1)]
  /\ list' = Timed(e, shows + 1)
  /\ reload' = Again(e, timers)
  /\ rescan' = IF e \in Rescans THEN [rescan EXCEPT ![e] = @ + 1] ELSE rescan
-----------------------------------------------------------------------------
(* module_selected(), called with the calls `below' on the stack.          *)
Updating(below) ==
  \E i \in 1 .. Len(below) : below[i].at \in {"updating", "scan", "done", "summary"}

KeepSelected  == selected
Unselected    == [e \in Entries |-> selected[e] /\ e # current]

ModuleSelected(row, below, refresh) ==
  /\ selected' = Unselected
  /\ \/ /\ Updating(below)
        /\ stack' = below /\ refreshOn' = refresh /\ UNCHANGED shown
     \/ /\ ~Updating(below) /\ row \in Entries
        /\ stack' = <<[at |-> "updating", row |-> row]>> \o below
        /\ refreshOn' = refresh /\ UNCHANGED shown
     \/ /\ ~Updating(below) /\ row = Summary
        /\ stack' = <<[at |-> "summary", row |-> row]>> \o below
        /\ refreshOn' = FALSE
        /\ shown' = [row |-> Summary, show |-> 0]

(* The user selects a row, or select_first_tree_item() does. *)
SelectRow(row) ==
  /\ row # tree /\ Len(stack) < MaxDepth /\ tree' = row
  /\ ModuleSelected(row, stack, refreshOn)
  /\ UNCHANGED <<current, scanned, shellSelected, shows, showOf, tbl, timer_vars>>

(* After the events of "Updating...": a slow scan lets more of them pass,  *)
(* the view and its items being still the old ones.                        *)
ScansSlowly(e) == e \in Slow /\ ~scanned[e]

ScanSlowly ==
  /\ stack # <<>> /\ stack[1].at = "updating" /\ ScansSlowly(stack[1].row)
  /\ selected' = [selected EXCEPT ![stack[1].row] = TRUE]
  /\ shellSelected' = stack[1].row
  /\ stack' = [stack EXCEPT ![1].at = "scan"]
  /\ UNCHANGED <<tree, current, scanned, refreshOn, view_vars, timer_vars>>

ShowSelected ==
  /\ stack # <<>>
  /\ \/ stack[1].at = "scan" /\ UNCHANGED <<selected, shellSelected>>
     \/ /\ stack[1].at = "updating" /\ ~ScansSlowly(stack[1].row)
        /\ selected' = [selected EXCEPT ![stack[1].row] = TRUE]
        /\ shellSelected' = stack[1].row
  /\ scanned' = [scanned EXCEPT ![stack[1].row] = TRUE]
  /\ ShowInfo(stack[1].row, FALSE, reload)
  /\ refreshOn' = TRUE
  /\ stack' = [stack EXCEPT ![1].at = "done"]
  /\ UNCHANGED <<tree, current>>

(* After the events of "Done.", or of a module's summary. *)
EntryOrNull  == IF stack[1].at = "done" THEN stack[1].row ELSE None

SelectionEnds ==
  /\ stack # <<>> /\ stack[1].at \in {"done", "summary"}
  /\ current' = EntryOrNull
  /\ stack' = Tail(stack)
  /\ UNCHANGED <<tree, selected, scanned, shellSelected, refreshOn, view_vars, timer_vars>>

(* shell_do_reload(): the scan is made anew, by module_entry_reload().     *)
Refresh ==
  /\ refreshOn /\ shellSelected # None /\ Len(stack) + 1 < MaxDepth
  /\ \/ /\ shellSelected \in Slow
        /\ stack' = <<[at |-> "reload", row |-> shellSelected]>> \o stack
        /\ scanned' = [scanned EXCEPT ![shellSelected] = FALSE]
        /\ refreshOn' = FALSE /\ UNCHANGED <<selected, shown>>
     \/ /\ shellSelected \notin Slow
        /\ UNCHANGED scanned
        /\ ModuleSelected(tree, <<[at |-> "refreshed", row |-> tree]>> \o stack, FALSE)
  /\ UNCHANGED <<tree, current, shellSelected, shows, showOf, tbl, timer_vars>>

RefreshScanned ==
  /\ stack # <<>> /\ stack[1].at = "reload"
  /\ scanned' = [scanned EXCEPT ![stack[1].row] = TRUE]
  /\ ModuleSelected(tree, <<[at |-> "refreshed", row |-> tree]>> \o Tail(stack), refreshOn)
  /\ UNCHANGED <<tree, current, shellSelected, shows, showOf, tbl, timer_vars>>

RefreshEnds ==
  /\ stack # <<>> /\ stack[1].at = "refreshed"
  /\ refreshOn' = TRUE /\ stack' = Tail(stack)
  /\ UNCHANGED <<tree, current, selected, scanned, shellSelected, view_vars, timer_vars>>
-----------------------------------------------------------------------------
(* update_field().  The item it writes to is a row of the view.            *)
AnyField(e)   == TRUE
StillShown(e) == selected[e]

ListKept  == list
ListFreed == {}

Updates(e) == tbl[e] # 0 /\ StillShown(e)

UpdateField(u) ==
  LET e == showOf[u[1]] IN
  /\ source[u]
  /\ \/ /\ tbl[e] = 0
        /\ source' = [source EXCEPT ![u] = FALSE]
        /\ UNCHANGED <<mem, list>>
     \/ Updates(e) /\ UNCHANGED <<source, mem, list>>
     \/ /\ tbl[e] # 0 /\ ~StillShown(e)
        /\ source' = [source EXCEPT ![u] = FALSE]
        /\ list' = ListFreed
        /\ mem' = [mem EXCEPT ![u] = "freed"]
  /\ UNCHANGED <<stack, tree_vars, view_vars, reload, rescan>>

(* reload_section(): while the entry is scanned its own timeout does not   *)
(* run again, and it does not look again whether the entry is selected.    *)
ReloadSection(e) ==
  /\ reload[e] > 0
  /\ LET fewer == [reload EXCEPT ![e] = @ - 1]
     IN  \/ /\ selected[e] /\ e \notin Slow
            /\ ShowInfo(e, TRUE, fewer)
            /\ UNCHANGED <<stack, scanned>>
         \/ /\ selected[e] /\ e \in Slow /\ Len(stack) < MaxDepth
            /\ stack' = <<[at |-> "reloading", row |-> e]>> \o stack
            /\ scanned' = [scanned EXCEPT ![e] = FALSE]
            /\ reload' = fewer
            /\ UNCHANGED <<view_vars, mem, source, list, rescan>>
         \/ /\ ~selected[e] /\ reload' = fewer
            /\ UNCHANGED <<stack, scanned, view_vars, mem, source, list, rescan>>
  /\ UNCHANGED <<tree, current, selected, shellSelected, refreshOn>>

ReloadScanned ==
  /\ stack # <<>> /\ stack[1].at = "reloading"
  /\ scanned' = [scanned EXCEPT ![stack[1].row] = TRUE]
  /\ ShowInfo(stack[1].row, TRUE, reload)
  /\ stack' = Tail(stack)
  /\ UNCHANGED <<tree, current, selected, shellSelected, refreshOn>>

(* rescan_section(). *)
NeverStops(e)  == FALSE
StopsRescan(e) == ~selected[e]

RescanSection(e) ==
  /\ rescan[e] > 0 /\ StopsRescan(e)
  /\ rescan' = [rescan EXCEPT ![e] = @ - 1]
  /\ UNCHANGED <<stack, tree_vars, view_vars, mem, source, list, reload>>

Next ==
  \/ \E row \in Row : SelectRow(row)
  \/ ScanSlowly \/ ShowSelected \/ SelectionEnds
  \/ Refresh \/ RefreshScanned \/ RefreshEnds
  \/ \E u \in Fu : UpdateField(u)
  \/ ReloadScanned
  \/ \E e \in Entries : ReloadSection(e) \/ RescanSection(e)

(* Timeouts are dispatched. *)
Fairness ==
  /\ \A u \in Fu : WF_vars(UpdateField(u))
  /\ \A e \in Entries : WF_vars(ReloadSection(e)) /\ WF_vars(RescanSection(e))

Spec == Init /\ [][Next]_vars /\ Fairness
-----------------------------------------------------------------------------
TypeOK ==
  /\ tree \in Row \cup {None} /\ current \in Entries \cup {None}
  /\ stack \in Seq([at : {"updating", "scan", "done", "summary", "reload", "refreshed", "reloading"},
                    row : Row])
  /\ selected \in [Entries -> BOOLEAN] /\ scanned \in [Entries -> BOOLEAN]
  /\ shellSelected \in Entries \cup {None}
  /\ refreshOn \in BOOLEAN
  /\ shown \in [row : Row \cup {None}, show : 0 .. MaxShows]
  /\ shows \in 0 .. MaxShows /\ showOf \in [Show -> Entries \cup {None}]
  /\ tbl \in [Entries -> 0 .. MaxShows]
  /\ mem \in [Fu -> {"none", "live", "freed"}] /\ source \in [Fu -> BOOLEAN]
  /\ list \subseteq Fu
  /\ reload \in [Entries -> 0 .. MaxShows] /\ rescan \in [Entries -> 0 .. MaxShows]

AtRest == stack = <<>>

(* A ShellFieldUpdate that a timeout or the list still points to has not    *)
(* been freed, though both the list and the timeout itself free it.         *)
NoDanglingUpdate == \A u \in Fu : source[u] \/ u \in list => mem[u] = "live"

(* The entries whose reload timer lets events pass before it shows them.    *)
Overruns == Reloads \cap Slow

(* e is being selected inside a Refresh or a reload that scans it: it is    *)
(* scanned a second time, with the items of its last view at hand.          *)
SelectedInItsReload(e) ==
  \E i, j \in 1 .. Len(stack) :
    /\ i < j /\ stack[i].at = "scan" /\ stack[j].at \in {"reload", "reloading"}
    /\ stack[i].row = e /\ stack[j].row = e

(* A field timer that fires writes to a row of the view that is shown,      *)
(* never to one of a view that was cleared, though update_tbl is not        *)
(* emptied for a module's summary and timers are dispatched while their     *)
(* entry is scanned.  Two things escape the code: an entry selected from    *)
(* the summary inside its own reload, and a reload that shows its entry     *)
(* over another one that was selected meanwhile.                            *)
NothingStray ==
  \A u \in Fu : LET e == showOf[u[1]] IN
    source[u] /\ Updates(e) =>
      \/ shown = [row |-> e, show |-> tbl[e]]
      \/ SelectedInItsReload(e)
      \/ shown.row \in Overruns

(* When no selection is being handled, the only entry that may count as     *)
(* selected is the current one, and it is the one shown, but for what a     *)
(* slow reload shows over it.                                               *)
SelectedIsShown ==
  AtRest => \A e \in Entries : selected[e] =>
    e = current /\ shown.row \in {e} \cup Overruns

(* The entry that is selected and shown keeps its timers, those of its      *)
(* fields and its own: no leftover of an earlier selection, and nothing     *)
(* that happens while it is scanned, takes them away.                       *)
TimersKeepOn ==
  AtRest => \A e \in Entries : selected[e] /\ shown.row = e =>
    /\ \A f \in 1 .. Fields[e] : \E k \in Show : showOf[k] = e /\ source[<<k, f>>]
    /\ e \in Reloads => reload[e] > 0
    /\ e \in Rescans => rescan[e] > 0

(* The timers of an entry that stays unselected all end.                    *)
TimersEnd ==
  \A e \in Entries :
    <>[]~selected[e] =>
      <>[](reload[e] = 0 /\ rescan[e] = 0 /\ \A u \in Fu : source[u] => showOf[u[1]] # e)
-----------------------------------------------------------------------------
(* What the code says of itself and does not keep to: see the README.       *)

(* shell.c:1009, "destroy the timeout: it'll be set up again": an entry has *)
(* one reload timer.                                                        *)
OneReloadTimer == \A e \in Entries : reload[e] <= 1
=============================================================================
