------------------------------- MODULE Window -------------------------------
(***************************************************************************)
(* Whether the window of shell/shell.c can be used.  An operation makes it *)
(* insensitive, or a long one does at its sixth pulse, and lets events     *)
(* pass while it works: until then the user may begin another inside it.   *)
(* Each makes the window sensitive again as it ends, whatever goes on      *)
(* around it.                                                              *)
(***************************************************************************)
EXTENDS Integers, Sequences

CONSTANTS
  Entries,   \* rows that are entries
  Bench,     \* entries whose scan is a benchmark
  Overview,  \* the entry that scans all others of its module
  Summary,   \* a row of a module with a summary
  Bare,      \* a row of a module without one
  None,
  MaxDepth   \* bound on the operations inside one another

VARIABLES
  stack,     \* the operations, the innermost first: [op, row]
  tree, shellSelected,
  hbox,      \* the rows, the View menu and the updater are sensitive
  refreshOn, reportOn,
  progress,  \* the progress bar is shown
  pulses     \* shell->_pulses; what is beyond 6 does not matter
sensitive == <<hbox, refreshOn, reportOn>>
vars == <<stack, tree, shellSelected, sensitive, progress, pulses>>

Rows == Entries \cup {Summary, Bare}

Init ==
  /\ stack = <<>> /\ tree = None /\ shellSelected = None
  /\ hbox = TRUE /\ refreshOn = TRUE /\ reportOn = TRUE
  /\ progress = FALSE /\ pulses = 0

(* shell_view_set_enabled(), shell_status_set_enabled(), shell_status_pulse(). *)
ViewEnabled(on) ==
  /\ hbox' = on /\ refreshOn' = on /\ reportOn' = on
  /\ pulses' = IF on THEN 0 ELSE pulses

StatusOn  == progress' = TRUE
JustHidden == progress' = FALSE /\ UNCHANGED <<sensitive, pulses>>
StatusOff == progress' = FALSE /\ ViewEnabled(TRUE)

LongTime == pulses = 5

(* Helper programs, transfers and reports pulse: a scan, for each program.  *)
Pulsing == {"scan", "summary", "report", "all", "sync"}
StatusPulse ==
  /\ stack # <<>> /\ stack[1].op \in Pulsing /\ pulses < 6
  /\ pulses' = pulses + 1
  /\ IF LongTime THEN hbox' = FALSE /\ refreshOn' = FALSE /\ reportOn' = FALSE ELSE UNCHANGED sensitive
  /\ UNCHANGED <<stack, tree, shellSelected, progress>>

(* What the user clicks on while events pass; a benchmark's dialog is modal. *)
Clicks == Len(stack) < MaxDepth /\ (stack # <<>> => stack[1].op # "bench")
Push(op, row, below) == stack' = <<[op |-> op, row |-> row]>> \o below

-----------------------------------------------------------------------------
(* module_selected(), inside the operations `below'.                       *)
Updating(below) == \E i \in 1 .. Len(below) : below[i].op \in {"selected", "summary"}

ModuleSelected(row, below) ==
  \/ Updating(below) /\ stack' = below /\ UNCHANGED <<shellSelected, sensitive, progress>>
  \/ /\ ~Updating(below) /\ row \in Entries
     /\ shellSelected' = row /\ StatusOn
     /\ stack' = <<[op |-> "scan", row |-> row], [op |-> "selected", row |-> row]>> \o below
     /\ UNCHANGED sensitive
  \/ /\ ~Updating(below) /\ row \notin Entries
     /\ refreshOn' = FALSE
     /\ IF row = Summary THEN Push("summary", row, below) ELSE stack' = below
     /\ UNCHANGED <<shellSelected, hbox, reportOn, progress>>

SelectRow(row) ==
  /\ hbox /\ Clicks /\ row # tree /\ tree' = row
  /\ ModuleSelected(row, stack)
  /\ UNCHANGED pulses

(* A scan: at once, with pulses, or with operations of its own.            *)
ScanEnds ==
  /\ stack # <<>> /\ stack[1].op = "scan"
  /\ stack' = Tail(stack)
  /\ UNCHANGED <<tree, shellSelected, sensitive, progress, pulses>>

(* module_entry_scan_all_except(). *)
ScanAll ==
  /\ stack # <<>> /\ stack[1].op = "scan" /\ stack[1].row = Overview
  /\ ViewEnabled(FALSE)
  /\ stack' = [stack EXCEPT ![1].op = "all"]
  /\ UNCHANGED <<tree, shellSelected, progress>>

AllScanned ==
  /\ stack # <<>> /\ stack[1].op = "all"
  /\ ViewEnabled(TRUE)
  /\ stack' = Tail(stack)
  /\ UNCHANGED <<tree, shellSelected, progress>>

SelectionEnds ==
  /\ stack # <<>> /\ stack[1].op = "selected"
  /\ StatusOff
  /\ stack' = Tail(stack)
  /\ UNCHANGED <<tree, shellSelected>>

(* shell_show_detail_view(). *)
SummaryEnds ==
  /\ stack # <<>> /\ stack[1].op = "summary"
  /\ ViewEnabled(TRUE)
  /\ stack' = Tail(stack)
  /\ UNCHANGED <<tree, shellSelected, progress>>

(* shell_do_reload(): the scan, the row that is selected by then, the      *)
(* actions again.                                                          *)
Refresh ==
  /\ refreshOn /\ Clicks /\ shellSelected # None
  /\ refreshOn' = FALSE /\ reportOn' = FALSE /\ StatusOn
  /\ stack' = <<[op |-> "scan", row |-> shellSelected], [op |-> "reload", row |-> shellSelected]>> \o stack
  /\ UNCHANGED <<tree, shellSelected, hbox, pulses>>

Reloaded ==
  /\ stack # <<>> /\ stack[1].op = "reload"
  /\ ModuleSelected(tree, <<[op |-> "refresh", row |-> tree]>> \o Tail(stack))
  /\ UNCHANGED <<tree, pulses>>

RefreshEnds ==
  /\ stack # <<>> /\ stack[1].op = "refresh"
  /\ refreshOn' = TRUE /\ reportOn' = TRUE
  /\ stack' = Tail(stack)
  /\ UNCHANGED <<tree, shellSelected, hbox, progress, pulses>>

-----------------------------------------------------------------------------
(* do_benchmark(), for the entry that is scanned or the next of a report or  *)
(* of the results that a synchronisation sends.                              *)
Benchmark ==
  /\ stack # <<>> /\ Len(stack) < MaxDepth
  /\ (stack[1].op = "scan" /\ stack[1].row \in Bench) \/ stack[1].op \in {"report", "sync"}
  /\ ViewEnabled(FALSE)
  /\ Push("bench", None, stack)
  /\ UNCHANGED <<tree, shellSelected, progress>>

BenchmarkEnds ==
  /\ stack # <<>> /\ stack[1].op = "bench"
  /\ \/ ViewEnabled(TRUE)
     \/ UNCHANGED <<sensitive, pulses>>  \* the child could not be started
  /\ StatusOn
  /\ stack' = Tail(stack)
  /\ UNCHANGED <<tree, shellSelected>>

(* report_dialog_show(), sync_manager_show(). *)
Report ==
  /\ reportOn /\ Clicks
  /\ ViewEnabled(FALSE) /\ StatusOn
  /\ Push("report", None, stack)
  /\ UNCHANGED <<tree, shellSelected>>

Synchronize ==
  /\ hbox /\ Clicks
  /\ ViewEnabled(FALSE) /\ StatusOn
  /\ Push("sync", None, stack)
  /\ UNCHANGED <<tree, shellSelected>>

ReportEnds ==
  /\ stack # <<>> /\ stack[1].op \in {"report", "sync"}
  /\ StatusOff
  /\ stack' = Tail(stack)
  /\ UNCHANGED <<tree, shellSelected>>

Next ==
  \/ \E row \in Rows : SelectRow(row)
  \/ StatusPulse \/ ScanEnds \/ ScanAll \/ AllScanned \/ SelectionEnds \/ SummaryEnds
  \/ Refresh \/ Reloaded \/ RefreshEnds \/ Benchmark \/ BenchmarkEnds
  \/ Report \/ Synchronize \/ ReportEnds

-----------------------------------------------------------------------------
(* When nothing goes on the window can be used, however its operations     *)
(* were begun inside one another.  The one exception: a long reload in the *)
(* midst of which a row without a summary was selected leaves it           *)
(* insensitive, and the user has to ask for a report to get it back.       *)
UsableAtRest ==
  stack = <<>> => hbox \/ (tree = Bare /\ reportOn)
=============================================================================
