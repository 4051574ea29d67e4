------------------------------ MODULE BenchRun ------------------------------
(***************************************************************************)
(* do_benchmark() of modules/benchmark.c in the graphical program: a       *)
(* benchmark runs in a child process while the parent sits in a modal      *)
(* dialog's loop; a GIO watch on the child's output, holding a pointer to  *)
(* a BenchmarkDialog, stores the result and destroys the dialog.  The      *)
(* module has the scan macros around it, which remember that an entry was  *)
(* scanned, and get_benchmark_results(), which scans every entry before    *)
(* the synchronisation dialog uploads the results.                         *)
(***************************************************************************)
EXTENDS Integers, FiniteSets

CONSTANTS
  Entries,       \* the benchmarks
  None,          \* no result: EMPTY_BENCH_VALUE, whose result is -1
  MaxRuns,       \* bound on the calls of do_benchmark() that get past the macros
  Outcomes,      \* how a child may end: "result" printed, or "nothing"
  UserActs,      \* what the user may do in the dialog: "cancel", "escape"
  SpawnMayFail

ASSUME BenchAssumption ==
  /\ None \notin Entries /\ MaxRuns \in Nat
  /\ Outcomes \subseteq {"result", "nothing"}
  /\ UserActs \subseteq {"cancel", "escape"} /\ SpawnMayFail \in BOOLEAN

Run == 1 .. MaxRuns
Block == Run   \* addresses of BenchmarkDialogs, in the order they are first used

VARIABLES
  pc,        \* "idle" main loop, "spawn", "modal" dialog loop, "upload", "quit"
  origin,    \* who asked for the scan: the "main" window or the "sync" dialog
  queue,     \* entries get_benchmark_results() has still to scan
  uploaded,  \* the entries whose results were last uploaded
  scanned, results,
  sensitive, \* the window the dialog is transient for takes input
  run, job,  \* the current call, and its entry
  entryOf,   \* the entry of each call
  child, watch, dialog,
  block,     \* the BenchmarkDialog's address, per call
  owner,     \* per address: the call it belongs to, 0 when free
  record,    \* per address: benchmark_dialog->r
  ready,     \* watches this iteration of the main loop has found ready
  act,       \* the user's event this iteration has found ready
  response, quit,   \* gtk_dialog_run()'s response, and its loop told to quit
  stray,     \* a watch wrote to a BenchmarkDialog that was free or another's
  since,     \* history: the calls there had been when the last upload began
  escaped    \* history: the calls whose dialog was left by Escape or by closing it

loop  == <<ready, act, response, quit>>
heap  == <<block, owner, record, stray>>
procs == <<entryOf, child, watch, dialog>>
app   == <<scanned, results, sensitive, queue, uploaded, origin>>
hist  == <<since, escaped>>
vars  == <<pc, run, job, hist, app, procs, heap, loop>>

Init ==
  /\ pc = "idle" /\ origin = "main" /\ queue = {} /\ uploaded = {}
  /\ scanned = [e \in Entries |-> FALSE] /\ results = [e \in Entries |-> None]
  /\ sensitive = TRUE /\ run = 0 /\ job = None /\ since = 0 /\ escaped = {}
  /\ entryOf = [r \in Run |-> None] /\ child = [r \in Run |-> "none"]
  /\ watch = [r \in Run |-> FALSE] /\ dialog = [r \in Run |-> "none"]
  /\ block = [r \in Run |-> r] /\ owner = [b \in Block |-> 0]
  /\ record = [b \in Block |-> None] /\ stray = FALSE
  /\ ready = {} /\ act = "none" /\ response = "none" /\ quit = FALSE
-----------------------------------------------------------------------------
(* SCAN_START() and do_benchmark() down to the loop at 670 that dispatches  *)
(* the events pending.                                                     *)
MustScan(e, reload) == reload \/ ~scanned[e]

StartBenchmark(e, from) ==
  /\ run < MaxRuns
  /\ run' = run + 1 /\ job' = e /\ origin' = from
  /\ scanned' = [scanned EXCEPT ![e] = FALSE]
  /\ results' = [results EXCEPT ![e] = None]
  /\ sensitive' = FALSE
  /\ entryOf' = [entryOf EXCEPT ![run + 1] = e]
  /\ dialog' = [dialog EXCEPT ![run + 1] = "open"]
  /\ response' = "none" /\ quit' = FALSE
  /\ pc' = "spawn"
  /\ UNCHANGED <<hist, uploaded, child, watch, heap, ready, act>>

(* A dialog left by Escape stays on the screen, and is modal: nothing else *)
(* takes input until it is closed.                                         *)
LeftOpen(r) == r \in escaped /\ dialog[r] = "open"
AtRest == pc = "idle" /\ ready = {} /\ ~\E r \in Run : LeftOpen(r)

(* The user selects a benchmark, or refreshes it. *)
Select(e, reload) ==
  /\ AtRest /\ sensitive
  /\ MustScan(e, reload)
  /\ StartBenchmark(e, "main")
  /\ UNCHANGED queue

(* The synchronisation dialog asks for the results to send. *)
BeginUpload ==
  /\ AtRest /\ sensitive
  /\ run + Cardinality(Entries) <= MaxRuns
  /\ pc' = "upload" /\ queue' = Entries /\ since' = run
  /\ UNCHANGED <<run, job, escaped, uploaded, scanned, results, sensitive, origin, procs, heap, loop>>

NoRescan(e) == FALSE
Rescan(e) == results[e] = None

ScanForUpload(e) ==
  /\ pc = "upload" /\ e \in queue
  /\ queue' = queue \ {e}
  /\ IF MustScan(e, Rescan(e))
     THEN StartBenchmark(e, "sync")
     ELSE UNCHANGED <<pc, run, job, hist, uploaded, scanned, results, sensitive, origin,
                      procs, heap, loop>>

EndUpload ==
  /\ pc = "upload" /\ queue = {}
  /\ uploaded' = {e \in Entries : results[e] # None}
  /\ pc' = "idle"
  /\ UNCHANGED <<run, job, hist, queue, scanned, results, sensitive, origin, procs, heap, loop>>

LeftRecord(b) == record[b]   \* what the memory held: `benchmark_dialog->r = r' forgotten
FreshRecord(b) == None

(* The BenchmarkDialog is allocated when the events have been dispatched.  *)
Spawn ==
  /\ pc = "spawn" /\ ready = {}
  /\ \E b \in {b \in 1 .. run : owner[b] = 0} :
       /\ block' = [block EXCEPT ![run] = b]
       /\ owner' = [owner EXCEPT ![b] = run]
       /\ record' = [record EXCEPT ![b] = FreshRecord(b)]
  /\ child' = [child EXCEPT ![run] = "running"]
  /\ watch' = [watch EXCEPT ![run] = TRUE]
  /\ pc' = "modal"
  /\ UNCHANGED <<run, job, hist, app, entryOf, dialog, stray, loop>>

AfterScan == IF origin = "sync" THEN "upload" ELSE "idle"

(* g_spawn_async_with_pipes() fails: the benchmark runs in this process;   *)
(* the BenchmarkDialog is freed as it was made.                            *)
SpawnFails ==
  /\ pc = "spawn" /\ ready = {} /\ SpawnMayFail
  /\ dialog' = [dialog EXCEPT ![run] = "destroyed"]
  /\ results' = [results EXCEPT ![job] = job]
  /\ scanned' = [scanned EXCEPT ![job] = TRUE]
  /\ pc' = AfterScan
  /\ UNCHANGED <<run, job, hist, sensitive, queue, uploaded, origin, entryOf, child, watch,
                 heap, loop>>
-----------------------------------------------------------------------------
(* The child prints its result, or ends without a word.                    *)
ChildEnds(r) ==
  /\ child[r] = "running"
  /\ \E o \in Outcomes :
       child' = [child EXCEPT ![r] = IF o = "result" THEN "printed" ELSE "silent"]
  /\ UNCHANGED <<pc, run, job, hist, app, entryOf, watch, dialog, heap, loop>>

(* An iteration of the main loop finds its ready sources.  A watch asks    *)
(* for G_IO_IN only: the hang-up of a child that printed nothing is not    *)
(* its business.  Watches and the user's events have the same priority.    *)
HungUpOnly(r) == child[r] = "silent"
Readable(r) == child[r] = "printed"

Acts ==
  {a \in UserActs : /\ pc = "modal" /\ dialog[run] = "open" /\ ~quit
                    /\ a = "cancel" => origin = "main"}
Iterate ==
  /\ pc \in {"idle", "spawn", "modal"} /\ ready = {} /\ act = "none" /\ ~quit
  /\ ready' = {r \in Run : watch[r] /\ Readable(r)}
  /\ act' \in Acts \cup {"none"}
  /\ ready' # {} \/ act' # "none"
  /\ UNCHANGED <<pc, run, job, hist, app, procs, heap, response, quit>>

(* do_benchmark_handler(): a line is stored and the dialog is destroyed,   *)
(* which makes gtk_dialog_run() leave its loop.  The handler finds both by *)
(* the address it was given; one that is free may still hold the address   *)
(* of the dialog, or no longer.                                            *)
HandleOutput(r) ==
  /\ r \in ready
  /\ ready' = ready \ {r}
  /\ watch' = [watch EXCEPT ![r] = FALSE]
  /\ LET b == block[r] IN
     IF owner[b] = 0
     THEN /\ stray' = TRUE
          /\ \/ UNCHANGED dialog
             \/ dialog' = [dialog EXCEPT ![r] = "destroyed"]
          /\ UNCHANGED <<record, quit>>
     ELSE /\ record' = [record EXCEPT ![b] = IF child[r] = "printed" THEN entryOf[r] ELSE None]
          /\ dialog' = [dialog EXCEPT ![owner[b]] = "destroyed"]
          /\ quit' = TRUE
          /\ stray' = (stray \/ owner[b] # r)
  /\ UNCHANGED <<pc, run, job, hist, app, entryOf, child, block, owner, act, response>>

(* Cancel gives GTK_RESPONSE_ACCEPT; Escape, or closing the window,        *)
(* GTK_RESPONSE_DELETE_EVENT, and the dialog stays.  Escape works in the   *)
(* synchronisation's dialogs too: they lack only the button.               *)
HandleAct ==
  /\ act # "none"
  /\ act' = "none"
  /\ IF dialog[run] = "open"
     THEN response' = act /\ quit' = TRUE
     ELSE UNCHANGED <<response, quit>>
  /\ UNCHANGED <<pc, run, job, hist, app, procs, heap, ready>>

KeepWatch(r) == watch[r]
ForgetWatch(r) == FALSE
ChildLeftAlone(r) == child[r]
ChildAfterKill(r) == IF child[r] = "running" THEN "killed" ELSE child[r]

(* gtk_dialog_run() returns; the rest of do_benchmark() and SCAN_END().    *)
CancelBenchmark ==
  /\ dialog' = [dialog EXCEPT ![run] = "destroyed"]
  /\ watch' = [watch EXCEPT ![run] = ForgetWatch(run)]
  /\ child' = [child EXCEPT ![run] = ChildAfterKill(run)]
DialogReturns ==
  /\ pc = "modal" /\ quit /\ ready = {} /\ act = "none"
  /\ IF response = "cancel" THEN CancelBenchmark
     ELSE UNCHANGED <<dialog, watch, child>>
  /\ escaped' = IF response = "escape" THEN escaped \cup {run} ELSE escaped
  /\ results' = [results EXCEPT ![job] = record[block[run]]]
  /\ owner' = [owner EXCEPT ![block[run]] = 0]
  /\ sensitive' = TRUE
  /\ scanned' = [scanned EXCEPT ![job] = TRUE]
  /\ pc' = AfterScan
  /\ quit' = FALSE
  /\ UNCHANGED <<run, job, since, queue, uploaded, origin, entryOf, block, record, stray,
                 ready, act, response>>

(* A dialog that was left open is closed: nothing but GTK listens to it.   *)
CloseLeftDialog(r) ==
  /\ pc \in {"idle", "spawn"} /\ ready = {}
  /\ LeftOpen(r) /\ \A q \in Run : LeftOpen(q) => q <= r
  /\ dialog' = [dialog EXCEPT ![r] = "destroyed"]
  /\ UNCHANGED <<pc, run, job, hist, app, entryOf, child, watch, heap, loop>>

(* Without a benchmark running the user may leave the program. *)
Quit ==
  /\ AtRest
  /\ pc' = "quit"
  /\ UNCHANGED <<run, job, hist, app, procs, heap, loop>>

Dispatch == Iterate /\ ready' # {}
UserInterrupts == Iterate /\ act' # "none"
Parent ==
  \/ Spawn \/ SpawnFails \/ Dispatch \/ HandleAct \/ DialogReturns \/ EndUpload
  \/ \E r \in Run : HandleOutput(r)
  \/ \E e \in Entries : ScanForUpload(e)
User ==
  \/ Quit \/ BeginUpload \/ UserInterrupts
  \/ \E e \in Entries, reload \in BOOLEAN : Select(e, reload)
  \/ \E r \in Run : CloseLeftDialog(r)
Next == Parent \/ User \/ \E r \in Run : ChildEnds(r)

(* The main loop runs and children end; the user owes nothing. *)
Fairness == WF_vars(Parent) /\ \A r \in Run : WF_vars(ChildEnds(r))
Spec == Init /\ [][Next]_vars /\ Fairness
-----------------------------------------------------------------------------

(* A watch outlives neither its dialog's loop nor the BenchmarkDialog it   *)
(* points to, so no late line of a child is stored in memory that is free  *)
(* or another benchmark's, however Cancel, the child's end, the events     *)
(* dispatched before a spawn and its failure fall; but for the calls whose *)
(* dialog was left by Escape, which do_benchmark() does not list: they     *)
(* keep their watch, and a stray line is always the work of one of them.   *)
WatchHasItsDialog ==
  /\ stray => \E r \in escaped : child[r] = "printed" /\ ~watch[r]
  /\ ~stray =>
       \A r \in Run \ escaped : watch[r] => pc = "modal" /\ r = run /\ owner[block[r]] = r

(* Each benchmark's result is the one its own child printed, as long as no *)
(* call left by Escape has written to a BenchmarkDialog that is not its.   *)
ResultOfOwnRun == ~stray => \A e \in Entries : results[e] \in {None, e}

(* When the program is back in its main loop, with "Done." in the status   *)
(* bar, no benchmark runs on, which would spoil the next one's figures;    *)
(* after an Escape one does, and it is the only one that can.              *)
NoChildRunsOn == pc = "idle" /\ ~stray => \A r \in Run \ escaped : child[r] # "running"

(* The results sent are those of benchmarks that ran: one that has none,   *)
(* because it was cancelled or failed, is run again for the upload though  *)
(* the scan macros remember it as scanned.                                 *)
RetriedForUpload ==
  pc = "upload" =>
    \A e \in Entries \ queue :
      results[e] # None \/ \E r \in Run : since < r /\ r <= run /\ entryOf[r] = e

(* A result that was printed ends the dialog, and nothing else is waited   *)
(* for.                                                                    *)
ResultEndsDialog ==
  \A r \in Run : pc = "modal" /\ run = r /\ child[r] = "printed" ~> ~(pc = "modal" /\ run = r)
-----------------------------------------------------------------------------
(* What the code says of itself and does not keep to: see the README.      *)

(* benchmark.c:596: "error while reading benchmark result": a child that   *)
(* ends without a result is noticed, and the dialog closed.                *)
SilentEndNoticed == \A r \in Run : child[r] = "silent" ~> dialog[r] = "destroyed"
=============================================================================
