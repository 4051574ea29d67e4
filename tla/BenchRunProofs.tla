--------------------------- MODULE BenchRunProofs ---------------------------
(* Proofs about BenchRun, whatever the user does in the dialogs.  What       *)
(* do_benchmark() does not list as a response leaves the child and its watch *)
(* alone: the invariant says that only calls left so (escaped) outlive their *)
(* dialog's loop, and what holds until one of them has written to memory     *)
(* that is not its own (stray).                                              *)
EXTENDS BenchRun, TLAPS

Types ==
  /\ pc \in {"idle", "spawn", "modal", "upload", "quit"}
  /\ run \in 0 .. MaxRuns
  /\ results \in [Entries -> Entries \cup {None}]
  /\ entryOf \in [Run -> Entries \cup {None}]
  /\ child \in [Run -> {"none", "running", "printed", "silent", "killed"}]
  /\ watch \in [Run -> BOOLEAN]
  /\ block \in [Run -> Block] /\ owner \in [Block -> 0 .. MaxRuns]
  /\ record \in [Block -> Entries \cup {None}]
  /\ ready \subseteq Run /\ escaped \subseteq Run
  /\ stray \in BOOLEAN /\ quit \in BOOLEAN
  /\ act \in {"none", "cancel", "escape"}

(* A call in its dialog's loop has its BenchmarkDialog, the only one there   *)
(* is, and nothing but its own result in it.                                 *)
Busy == pc \in {"spawn", "modal"}
CallHasItsRecord ==
  /\ Busy => run \in Run /\ job \in Entries /\ entryOf[run] = job /\ run \notin escaped
  /\ pc = "modal" => /\ owner[block[run]] = run
                     /\ ~stray => record[block[run]] \in {None, job}
  /\ \A b \in Block : owner[b] # 0 => pc = "modal" /\ b = block[run]
  /\ \A r \in escaped : r <= run

(* Watches, children, what an iteration has found ready and a loop told to   *)
(* quit belong to the call whose dialog is open, or were left by Escape.     *)
InModal ==
  /\ ~stray =>
       \A r \in Run \ escaped : watch[r] \/ child[r] = "running" => pc = "modal" /\ r = run
  /\ \A r \in ready : watch[r] /\ child[r] = "printed"
  /\ act # "none" \/ quit => pc = "modal"

(* The loop quits because of Cancel, which removes the watch and kills the   *)
(* child, because of Escape, which does neither, or because the handler has  *)
(* removed the watch, of a child that had printed.                           *)
WaysOut ==
  pc = "modal" /\ ~stray => /\ quit => response \in {"cancel", "escape"} \/ ~watch[run]
                            /\ watch[run] \/ child[run] # "running"

(* The first stray line was that of a call left by Escape.                   *)
StrayIsEscaped == stray => \E r \in escaped : child[r] = "printed" /\ ~watch[r]

Bookkeeping == StrayIsEscaped /\ ResultOfOwnRun
IInv == Types /\ CallHasItsRecord /\ InModal /\ WaysOut /\ Bookkeeping

-----------------------------------------------------------------------------
LEMMA IInvInit == Init => IInv
<1> SUFFICES ASSUME Init PROVE IInv
    OBVIOUS
<1>1. Types
  <2>1. run \in 0 .. MaxRuns /\ owner \in [Block -> 0 .. MaxRuns]
        BY BenchAssumption DEF Init
  <2>2. watch \in [Run -> BOOLEAN] /\ stray \in BOOLEAN /\ quit \in BOOLEAN
        BY Zenon DEF Init
  <2>3. block \in [Run -> Block] /\ record \in [Block -> Entries \cup {None}]
        BY DEF Init, Block
  <2> QED
      BY <2>1, <2>2, <2>3 DEF Init, Types
<1>2. CallHasItsRecord /\ WaysOut /\ Bookkeeping
    BY DEF Init, CallHasItsRecord, Busy, WaysOut, Bookkeeping, StrayIsEscaped, ResultOfOwnRun
<1>3. InModal
    BY DEF Init, InModal
<1> QED
    BY <1>1, <1>2, <1>3 DEF IInv

(* Outside a dialog only what was left by Escape is watched or runs on, no   *)
(* BenchmarkDialog is allocated and no loop is told to quit.                 *)
LEMMA NoDialog ==
  ASSUME IInv, pc # "modal"
  PROVE  /\ ~stray => \A r \in Run \ escaped : ~watch[r] /\ child[r] # "running"
         /\ \A b \in Block : owner[b] = 0
         /\ act = "none" /\ ~quit
  BY DEF IInv, Types, InModal, CallHasItsRecord

(* In one, the call has its own BenchmarkDialog.                             *)
LEMMA InDialog ==
  ASSUME IInv, pc = "modal"
  PROVE  /\ run \in Run /\ run # 0 /\ job \in Entries /\ entryOf[run] = job /\ run \notin escaped
         /\ block[run] \in Block /\ owner[block[run]] = run
         /\ ~stray => record[block[run]] \in {None, job}
         /\ \A b \in Block : owner[b] # 0 => b = block[run]
  BY DEF IInv, Types, CallHasItsRecord, Busy, Run

LEMMA IInvStart ==
  ASSUME IInv, NEW e \in Entries, NEW from, pc \in {"idle", "upload"}, StartBenchmark(e, from)
  PROVE  IInv'
<1>1. /\ ~stray => \A r \in Run \ escaped : ~watch[r] /\ child[r] # "running"
      /\ \A b \in Block : owner[b] = 0
      /\ act = "none" /\ ~quit
    BY NoDialog
<1>2. run' \in Run /\ run' = run + 1 /\ run \in 0 .. MaxRuns
    BY BenchAssumption DEF StartBenchmark, IInv, Types, Run
<1>3. UNCHANGED <<since, escaped, child, watch, block, owner, record, stray, ready, act>>
      /\ pc' = "spawn" /\ job' = e /\ quit' = FALSE
    BY DEF StartBenchmark, hist, heap
<1>4. entryOf' \in [Run -> Entries \cup {None}] /\ entryOf'[run'] = e
    BY <1>2 DEF StartBenchmark, IInv, Types
<1>5. results' \in [Entries -> Entries \cup {None}] /\ ResultOfOwnRun'
    BY <1>3 DEF StartBenchmark, IInv, Types, Bookkeeping, ResultOfOwnRun
<1>6. Types'
  <2>1. run' \in 0 .. MaxRuns
        BY <1>2 DEF Run
  <2>2. quit' \in BOOLEAN
        BY <1>3
  <2> QED
      BY <1>3, <1>4, <1>5, <2>1, <2>2 DEF IInv, Types
<1>7. CallHasItsRecord'
  <2>1. \A r \in escaped : r <= run' /\ r # run'
        BY <1>2 DEF IInv, Types, CallHasItsRecord, Run
  <2> QED
      BY <1>1, <1>2, <1>3, <1>4, <2>1 DEF CallHasItsRecord, Busy
<1>8. InModal' /\ WaysOut' /\ StrayIsEscaped'
    BY <1>1, <1>3 DEF InModal, WaysOut, StrayIsEscaped, IInv, Bookkeeping
<1> QED
    BY <1>5, <1>6, <1>7, <1>8 DEF IInv, Bookkeeping

(* The steps of the main loop that leave the call and its child alone. *)
LEMMA IInvSelect ==
  ASSUME IInv, NEW e \in Entries, NEW reload \in BOOLEAN, Select(e, reload) PROVE IInv'
  BY IInvStart DEF Select, AtRest

(* What no step of the main loop changes between two calls.                  *)
LEMMA IInvIdle ==
  ASSUME IInv, pc # "modal", pc' \in {"idle", "upload", "quit"} \/ pc' = pc,
         UNCHANGED <<run, job, escaped, results, entryOf, child, watch, heap, ready, act, quit>>
  PROVE  IInv'
<1>1. pc' # "modal" /\ pc' \in {"idle", "spawn", "upload", "quit"} /\ (pc' = "spawn" => pc = "spawn")
    BY DEF IInv, Types
<1>2. /\ ~stray => \A r \in Run \ escaped : ~watch[r] /\ child[r] # "running"
      /\ \A b \in Block : owner[b] = 0
      /\ act = "none" /\ ~quit
    BY NoDialog
<1>3. Types' /\ CallHasItsRecord' /\ WaysOut' /\ Bookkeeping'
    BY <1>1, <1>2 DEF heap, IInv, Types, CallHasItsRecord, Busy, WaysOut, Bookkeeping, StrayIsEscaped, ResultOfOwnRun
<1>4. InModal'
    BY <1>1, <1>2 DEF heap, IInv, InModal
<1> QED
    BY <1>3, <1>4 DEF IInv

LEMMA IInvRest ==
  ASSUME IInv, BeginUpload \/ EndUpload \/ Quit \/ \E r \in Run : CloseLeftDialog(r) PROVE IInv'
<1>1. CASE BeginUpload
    BY <1>1, IInvIdle DEF BeginUpload, AtRest, procs, loop
<1>2. CASE EndUpload
    BY <1>2, IInvIdle DEF EndUpload, hist, procs, loop
<1>3. CASE Quit
    BY <1>3, IInvIdle DEF Quit, AtRest, hist, app, procs, loop
<1>4. CASE \E r \in Run : CloseLeftDialog(r)
    BY <1>4, IInvIdle DEF CloseLeftDialog, hist, app, loop
<1> QED
    BY <1>1, <1>2, <1>3, <1>4

LEMMA IInvScanForUpload ==
  ASSUME IInv, NEW e \in Entries, ScanForUpload(e) PROVE IInv'
<1>1. CASE MustScan(e, Rescan(e))
    BY <1>1, IInvStart DEF ScanForUpload
<1>2. CASE ~MustScan(e, Rescan(e))
    BY <1>2, IInvIdle DEF ScanForUpload, hist, procs, loop
<1> QED
    BY <1>1, <1>2

LEMMA IInvSpawn ==
  ASSUME IInv, Spawn PROVE IInv'
<1>1. /\ ~stray => \A r \in Run \ escaped : ~watch[r] /\ child[r] # "running"
      /\ \A b \in Block : owner[b] = 0
      /\ act = "none" /\ ~quit
    BY NoDialog DEF Spawn
<1>2. /\ run \in Run /\ job \in Entries /\ entryOf[run] = job /\ run \notin escaped
      /\ run \in 0 .. MaxRuns
    BY DEF Spawn, IInv, Types, CallHasItsRecord, Busy
<1>3. PICK b \in Block : /\ block' = [block EXCEPT ![run] = b]
                         /\ owner' = [owner EXCEPT ![b] = run]
                         /\ record' = [record EXCEPT ![b] = None]
  <2>1. \A b \in 1 .. run : b \in Block
        BY <1>2, BenchAssumption DEF Block, Run
  <2> QED
      BY <2>1 DEF Spawn, FreshRecord
<1>4. UNCHANGED <<run, job, escaped, results, entryOf, stray, act, quit>> /\ pc' = "modal"
      /\ ready' = {}
    BY DEF Spawn, hist, app, loop
<1>5. /\ watch' \in [Run -> BOOLEAN] /\ watch'[run]
      /\ \A r \in Run : r # run => watch'[r] = watch[r]
    BY <1>2, Zenon DEF Spawn, IInv, Types
<1>6. /\ child' \in [Run -> {"none", "running", "printed", "silent", "killed"}]
      /\ \A r \in Run : r # run => child'[r] = child[r]
    BY <1>2 DEF Spawn, IInv, Types
<1>7. /\ block' \in [Run -> Block] /\ owner' \in [Block -> 0 .. MaxRuns]
      /\ record' \in [Block -> Entries \cup {None}]
      /\ block'[run] = b /\ owner'[b] = run /\ record'[b] = None
      /\ \A c \in Block : owner'[c] # 0 => c = b
    BY <1>1, <1>2, <1>3 DEF IInv, Types
<1>8. Types'
  <2>1. stray' \in BOOLEAN /\ quit' \in BOOLEAN
        BY <1>4, Zenon DEF IInv, Types
  <2> QED
      BY <1>4, <1>5, <1>6, <1>7, <2>1 DEF IInv, Types
<1>9. CallHasItsRecord'
    BY <1>2, <1>4, <1>7 DEF IInv, CallHasItsRecord, Busy
<1>10. InModal'
    BY <1>1, <1>4, <1>5, <1>6 DEF InModal
<1>11. WaysOut'
    BY <1>1, <1>4, <1>5 DEF WaysOut
<1>12. StrayIsEscaped'
    BY <1>2, <1>4, <1>5, <1>6 DEF IInv, Types, Bookkeeping, StrayIsEscaped
<1>13. ResultOfOwnRun'
    BY <1>4 DEF IInv, Bookkeeping, ResultOfOwnRun
<1> QED
    BY <1>8, <1>9, <1>10, <1>11, <1>12, <1>13 DEF IInv, Bookkeeping

LEMMA IInvSpawnFails ==
  ASSUME IInv, SpawnFails PROVE IInv'
<1>1. /\ ~stray => \A r \in Run \ escaped : ~watch[r] /\ child[r] # "running"
      /\ \A b \in Block : owner[b] = 0
      /\ act = "none" /\ ~quit
    BY NoDialog DEF SpawnFails
<1>2. job \in Entries /\ pc' \in {"idle", "upload"}
      /\ UNCHANGED <<run, escaped, entryOf, child, watch, heap, ready, act, quit>>
    BY DEF SpawnFails, AfterScan, IInv, CallHasItsRecord, Busy, hist, loop
<1>3. results' \in [Entries -> Entries \cup {None}] /\ ResultOfOwnRun'
    BY <1>2 DEF SpawnFails, heap, IInv, Types, Bookkeeping, ResultOfOwnRun
<1>4. Types'
    BY <1>2, <1>3 DEF heap, IInv, Types
<1>5. CallHasItsRecord' /\ WaysOut' /\ StrayIsEscaped'
    BY <1>1, <1>2 DEF heap, IInv, CallHasItsRecord, Busy, WaysOut, Bookkeeping, StrayIsEscaped
<1>6. InModal'
    BY <1>1, <1>2 DEF heap, IInv, InModal
<1> QED
    BY <1>3, <1>4, <1>5, <1>6 DEF IInv, Bookkeeping

LEMMA IInvChildEnds ==
  ASSUME IInv, NEW r \in Run, ChildEnds(r) PROVE IInv'
<1>1. /\ child' \in [Run -> {"none", "running", "printed", "silent", "killed"}]
      /\ \A q \in Run : child'[q] = "running" => child[q] = "running"
      /\ \A q \in Run : child[q] = "printed" => child'[q] = "printed"
    BY DEF ChildEnds, IInv, Types
<1>2. UNCHANGED <<pc, run, job, escaped, results, entryOf, watch, heap, loop>>
    BY DEF ChildEnds, app, hist
<1>3. Types'
    BY <1>1, <1>2 DEF heap, loop, IInv, Types
<1>4. CallHasItsRecord' /\ ResultOfOwnRun'
    BY <1>2 DEF heap, IInv, CallHasItsRecord, Busy, Bookkeeping, ResultOfOwnRun
<1>5. InModal'
    BY <1>1, <1>2 DEF loop, heap, IInv, Types, InModal
<1>6. WaysOut'
    BY <1>1, <1>2, InDialog DEF loop, heap, IInv, WaysOut
<1>7. StrayIsEscaped'
    BY <1>1, <1>2 DEF heap, IInv, Types, Bookkeeping, StrayIsEscaped
<1> QED
    BY <1>3, <1>4, <1>5, <1>6, <1>7 DEF IInv, Bookkeeping

LEMMA IInvIterate ==
  ASSUME IInv, Iterate PROVE IInv'
<1>1. ready' \subseteq Run /\ (act' # "none" => pc = "modal") /\ act' \in {"none", "cancel", "escape"}
    BY BenchAssumption DEF Iterate, Acts
<1>2. UNCHANGED <<pc, run, job, escaped, results, entryOf, child, watch, heap, response, quit>>
    BY DEF Iterate, hist, app, procs
<1>3. Types' /\ CallHasItsRecord' /\ Bookkeeping'
    BY <1>1, <1>2 DEF heap, IInv, Types, CallHasItsRecord, Busy, Bookkeeping, StrayIsEscaped, ResultOfOwnRun
<1>4. InModal'
    BY <1>1, <1>2 DEF Iterate, Readable, heap, IInv, InModal
<1>5. WaysOut'
    BY <1>2 DEF heap, IInv, WaysOut
<1> QED
    BY <1>3, <1>4, <1>5 DEF IInv

LEMMA IInvHandleAct ==
  ASSUME IInv, HandleAct PROVE IInv'
<1>1. pc = "modal" /\ act # "none" /\ act' = "none"
    BY DEF HandleAct, IInv, InModal
<1>2. \/ response' = act /\ quit' = TRUE
      \/ UNCHANGED <<response, quit>>
    BY DEF HandleAct
<1>3. UNCHANGED <<pc, run, job, escaped, results, entryOf, child, watch, heap, ready>>
    BY DEF HandleAct, app, hist, procs
<1>4. quit' \in BOOLEAN
    BY <1>2, Zenon DEF IInv, Types
<1>5. Types' /\ CallHasItsRecord' /\ Bookkeeping' /\ InModal'
    BY <1>1, <1>3, <1>4 DEF heap, IInv, Types, CallHasItsRecord, Busy, InModal, Bookkeeping, StrayIsEscaped, ResultOfOwnRun
<1>6. act \in {"cancel", "escape"}
    BY <1>1 DEF IInv, Types
<1>7. WaysOut'
    BY <1>2, <1>3, <1>6 DEF heap, IInv, WaysOut
<1> QED
    BY <1>5, <1>7 DEF IInv

(* do_benchmark_handler(): a call that is not left by Escape finds its own   *)
(* dialog, and the record there is of the call that goes on.                 *)
LEMMA IInvHandleOutput ==
  ASSUME IInv, NEW r \in Run, HandleOutput(r) PROVE IInv'
<1>1. r \in ready /\ watch[r] /\ child[r] = "printed"
    BY DEF HandleOutput, IInv, InModal
<1>2. UNCHANGED <<pc, run, job, escaped, results, entryOf, child, block, owner, act>>
    BY DEF HandleOutput, app, hist
<1>3. /\ watch' \in [Run -> BOOLEAN] /\ ~watch'[r]
      /\ \A q \in Run : q # r => watch'[q] = watch[q]
    BY Zenon DEF HandleOutput, IInv, Types
<1>4. ready' \subseteq Run /\ \A q \in ready' : q \in ready /\ q # r
    BY DEF HandleOutput, IInv, Types
<1>5. ~stray => r \in escaped \/ (pc = "modal" /\ r = run)
    BY <1>1 DEF IInv, InModal
<1>6. block[r] \in Block /\ r # 0
    BY DEF IInv, Types, Run
(* What the handler does to the record and to the loop.                      *)
<1>7. /\ stray' \in BOOLEAN /\ quit' \in BOOLEAN
      /\ stray => stray'
      /\ ~stray' => owner[block[r]] = r
      /\ quit' = quit \/ owner[block[r]] # 0
      /\ stray' /\ ~stray => owner[block[r]] # r
      /\ record' \in [Block -> Entries \cup {None}]
      /\ ~stray' => record' = [record EXCEPT ![block[r]] = entryOf[r]]
  <2>1. CASE owner[block[r]] = 0
    <3>1. stray' = TRUE /\ UNCHANGED <<record, quit>>
          BY <2>1, Zenon DEF HandleOutput
    <3> QED
        BY <2>1, <3>1, <1>6 DEF IInv, Types
  <2>2. CASE owner[block[r]] # 0
    <3>1. /\ record' = [record EXCEPT ![block[r]] = IF child[r] = "printed" THEN entryOf[r] ELSE None]
          /\ quit' = TRUE
          /\ stray' = (stray \/ owner[block[r]] # r)
          BY <2>2, Zenon DEF HandleOutput
    <3>2. stray' \in BOOLEAN /\ (stray => stray') /\ (~stray' => owner[block[r]] = r)
          /\ (stray' /\ ~stray => owner[block[r]] # r)
          BY <3>1, Zenon DEF IInv, Types
    <3>3. record' = [record EXCEPT ![block[r]] = entryOf[r]]
          BY <3>1, <1>1
    <3>4. record' \in [Block -> Entries \cup {None}]
          BY <3>3 DEF IInv, Types
    <3> QED
        BY <2>2, <3>1, <3>2, <3>3, <3>4
  <2> QED
      BY <2>1, <2>2
(* Where a line is not stray it is that of the dialog.                       *)
<1>8. owner[block[r]] # 0 => pc = "modal" /\ owner[block[r]] = run
    BY <1>6 DEF IInv, CallHasItsRecord
<1>9. ~stray' => ~stray /\ pc = "modal" /\ r = run
    BY <1>6, <1>7, <1>8
<1>10. Types'
    BY <1>2, <1>3, <1>4, <1>7 DEF IInv, Types
<1>11. CallHasItsRecord'
  <2>1. pc = "modal" => owner[block[run]] = run /\ (~stray' => record'[block[run]] \in {None, job})
    <3>1. ASSUME pc = "modal", ~stray' PROVE record'[block[run]] = job
          BY <3>1, <1>6, <1>7, <1>9, InDialog DEF IInv, Types
    <3> QED
        BY <3>1, InDialog
  <2> QED
      BY <2>1, <1>2 DEF IInv, CallHasItsRecord, Busy
<1>12. InModal'
  <2>1. \A q \in ready' : watch'[q] /\ child'[q] = "printed"
        BY <1>2, <1>3, <1>4 DEF IInv, Types, InModal
  <2>2. act' # "none" \/ quit' => pc' = "modal"
    <3>1. quit' => quit \/ owner[block[r]] # 0
          BY <1>7
    <3> QED
        BY <3>1, <1>2, <1>8 DEF IInv, InModal
  <2>3. ~stray' => \A q \in Run \ escaped' : watch'[q] \/ child'[q] = "running" => pc' = "modal" /\ q = run'
        BY <1>2, <1>3, <1>9 DEF IInv, InModal
  <2> QED
      BY <2>1, <2>2, <2>3 DEF InModal
<1>13. WaysOut'
    BY <1>1, <1>2, <1>3, <1>9 DEF WaysOut
<1>14. StrayIsEscaped'
  <2>1. CASE stray
        BY <2>1, <1>2, <1>3 DEF IInv, Types, Bookkeeping, StrayIsEscaped
  <2>2. CASE ~stray /\ stray'
    <3>1. r \in escaped
          BY <2>2, <1>5, <1>7, InDialog
    <3> QED
        BY <3>1, <1>1, <1>2, <1>3 DEF StrayIsEscaped
  <2>3. CASE ~stray'
        BY <2>3 DEF StrayIsEscaped
  <2> QED
      BY <2>1, <2>2, <2>3 DEF IInv, Types
<1>15. ResultOfOwnRun'
    BY <1>2, <1>9 DEF IInv, Bookkeeping, ResultOfOwnRun
<1> QED
    BY <1>10, <1>11, <1>12, <1>13, <1>14, <1>15 DEF IInv, Bookkeeping

LEMMA IInvDialogReturns ==
  ASSUME IInv, DialogReturns PROVE IInv'
<1>1. pc = "modal" /\ quit /\ ready = {} /\ act = "none" /\ pc' \in {"idle", "upload"}
    BY DEF DialogReturns, AfterScan
<1>2. /\ run \in Run /\ job \in Entries /\ entryOf[run] = job /\ run \notin escaped
      /\ block[run] \in Block /\ (~stray => record[block[run]] \in {None, job})
      /\ \A b \in Block : owner[b] # 0 => b = block[run]
    BY <1>1, InDialog
<1>3. UNCHANGED <<run, job, entryOf, block, record, stray, ready, act>> /\ quit' = FALSE
      /\ escaped' = IF response = "escape" THEN escaped \cup {run} ELSE escaped
    BY DEF DialogReturns
<1>4. /\ watch' \in [Run -> BOOLEAN]
      /\ child' \in [Run -> {"none", "running", "printed", "silent", "killed"}]
      /\ \A r \in Run : r # run => watch'[r] = watch[r] /\ child'[r] = child[r]
  <2>1. CASE response = "cancel"
    <3>1. /\ watch' = [watch EXCEPT ![run] = FALSE]
          /\ child' = [child EXCEPT ![run] = IF child[run] = "running" THEN "killed" ELSE child[run]]
          BY <2>1 DEF DialogReturns, CancelBenchmark, ForgetWatch, ChildAfterKill
    <3>2. watch' \in [Run -> BOOLEAN] /\ \A r \in Run : r # run => watch'[r] = watch[r]
          BY <3>1, Zenon DEF IInv, Types
    <3> QED
        BY <1>2, <3>1, <3>2 DEF IInv, Types
  <2>2. CASE response # "cancel"
        BY <2>2 DEF DialogReturns, IInv, Types
  <2> QED
      BY <2>1, <2>2
<1>5. ~stray /\ response # "escape" => ~watch'[run] /\ child'[run] # "running"
  <2>1. CASE response = "cancel"
    <3>1. /\ watch' = [watch EXCEPT ![run] = FALSE]
          /\ child' = [child EXCEPT ![run] = IF child[run] = "running" THEN "killed" ELSE child[run]]
          BY <2>1 DEF DialogReturns, CancelBenchmark, ForgetWatch, ChildAfterKill
    <3> QED
        BY <1>2, <3>1 DEF IInv, Types
  <2>2. CASE response # "cancel"
        BY <1>1, <2>2 DEF DialogReturns, IInv, WaysOut
  <2> QED
      BY <2>1, <2>2
<1>6. results' \in [Entries -> Entries \cup {None}] /\ ResultOfOwnRun'
    BY <1>2 DEF DialogReturns, IInv, Types, Bookkeeping, ResultOfOwnRun
<1>7. owner' \in [Block -> 0 .. MaxRuns] /\ \A b \in Block : owner'[b] = 0
  <2>1. 0 \in 0 .. MaxRuns /\ owner' = [owner EXCEPT ![block[run]] = 0]
        BY BenchAssumption DEF DialogReturns
  <2> QED
      BY <1>2, <2>1 DEF IInv, Types
<1>8. Types'
    BY <1>1, <1>2, <1>3, <1>4, <1>6, <1>7 DEF IInv, Types
<1>9. CallHasItsRecord'
  <2>1. \A r \in escaped' : r <= run
        BY <1>2, <1>3 DEF IInv, CallHasItsRecord, Run
  <2> QED
      BY <1>1, <1>3, <1>7, <2>1 DEF CallHasItsRecord, Busy
<1>10. WaysOut'
    BY <1>1 DEF WaysOut
<1>11. InModal'
  <2>1. ASSUME ~stray, NEW r \in Run \ escaped' PROVE ~watch'[r] /\ child'[r] # "running"
    <3>1. r \notin escaped /\ (r = run => response # "escape")
          BY <1>3
    <3> QED
        BY <2>1, <3>1, <1>4, <1>5 DEF IInv, InModal
  <2> QED
      BY <1>1, <1>3, <2>1 DEF InModal
<1>12. StrayIsEscaped'
  <2>1. ASSUME NEW r \in escaped PROVE r \in escaped' /\ r # run /\ r \in Run
        BY <1>2, <1>3 DEF IInv, Types
  <2> QED
      BY <1>3, <1>4, <2>1 DEF IInv, Bookkeeping, StrayIsEscaped
<1> QED
    BY <1>6, <1>8, <1>9, <1>10, <1>11, <1>12 DEF IInv, Bookkeeping

LEMMA IInvNext ==
  IInv /\ [Next]_vars => IInv'
<1> SUFFICES ASSUME IInv, [Next]_vars PROVE IInv'
    OBVIOUS
<1>1. CASE Parent
    BY <1>1, IInvSpawn, IInvSpawnFails, IInvIterate, IInvHandleAct, IInvDialogReturns, IInvRest, IInvHandleOutput,
       IInvScanForUpload DEF Parent, Dispatch
<1>2. CASE User
    BY <1>2, IInvRest, IInvSelect, IInvIterate DEF User, UserInterrupts
<1>3. CASE \E r \in Run : ChildEnds(r)
    BY <1>3, IInvChildEnds
<1>4. CASE UNCHANGED vars
    BY <1>4 DEF vars, app, procs, heap, loop, hist, IInv, Types, CallHasItsRecord, Busy, InModal, WaysOut,
                Bookkeeping, StrayIsEscaped, ResultOfOwnRun
<1> QED
    BY <1>1, <1>2, <1>3, <1>4 DEF Next

-----------------------------------------------------------------------------
LEMMA Invariant == Spec => []IInv
  BY IInvInit, IInvNext, PTL DEF Spec

(* However many benchmarks there are, however often they are run and however *)
(* their dialogs are left, only a call left by Escape has a watch that       *)
(* outlives its dialog's loop, and the first line to be written to a         *)
(* BenchmarkDialog that is free or another's is one of its                   *)
(* (benchmark.c:690-713).                                                    *)
THEOREM WatchesEnd == Spec => []WatchHasItsDialog
<1>1. IInv => WatchHasItsDialog
  <2> SUFFICES ASSUME IInv PROVE WatchHasItsDialog
      OBVIOUS
  <2>1. stray => \E r \in escaped : child[r] = "printed" /\ ~watch[r]
        BY DEF IInv, Bookkeeping, StrayIsEscaped
  <2>2. ASSUME ~stray, NEW r \in Run \ escaped, watch[r] PROVE pc = "modal" /\ r = run /\ owner[block[r]] = r
        BY <2>2, InDialog DEF IInv, InModal
  <2> QED
      BY <2>1, <2>2 DEF WatchHasItsDialog
<1> QED
    BY <1>1, Invariant, PTL

(* Until such a line is written, the result kept for a benchmark is what its *)
(* own child printed, although it arrives through the memory of a dialog     *)
(* (benchmark.c:600-706).                                                    *)
THEOREM ResultsAreOwn == Spec => []ResultOfOwnRun
<1>1. IInv => ResultOfOwnRun
    BY DEF IInv, Bookkeeping
<1> QED
    BY <1>1, Invariant, PTL

(* Likewise, a child does not run on when the program is back in its main    *)
(* loop: it had printed, was killed, or was not started (benchmark.c:703),   *)
(* or its dialog was left by Escape.                                         *)
THEOREM ChildrenEnd == Spec => []NoChildRunsOn
<1>1. IInv => NoChildRunsOn
    BY DEF IInv, InModal, NoChildRunsOn
<1> QED
    BY <1>1, Invariant, PTL

-----------------------------------------------------------------------------
(* RetriedForUpload, from the moment get_benchmark_results() begins, through *)
(* the dialogs it opens, until it is done.                                   *)
Uploading == pc = "upload" \/ (Busy /\ origin = "sync")
Served(e) == results[e] # None \/ \E r \in Run : since < r /\ r <= run /\ entryOf[r] = e
Retrying ==
  Uploading => /\ since \in Nat /\ since <= run /\ (Busy => since < run)
               /\ \A e \in Entries \ queue : Served(e)

LEMMA RetryingStart ==
  ASSUME IInv, Retrying, NEW e \in Entries, NEW from \in {"main", "sync"}, StartBenchmark(e, from),
         from = "sync" => pc = "upload" /\ queue' = queue \ {e}
  PROVE  Retrying'
<1> SUFFICES ASSUME Uploading'
             PROVE  since' \in Nat /\ since' < run' /\ \A f \in Entries \ queue' : Served(f)'
    BY BenchAssumption DEF Retrying, StartBenchmark, hist, IInv, Types
<1>1. from = "sync" /\ pc = "upload" /\ queue' = queue \ {e}
    BY DEF Uploading, StartBenchmark
<1>2. since' = since /\ since \in Nat /\ since <= run /\ run \in Nat /\ run' = run + 1 /\ run' \in Run
    BY <1>1, BenchAssumption DEF Retrying, Uploading, StartBenchmark, hist, IInv, Types, Run
<1>3. entryOf' = [entryOf EXCEPT ![run'] = e] /\ results' = [results EXCEPT ![e] = None]
    BY <1>2 DEF StartBenchmark
<1>4. ASSUME NEW f \in Entries \ queue' PROVE Served(f)'
  <2>1. CASE f = e
    <3>1. entryOf'[run'] = e
          BY <1>2, <1>3 DEF IInv, Types
    <3> QED
        BY <2>1, <3>1, <1>2 DEF Served
  <2>2. CASE f # e
    <3>1. Served(f) /\ results'[f] = results[f]
          BY <1>1, <1>3, <2>2 DEF Retrying, Uploading, IInv, Types
    <3>2. ASSUME NEW r \in Run, since < r, r <= run, entryOf[r] = f PROVE entryOf'[r] = f /\ r <= run'
          BY <1>2, <1>3, <3>2 DEF IInv, Types, Run
    <3> QED
        BY <1>2, <3>1, <3>2 DEF Served
  <2> QED
      BY <2>1, <2>2
<1> QED
    BY <1>2, <1>4

LEMMA RetryingNext ==
  ASSUME IInv, Retrying, [Next]_vars PROVE Retrying'
<1>1. CASE \E e \in Entries, reload \in BOOLEAN : Select(e, reload)
  <2>1. PICK e \in Entries : StartBenchmark(e, "main")
        BY <1>1 DEF Select
  <2> QED
      BY <2>1, RetryingStart
<1>2. CASE \E e \in Entries : ScanForUpload(e)
  <2>1. PICK e \in Entries : ScanForUpload(e)
        BY <1>2
  <2>2. pc = "upload" /\ queue' = queue \ {e}
        BY <2>1 DEF ScanForUpload
  <2>3. CASE MustScan(e, Rescan(e))
        BY <2>1, <2>2, <2>3, RetryingStart DEF ScanForUpload
  <2>4. CASE ~MustScan(e, Rescan(e))
    <3>1. results[e] # None /\ UNCHANGED <<pc, origin, run, since, results, entryOf>>
          BY <2>1, <2>4 DEF ScanForUpload, MustScan, Rescan, procs, hist
    <3> QED
        BY <2>2, <3>1 DEF Retrying, Uploading, Busy, Served
  <2> QED
      BY <2>3, <2>4
<1>3. CASE BeginUpload
  <2>1. queue' = Entries /\ since' = run /\ run' = run /\ run \in Nat /\ ~Busy'
        BY <1>3, BenchAssumption DEF BeginUpload, Busy, IInv, Types
  <2> QED
      BY <2>1 DEF Retrying
(* A scan that ends leaves its own entry's result, if there is one; the call *)
(* is younger than the upload.                                               *)
<1>4. CASE SpawnFails \/ DialogReturns
  <2>1. Busy /\ run \in Run /\ job \in Entries /\ entryOf[run] = job
        BY <1>4 DEF SpawnFails, DialogReturns, Busy, IInv, CallHasItsRecord
  <2>2. /\ \A e \in Entries : e # job => results'[e] = results[e]
        /\ UNCHANGED <<run, since, queue, origin, entryOf>>
        BY <1>4, <2>1 DEF SpawnFails, DialogReturns, hist, IInv, Types
  <2>3. Uploading' => Uploading /\ ~Busy'
        BY <1>4, <2>1 DEF SpawnFails, DialogReturns, AfterScan, Uploading, Busy
  <2>4. ASSUME Uploading, NEW e \in Entries \ queue PROVE Served(e)'
    <3>1. since < run /\ run <= run /\ Served(e)
          BY <2>1, <2>4 DEF Retrying, Run
    <3> QED
        BY <2>1, <2>2, <3>1 DEF Served
  <2> QED
      BY <2>2, <2>3, <2>4 DEF Retrying
<1>5. CASE \/ Spawn \/ Iterate \/ HandleAct \/ EndUpload \/ Quit \/ UNCHANGED vars
           \/ (\E r \in Run : HandleOutput(r)) \/ (\E r \in Run : ChildEnds(r))
           \/ (\E r \in Run : CloseLeftDialog(r))
  <2>1. UNCHANGED <<run, since, queue, origin, results, entryOf>>
        BY <1>5 DEF Spawn, Iterate, HandleAct, EndUpload, Quit, HandleOutput, ChildEnds, CloseLeftDialog,
                    vars, app, procs, hist
  <2>2. Uploading' => Uploading /\ (Busy' => Busy)
        BY <1>5, <2>1 DEF Spawn, Iterate, HandleAct, EndUpload, Quit, HandleOutput, ChildEnds, CloseLeftDialog,
                    vars, Uploading, Busy, AtRest
  <2>3. ASSUME NEW e \in Entries, Served(e) PROVE Served(e)'
        BY <2>1, <2>3 DEF Served
  <2> QED
      BY <2>1, <2>2, <2>3 DEF Retrying
<1> QED
    BY <1>1, <1>2, <1>3, <1>4, <1>5 DEF Next, Parent, User, Dispatch, UserInterrupts

(* What is uploaded was there, or its benchmark was run again for it, though *)
(* the scan macros may remember it as scanned (benchmark.c:759-769).         *)
THEOREM UploadsRetry == Spec => []RetriedForUpload
<1>1. Init => Retrying
    BY DEF Init, Retrying, Uploading, Busy
<1>2. IInv /\ Retrying /\ [Next]_vars => Retrying'
    BY RetryingNext
<1>3. Retrying => RetriedForUpload
    BY DEF Retrying, Uploading, Served, RetriedForUpload
<1> QED
    BY <1>1, <1>2, <1>3, Invariant, PTL DEF Spec
=============================================================================
