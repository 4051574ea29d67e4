---------------------------- MODULE SyncManager ----------------------------
(***************************************************************************)
(* shell/syncmanager.c: the entries are fetched from, or sent to, the      *)
(* central database one request at a time, by sync_one() idles at start-up *)
(* and by the synchronisation dialog.  A request is asynchronous, but its  *)
(* sender waits for it in g_main_loop_run() of the file's only `loop', a   *)
(* global that each dialog replaces; the response, Cancel and Close leave  *)
(* whatever loop that global names then.  Every such loop, every           *)
(* shell_status_pulse() and the benchmarks an upload is made of dispatch   *)
(* whatever is pending, so calls nest: `stack' has the waiting calls, the  *)
(* innermost first.  A benchmark gives the window back when it ends, so    *)
(* that a dialog can be opened while another one is at work.               *)
(***************************************************************************)
EXTENDS Integers, Sequences, FiniteSetsExt

CONSTANTS
  NEntries,    \* the registered entries are 1 .. NEntries, in their order
  Uploads,     \* those with generate_contents_for_upload
  MaxSyncs,    \* bound on the start-up's synchronisation and the dialogs
  Selections,  \* the sets of entries a user ticks in a dialog
  Patience,    \* the pulses after which the view is disabled (5 in the code)
  OnStartup,   \* the values the setting Sync/OnStartup may have
  Answers,     \* how a request may end: "ok", "error"
  UserActs     \* in a running dialog: "cancel", "delete" (its window)

Entry  == 1 .. NEntries
Dialog == 1 .. MaxSyncs
Loop   == {0} \cup Dialog     \* 0 is the loop of the start-up
Rec    == Loop \X Entry       \* the SyncNetActions

ASSUME SyncAssumption ==
  /\ NEntries \in Nat /\ MaxSyncs \in Nat /\ Patience \in Nat
  /\ Uploads \subseteq Entry /\ Selections \subseteq SUBSET Entry
  /\ OnStartup \subseteq BOOLEAN
  /\ Answers \subseteq {"ok", "error"} /\ UserActs \subseteq {"cancel", "delete"}

VARIABLES
  idle,      \* the entries whose sync_one() is still to be dispatched
  stack,     \* the calls waiting: [at, rec, on], innermost first
  loop,      \* the loop the global names
  running, refs,   \* is_running and ref_count of each loop
  answer,    \* per action: its request, "none", "sent", "aborted", "ok", "error"
  mem,       \* per action: its memory; idle_free() condemns it
  mark,      \* per action of a dialog: how the dialog shows it
  todo,      \* per dialog: the actions it has still to do, the current one too
  dlg, dialog,     \* how many dialogs were opened, and what each shows
  cancelled, \* per dialog: its flag_cancel
  gone,      \* the dialogs whose window was closed
  pressed,   \* history: the dialogs in which the user pressed Cancel
  overlaps,  \* history: a dialog started to synchronise inside something else
  view, pulses,    \* shell->_pulses, and whether the window takes input
  atStartup, \* the setting
  starting,  \* shell_init() has not finished
  stray      \* a freed action or loop was used

loops == <<loop, running, refs>>
work  == <<answer, mem, mark, todo>>
ui    == <<dlg, dialog, cancelled, pressed, overlaps, gone>>
shell == <<view, pulses, starting, atStartup>>
vars  == <<idle, stack, loops, work, ui, shell, stray>>

Down(e) == e \notin Uploads
Top == stack[1]
Frame(at, rec, on) == [at |-> at, rec |-> rec, on |-> on]

(* sync_manager_update_on_startup() takes a reference per entry.            *)
NoRefPerEntry == IF atStartup THEN 1 ELSE 0
StartRefs     == IF atStartup THEN 1 + NEntries ELSE 0

Init ==
  /\ atStartup \in OnStartup
  /\ idle = IF atStartup THEN [i \in Entry |-> i] ELSE <<>>
  /\ stack = <<>> /\ loop = 0
  /\ running = [l \in Loop |-> FALSE]
  /\ refs = [l \in Loop |-> IF l = 0 THEN StartRefs ELSE 0]
  /\ answer = [r \in Rec |-> "none"]
  /\ mem = [r \in Rec |-> IF r[1] = 0 /\ atStartup THEN "live" ELSE "none"]
  /\ mark = [r \in Rec |-> "none"] /\ todo = [d \in Dialog |-> {}]
  /\ dlg = 0 /\ dialog = [d \in Dialog |-> "none"]
  /\ cancelled = [d \in Dialog |-> FALSE] /\ pressed = {} /\ overlaps = FALSE /\ gone = {}
  /\ view = TRUE /\ pulses = 1 /\ starting = TRUE /\ stray = FALSE
-----------------------------------------------------------------------------
(* g_main_loop_run() and _quit(); on a freed loop they do anything. *)
RunLoop(l) ==
  \E b \in (IF refs[l] > 0 THEN {TRUE} ELSE BOOLEAN) :
    running' = [running EXCEPT ![l] = b]

QuitLoop(l) ==
  \E b \in (IF refs[l] > 0 THEN {FALSE} ELSE BOOLEAN) :
    running' = [running EXCEPT ![l] = b]

Unref(l) == refs' = [refs EXCEPT ![l] = IF @ > 0 THEN @ - 1 ELSE 0]

(* send_request_for_net_action() by the innermost call: the request is sent *)
(* at once, but for an upload, whose contents are generated first.          *)
Send(r) ==
  /\ answer' = [answer EXCEPT ![r] = "sent"]
  /\ stack' = <<Frame("request", r, loop)>> \o Tail(stack)
  /\ RunLoop(loop) /\ stray' = (stray \/ refs[loop] = 0)
  /\ UNCHANGED <<loop, refs>>

SendRequest(r) ==
  \/ Down(r[2]) /\ Send(r)
  \/ /\ ~Down(r[2])
     /\ stack' = <<Frame("generate", r, 0)>> \o Tail(stack)
     /\ UNCHANGED <<answer, loops, stray>>

(* A benchmark of the upload starts, or ends. *)
Benchmark ==
  /\ stack # <<>> /\ Top.at = "generate"
  /\ view' = ~view /\ pulses' = IF view' THEN 0 ELSE pulses
  /\ UNCHANGED <<idle, stack, loops, work, ui, starting, atStartup, stray>>

(* Whatever was dispatched meanwhile, the request follows. *)
Generated ==
  /\ stack # <<>> /\ Top.at = "generate" /\ Send(Top.rec)
  /\ UNCHANGED <<idle, mem, mark, todo, ui, shell>>

QuitUnlessError(r) ==
  /\ answer[r] \in {"sent", "aborted"}
  /\ \E a \in Answers \cup (IF answer[r] = "aborted" THEN {"error"} ELSE {}) :
       /\ answer' = [answer EXCEPT ![r] = a]
       /\ IF a = "ok" THEN QuitLoop(loop) ELSE UNCHANGED running
  /\ UNCHANGED <<idle, stack, loop, refs, mem, mark, todo, ui, shell, stray>>

(* The loop of whichever call runs it dispatches the answer: got_response(). *)
GotResponse(r) ==
  /\ answer[r] \in {"sent", "aborted"}
  /\ \E a \in Answers \cup (IF answer[r] = "aborted" THEN {"error"} ELSE {}) :
       answer' = [answer EXCEPT ![r] = a]
  /\ QuitLoop(loop)
  /\ stray' = (stray \/ mem[r] = "freed" \/ refs[loop] = 0)
  /\ UNCHANGED <<idle, stack, loop, refs, mem, mark, todo, ui, shell>>
-----------------------------------------------------------------------------
(* The start-up: sync_one(), down to the end of its pulse. *)
SyncOne ==
  /\ idle # <<>>
  /\ idle' = Tail(idle)
  /\ LET r == <<0, Head(idle)>>
     IN  \/ /\ ~Down(Head(idle))
            /\ Unref(loop) /\ mem' = [mem EXCEPT ![r] = "condemned"]
            /\ stray' = (stray \/ refs[loop] = 0)
            /\ UNCHANGED <<stack, view, pulses>>
         \/ /\ Down(Head(idle))
            /\ stack' = <<Frame("pulse", r, 0)>> \o stack
            /\ pulses' = IF pulses > Patience THEN pulses ELSE pulses + 1
            /\ view' = (view /\ pulses # Patience)
            /\ UNCHANGED <<refs, mem, stray>>
  /\ UNCHANGED <<loop, running, answer, mark, todo, ui, starting, atStartup>>

(* The pulse ends when nothing is pending. *)
Drained    == idle = <<>>

PulseEnds ==
  /\ stack # <<>> /\ Top.at = "pulse" /\ Drained
  /\ Send(Top.rec)
  /\ UNCHANGED <<idle, mem, mark, todo, ui, shell>>

ReturnsEarly ==
  /\ stack # <<>> /\ Top.at = "request" /\ Top.rec[1] = 0
  /\ stack' = Tail(stack)
  /\ Unref(loop) /\ stray' = (stray \/ refs[loop] = 0)
  /\ mem' = [mem EXCEPT ![Top.rec] = "condemned"]
  /\ UNCHANGED <<idle, loop, running, answer, mark, todo, ui, shell>>

SyncOneReturns ==
  /\ stack # <<>> /\ Top.at = "request" /\ Top.rec[1] = 0 /\ ~running[Top.on]
  /\ stack' = Tail(stack)
  /\ Unref(loop) /\ stray' = (stray \/ refs[loop] = 0)
  /\ mem' = [mem EXCEPT ![Top.rec] = "condemned"]
  /\ UNCHANGED <<idle, loop, running, answer, mark, todo, ui, shell>>

InitReturns ==
  /\ starting /\ idle = <<>> /\ stack = <<>>
  /\ starting' = FALSE /\ view' = TRUE /\ pulses' = 0
  /\ UNCHANGED <<idle, stack, loops, work, ui, atStartup, stray>>
-----------------------------------------------------------------------------
(* The dialog: sync_manager_show(), down to gtk_dialog_run(), which takes   *)
(* the input of every other window until it is answered.                    *)
Syncs == dlg + (IF atStartup THEN 1 ELSE 0)
Asked == \E i \in 1 .. Len(stack) : stack[i].at = "choose"

OpenDialog ==
  /\ view /\ ~Asked /\ Syncs < MaxSyncs
  /\ dlg' = dlg + 1 /\ dialog' = [dialog EXCEPT ![dlg + 1] = "choose"]
  /\ stack' = <<Frame("choose", <<dlg + 1, 0>>, 0)>> \o stack
  /\ UNCHANGED <<idle, loops, work, cancelled, pressed, overlaps, gone, shell, stray>>

DialogRefused ==
  /\ stack # <<>> /\ Top.at = "choose"
  /\ dialog' = [dialog EXCEPT ![Top.rec[1]] = "none"] /\ stack' = Tail(stack)
  /\ UNCHANGED <<idle, loops, work, dlg, cancelled, pressed, overlaps, gone, shell, stray>>

(* sync_dialog_start_sync(), down to the events it lets pass. *)
StartSync(chosen) ==
  /\ stack # <<>> /\ Top.at = "choose"
  /\ LET d == Top.rec[1]
     IN  /\ loop' = d /\ refs' = [refs EXCEPT ![d] = 1]
         /\ dialog' = [dialog EXCEPT ![d] = "sync"] /\ view' = FALSE
         /\ todo' = [todo EXCEPT ![d] = chosen]
         /\ mem' = [r \in Rec |-> IF r[1] = d /\ r[2] \in chosen THEN "live" ELSE mem[r]]
         /\ mark' = [r \in Rec |-> IF r[1] = d /\ r[2] \in chosen THEN "waiting" ELSE mark[r]]
         /\ stack' = <<Frame("prepare", <<d, 0>>, d)>> \o Tail(stack)
  /\ overlaps' = (overlaps \/ starting \/ Tail(stack) # <<>>)
  /\ UNCHANGED <<idle, running, answer, dlg, cancelled, pressed, gone, pulses,
                 starting, atStartup, stray>>

(* The end of sync_dialog_start_sync() and of sync_manager_show(). *)
EndDialog(d) ==
  /\ Unref(loop) /\ stray' = (stray \/ refs[loop] = 0)
  /\ dialog' = [dialog EXCEPT ![d] = "none"] /\ view' = TRUE /\ pulses' = 0
  /\ stack' = Tail(stack)
  /\ UNCHANGED <<loop, running>>

NoCloseButton(d, cancel) ==
  /\ mem' = [r \in Rec |-> IF r[1] = d /\ mem[r] = "live" THEN "freed" ELSE mem[r]]
  /\ cancelled' = [cancelled EXCEPT ![d] = cancel] /\ UNCHANGED <<answer, dialog>>
  /\ \/ ~cancel /\ EndDialog(d)
     \/ /\ cancel
        /\ stack' = <<Frame("wait", <<d, 0>>, loop)>> \o Tail(stack)
        /\ RunLoop(loop) /\ UNCHANGED <<loop, refs, view, pulses, stray>>

EndActions(d, cancel) ==
  /\ mem' = [r \in Rec |-> IF r[1] = d /\ mem[r] = "live" THEN "freed" ELSE mem[r]]
  /\ cancelled' = [cancelled EXCEPT ![d] = cancel] /\ UNCHANGED answer
  /\ \/ ~cancel /\ EndDialog(d)
     \/ /\ cancel /\ dialog' = [dialog EXCEPT ![d] = "close"]
        /\ stack' = <<Frame("wait", <<d, 0>>, loop)>> \o Tail(stack)
        /\ RunLoop(loop) /\ stray' = (stray \/ refs[loop] = 0)
        /\ UNCHANGED <<loop, refs, view, pulses>>

NeverCancelled(d) == FALSE
IsCancelled(d)    == cancelled[d]

(* One round of the loop of sync_dialog_netarea_start_actions(), which goes *)
(* through the actions in the order of the list, over what is left of them, *)
(* `marks' being the labels so far.                                         *)
NextAction(d, left, marks) ==
  LET r == <<d, Min(left)>>
  IN  /\ todo' = [todo EXCEPT ![d] = left]
      /\ \/ left = {} /\ mark' = marks /\ EndActions(d, cancelled[d])
         \/ /\ left # {} /\ IsCancelled(d)
            /\ mark' = [marks EXCEPT ![r] = "canceled"] /\ EndActions(d, TRUE)
         \/ /\ left # {} /\ ~IsCancelled(d)
            /\ mark' = [marks EXCEPT ![r] = "current"] /\ SendRequest(r)
            /\ UNCHANGED <<mem, dialog, cancelled, view, pulses>>

Prepared ==
  /\ stack # <<>> /\ Top.at = "prepare" /\ Drained
  /\ NextAction(Top.rec[1], todo[Top.rec[1]], mark)
  /\ UNCHANGED <<idle, dlg, pressed, overlaps, gone, starting, atStartup>>

NeverFailed(r) == FALSE
Failed(r)      == answer[r] = "error"
Others         == todo[Top.rec[1]] \ {Top.rec[2]}

GoesOn ==
  /\ stack # <<>> /\ Top.at = "request" /\ Top.rec[1] > 0 /\ ~running[Top.on]
  /\ NextAction(Top.rec[1], Others,
       [mark EXCEPT ![Top.rec] = IF Failed(Top.rec) THEN "failed" ELSE "done"])
  /\ UNCHANGED <<idle, dlg, pressed, overlaps, gone, starting, atStartup>>

RequestReturns ==
  /\ stack # <<>> /\ Top.at = "request" /\ Top.rec[1] > 0 /\ ~running[Top.on]
  /\ \/ /\ Failed(Top.rec)
        /\ mark' = [mark EXCEPT ![Top.rec] = "failed"]
        /\ todo' = [todo EXCEPT ![Top.rec[1]] = Others] /\ EndActions(Top.rec[1], TRUE)
     \/ /\ ~Failed(Top.rec)
        /\ NextAction(Top.rec[1], Others, [mark EXCEPT ![Top.rec] = "done"])
  /\ UNCHANGED <<idle, dlg, pressed, overlaps, gone, starting, atStartup>>

WaitReturns ==
  /\ stack # <<>> /\ Top.at = "wait" /\ ~running[Top.on]
  /\ EndDialog(Top.rec[1])
  /\ UNCHANGED <<idle, work, dlg, cancelled, pressed, overlaps, gone, starting, atStartup>>
-----------------------------------------------------------------------------
(* The user: _cancel_sync(), close_clicked(), and the window manager. *)
CancelSync(d) ==
  /\ "cancel" \in UserActs /\ dialog[d] = "sync" /\ d \notin pressed \cup gone /\ ~Asked
  /\ answer' = [r \in Rec |-> IF answer[r] = "sent" THEN "aborted" ELSE answer[r]]
  /\ cancelled' = [cancelled EXCEPT ![d] = TRUE] /\ pressed' = pressed \cup {d}
  /\ QuitLoop(loop) /\ stray' = (stray \/ refs[loop] = 0)
  /\ UNCHANGED <<idle, stack, loop, refs, mem, mark, todo, dlg, dialog, overlaps, gone, shell>>

CloseClicked(d) ==
  /\ dialog[d] = "close" /\ d \notin gone /\ ~Asked
  /\ dialog' = [dialog EXCEPT ![d] = "closed"]
  /\ QuitLoop(loop) /\ stray' = (stray \/ refs[loop] = 0)
  /\ UNCHANGED <<idle, stack, loop, refs, work, dlg, cancelled, pressed, overlaps, gone, shell>>

DeleteWindow(d) ==
  /\ "delete" \in UserActs /\ dialog[d] \in {"sync", "close"} /\ d \notin gone
  /\ gone' = gone \cup {d}
  /\ UNCHANGED <<idle, stack, loops, work, dlg, dialog, cancelled, pressed, overlaps, shell, stray>>

Returns == PulseEnds \/ SyncOneReturns \/ Prepared \/ Generated \/ RequestReturns \/ WaitReturns

Next ==
  \/ SyncOne \/ InitReturns
  \/ PulseEnds \/ SyncOneReturns \/ Prepared \/ RequestReturns \/ WaitReturns
  \/ Benchmark \/ Generated
  \/ \E r \in Rec : GotResponse(r)
  \/ OpenDialog \/ DialogRefused \/ \E chosen \in Selections : StartSync(chosen)
  \/ \E d \in Dialog : CancelSync(d) \/ CloseClicked(d) \/ DeleteWindow(d)

(* The main loop dispatches what is pending, benchmarks end, calls whose    *)
(* loop was left return, the session's time-out answers every request, and  *)
(* the user answers the question and closes a dialog that offers it.        *)
Fairness ==
  /\ WF_vars(SyncOne) /\ WF_vars(InitReturns) /\ WF_vars(Returns)
  /\ \A r \in Rec : WF_vars(GotResponse(r))
  /\ WF_vars(DialogRefused \/ \E chosen \in Selections : StartSync(chosen))
  /\ \A d \in Dialog : WF_vars(CloseClicked(d))

Spec == Init /\ [][Next]_vars /\ Fairness
-----------------------------------------------------------------------------
(* One synchronisation at a time, and nobody has cancelled one.             *)
Undisturbed == pressed = {} /\ ~overlaps

(* Undisturbed, an action is shown as done only when its own request was    *)
(* answered well: no other response ends its wait.                          *)
DoneIsAnswered == Undisturbed => \A r \in Rec : mark[r] = "done" => answer[r] = "ok"

(* Undisturbed, the memory of an action, which got_response() writes the    *)
(* error of its request into, outlasts it.                                  *)
RecordsOutliveRequests ==
  Undisturbed => \A r \in Rec : answer[r] = "sent" => mem[r] = "live"

(* It takes a Cancel, or a dialog that starts inside another one or inside  *)
(* the start-up, for somebody to run, leave or release a loop, or write to  *)
(* an action, that has been freed.                                          *)
NothingStray == Undisturbed => ~stray

(* A dialog stops at its first action that did not end well: in list order  *)
(* its actions are done, then one that is current, failed or cancelled,     *)
(* then untouched ones.                                                     *)
MarksInOrder ==
  \A l \in Dialog, d, e \in Entry :
    d < e /\ mark[<<l, d>>] # "none" /\ mark[<<l, e>>] # "none" =>
      mark[<<l, d>>] = "done" \/ mark[<<l, e>>] = "waiting"

(* After a Cancel, whatever late answers and other dialogs wake it up, a    *)
(* dialog begins nothing more: all that it may still send is the upload     *)
(* whose contents were being generated.                                     *)
CancelStops ==
  [][\A d \in pressed, e \in Entry : mark[<<d, e>>] # "current" =>
       /\ mark'[<<d, e>>] # "current"
       /\ answer'[<<d, e>>] = "sent" => answer[<<d, e>>] = "sent"]_vars

(* "wait for the user to close the dialog": only Close ends that wait.      *)
WaitsForClose == [][WaitReturns => dialog[Top.rec[1]] = "closed"]_vars

(* sync_manager_show() returns, whatever the answers and the moment of a    *)
(* Cancel, and gives the window back, even if the user closes the dialog's  *)
(* window: unless it is then to wait for its Close button, or another       *)
(* dialog starts inside it.                                                 *)
ShowReturns ==
  \A d \in Dialog :
    dialog[d] = "sync" ~> (dialog[d] = "none" /\ view) \/ (d \in gone /\ cancelled[d]) \/ overlaps

(* "Synchronize on startup": every entry that can be fetched is fetched,    *)
(* and shell_init() ends, unless a dialog starts in between.                *)
StartupSyncs ==
  \/ <>overlaps
  \/ /\ <>~starting
     /\ \A e \in Entry : atStartup /\ Down(e) => <>(answer[<<0, e>>] \in {"ok", "error"})
=============================================================================
