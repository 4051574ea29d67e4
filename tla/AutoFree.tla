------------------------------- MODULE AutoFree -------------------------------
(***************************************************************************)
(* deps/sysobj_early/src/auto_free.c: auto_free(p) puts p on a list with   *)
(* the calling thread and the time; a timeout of the main loop frees what  *)
(* is old enough, but only for its own thread, a thread may free its own   *)
(* when it ends, and the end of the program frees the rest.  The list has  *)
(* a mutex; the timer, the timeout and the first look at the list do not.  *)
(* Time is in whole seconds.                                               *)
(***************************************************************************)
EXTENDS Integers

CONSTANTS
  Threads, main,     \* main runs the main loop
  Items,             \* the pointers passed to auto_free()
  AF_SECONDS,        \* the period of the timeout
  AF_DELAY_SECONDS,  \* how old an item must be
  MaxTime            \* bound on the clock

ASSUME ThreadsAssumption == main \in Threads /\ Items # {}
ASSUME TimesAssumption ==
  /\ AF_SECONDS \in Nat \ {0} /\ AF_DELAY_SECONDS \in Nat /\ MaxTime \in Nat

VARIABLES
  time,
  auto_free_timer,   \* when it was started, or NoTimer
  free_event_source, \* 0 or 1
  sources,           \* the timeouts there are in the main loop: who added it, when it is due
  free_final,
  free_list,         \* set of items
  owner, stamp,      \* per item: z->thread, z->stamp
  pc, item, saw, now, \* per thread: where it is, and its locals
  at,                \* history: per item, when auto_free() stamped it
  freed              \* history: per item, by whom it was freed, why and when

shared  == <<auto_free_timer, free_event_source, sources, free_final>>
locals  == <<pc, item, saw, now>>
entries == <<free_list, owner, stamp, at>>
vars    == <<time, shared, entries, locals, freed>>

NoTimer == -1
OnExit  == -1     \* the stamp of auto_free_on_exit()
Kept    == [by |-> main, why |-> "no", when |-> 0]

(* af_elapsed() *)
Elapsed == IF auto_free_timer = NoTimer THEN 0 ELSE time - auto_free_timer

Init ==
  /\ time = 0 /\ auto_free_timer = NoTimer
  /\ free_event_source = 0 /\ sources = {} /\ free_final = FALSE
  /\ free_list = {}
  /\ owner = [i \in Items |-> main] /\ stamp = [i \in Items |-> 0] /\ at = [i \in Items |-> 0]
  /\ pc = [t \in Threads |-> "idle"] /\ item = [t \in Threads |-> CHOOSE i \in Items : TRUE]
  /\ saw = [t \in Threads |-> 0] /\ now = [t \in Threads |-> 0]
  /\ freed = [i \in Items |-> Kept]

Go(t, where) == pc' = [pc EXCEPT ![t] = where]

Unknown(i) ==
  i \notin free_list /\ freed[i] = Kept /\ \A t \in Threads : pc[t] # "idle" => item[t] # i
-----------------------------------------------------------------------------
(* auto_free_ex_(): each look at the timer and at the source is a step of  *)
(* its own, for another thread may set either in between.                  *)
Begin(t, i) ==
  /\ pc[t] = "idle" /\ Unknown(i)
  /\ Go(t, "timer")
  /\ item' = [item EXCEPT ![t] = i]
  /\ free_final' = FALSE
  /\ saw' = [saw EXCEPT ![t] = IF auto_free_timer = NoTimer THEN 0 ELSE 1]
  /\ UNCHANGED <<time, auto_free_timer, free_event_source, sources, entries, now, freed>>

SetTimer(t) ==
  /\ pc[t] = "timer"
  /\ Go(t, "source")
  /\ auto_free_timer' = IF saw[t] = 0 THEN time ELSE auto_free_timer
  /\ saw' = [saw EXCEPT ![t] = free_event_source]
  /\ UNCHANGED <<time, free_event_source, sources, free_final, entries, item, now, freed>>

SetSource(t) ==
  /\ pc[t] = "source"
  /\ Go(t, "stamp")
  /\ free_event_source' = 1
  /\ sources' = IF saw[t] = 0 THEN sources \cup {<<t, time + AF_SECONDS>>} ELSE sources
  /\ saw' = [saw EXCEPT ![t] = 0]      \* no longer of interest
  /\ UNCHANGED <<time, auto_free_timer, free_final, entries, item, now, freed>>

Stamp(t) ==
  /\ pc[t] = "stamp"
  /\ Go(t, "prepend")
  /\ owner' = [owner EXCEPT ![item[t]] = t]
  /\ stamp' = [stamp EXCEPT ![item[t]] = Elapsed]
  /\ at' = [at EXCEPT ![item[t]] = time]
  /\ UNCHANGED <<time, shared, free_list, item, saw, now, freed>>

Prepend(t) ==
  /\ pc[t] = "prepend"
  /\ Go(t, "idle")
  /\ free_list' = free_list \cup {item[t]}
  /\ UNCHANGED <<time, shared, owner, stamp, at, item, saw, now, freed>>

(* auto_free_on_exit_ex_() *)
AutoFreeOnExit(t, i) ==
  /\ pc[t] = "idle" /\ Unknown(i)
  /\ free_list' = free_list \cup {i}
  /\ owner' = [owner EXCEPT ![i] = t]
  /\ stamp' = [stamp EXCEPT ![i] = OnExit]
  /\ at' = [at EXCEPT ![i] = time]
  /\ UNCHANGED <<time, shared, locals, freed>>
-----------------------------------------------------------------------------
(* free_auto_free_ex(): the time and whether there is a list are read      *)
(* before the lock is taken, free_final under it.                          *)
Enter(t, pass) ==
  /\ IF free_list = {}
     THEN UNCHANGED <<pc, now>>
     ELSE Go(t, pass) /\ now' = [now EXCEPT ![t] = Elapsed]
  /\ UNCHANGED <<item, saw>>

SkipsOnExit(i)    == ~free_final /\ stamp[i] < 0
TimerOld(t, i)    == now[t] > AF_DELAY_SECONDS
OldEnough(t, i)   == now[t] - stamp[i] > AF_DELAY_SECONDS
Mine(t, i)        == owner[i] = t

Frees(t, thread_final, i) ==
  /\ i \in free_list /\ ~SkipsOnExit(i)
  /\ free_final \/ (Mine(t, i) /\ (thread_final \/ OldEnough(t, i)))

Reason(thread_final) ==
  IF free_final THEN "final" ELSE IF thread_final THEN "thread" ELSE "delay"

Free(t, gone, why) ==
  /\ free_list' = free_list \ gone
  /\ freed' = [i \in Items |-> IF i \in gone THEN [by |-> t, why |-> why, when |-> time] ELSE freed[i]]

Pass(t, thread_final) ==
  /\ Free(t, {i \in Items : Frees(t, thread_final, i)}, Reason(thread_final))
  /\ now' = [now EXCEPT ![t] = 0]
  /\ UNCHANGED <<time, shared, owner, stamp, at, item, saw>>

(* free_auto_free_sf(): the timeout, and free_auto_free() *)
GoesOff(s)   == sources \ {s}
ComesBack(s) == (sources \ {s}) \cup {<<s[1], time + AF_SECONDS>>}

Dispatch(s) ==
  /\ pc[main] = "idle" /\ s[2] <= time
  /\ \/ /\ free_final
        /\ free_event_source' = 0 /\ sources' = sources \ {s}
        /\ UNCHANGED locals
     \/ /\ ~free_final
        /\ sources' = ComesBack(s)
        /\ Enter(main, "free")
        /\ UNCHANGED free_event_source
  /\ UNCHANGED <<time, auto_free_timer, free_final, entries, freed>>

FreeOld(t) == pc[t] = "free" /\ Go(t, "idle") /\ Pass(t, FALSE)

(* A thread that ends calls free_auto_free_thread_final(), or does not. *)
ThreadFinal(t) ==
  /\ t # main /\ pc[t] = "idle"
  /\ Enter(t, "thread")
  /\ UNCHANGED <<time, shared, entries, freed>>

FreeOwn(t) == pc[t] = "thread" /\ Go(t, "ended") /\ Pass(t, TRUE)

Leave(t) ==
  /\ t # main /\ pc[t] = "idle"
  /\ Go(t, "ended")
  /\ UNCHANGED <<time, shared, entries, item, saw, now, freed>>

(* free_auto_free_final() is for the end of the program: only main is left, *)
(* and nothing comes between its steps.                                     *)
OnlyOwn   == {i \in free_list : owner[i] = main}
All       == free_list

Final ==
  /\ \A t \in Threads : pc[t] = IF t = main THEN "idle" ELSE "ended"
  /\ free_final' = TRUE
  /\ Free(main, All, "final")
  /\ auto_free_timer' = NoTimer
  /\ UNCHANGED <<time, free_event_source, sources, owner, stamp, at, locals>>

(* The few instructions that set the timer up take no second. *)
Tick ==
  /\ time < MaxTime
  /\ \A t \in Threads : pc[t] \notin {"timer", "source"}
  /\ time' = time + 1
  /\ UNCHANGED <<shared, entries, locals, freed>>

Step(t) == SetTimer(t) \/ SetSource(t) \/ Stamp(t) \/ Prepend(t) \/ FreeOld(t) \/ FreeOwn(t)

Next ==
  \/ \E t \in Threads : Step(t) \/ ThreadFinal(t) \/ Leave(t)
  \/ \E t \in Threads, i \in Items : Begin(t, i) \/ AutoFreeOnExit(t, i)
  \/ \E s \in sources : Dispatch(s)
  \/ Final
  \/ Tick

(* The clock runs, the main loop dispatches what is due, no thread stops    *)
(* inside a call.                                                           *)
Spec ==
  /\ Init /\ [][Next]_vars
  /\ WF_vars(Tick) /\ WF_vars(\E s \in sources : Dispatch(s))
  /\ \A t \in Threads : WF_vars(Step(t))
-----------------------------------------------------------------------------
(* Types, and a stamped item of the list has a timer to compare it with.   *)
TypeOK ==
  /\ time \in 0 .. MaxTime /\ auto_free_timer \in NoTimer .. time
  /\ free_event_source \in {0, 1} /\ free_final \in BOOLEAN
  /\ \A s \in sources : s[1] \in Threads /\ s[2] \in 0 .. (MaxTime + AF_SECONDS)
  /\ free_list \subseteq Items
  /\ owner \in [Items -> Threads] /\ stamp \in [Items -> OnExit .. MaxTime] /\ at \in [Items -> 0 .. MaxTime]
  /\ pc \in [Threads -> {"idle", "timer", "source", "stamp", "prepend", "free", "thread", "ended"}]
  /\ item \in [Threads -> Items] /\ saw \in [Threads -> {0, 1}] /\ now \in [Threads -> 0 .. MaxTime]
  /\ freed \in [Items -> [by : Threads, why : {"no", "delay", "thread", "final"}, when : 0 .. MaxTime]]

(* "the minimum time between auto_free(p) and free(p)" (auto_free.h:36):   *)
(* unless a thread or the program ends, an item lives longer than that,    *)
(* whichever threads set the timer, or stamp items while another one is    *)
(* about to free: the code that called auto_free() may still be using it.  *)
KeptForDelay ==
  \A i \in Items : freed[i].why = "delay" => freed[i].when - at[i] > AF_DELAY_SECONDS

(* Until the program ends an item is freed by no thread but its own.       *)
FreedByOwner ==
  \A i \in Items : freed[i].why \in {"delay", "thread"} => freed[i].by = owner[i]

(* What is given to auto_free_on_exit() outlives everything but the end of *)
(* the program, however many timeouts come and threads end.                *)
ExitItemsStay ==
  \A i \in Items : stamp[i] = OnExit => freed[i].why \in {"no", "final"}

(* After the end nothing auto_free() took is left, the items of threads    *)
(* that ended without freeing theirs included; one that comes later starts *)
(* again.  (auto_free_on_exit() does not: what it takes then is kept.)     *)
NothingLeft == free_final => \A i \in free_list : stamp[i] = OnExit

(* While there is a main loop, each item its thread gives to auto_free()   *)
(* is freed: there is a timeout, it comes back, and at the latest the      *)
(* second one finds the item old enough.                                   *)
Registered(i) == i \in free_list /\ owner[i] = main /\ stamp[i] # OnExit
LoopFrees ==
  \A i \in Items :
    (Registered(i) /\ at[i] + AF_DELAY_SECONDS + AF_SECONDS < MaxTime) ~> freed[i] # Kept
=============================================================================
