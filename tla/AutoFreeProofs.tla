---------------------------- MODULE AutoFreeProofs ----------------------------
(***************************************************************************)
(* What AutoFree promises of each item, for any number of threads and      *)
(* items and any delay.  An age is measured by the timer there is when the *)
(* list is walked, a stamp by the one there was when auto_free() was       *)
(* called: Clocked says that the timer there is never starts too early for *)
(* a stamp, Swept that what a thread about to free has read does not       *)
(* either, for its own items; Fresh, that no item is taken twice.          *)
(***************************************************************************)
EXTENDS AutoFree, TLAPS

Busy == {"timer", "source", "stamp", "prepend"}

(* i is on the list, or on its way to it *)
Stamped(i) == i \in free_list \/ \E t \in Threads : pc[t] = "prepend" /\ item[t] = i

Fresh ==
  /\ \A t \in Threads : pc[t] \in Busy => item[t] \notin free_list /\ freed[item[t]] = Kept
  /\ \A t, u \in Threads : pc[t] \in Busy /\ pc[u] \in Busy /\ t # u => item[t] # item[u]

HasTimer ==
  \A t \in Threads :
    pc[t] \in {"source", "stamp", "prepend"} \/ (pc[t] = "timer" /\ saw[t] = 1)
      => auto_free_timer # NoTimer

Clocked ==
  \A i \in Items : Stamped(i) /\ stamp[i] # OnExit =>
    auto_free_timer # NoTimer /\ at[i] <= auto_free_timer + stamp[i]

Swept ==
  \A t \in Threads, i \in Items :
    pc[t] = "free" /\ Stamped(i) /\ owner[i] = t /\ stamp[i] # OnExit =>
      now[t] - stamp[i] <= time - at[i]

Why     == {"no", "delay", "thread", "final"}
History == [by : Threads, why : Why, when : 0 .. MaxTime]
IInv == TypeOK /\ Fresh /\ HasTimer /\ Clocked /\ Swept
Facts == KeptForDelay /\ FreedByOwner /\ ExitItemsStay
-----------------------------------------------------------------------------
LEMMA ElapsedBound == ASSUME TypeOK PROVE Elapsed \in 0 .. time /\ Elapsed \in 0 .. MaxTime
  BY TimesAssumption DEF TypeOK, Elapsed, NoTimer

LEMMA TypeInit == ASSUME Init PROVE TypeOK
  <1>1. item \in [Threads -> Items]
    <2>1. (CHOOSE i \in Items : TRUE) \in Items
      BY ThreadsAssumption
    <2> QED BY <2>1 DEF Init
  <1>2. freed \in [Items -> History]
    BY ThreadsAssumption, TimesAssumption DEF Kept, Init, History, Why
  <1>3. time \in 0 .. MaxTime /\ auto_free_timer \in NoTimer .. time
    BY TimesAssumption DEF Init, NoTimer
  <1>4. owner \in [Items -> Threads] /\ stamp \in [Items -> OnExit .. MaxTime] /\ at \in [Items -> 0 .. MaxTime]
    BY ThreadsAssumption, TimesAssumption DEF Init, OnExit
  <1>5. saw \in [Threads -> {0, 1}] /\ now \in [Threads -> 0 .. MaxTime]
    BY TimesAssumption DEF Init
  <1> QED BY <1>1, <1>2, <1>3, <1>4, <1>5 DEF Init, TypeOK, History, Why

(* What one thread does to the history and the list, in all the ways to free. *)
LEMMA TypeFree ==
  ASSUME TypeOK, NEW t \in Threads, NEW gone, NEW why \in Why,
         Free(t, gone, why)
  PROVE  /\ free_list' \subseteq Items
         /\ freed' \in [Items -> History]
  BY DEF TypeOK, Free, History, Why

LEMMA ReasonType == \A b \in BOOLEAN : Reason(b) \in Why
  BY DEF Reason, Why

LEMMA TypeStep == ASSUME TypeOK, [Next]_vars PROVE TypeOK'
  <1> USE TimesAssumption DEF TypeOK, NoTimer, OnExit, History, Why
  <1>1. CASE UNCHANGED vars
    BY <1>1 DEF vars, shared, locals, entries
  <1>2. ASSUME NEW t \in Threads, Step(t) PROVE TypeOK'
    <2>1. CASE SetTimer(t)
      BY <2>1 DEF SetTimer, Go, entries
    <2>2. CASE SetSource(t)
      BY <2>2 DEF SetSource, Go, entries
    <2>3. CASE Stamp(t)
      <3>1. Elapsed \in OnExit .. MaxTime
        BY ElapsedBound
      <3> QED BY <2>3, <3>1 DEF Stamp, Go, shared
    <2>4. CASE Prepend(t)
      BY <2>4 DEF Prepend, Go, shared
    <2>5. CASE FreeOld(t)
      <3>1. PICK gone, why : why \in Why /\ Free(t, gone, why)
        BY <2>5, ReasonType DEF FreeOld, Pass
      <3>2. free_list' \subseteq Items /\ freed' \in [Items -> History]
        BY <3>1 DEF Free
      <3> QED BY <2>5, <3>2 DEF FreeOld, Pass, Go, shared
    <2>6. CASE FreeOwn(t)
      <3>1. PICK gone, why : why \in Why /\ Free(t, gone, why)
        BY <2>6, ReasonType DEF FreeOwn, Pass
      <3>2. free_list' \subseteq Items /\ freed' \in [Items -> History]
        BY <3>1 DEF Free
      <3> QED BY <2>6, <3>2 DEF FreeOwn, Pass, Go, shared
    <2> QED BY <1>2, <2>1, <2>2, <2>3, <2>4, <2>5, <2>6 DEF Step
  <1>3. ASSUME NEW t \in Threads, ThreadFinal(t) \/ Leave(t) PROVE TypeOK'
    <2>1. CASE ThreadFinal(t)
      <3>1. Elapsed \in 0 .. MaxTime
        BY ElapsedBound
      <3>2. pc' \in [Threads -> {"idle", "timer", "source", "stamp", "prepend", "free", "thread", "ended"}]
            /\ now' \in [Threads -> 0 .. MaxTime]
        <4>1. CASE UNCHANGED <<pc, now>>
          BY <4>1
        <4>2. CASE Go(t, "thread") /\ now' = [now EXCEPT ![t] = Elapsed]
          BY <4>2, <3>1 DEF Go
        <4> QED BY <2>1, <4>1, <4>2 DEF ThreadFinal, Enter
      <3> QED BY <2>1, <3>2 DEF ThreadFinal, Enter, shared, entries
    <2>2. CASE Leave(t)
      BY <2>2 DEF Leave, Go, shared, entries
    <2> QED BY <1>3, <2>1, <2>2
  <1>4. ASSUME NEW t \in Threads, NEW i \in Items, Begin(t, i) PROVE TypeOK'
    BY <1>4 DEF Begin, Go, entries
  <1>5. ASSUME NEW t \in Threads, NEW i \in Items, AutoFreeOnExit(t, i) PROVE TypeOK'
    BY <1>5 DEF AutoFreeOnExit, shared, locals
  <1>6. ASSUME NEW s \in sources, Dispatch(s) PROVE TypeOK'
    <2>1. Elapsed \in 0 .. MaxTime
      BY ElapsedBound
    <2>2. pc' \in [Threads -> {"idle", "timer", "source", "stamp", "prepend", "free", "thread", "ended"}]
          /\ now' \in [Threads -> 0 .. MaxTime]
      <3>1. CASE UNCHANGED <<pc, now>>
        BY <3>1
      <3>2. CASE Go(main, "free") /\ now' = [now EXCEPT ![main] = Elapsed]
        BY <3>2, <2>1 DEF Go
      <3> QED BY <1>6, <3>1, <3>2 DEF Dispatch, Enter, locals
    <2>3. \A r \in sources' : r[1] \in Threads /\ r[2] \in 0 .. (MaxTime + AF_SECONDS)
      <3>1. <<s[1], time + AF_SECONDS>>[1] \in Threads /\ <<s[1], time + AF_SECONDS>>[2] \in 0 .. (MaxTime + AF_SECONDS)
        OBVIOUS
      <3>2. sources' \subseteq sources \cup {<<s[1], time + AF_SECONDS>>}
        BY <1>6 DEF Dispatch, ComesBack
      <3> QED BY <3>1, <3>2
    <2>4. free_event_source' \in {0, 1}
      BY <1>6 DEF Dispatch
    <2>5. UNCHANGED <<item, saw, time, auto_free_timer, free_final, entries, freed>>
      BY <1>6 DEF Dispatch, Enter, locals
    <2> QED BY <2>2, <2>3, <2>4, <2>5 DEF entries
  <1>7. CASE Final
    <2>1. free_list' \subseteq Items /\ freed' \in [Items -> History]
      BY <1>7, TypeFree, ThreadsAssumption DEF Final
    <2> QED BY <1>7, <2>1 DEF Final, locals
  <1>8. CASE Tick
    BY <1>8 DEF Tick, shared, entries, locals
  <1> QED BY <1>1, <1>2, <1>3, <1>4, <1>5, <1>6, <1>7, <1>8 DEF Next

(* Every variable stays within its type, the clock readings included.      *)
THEOREM TypeCorrect == Spec => []TypeOK
  <1>1. Init => TypeOK
    BY TypeInit
  <1>2. TypeOK /\ [Next]_vars => TypeOK'
    BY TypeStep
  <1> QED BY <1>1, <1>2, PTL DEF Spec
-----------------------------------------------------------------------------
(* Whoever frees, only items of the list go.                               *)
LEMMA OnlyListed ==
  ASSUME NEW t \in Threads, NEW b \in BOOLEAN, Pass(t, b)
  PROVE  /\ free_list' \subseteq free_list
         /\ \A i \in Items : i \notin free_list => freed'[i] = freed[i]
         /\ UNCHANGED <<item, at, owner, stamp>>
  BY DEF Pass, Free, Frees

LEMMA FreshStep == ASSUME IInv, [Next]_vars PROVE Fresh'
  <1> USE DEF Fresh, Busy
  <1>t. pc \in [Threads -> {"idle", "timer", "source", "stamp", "prepend", "free", "thread", "ended"}]
        /\ item \in [Threads -> Items] /\ Fresh
    BY DEF TypeOK, IInv
  <1>1. CASE UNCHANGED vars
    BY <1>1, <1>t DEF vars, locals, entries
  <1>2. ASSUME NEW t \in Threads, SetTimer(t) \/ SetSource(t) \/ Stamp(t) PROVE Fresh'
    <2>1. pc[t] \in Busy /\ UNCHANGED <<item, free_list, freed>>
      BY <1>2 DEF SetTimer, SetSource, Stamp, entries
    <2>2. \A u \in Threads : pc'[u] \in Busy => pc[u] \in Busy
      BY <1>t, <1>2, <2>1 DEF SetTimer, SetSource, Stamp, Go
    <2> QED BY <1>t, <2>1, <2>2
  <1>3. ASSUME NEW t \in Threads, Prepend(t) PROVE Fresh'
    BY <1>3, <1>t DEF Prepend, Go
  <1>4. ASSUME NEW t \in Threads, NEW b \in BOOLEAN, Pass(t, b),
               Go(t, "idle") \/ Go(t, "ended") PROVE Fresh'
    <2>1. \A u \in Threads : pc'[u] \in Busy => pc[u] \in Busy
      BY <1>t, <1>4 DEF Go
    <2> QED BY <1>t, <1>4, <2>1, OnlyListed
  <1>5. ASSUME NEW t \in Threads, ThreadFinal(t) \/ Leave(t) PROVE Fresh'
    <2>1. \A u \in Threads : pc'[u] \in Busy => pc[u] \in Busy
      BY <1>t, <1>5 DEF ThreadFinal, Leave, Enter, Go
    <2> QED BY <1>t, <1>5, <2>1 DEF ThreadFinal, Leave, Enter, entries
  <1>6. ASSUME NEW t \in Threads, NEW i \in Items, Begin(t, i) PROVE Fresh'
    BY <1>6, <1>t DEF Begin, Unknown, Go, entries
  <1>7. ASSUME NEW t \in Threads, NEW i \in Items, AutoFreeOnExit(t, i) PROVE Fresh'
    BY <1>7, <1>t DEF AutoFreeOnExit, Unknown, locals
  <1>8. ASSUME NEW s \in sources, Dispatch(s) PROVE Fresh'
    <2>1. \A u \in Threads : pc'[u] \in Busy => pc[u] \in Busy
      BY <1>t, <1>8, ThreadsAssumption DEF Dispatch, Enter, Go, locals
    <2> QED BY <1>t, <1>8, <2>1 DEF Dispatch, Enter, locals, entries
  <1>9. CASE Final
    <2>1. \A u \in Threads : pc'[u] \notin Busy
      BY <1>9, <1>t DEF Final, locals
    <2> QED BY <2>1
  <1>10. CASE Tick
    BY <1>10, <1>t DEF Tick, locals, entries
  <1>11. ASSUME NEW t \in Threads, Step(t) PROVE Fresh'
    BY <1>11, <1>2, <1>3, <1>4 DEF Step, FreeOld, FreeOwn
  <1> HIDE DEF Fresh
  <1> QED BY <1>1, <1>5, <1>6, <1>7, <1>8, <1>9, <1>10, <1>11 DEF Next
-----------------------------------------------------------------------------
LEMMA HasTimerStep == ASSUME IInv, [Next]_vars PROVE HasTimer'
  <1> USE DEF HasTimer
  <1>t. pc \in [Threads -> {"idle", "timer", "source", "stamp", "prepend", "free", "thread", "ended"}]
        /\ saw \in [Threads -> {0, 1}] /\ HasTimer
    BY DEF IInv, TypeOK
  <1>u. time # NoTimer
    BY TimesAssumption DEF IInv, TypeOK, NoTimer
  <1>1. CASE UNCHANGED vars
    BY <1>1, <1>t DEF vars, locals, shared
  <1>2. ASSUME NEW t \in Threads, SetTimer(t) PROVE HasTimer'
    <2>1. auto_free_timer' # NoTimer
      BY <1>2, <1>t, <1>u DEF SetTimer
    <2> QED BY <2>1
  <1>3. ASSUME NEW t \in Threads, SetSource(t) PROVE HasTimer'
    BY <1>3, <1>t DEF SetSource, Go
  <1>4. ASSUME NEW t \in Threads, Stamp(t) PROVE HasTimer'
    BY <1>4, <1>t DEF Stamp, Go, shared
  <1>5. ASSUME NEW t \in Threads, Prepend(t) PROVE HasTimer'
    BY <1>5, <1>t DEF Prepend, Go, shared
  <1>6. ASSUME NEW t \in Threads, NEW b \in BOOLEAN, Pass(t, b),
               Go(t, "idle") \/ Go(t, "ended") PROVE HasTimer'
    BY <1>6, <1>t DEF Pass, Go, shared
  <1>7. ASSUME NEW t \in Threads, ThreadFinal(t) \/ Leave(t) PROVE HasTimer'
    BY <1>7, <1>t DEF ThreadFinal, Leave, Enter, Go, shared
  <1>8. ASSUME NEW t \in Threads, NEW i \in Items, Begin(t, i) PROVE HasTimer'
    BY <1>8, <1>t DEF Begin, Go
  <1>9. ASSUME NEW t \in Threads, NEW i \in Items, AutoFreeOnExit(t, i) PROVE HasTimer'
    BY <1>9, <1>t DEF AutoFreeOnExit, shared, locals
  <1>10. ASSUME NEW s \in sources, Dispatch(s) PROVE HasTimer'
    BY <1>10, <1>t, ThreadsAssumption DEF Dispatch, Enter, Go, locals
  <1>11. CASE Final
    BY <1>11, <1>t DEF Final, locals
  <1>12. CASE Tick
    BY <1>12, <1>t DEF Tick, shared, locals
  <1> QED BY <1>1, <1>2, <1>3, <1>4, <1>5, <1>6, <1>7, <1>8, <1>9, <1>10, <1>11, <1>12
          DEF Next, Step, FreeOld, FreeOwn
-----------------------------------------------------------------------------
(* The steps that neither stamp an item nor take one for the exit.         *)
Quiet ==
  \/ UNCHANGED vars
  \/ \E t \in Threads :
       SetTimer(t) \/ SetSource(t) \/ Prepend(t) \/ FreeOld(t) \/ FreeOwn(t) \/ ThreadFinal(t) \/ Leave(t)
  \/ \E t \in Threads, i \in Items : Begin(t, i)
  \/ \E s \in sources : Dispatch(s)
  \/ Final
  \/ Tick

LEMMA QuietSteps ==
  ASSUME [Next]_vars
  PROVE  \/ Quiet
         \/ \E t \in Threads : Stamp(t)
         \/ \E t \in Threads, i \in Items : AutoFreeOnExit(t, i)
  BY DEF Next, Step, Quiet

LEMMA QuietKeeps ==
  ASSUME TypeOK, Quiet
  PROVE  UNCHANGED <<at, stamp, owner>> /\ \A i \in Items : Stamped(i)' => Stamped(i)
  <1> DEFINE Goal == UNCHANGED <<at, stamp, owner>> /\ \A i \in Items : Stamped(i)' => Stamped(i)
  <1> USE DEF Stamped
  <1>t. pc \in [Threads -> {"idle", "timer", "source", "stamp", "prepend", "free", "thread", "ended"}]
    BY DEF TypeOK
  <1>1. CASE UNCHANGED vars
    BY <1>1 DEF vars, locals, entries
  <1>2. ASSUME NEW t \in Threads, SetTimer(t) \/ SetSource(t) PROVE Goal
    BY <1>t, <1>2 DEF SetTimer, SetSource, Go, entries
  <1>3. ASSUME NEW t \in Threads, Prepend(t) PROVE Goal
    BY <1>t, <1>3 DEF Prepend, Go
  <1>4. ASSUME NEW t \in Threads, NEW b \in BOOLEAN, Pass(t, b),
               Go(t, "idle") \/ Go(t, "ended") PROVE Goal
    BY <1>t, <1>4, OnlyListed DEF Go
  <1>5. ASSUME NEW t \in Threads, ThreadFinal(t) \/ Leave(t) PROVE Goal
    BY <1>t, <1>5 DEF ThreadFinal, Leave, Enter, Go, entries
  <1>6. ASSUME NEW t \in Threads, NEW i \in Items, Begin(t, i) PROVE Goal
    BY <1>t, <1>6 DEF Begin, Go, entries
  <1>7. ASSUME NEW s \in sources, Dispatch(s) PROVE Goal
    BY <1>t, <1>7, ThreadsAssumption DEF Dispatch, Enter, Go, locals, entries
  <1>8. CASE Final
    BY <1>8 DEF Final, Free, All, locals
  <1>9. CASE Tick
    BY <1>9 DEF Tick, locals, entries
  <1> HIDE DEF Goal
  <1>10. Goal
    BY <1>1, <1>2, <1>3, <1>4, <1>5, <1>6, <1>7, <1>8, <1>9 DEF Quiet, FreeOld, FreeOwn, Goal
  <1> QED BY <1>10 DEF Goal

LEMMA ClockedStep == ASSUME IInv, [Next]_vars PROVE Clocked'
  <1>t. /\ time \in Int /\ auto_free_timer \in Int /\ auto_free_timer <= time /\ time # NoTimer
        /\ stamp \in [Items -> Int] /\ at \in [Items -> Int] /\ owner \in [Items -> Threads]
        /\ item \in [Threads -> Items]
        /\ pc \in [Threads -> {"idle", "timer", "source", "stamp", "prepend", "free", "thread", "ended"}]
    BY TimesAssumption DEF IInv, TypeOK, NoTimer, OnExit
  <1>c. Clocked /\ HasTimer
    BY DEF IInv
  <1>1. ASSUME Quiet, UNCHANGED auto_free_timer PROVE Clocked'
    <2>1. UNCHANGED <<at, stamp, owner>> /\ \A i \in Items : Stamped(i)' => Stamped(i)
      BY <1>1, QuietKeeps DEF IInv
    <2> QED BY <1>1, <1>c, <2>1 DEF Clocked
  <1>2. ASSUME NEW t \in Threads, SetTimer(t) PROVE Clocked'
    <2>1. UNCHANGED <<at, stamp, owner>> /\ \A i \in Items : Stamped(i)' => Stamped(i)
      BY <1>2, QuietKeeps DEF IInv, Quiet
    <2>2. auto_free_timer <= auto_free_timer' /\ auto_free_timer' \in Int
          /\ (auto_free_timer # NoTimer => auto_free_timer' # NoTimer)
      BY <1>2, <1>t DEF SetTimer
    <2> QED BY <1>t, <1>c, <2>1, <2>2 DEF Clocked
  <1>3. CASE Final
    <2>1. \A i \in Items : ~Stamped(i)'
      BY <1>3, <1>t DEF Final, Free, All, Stamped, locals
    <2> QED BY <2>1 DEF Clocked
  <1>4. ASSUME NEW t \in Threads, Stamp(t) PROVE Clocked'
    <2>1. auto_free_timer # NoTimer /\ Elapsed = time - auto_free_timer
      BY <1>4, <1>c DEF Stamp, HasTimer, Elapsed
    <2>2. \A i \in Items : i # item[t] => (Stamped(i)' => Stamped(i)) /\ at'[i] = at[i] /\ stamp'[i] = stamp[i]
      BY <1>4, <1>t DEF Stamp, Stamped, Go
    <2>3. UNCHANGED auto_free_timer /\ at'[item[t]] = time /\ stamp'[item[t]] = time - auto_free_timer
      BY <1>4, <1>t, <2>1 DEF Stamp, shared
    <2> QED BY <1>t, <1>c, <2>1, <2>2, <2>3 DEF Clocked
  <1>5. ASSUME NEW t \in Threads, NEW j \in Items, AutoFreeOnExit(t, j) PROVE Clocked'
    <2>1. stamp'[j] = OnExit
      BY <1>5, <1>t DEF AutoFreeOnExit
    <2>2. \A i \in Items : i # j => (Stamped(i)' => Stamped(i)) /\ at'[i] = at[i] /\ stamp'[i] = stamp[i]
      BY <1>5, <1>t DEF AutoFreeOnExit, Stamped, locals
    <2> QED BY <1>c, <1>5, <2>1, <2>2 DEF Clocked, AutoFreeOnExit, shared
  <1>6. ASSUME Quiet PROVE Final \/ (\E t \in Threads : SetTimer(t)) \/ UNCHANGED auto_free_timer
    BY <1>6 DEF Quiet, vars, shared, SetSource, Prepend, FreeOld, FreeOwn, Pass, ThreadFinal, Leave,
                Begin, Dispatch, Tick
  <1> QED BY <1>1, <1>2, <1>3, <1>4, <1>5, <1>6, QuietSteps
-----------------------------------------------------------------------------
(* Only the main thread begins to free by age, with the time it then is by *)
(* the timer there then is.                                                *)
LEMMA NowStep ==
  ASSUME TypeOK, [Next]_vars, NEW t \in Threads, pc'[t] = "free"
  PROVE  \/ pc[t] = "free" /\ now'[t] = now[t]
         \/ t = main /\ now'[t] = Elapsed /\ UNCHANGED time /\ Quiet
  <1>t. /\ pc \in [Threads -> {"idle", "timer", "source", "stamp", "prepend", "free", "thread", "ended"}]
        /\ now \in [Threads -> 0 .. MaxTime]
    BY DEF TypeOK
  <1> DEFINE Goal == \/ pc[t] = "free" /\ now'[t] = now[t]
                     \/ t = main /\ now'[t] = Elapsed /\ UNCHANGED time /\ Quiet
  <1>1. ASSUME UNCHANGED vars PROVE Goal
    BY <1>1 DEF vars, locals
  <1>2. ASSUME NEW u \in Threads, Step(u) PROVE Goal
    <2>1. CASE SetTimer(u) \/ SetSource(u) \/ Stamp(u) \/ Prepend(u)
      BY <2>1, <1>t DEF SetTimer, SetSource, Stamp, Prepend, Go
    <2>2. CASE FreeOld(u) \/ FreeOwn(u)
      BY <2>2, <1>t DEF FreeOld, FreeOwn, Pass, Go
    <2> QED BY <1>2, <2>1, <2>2 DEF Step
  <1>3. ASSUME NEW u \in Threads, ThreadFinal(u) \/ Leave(u) PROVE Goal
    BY <1>3, <1>t DEF ThreadFinal, Leave, Enter, Go
  <1>4. ASSUME NEW u \in Threads, NEW i \in Items, Begin(u, i) \/ AutoFreeOnExit(u, i) PROVE Goal
    BY <1>4, <1>t DEF Begin, AutoFreeOnExit, Go, locals
  <1>5. ASSUME NEW s \in sources, Dispatch(s) PROVE Goal
    <2>1. (pc[t] = "free" /\ now'[t] = now[t]) \/ (t = main /\ now'[t] = Elapsed /\ UNCHANGED time)
      BY <1>5, <1>t, ThreadsAssumption DEF Dispatch, Enter, Go, locals
    <2> QED BY <1>5, <2>1 DEF Quiet
  <1>6. ASSUME Final \/ Tick PROVE Goal
    BY <1>6 DEF Final, Tick, locals
  <1> QED BY <1>1, <1>2, <1>3, <1>4, <1>5, <1>6 DEF Next

LEMMA SweptStep == ASSUME IInv, [Next]_vars PROVE Swept'
  <1>t. /\ time \in Int /\ time' \in Int /\ time <= time' /\ auto_free_timer \in Int
        /\ stamp \in [Items -> Int] /\ at \in [Items -> Int] /\ now \in [Threads -> Int]
        /\ item \in [Threads -> Items] /\ owner \in [Items -> Threads]
        /\ pc \in [Threads -> {"idle", "timer", "source", "stamp", "prepend", "free", "thread", "ended"}]
    <2>1. time' = time \/ time' = time + 1
      BY DEF Next, Step, vars, SetTimer, SetSource, Stamp, Prepend, FreeOld, FreeOwn, Pass, ThreadFinal,
             Leave, Begin, AutoFreeOnExit, Dispatch, Final, Tick
    <2> QED BY <2>1, TimesAssumption DEF IInv, TypeOK, NoTimer, OnExit
  <1> SUFFICES ASSUME NEW t \in Threads, NEW i \in Items,
                      pc'[t] = "free", Stamped(i)', owner'[i] = t, stamp'[i] # OnExit
               PROVE  now'[t] - stamp'[i] <= time' - at'[i]
    BY DEF Swept
  <1>c. Clocked /\ Swept /\ TypeOK
    BY DEF IInv
  <1>1. CASE Quiet
    <2>1. UNCHANGED <<at, stamp, owner>> /\ Stamped(i)
      BY <1>1, <1>c, QuietKeeps
    <2>2. CASE pc[t] = "free" /\ now'[t] = now[t]
      <3>1. now[t] - stamp[i] <= time - at[i]
        BY <1>c, <2>1, <2>2 DEF Swept
      <3> QED BY <3>1, <1>t, <2>1, <2>2
    <2>3. CASE now'[t] = Elapsed /\ UNCHANGED time
      <3>1. auto_free_timer # NoTimer /\ at[i] <= auto_free_timer + stamp[i]
        BY <1>c, <2>1 DEF Clocked
      <3> QED BY <3>1, <1>t, <2>1, <2>3 DEF Elapsed
    <2> QED BY <2>2, <2>3, <1>c, NowStep
  <1>2. ASSUME NEW u \in Threads, Stamp(u) PROVE now'[t] - stamp'[i] <= time' - at'[i]
    <2>1. pc[t] = "free" /\ now' = now /\ UNCHANGED time /\ t # u
      BY <1>2, <1>t DEF Stamp, Go
    <2>2. i # item[u]
      BY <1>2, <1>t, <2>1 DEF Stamp
    <2>3. Stamped(i) /\ at'[i] = at[i] /\ stamp'[i] = stamp[i] /\ owner'[i] = owner[i]
      BY <1>2, <1>t, <2>2 DEF Stamp, Stamped, Go
    <2> QED BY <1>c, <2>1, <2>3 DEF Swept
  <1>3. ASSUME NEW u \in Threads, NEW j \in Items, AutoFreeOnExit(u, j)
        PROVE now'[t] - stamp'[i] <= time' - at'[i]
    <2>1. pc[t] = "free" /\ now' = now /\ UNCHANGED time
      BY <1>3 DEF AutoFreeOnExit, locals
    <2>2. i # j
      BY <1>3, <1>t DEF AutoFreeOnExit
    <2>3. Stamped(i) /\ at'[i] = at[i] /\ stamp'[i] = stamp[i] /\ owner'[i] = owner[i]
      BY <1>3, <1>t, <2>2 DEF AutoFreeOnExit, Stamped, locals
    <2> QED BY <1>c, <2>1, <2>3 DEF Swept
  <1> QED BY <1>1, <1>2, <1>3, QuietSteps
-----------------------------------------------------------------------------
(* What holds of an item that is freed still holds after any step: what    *)
(* was freed is never stamped again, and what is freed now was on the list *)
(* long enough, of the right thread and for the right reason.              *)
Right(i) ==
  /\ freed[i].why = "delay" => freed[i].when - at[i] > AF_DELAY_SECONDS
  /\ freed[i].why \in {"delay", "thread"} => freed[i].by = owner[i]
  /\ stamp[i] = OnExit => freed[i].why \in {"no", "final"}

LEMMA FactsAre == (\A i \in Items : Right(i)) <=> Facts
  BY DEF Right, Facts, KeptForDelay, FreedByOwner, ExitItemsStay

LEMMA KeptRight == ASSUME NEW i \in Items, freed[i] = Kept PROVE Right(i)
  BY DEF Right, Kept

(* Nobody but a pass over the list, and the end, frees anything. *)
LEMMA FreedStep ==
  ASSUME [Next]_vars
  PROVE  \/ UNCHANGED freed
         \/ \E t \in Threads : Pass(t, FALSE) /\ pc[t] = "free"
         \/ \E t \in Threads : Pass(t, TRUE)
         \/ Final
  BY DEF Next, Step, vars, SetTimer, SetSource, Stamp, Prepend, FreeOld, FreeOwn, ThreadFinal,
         Leave, Begin, AutoFreeOnExit, Dispatch, Tick

(* An item changes its stamp or its owner only before it is freed. *)
LEMMA StampedOnce ==
  ASSUME IInv, [Next]_vars, NEW i \in Items
  PROVE  \/ at'[i] = at[i] /\ stamp'[i] = stamp[i] /\ owner'[i] = owner[i]
         \/ freed'[i] = Kept
  <1>t. at \in [Items -> Int] /\ stamp \in [Items -> Int] /\ owner \in [Items -> Threads]
    BY DEF IInv, TypeOK, OnExit
  <1>1. CASE Quiet
    BY <1>1, QuietKeeps DEF IInv
  <1>2. ASSUME NEW t \in Threads, Stamp(t), i = item[t] PROVE freed'[i] = Kept
    BY <1>2 DEF Stamp, IInv, Fresh, Busy
  <1>3. ASSUME NEW t \in Threads, Stamp(t), i # item[t]
        PROVE  at'[i] = at[i] /\ stamp'[i] = stamp[i] /\ owner'[i] = owner[i]
    BY <1>3, <1>t DEF Stamp
  <1>4. ASSUME NEW t \in Threads, NEW j \in Items, AutoFreeOnExit(t, j), i = j PROVE freed'[i] = Kept
    BY <1>4 DEF AutoFreeOnExit, Unknown
  <1>5. ASSUME NEW t \in Threads, NEW j \in Items, AutoFreeOnExit(t, j), i # j
        PROVE  at'[i] = at[i] /\ stamp'[i] = stamp[i] /\ owner'[i] = owner[i]
    BY <1>5, <1>t DEF AutoFreeOnExit
  <1> QED BY <1>1, <1>2, <1>3, <1>4, <1>5, QuietSteps

LEMMA PassRight ==
  ASSUME IInv, NEW t \in Threads, NEW b \in BOOLEAN, Pass(t, b), ~b => pc[t] = "free",
         NEW i \in Items, Right(i)
  PROVE  Right(i)'
  <1>u. UNCHANGED <<time, at, owner, stamp>>
    BY DEF Pass
  <1>1. CASE ~Frees(t, b, i)
    <2>1. freed'[i] = freed[i]
      BY <1>1 DEF Pass, Free
    <2> QED BY <1>u, <2>1 DEF Right
  <1>2. CASE Frees(t, b, i)
    <2>1. freed'[i] = [by |-> t, why |-> Reason(b), when |-> time]
      BY <1>2 DEF Pass, Free
    <2>2. CASE free_final
      <3>1. freed'[i].why = "final"
        BY <2>1, <2>2 DEF Reason
      <3> QED BY <3>1 DEF Right
    <2>3. CASE ~free_final
      <3>1. i \in free_list /\ ~(stamp[i] < 0) /\ owner[i] = t /\ (b \/ now[t] - stamp[i] > AF_DELAY_SECONDS)
        BY <1>2, <2>3 DEF Frees, SkipsOnExit, Mine, OldEnough
      <3>2. stamp[i] # OnExit /\ freed'[i].by = owner[i]
        BY <2>1, <3>1 DEF OnExit
      <3>3. CASE b
        BY <1>u, <2>1, <2>3, <3>2, <3>3 DEF Right, Reason
      <3>4. CASE ~b
        <4>1. now[t] - stamp[i] <= time - at[i]
          BY <3>1, <3>2, <3>4 DEF IInv, Swept, Stamped
        <4>2. now[t] \in Int /\ stamp[i] \in Int /\ time \in Int /\ at[i] \in Int
          BY TimesAssumption DEF IInv, TypeOK, OnExit
        <4>3. time - at[i] > AF_DELAY_SECONDS
          BY <3>1, <3>4, <4>1, <4>2, TimesAssumption
        <4> QED BY <1>u, <2>1, <3>2, <4>3 DEF Right
      <3> QED BY <3>3, <3>4
    <2> QED BY <2>2, <2>3
  <1> QED BY <1>1, <1>2

LEMMA FactsStep == ASSUME IInv, Facts, [Next]_vars PROVE Facts'
  <1>r. ASSUME NEW i \in Items PROVE Right(i)
    BY FactsAre
  <1>1. ASSUME UNCHANGED freed, NEW i \in Items PROVE Right(i)'
    <2>1. CASE at'[i] = at[i] /\ stamp'[i] = stamp[i] /\ owner'[i] = owner[i]
      BY <1>1, <1>r, <2>1 DEF Right
    <2>2. CASE freed'[i] = Kept
      BY <2>2 DEF Right, Kept
    <2> QED BY <2>1, <2>2, StampedOnce
  <1>2. ASSUME NEW t \in Threads, NEW b \in BOOLEAN, Pass(t, b), ~b => pc[t] = "free",
               NEW i \in Items PROVE Right(i)'
    BY <1>2, <1>r, PassRight
  <1>3. ASSUME Final, NEW i \in Items PROVE Right(i)'
    <2>1. freed'[i] = freed[i] \/ freed'[i].why = "final"
      BY <1>3 DEF Final, Free
    <2> QED BY <1>3, <1>r, <2>1 DEF Final, Right
  <1>4. ASSUME NEW i \in Items PROVE Right(i)'
    BY <1>1, <1>2, <1>3, FreedStep
  <1> QED BY <1>4 DEF Facts, KeptForDelay, FreedByOwner, ExitItemsStay, Right

LEMMA InvInit == ASSUME Init PROVE IInv /\ Facts
  <1>1. Fresh /\ HasTimer /\ Clocked /\ Swept
    BY DEF Init, Fresh, Busy, HasTimer, Clocked, Swept, Stamped
  <1>2. Facts
    BY DEF Init, Facts, KeptForDelay, FreedByOwner, ExitItemsStay, Kept
  <1> QED BY <1>1, <1>2, TypeInit DEF IInv

(* The inductive invariant, with the properties it is there for.          *)
THEOREM Invariance == Spec => [](IInv /\ Facts)
  <1>1. Init => IInv /\ Facts
    BY InvInit
  <1>2. IInv /\ Facts /\ [Next]_vars => (IInv /\ Facts)'
    <2> SUFFICES ASSUME IInv, Facts, [Next]_vars PROVE (IInv /\ Facts)'
      OBVIOUS
    <2>1. TypeOK'
      BY TypeStep DEF IInv
    <2>2. Fresh' /\ HasTimer' /\ Clocked' /\ Swept'
      BY FreshStep, HasTimerStep, ClockedStep, SweptStep
    <2> QED BY <2>1, <2>2, FactsStep DEF IInv
  <1> QED BY <1>1, <1>2, PTL DEF Spec

(* An item is freed by age only after the delay, by its own thread, however *)
(* many threads race to set the timer.                                      *)
THEOREM LivesLong == Spec => []KeptForDelay
  <1>1. Facts => KeptForDelay
    BY DEF Facts
  <1> QED BY <1>1, Invariance, PTL

(* Until the end of the program no thread frees another one's items.       *)
THEOREM OwnersFree == Spec => []FreedByOwner
  <1>1. Facts => FreedByOwner
    BY DEF Facts
  <1> QED BY <1>1, Invariance, PTL

(* auto_free_on_exit() keeps what it is given until the end.               *)
THEOREM ExitStays == Spec => []ExitItemsStay
  <1>1. Facts => ExitItemsStay
    BY DEF Facts
  <1> QED BY <1>1, Invariance, PTL

(* After the end there are no other threads, and main is in no call: what    *)
(* comes later clears free_final first, or is for the exit.                  *)
Ended ==
  free_final => /\ \A t \in Threads : pc[t] = IF t = main THEN "idle" ELSE "ended"
                /\ NothingLeft

LEMMA EndedStep == ASSUME IInv, Ended, [Next]_vars PROVE Ended'
  <1> USE DEF Ended, NothingLeft
  <1>1. ASSUME NEW t \in Threads, Step(t) PROVE Ended'
    <2>1. ~free_final
      BY <1>1 DEF Step, SetTimer, SetSource, Stamp, Prepend, FreeOld, FreeOwn
    <2> QED BY <1>1, <2>1 DEF Step, SetTimer, SetSource, Stamp, Prepend, FreeOld, FreeOwn, Pass, shared
  <1>2. ASSUME NEW t \in Threads, ThreadFinal(t) \/ Leave(t) PROVE Ended'
    <2>1. ~free_final
      BY <1>2 DEF ThreadFinal, Leave
    <2> QED BY <1>2, <2>1 DEF ThreadFinal, Leave, shared
  <1>3. ASSUME NEW t \in Threads, NEW i \in Items, Begin(t, i) PROVE Ended'
    BY <1>3 DEF Begin
  <1>4. ASSUME NEW t \in Threads, NEW i \in Items, AutoFreeOnExit(t, i) PROVE Ended'
    BY <1>4 DEF AutoFreeOnExit, shared, locals, IInv, TypeOK
  <1>5. ASSUME NEW s \in sources, Dispatch(s) PROVE Ended'
    BY <1>5 DEF Dispatch, entries, locals
  <1>6. CASE Final
    <2>1. free_list' = {}
      BY <1>6 DEF Final, Free, All
    <2> QED BY <1>6, <2>1 DEF Final, locals
  <1>7. CASE Tick \/ UNCHANGED vars
    BY <1>7 DEF Tick, vars, shared, entries, locals
  <1> QED BY <1>1, <1>2, <1>3, <1>4, <1>5, <1>6, <1>7 DEF Next

(* free_auto_free_final() leaves nothing, whosever it is, and nothing comes  *)
(* back to the list but what is for the exit or starts again.                *)
THEOREM EmptyAtEnd == Spec => []NothingLeft
  <1>1. Init => Ended
    BY DEF Init, Ended
  <1>2. IInv /\ Ended /\ [Next]_vars => Ended'
    BY EndedStep
  <1>3. Ended => NothingLeft
    BY DEF Ended, NothingLeft
  <1> QED BY <1>1, <1>2, <1>3, Invariance, PTL DEF Spec
=============================================================================
