-------------------------- MODULE CrunchForProofs --------------------------
(* CrunchFor counts the runs that ended in time, for any number of threads *)
(* and of runs.                                                            *)
EXTENDS CrunchFor, TLAPS

LEMMA TypeOKInit == Init => TypeOK
<1> SUFFICES ASSUME Init PROVE TypeOK
    OBVIOUS
<1>1. thread_number = 0 /\ to_join = 0 /\ threads_used \in Used /\ MaxThreads \in Nat
      BY UsedAssumption DEF Init
<1>2. /\ state \in [Tid -> {"none", "poll", "entered", "ran", "reread", "returned", "joined"}]
      /\ count \in [Tid -> Nat] /\ begun \in [Tid -> Nat]
      /\ ended \in [Tid -> Nat] /\ late \in [Tid -> Nat]
      BY DEF Init
<1> QED
    BY <1>1, <1>2 DEF Init, TypeOK

LEMMA TypeOKNext == TypeOK /\ [Next]_vars => TypeOK'
<1> SUFFICES ASSUME TypeOK, [Next]_vars PROVE TypeOK'
    OBVIOUS
<1> USE UsedAssumption, MaxRunsAssumption
<1>0. threads_used \in Int /\ threads_used <= MaxThreads
      BY DEF TypeOK
<1>1. CASE Launch
  <2>1. /\ thread_number < threads_used /\ thread_number' = thread_number + 1
        /\ thread_number' \in Nat /\ thread_number' <= threads_used
        /\ thread_number' <= MaxThreads
        BY <1>0, <1>1 DEF Launch, LaunchCondition, TypeOK
  <2>2. to_join' \in Nat /\ to_join' <= thread_number'
        BY <1>1, <2>1 DEF Launch, TypeOK
  <2> QED
      BY <1>1, <2>1, <2>2 DEF Launch, TypeOK
<1>2. CASE Sleep
      BY <1>2 DEF Sleep, TypeOK, dispatcher
<1>3. CASE Stop
      BY <1>3 DEF Stop, TypeOK, dispatcher
<1>4. CASE Join
  <2>1. to_join - 1 \in Tid /\ to_join' \in Nat /\ to_join' <= thread_number
        BY <1>4 DEF Join, TypeOK, Tid
  <2>2. result' \in Nat
        BY <1>4, <2>1 DEF Join, Total, TypeOK
  <2> QED
      BY <1>4, <2>1, <2>2 DEF Join, TypeOK
<1>5. CASE Finish
      BY <1>5 DEF Finish, TypeOK, dispatcher
<1>6. ASSUME NEW t \in Tid, Dispatcher(t) PROVE TypeOK'
  <2>1. CASE PollRunning(t) \/ BeginOnOldRead(t)
        BY <2>1 DEF PollRunning, BeginOnOldRead, Begin, TypeOK, caller
  <2>2. CASE PollStopped(t)
        BY <2>2 DEF PollStopped, AfterStop, TypeOK, caller
  <2>3. CASE EndRun(t)
        BY <2>3 DEF EndRun, TypeOK, caller
  <2>4. CASE Recheck(t)
        BY <2>4 DEF Recheck, AfterStop, TypeOK, caller
  <2> QED
      BY <1>6, <2>1, <2>2, <2>3, <2>4 DEF Dispatcher
<1>7. CASE UNCHANGED vars
      BY <1>7 DEF vars, caller, dispatcher, TypeOK
<1> QED
    BY <1>1, <1>2, <1>3, <1>4, <1>5, <1>6, <1>7 DEF Next, Caller, Terminated

(* Every variable keeps its type; no more threads are joined than were     *)
(* created, and no more created than asked for.                            *)
THEOREM TypeCorrect == Spec => []TypeOK
BY TypeOKInit, TypeOKNext, PTL DEF Spec
-----------------------------------------------------------------------------
LEMMA IInvInit == Init => IInv
<1> SUFFICES ASSUME Init PROVE IInv
    OBVIOUS
<1>1. \A t \in Tid : CountsUpToDate(t)
      BY DEF Init, CountsUpToDate
<1> QED
    BY <1>1, TypeOKInit DEF IInv

(* A step of one thread concerns its own counts only. *)
LEMMA DispatcherStep ==
  ASSUME IInv, NEW t \in Tid, Dispatcher(t), NEW u \in Tid
  PROVE  CountsUpToDate(u)'
<1>1. /\ CountsUpToDate(u) /\ CountsUpToDate(t) /\ UNCHANGED <<stop, thread_number>>
      /\ count[t] \in Nat /\ ended[t] \in Nat /\ late[t] \in Nat
      BY DEF IInv, TypeOK, Dispatcher, PollRunning, PollStopped, EndRun, Recheck, BeginOnOldRead,
             caller
<1>2. CASE u # t
  <2>1. /\ state'[u] = state[u] /\ count'[u] = count[u] /\ ended'[u] = ended[u]
        /\ late'[u] = late[u]
        BY <1>2 DEF IInv, TypeOK, Dispatcher, PollRunning, PollStopped, EndRun, Recheck,
                    BeginOnOldRead, Begin
  <2> QED
      BY <1>1, <2>1 DEF CountsUpToDate
<1>3. CASE u = t
  <2> USE DEF IInv, TypeOK
  <2>1. CASE PollRunning(t)
        BY <1>1, <1>3, <2>1 DEF PollRunning, Begin, Runs, CountsUpToDate
  <2>2. CASE PollStopped(t)
        BY <1>1, <1>3, <2>2 DEF PollStopped, Runs, AfterStop, CountsUpToDate
  <2>3. CASE EndRun(t)
        BY <1>1, <1>3, <2>3 DEF EndRun, CountsUpToDate
  <2>4. CASE Recheck(t)
    <3>1. /\ state[t] = "ran" /\ state'[t] # "ran"
          /\ count'[t] = IF stop # 0 THEN count[t] ELSE count[t] + 1
          /\ ended'[t] = ended[t] /\ late'[t] = late[t]
          /\ state'[t] = "reread" => stop = 0
          BY <2>4 DEF Recheck, Counts, AfterStop
    <3> QED
        BY <1>1, <1>3, <3>1 DEF CountsUpToDate
  <2>5. CASE BeginOnOldRead(t)
    <3>1. /\ state[t] = "reread" /\ state'[t] = "entered"
          /\ count'[t] = count[t] /\ ended'[t] = ended[t]
          /\ late'[t] = IF stop # 0 THEN late[t] + 1 ELSE late[t]
          BY <2>5 DEF BeginOnOldRead, Begin
    <3> QED
        BY <1>1, <1>3, <3>1 DEF CountsUpToDate
  <2> QED
      BY <2>1, <2>2, <2>3, <2>4, <2>5 DEF Dispatcher
<1> QED
    BY <1>2, <1>3

LEMMA IInvNext == IInv /\ [Next]_vars => IInv'
<1> SUFFICES ASSUME IInv, [Next]_vars, NEW u \in Tid PROVE CountsUpToDate(u)'
    BY TypeOKNext DEF IInv
<1>0. CountsUpToDate(u) /\ count[u] \in Nat /\ ended[u] \in Nat /\ late[u] \in Nat
      BY DEF IInv, TypeOK
<1>1. CASE Launch
  <2>1. CASE u = thread_number
        BY <1>0, <1>1, <2>1 DEF Launch, IInv, TypeOK, CountsUpToDate
  <2>2. CASE u # thread_number
    <3>1. state'[u] = state[u]
          BY <1>1, <2>2 DEF Launch, IInv, TypeOK
    <3>2. u >= thread_number' => u >= thread_number
          BY <1>1 DEF Launch, IInv, TypeOK, Tid
    <3> QED
        BY <1>0, <1>1, <3>1, <3>2 DEF Launch, CountsUpToDate
  <2> QED
      BY <2>1, <2>2
<1>2. CASE Stop
      BY <1>0, <1>2 DEF Stop, dispatcher, CountsUpToDate
<1>3. CASE Sleep \/ Finish
      BY <1>0, <1>3 DEF Sleep, Finish, dispatcher, CountsUpToDate
<1>4. CASE Join
  <2>1. \/ state'[u] = state[u]
        \/ state[u] = "returned" /\ state'[u] = "joined"
        BY <1>4 DEF Join, IInv, TypeOK
  <2>2. /\ UNCHANGED <<stop, count, ended, late, thread_number>>
        /\ state[u] = "returned" => u < thread_number
        BY <1>0, <1>4 DEF Join, CountsUpToDate, IInv, TypeOK, Tid
  <2>3. u \in Nat /\ thread_number \in Nat
        BY UsedAssumption DEF IInv, TypeOK, Tid
  <2>4. CASE state'[u] = state[u]
        BY <1>0, <2>2, <2>4 DEF CountsUpToDate
  <2>5. CASE state[u] = "returned" /\ state'[u] = "joined"
        BY <1>0, <2>2, <2>3, <2>5 DEF CountsUpToDate
  <2> QED
      BY <2>1, <2>4, <2>5
<1>5. ASSUME NEW t \in Tid, Dispatcher(t) PROVE CountsUpToDate(u)'
      BY <1>5, DispatcherStep
<1>6. CASE UNCHANGED vars
      BY <1>0, <1>6 DEF vars, caller, dispatcher, CountsUpToDate
<1> QED
    BY <1>1, <1>2, <1>3, <1>4, <1>5, <1>6 DEF Next, Caller, Terminated

LEMMA Invariant == Spec => []IInv
BY IInvInit, IInvNext, PTL DEF Spec

(* A thread counts the runs that ended before time was up, all but at most *)
(* the last one.                                                           *)
THEOREM InTime == Spec => []CountsInTime
<1>1. IInv => CountsInTime
      BY DEF IInv, CountsInTime, CountsUpToDate
<1> QED
    BY <1>1, Invariant, PTL

(* A thread begins at most one run after time is up. *)
THEOREM LateRuns == Spec => []OneLateRun
<1>1. IInv => OneLateRun
      BY DEF IInv, OneLateRun, CountsUpToDate
<1> QED
    BY <1>1, Invariant, PTL

(* No step changes a count once stop is set. *)
THEOREM Frozen == Spec => CountsFrozen
<1>1. TypeOK /\ [Next]_vars => [stop # 0 => UNCHANGED count]_vars
  <2> SUFFICES ASSUME TypeOK, Next, stop # 0 PROVE UNCHANGED count
      BY DEF vars
  <2>1. ASSUME NEW t \in Tid, Recheck(t) PROVE UNCHANGED count
        BY <2>1 DEF Recheck, Counts, TypeOK
  <2> QED
      BY <2>1 DEF Next, Caller, Terminated, Dispatcher, vars, dispatcher, Launch, Sleep, Stop, Join,
                  Finish, PollRunning, PollStopped, EndRun, BeginOnOldRead
<1> QED
    BY <1>1, TypeCorrect, PTL DEF Spec, CountsFrozen
=============================================================================
