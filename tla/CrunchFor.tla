----------------------------- MODULE CrunchFor -----------------------------
(***************************************************************************)
(* benchmark_crunch_for() of modules/benchmark.c: threads_used threads run *)
(* a callback over and over while the calling thread sleeps; the caller    *)
(* then sets `stop', which the threads poll, and adds up the runs that     *)
(* each of them counted.                                                   *)
(***************************************************************************)
EXTENDS Integers

CONSTANTS
  Used,       \* the values threads_used can take, -1 if the topology is unknown
  MaxThreads, \* the largest of them
  MaxRuns     \* bound on the runs one thread begins

ASSUME UsedAssumption == MaxThreads \in Nat /\ Used \subseteq Int /\ \A n \in Used : n <= MaxThreads
ASSUME MaxRunsAssumption == MaxRuns \in Nat

Tid == 0 .. (MaxThreads - 1)

VARIABLES
  pc,             \* the calling thread: "launch", "sleep", "join", "done"
  threads_used,
  thread_number,  \* threads created so far
  stop,           \* shared with the threads, never locked
  to_join,        \* threads left in the list
  result,         \* ret.result
  state,          \* per thread: where the dispatcher is
  count,          \* per thread: the runs it counted
  begun,          \* history: runs begun
  ended,          \* history: runs that ended before stop was set
  late            \* history: runs begun after stop was set

caller == <<pc, threads_used, thread_number, to_join, result>>
dispatcher == <<state, count, begun, ended, late>>
vars == <<caller, stop, dispatcher>>

Init ==
  /\ pc = "launch"
  /\ threads_used \in Used
  /\ thread_number = 0 /\ to_join = 0 /\ result = 0
  /\ stop = 0
  /\ state = [t \in Tid |-> "none"]
  /\ count = [t \in Tid |-> 0]
  /\ begun = [t \in Tid |-> 0] /\ ended = [t \in Tid |-> 0] /\ late = [t \in Tid |-> 0]

LaunchCondition == thread_number < threads_used

Launch ==
  /\ pc = "launch" /\ LaunchCondition
  /\ state' = [state EXCEPT ![thread_number] = "poll"]
  /\ thread_number' = thread_number + 1
  /\ UNCHANGED <<pc, threads_used, to_join, result, stop, count, begun, ended, late>>

Sleep ==
  /\ pc = "launch" /\ ~LaunchCondition
  /\ pc' = "sleep"
  /\ UNCHANGED <<threads_used, thread_number, to_join, result, stop, dispatcher>>

(* g_usleep() returns. *)
Stop ==
  /\ pc = "sleep"
  /\ stop' = 1
  /\ pc' = "join" /\ to_join' = thread_number
  /\ UNCHANGED <<threads_used, thread_number, result, dispatcher>>

(* The list is joined from its head, the thread created last. *)
Total(n) == result + n

Join ==
  /\ pc = "join" /\ to_join > 0
  /\ state[to_join - 1] = "returned"
  /\ result' = Total(count[to_join - 1])
  /\ state' = [state EXCEPT ![to_join - 1] = "joined"]
  /\ to_join' = to_join - 1
  /\ UNCHANGED <<pc, threads_used, thread_number, stop, count, begun, ended, late>>

Finish ==
  /\ pc = "join" /\ to_join = 0
  /\ pc' = "done"
  /\ UNCHANGED <<threads_used, thread_number, to_join, result, stop, dispatcher>>
-----------------------------------------------------------------------------
Begin(t) ==
  /\ begun[t] < MaxRuns
  /\ begun' = [begun EXCEPT ![t] = @ + 1]
  /\ late' = [late EXCEPT ![t] = IF stop # 0 THEN @ + 1 ELSE @]

(* while (!*pbt->stop) *)
KeepsRunning(t) == begun[t] < MaxRuns
Runs(t) == stop = 0

PollsAgain == "poll"
AfterStop == "returned"

PollRunning(t) ==
  /\ state[t] = "poll" /\ Runs(t)
  /\ Begin(t)
  /\ state' = [state EXCEPT ![t] = "entered"]
  /\ UNCHANGED <<caller, stop, count, ended>>
PollStopped(t) ==
  /\ state[t] = "poll" /\ ~Runs(t)
  /\ state' = [state EXCEPT ![t] = AfterStop]
  /\ UNCHANGED <<caller, stop, count, begun, ended, late>>

(* The callback returns. *)
EndRun(t) ==
  /\ state[t] = "entered"
  /\ state' = [state EXCEPT ![t] = "ran"]
  /\ ended' = [ended EXCEPT ![t] = IF stop # 0 THEN @ ELSE @ + 1]
  /\ UNCHANGED <<caller, stop, count, begun, late>>

(* "don't count if didn't finish in time", and back to the loop's          *)
(* condition.  stop is a plain int: a compiler may use the value it has    *)
(* just read for the condition too, and begin the next run with it.        *)
CountsAlways(t) == TRUE
Counts(t) == stop = 0

Recheck(t) ==
  /\ state[t] = "ran"
  /\ count' = [count EXCEPT ![t] = IF Counts(t) THEN @ + 1 ELSE @]
  /\ \/ /\ state' = [state EXCEPT ![t] = "poll"]
        /\ UNCHANGED <<begun, late>>
     \/ /\ stop # 0
        /\ state' = [state EXCEPT ![t] = AfterStop]
        /\ UNCHANGED <<begun, late>>
     \/ /\ stop = 0
        /\ begun[t] < MaxRuns
        /\ state' = [state EXCEPT ![t] = "reread"]
        /\ UNCHANGED <<begun, late>>
  /\ UNCHANGED <<caller, stop, ended>>
BeginOnOldRead(t) ==
  /\ state[t] = "reread"
  /\ Begin(t)
  /\ state' = [state EXCEPT ![t] = "entered"]
  /\ UNCHANGED <<caller, stop, count, ended>>

Caller == Launch \/ Sleep \/ Stop \/ Join \/ Finish
Dispatcher(t) ==
  PollRunning(t) \/ PollStopped(t) \/ EndRun(t) \/ Recheck(t) \/ BeginOnOldRead(t)
Terminated == pc = "done" /\ UNCHANGED vars
Next == Caller \/ (\E t \in Tid : Dispatcher(t)) \/ Terminated

(* Sleeps end, threads are scheduled and callbacks return. *)
Fairness == WF_vars(Caller) /\ \A t \in Tid : WF_vars(Dispatcher(t))
Spec == Init /\ [][Next]_vars /\ Fairness
-----------------------------------------------------------------------------
TypeOK ==
  /\ pc \in {"launch", "sleep", "join", "done"}
  /\ threads_used \in Used
  /\ thread_number \in Nat /\ thread_number <= MaxThreads
  /\ thread_number = 0 \/ thread_number <= threads_used
  /\ to_join \in Nat /\ to_join <= thread_number /\ result \in Nat
  /\ stop \in {0, 1}
  /\ state \in [Tid -> {"none", "poll", "entered", "ran", "reread", "returned", "joined"}]
  /\ count \in [Tid -> Nat] /\ begun \in [Tid -> Nat]
  /\ ended \in [Tid -> Nat] /\ late \in [Tid -> Nat]

(* "don't count if didn't finish in time": a thread counts no run that     *)
(* ended after the caller's time was up, and of those that ended before it *)
(* at most the last one goes uncounted, the one whose second look at stop  *)
(* came too late.                                                          *)
CountsInTime == \A t \in Tid : count[t] <= ended[t] /\ ended[t] <= count[t] + 1

(* Once stop is set the counts are final, although threads still run.      *)
CountsFrozen == [][stop # 0 => UNCHANGED count]_vars

(* A thread overruns the time by one run at most, the one it was about to  *)
(* begin when it last read stop.                                           *)
OneLateRun == \A t \in Tid : late[t] <= 1

(* If callbacks return, so does the benchmark: no thread misses stop.      *)
CallReturns == <>(pc = "done")
-----------------------------------------------------------------------------
(* What CountsInTime and OneLateRun rest on: until stop is set a thread    *)
(* owes at most the run it has just ended, and only a thread that goes on  *)
(* with an old reading of stop can still begin one.                        *)
CountsUpToDate(t) ==
  /\ t >= thread_number => state[t] = "none"
  /\ stop = 0 => ended[t] = count[t] + (IF state[t] = "ran" THEN 1 ELSE 0)
  /\ count[t] <= ended[t] /\ ended[t] <= count[t] + 1
  /\ stop = 0 \/ state[t] = "reread" => late[t] = 0
  /\ late[t] <= 1
IInv == TypeOK /\ \A t \in Tid : CountsUpToDate(t)
=============================================================================
