---------------------------- MODULE ParallelFor ----------------------------
(***************************************************************************)
(* benchmark_parallel_for() of modules/benchmark.c: the items              *)
(* [start, end) are cut into consecutive chunks, one thread is created for *)
(* each chunk, and the calling thread joins them all, last created first.  *)
(* The threads run benchmark_parallel_for_dispatcher(), which hands the    *)
(* chunk to the benchmark's callback: a loop over the items first..last,   *)
(* both included.  Item numbers are guint and wrap after UINT_MAX.         *)
(***************************************************************************)
EXTENDS Integers, FiniteSetsExt

CONSTANTS
  UINT_MAX,   \* largest guint
  Calls,      \* the calls considered, each a record of CallType
  MaxLaunch,  \* bound on the threads one call can create
  Returns,    \* what a callback may return: doubles (as numbers) or NULL
  NULL        \* the null pointer

Word == 0 .. UINT_MAX
Tid  == 0 .. (MaxLaunch - 1)

(* The arguments, and what cpu_procs_cores_threads_nodes() reports: the    *)
(* counts are -1 when /sys/devices/system/cpu/present cannot be read.      *)
CallType == [n_threads : Int, start : Word, end : Word,
             cpu_threads : Int, cpu_cores : Int]

ASSUME WordAssumption == UINT_MAX \in Nat
ASSUME CallsAssumption == Calls \subseteq CallType
ASSUME MaxLaunchAssumption == MaxLaunch \in Nat
ASSUME ReturnsAssumption == Returns \subseteq Nat \cup {NULL}

Plus(a, b)  == (a + b) % (UINT_MAX + 1)
Minus(a, b) == (a - b) % (UINT_MAX + 1)

VARIABLES
  call,             \* the arguments of this call; never changes
  pc,               \* where the calling thread is
  threads_used,     \* ret.threads_used
  iter_per_thread,  \* uninitialised until the sizing loop assigns it
  iter,             \* first item not yet given to a thread
  launched,         \* thread_number, the count of threads created
  to_join,          \* threads still in the list `threads'
  result,           \* ret.result, -1 while no thread returned a value
  first, last, cur, \* pbt->start, pbt->end and the callback's i, per thread
  state,            \* per thread
  value,            \* what the callback of each thread returned
  processed         \* history: how often each item was processed (0, 1, 2 = more)

caller == <<pc, threads_used, iter_per_thread, iter, launched, to_join, result>>
workers == <<first, last, cur, state, value, processed>>
vars == <<call, caller, workers>>

(* The three-way choice at the top of the function. *)
ThreadsAskedBy(c) ==
  IF c.n_threads > 0 THEN c.n_threads
  ELSE IF c.n_threads < 0 THEN c.cpu_cores
  ELSE c.cpu_threads
ThreadsAsked == ThreadsAskedBy(call)

Init ==
  /\ call \in Calls
  /\ pc = "size"
  /\ threads_used = ThreadsAsked
  /\ iter_per_thread \in Word
  /\ iter = call.start
  /\ launched = 0 /\ to_join = 0
  /\ result = -1
  /\ first = [t \in Tid |-> 0] /\ last = [t \in Tid |-> 0] /\ cur = [t \in Tid |-> 0]
  /\ state = [t \in Tid |-> "none"]
  /\ value = [t \in Tid |-> NULL]
  /\ processed = [i \in Word |-> 0]

Items == Minus(call.end, call.start)

ShareOfOneMore == Items \div (threads_used + 1)
Share == Items \div threads_used

KeepThread == threads_used
GiveUpThread == threads_used - 1

(* One turn of the sizing loop: give up a thread while there is less than  *)
(* one item for each.                                                      *)
Size ==
  /\ pc = "size" /\ threads_used > 0
  /\ iter_per_thread' = Share
  /\ IF iter_per_thread' = 0
     THEN threads_used' = GiveUpThread /\ UNCHANGED pc
     ELSE pc' = "launch" /\ UNCHANGED threads_used
  /\ UNCHANGED <<call, iter, launched, to_join, result, workers>>

(* The loop's condition fails: iter_per_thread keeps the value it has,     *)
(* which is no value at all when the loop was never entered.               *)
SizeEnds ==
  /\ pc = "size" /\ threads_used <= 0
  /\ pc' = "launch"
  /\ UNCHANGED <<call, threads_used, iter_per_thread, iter, launched, to_join,
                 result, workers>>

ChunkEndWithoutMerge == Plus(iter, iter_per_thread)

(* The end of the chunk that starts at iter: a last chunk that would be    *)
(* too small is merged into this one.                                      *)
ChunkEnd ==
  LET te == Plus(iter, iter_per_thread)
  IN  IF Minus(call.end, te) < iter_per_thread THEN call.end ELSE te

LastItem == Minus(ChunkEnd, 1)

Launch ==
  /\ pc = "launch" /\ iter < call.end
  /\ launched < MaxLaunch
  /\ first' = [first EXCEPT ![launched] = iter]
  /\ last' = [last EXCEPT ![launched] = LastItem]
  /\ cur' = [cur EXCEPT ![launched] = iter]
  /\ state' = [state EXCEPT ![launched] = "run"]
  /\ iter' = ChunkEnd
  /\ launched' = launched + 1
  /\ UNCHANGED <<call, pc, threads_used, iter_per_thread, to_join, result,
                 value, processed>>

LaunchEnds ==
  /\ pc = "launch" /\ iter >= call.end
  /\ pc' = "join"
  /\ to_join' = launched
  /\ UNCHANGED <<call, threads_used, iter_per_thread, iter, launched, result, workers>>

CallbackEnds(t) == cur[t] > last[t]

(* The callback processes the item it has reached. *)
Process(t) ==
  /\ state[t] = "run" /\ ~CallbackEnds(t)
  /\ processed' = [processed EXCEPT ![cur[t]] = IF @ = 0 THEN 1 ELSE 2]
  /\ cur' = [cur EXCEPT ![t] = Plus(@, 1)]
  /\ UNCHANGED <<call, caller, first, last, state, value>>

(* The callback's loop ends and the dispatcher returns its value. *)
Return(t) ==
  /\ state[t] = "run" /\ CallbackEnds(t)
  /\ state' = [state EXCEPT ![t] = "returned"]
  /\ \E v \in Returns : value' = [value EXCEPT ![t] = v]
  /\ UNCHANGED <<call, caller, first, last, cur, processed>>

AddedToMinusOne(v) == IF v = NULL THEN result ELSE result + v
Added(v) ==
  IF v = NULL THEN result ELSE (IF result = -1 THEN 0 ELSE result) + v

(* g_thread_join() on the head of the list, the thread created last among  *)
(* those left, and its contribution to ret.result.                         *)
Join ==
  /\ pc = "join" /\ to_join > 0
  /\ state[to_join - 1] = "returned"
  /\ result' = Added(value[to_join - 1])
  /\ state' = [state EXCEPT ![to_join - 1] = "joined"]
  /\ to_join' = to_join - 1
  /\ UNCHANGED <<call, pc, threads_used, iter_per_thread, iter, launched,
                 first, last, cur, value, processed>>

(* All joined: the timer is stopped and the function returns ret. *)
Finish ==
  /\ pc = "join" /\ to_join = 0
  /\ pc' = "done"
  /\ UNCHANGED <<call, threads_used, iter_per_thread, iter, launched, to_join,
                 result, workers>>

Caller == Size \/ SizeEnds \/ Launch \/ LaunchEnds \/ Join \/ Finish
Worker(t) == Process(t) \/ Return(t)
Terminated == pc = "done" /\ UNCHANGED vars
Next == Caller \/ (\E t \in Tid : Worker(t)) \/ Terminated

(* The operating system schedules every runnable thread. *)
Fairness == WF_vars(Caller) /\ \A t \in Tid : WF_vars(Worker(t))
Spec == Init /\ [][Next]_vars /\ Fairness
-----------------------------------------------------------------------------
TypeOK ==
  /\ call \in Calls
  /\ pc \in {"size", "launch", "join", "done"}
  /\ threads_used \in Int
  /\ iter_per_thread \in Word /\ iter \in Word
  /\ launched \in 0 .. MaxLaunch /\ to_join \in 0 .. MaxLaunch
  /\ result \in Nat \cup {-1}
  /\ first \in [Tid -> Word] /\ last \in [Tid -> Word] /\ cur \in [Tid -> Word]
  /\ state \in [Tid -> {"none", "run", "returned", "joined"}]
  /\ value \in [Tid -> Nat \cup {NULL}]
  /\ processed \in [Word -> 0 .. 2]

(* The number of threads to use was established: asked for, or known from  *)
(* the processor topology.                                                 *)
TopologyKnown == ThreadsAsked > 0

InRange(i) == call.start <= i /\ i < call.end

(* "element [start] included, but [end] is excluded" (the note above       *)
(* benchmark_parallel_for): whatever the interleaving, no item is          *)
(* processed twice and none outside [start, end) is processed.             *)
ItemsAtMostOnce ==
  TopologyKnown =>
    \A i \in Word : processed[i] > 0 => processed[i] = 1 /\ InRange(i)

(* When the call returns, every item of [start, end) has been processed:   *)
(* no chunk was lost to the rounding of the division or to an early join.  *)
AllItemsAtReturn ==
  TopologyKnown /\ pc = "done" => \A i \in Word : InRange(i) => processed[i] = 1

(* fft_for() indexes its FFT_MAXT benches by thread number, and            *)
(* benchmark_fft() asks for FFT_MAXT threads over FFT_MAXT items: when the *)
(* items divide evenly, no more threads are created than were asked for.   *)
EvenSplitThreads ==
  TopologyKnown /\ InRange(call.start) /\ Items % ThreadsAsked = 0
    => launched <= ThreadsAsked

(* The value the call reports is the sum of what the callbacks returned,   *)
(* and -1, no result, when none of them returned anything.                 *)
Answered == {t \in Tid : t < launched /\ value[t] # NULL}
ResultIsSum ==
  pc = "done" =>
    result = IF Answered = {} THEN -1
             ELSE MapThenSumSet(LAMBDA t : value[t], Answered)

(* Whatever the number of items and of threads, the chunks run out and the *)
(* call returns: the joins wait for nobody who is not running.             *)
CallReturns == TopologyKnown ~> (pc = "done")

(* Why the items are done once: the chunks given out so far lie one after  *)
(* the other from start to iter, each thread has done its chunk up to cur  *)
(* and nothing else, and what is left is empty or holds a whole share.     *)
SharesFit ==
  /\ InRange(call.start) /\ pc = "size" => threads_used > 0
  /\ pc = "launch" /\ iter < call.end =>
       iter_per_thread > 0 /\ iter_per_thread <= call.end - iter
  /\ pc \in {"join", "done"} => iter >= call.end
  /\ InRange(call.start) => call.start <= iter /\ iter <= call.end
  /\ ~InRange(call.start) => launched = 0 /\ iter = call.start
  /\ pc = "size" => launched = 0 /\ iter = call.start
  /\ pc = "done" => to_join = 0
ChunksInOrder ==
  \A t \in Tid :
    /\ (state[t] = "none") <=> (t >= launched)
    /\ t < launched => /\ call.start <= first[t] /\ first[t] <= last[t]
                       /\ first[t] <= cur[t] /\ cur[t] <= last[t] + 1
                       /\ last[t] < iter /\ last[t] < UINT_MAX
    /\ \A u \in Tid : t < u /\ u < launched => last[t] < first[u]
    /\ state[t] \in {"returned", "joined"} => cur[t] = last[t] + 1
    /\ pc \in {"join", "done"} /\ t < launched /\ t >= to_join => state[t] = "joined"
ItemsOwned ==
  \A i \in Word :
    /\ call.start <= i /\ i < iter =>
         \E t \in Tid : t < launched /\ first[t] <= i /\ i <= last[t]
    /\ processed[i] = IF \E t \in Tid : t < launched /\ first[t] <= i /\ i < cur[t]
                      THEN 1 ELSE 0
ChunksInv == TopologyKnown => SharesFit /\ ChunksInOrder /\ ItemsOwned

(* The call implements ForEach. *)
JobOf(c) == {i \in Word : c.start <= i /\ i < c.end}
FE == INSTANCE ForEach WITH Item <- Word, Jobs <- {JobOf(c) : c \in Calls},
        job <- JobOf(call), count <- processed, returned <- (pc = "done")
EachItemOnce == FE!Spec
-----------------------------------------------------------------------------
(* What the code says of itself and a short division or an unknown         *)
(* topology belies: see the README.                                        *)

(* benchmark.c:240: "element [start] included, but [end] is excluded",     *)
(* with no condition on what the machine reports of its processors.        *)
EndExcluded == \A i \in Word : processed[i] > 0 => InRange(i)
=============================================================================
