------------------------- MODULE ParallelForProofs -------------------------
(***************************************************************************)
(* ParallelFor keeps its types, implements ForEach, and returns the sum of *)
(* what the threads returned, for every width of guint, every set of calls *)
(* and any number of threads.                                              *)
(***************************************************************************)
EXTENDS ParallelFor, FiniteSetTheorems, WellFoundedInduction, TLAPS

LEMMA PlusWord == ASSUME NEW a \in Int, NEW b \in Int PROVE Plus(a, b) \in Word
BY WordAssumption DEF Plus, Word

LEMMA MinusWord == ASSUME NEW a \in Int, NEW b \in Int PROVE Minus(a, b) \in Word
BY WordAssumption DEF Minus, Word

(* Within a word, the machine's sums and differences are the integers'. *)
LEMMA NoWrap ==
  ASSUME NEW a \in Word, NEW b \in Word
  PROVE  /\ a + b <= UINT_MAX => Plus(a, b) = a + b
         /\ b <= a => Minus(a, b) = a - b
BY WordAssumption DEF Plus, Minus, Word

LEMMA CallFields ==
  ASSUME call \in Calls
  PROVE  /\ call.n_threads \in Int /\ call.cpu_threads \in Int /\ call.cpu_cores \in Int
         /\ call.start \in Word /\ call.end \in Word
         /\ ThreadsAsked \in Int
BY CallsAssumption DEF CallType, ThreadsAsked, ThreadsAskedBy

(* A share of the items is a word. *)
LEMMA ShareWord ==
  ASSUME NEW n \in Word, NEW d \in Int, d > 0
  PROVE  n \div d \in Word
BY WordAssumption DEF Word

(* Every value keeps its type: the counts stay in range although items     *)
(* wrap and the number of threads may start below zero.                    *)
LEMMA TypeOKInit == Init => TypeOK
<1> SUFFICES ASSUME Init PROVE TypeOK
    OBVIOUS
<1>1. call \in Calls
      BY DEF Init
<1>2. threads_used \in Int /\ iter \in Word
      BY <1>1, CallFields DEF Init
<1>3. 0 \in Word
      BY WordAssumption DEF Word
<1>4. processed \in [Word -> 0 .. 2]
      BY DEF Init
<1> QED
    BY <1>1, <1>2, <1>3, <1>4, MaxLaunchAssumption DEF Init, TypeOK, Tid

LEMMA TypeOKNext == TypeOK /\ [Next]_vars => TypeOK'
<1> SUFFICES ASSUME TypeOK, [Next]_vars PROVE TypeOK'
    OBVIOUS
<1> USE MaxLaunchAssumption
<1>0. /\ call \in Calls /\ call.start \in Word /\ call.end \in Word
      /\ Word \subseteq Int /\ Items \in Word
  <2>1. call \in Calls /\ call.start \in Word /\ call.end \in Word
        BY CallFields DEF TypeOK
  <2>2. Word \subseteq Int
        BY DEF Word
  <2> QED
      BY <2>1, <2>2, MinusWord DEF Items
<1>1. CASE Size
  <2>1. iter_per_thread' \in Word
        BY <1>0, <1>1, ShareWord DEF Size, Share, TypeOK
  <2>2. threads_used' \in Int /\ pc' \in {"size", "launch", "join", "done"}
        BY <1>1 DEF Size, GiveUpThread, TypeOK
  <2> QED
      BY <1>1, <2>1, <2>2 DEF Size, TypeOK, workers
<1>2. CASE SizeEnds
      BY <1>2 DEF SizeEnds, TypeOK, workers
<1>3. CASE Launch
  <2>0. iter \in Int /\ iter_per_thread \in Int /\ Plus(iter, iter_per_thread) \in Word
        BY <1>0, PlusWord DEF TypeOK
  <2>1a. ChunkEnd \in Word /\ ChunkEnd \in Int
        BY <1>0, <2>0 DEF ChunkEnd
  <2>1. ChunkEnd \in Word /\ LastItem \in Word
        BY <2>1a, MinusWord DEF LastItem
  <2>2. launched \in Tid
        BY <1>3 DEF Launch, TypeOK, Tid
  <2>3. /\ first' \in [Tid -> Word] /\ last' \in [Tid -> Word] /\ cur' \in [Tid -> Word]
        /\ state' \in [Tid -> {"none", "run", "returned", "joined"}]
        BY <1>3, <2>1, <2>2 DEF Launch, TypeOK
  <2>4. iter' \in Word /\ launched' \in 0 .. MaxLaunch
        BY <1>3, <2>1 DEF Launch, TypeOK
  <2> QED
      BY <1>3, <2>3, <2>4 DEF Launch, TypeOK
<1>4. CASE LaunchEnds
      BY <1>4 DEF LaunchEnds, TypeOK, workers
<1>5. CASE Join
  <2>1. to_join - 1 \in Tid /\ to_join' \in 0 .. MaxLaunch
        BY <1>5 DEF Join, TypeOK, Tid
  <2>2. value[to_join - 1] \in Nat \cup {NULL}
        BY <2>1 DEF TypeOK
  <2>3. result' \in Nat \cup {-1}
        BY <1>5, <2>2 DEF Join, Added, TypeOK
  <2> QED
      BY <1>5, <2>1, <2>3 DEF Join, TypeOK
<1>6. CASE Finish
      BY <1>6 DEF Finish, TypeOK, workers
<1>7. ASSUME NEW t \in Tid, Process(t) PROVE TypeOK'
  <2>0. cur[t] \in Word /\ cur[t] \in Int
        BY <1>0 DEF TypeOK
  <2>1. cur[t] \in Word /\ Plus(cur[t], 1) \in Word
        BY <2>0, PlusWord
  <2>2. cur' \in [Tid -> Word]
        BY <1>7, <2>1 DEF Process, TypeOK
  <2>3. processed' \in [Word -> 0 .. 2]
        BY <1>7, <2>1 DEF Process, TypeOK
  <2> QED
      BY <1>7, <2>2, <2>3 DEF Process, TypeOK, caller
<1>8. ASSUME NEW t \in Tid, Return(t) PROVE TypeOK'
      BY <1>8, ReturnsAssumption DEF Return, TypeOK, caller
<1>9. CASE UNCHANGED vars
      BY <1>9 DEF vars, caller, workers, TypeOK
<1> QED
    BY <1>1, <1>2, <1>3, <1>4, <1>5, <1>6, <1>7, <1>8, <1>9
       DEF Next, Caller, Worker, Terminated

THEOREM TypeCorrect == Spec => []TypeOK
BY TypeOKInit, TypeOKNext, PTL DEF Spec

-----------------------------------------------------------------------------
IInv == TypeOK /\ ChunksInv

LEMMA WordInt == Word \subseteq Int /\ \A w \in Word : 0 <= w /\ w <= UINT_MAX
BY WordAssumption DEF Word

LEMMA IInvInit == Init => IInv
<1> SUFFICES ASSUME Init, TopologyKnown PROVE SharesFit /\ ChunksInOrder /\ ItemsOwned
    BY TypeOKInit DEF IInv, ChunksInv
<1>1. call.start \in Int /\ call.end \in Int /\ threads_used > 0
      BY CallFields, WordInt DEF Init, TopologyKnown
<1>2. SharesFit
      BY <1>1 DEF Init, SharesFit, InRange
<1>3. ChunksInOrder
      BY MaxLaunchAssumption DEF Init, ChunksInOrder, Tid
<1>4. ItemsOwned
      BY <1>1, WordInt, MaxLaunchAssumption DEF Init, ItemsOwned, Tid
<1> QED
    BY <1>2, <1>3, <1>4

(* While the caller sizes, joins and returns, the chunks stay as they are. *)
LEMMA ShareOfItems ==
  ASSUME NEW n \in Nat, NEW d \in Nat, d > 0
  PROVE  /\ n \div d \in Nat
         /\ n \div d <= n
         /\ d = 1 => n \div d = n
OBVIOUS

LEMMA SizeStep == IInv /\ TopologyKnown /\ Size => SharesFit'
<1> SUFFICES ASSUME TypeOK, SharesFit, Size, TopologyKnown PROVE SharesFit'
    BY DEF IInv, ChunksInv
<1>1. call.start \in Word /\ call.end \in Word /\ call.start \in Int /\ call.end \in Int
      BY CallFields, WordInt DEF TypeOK
<1>2. threads_used \in Nat /\ threads_used > 0 /\ call' = call /\ pc = "size"
      BY DEF TypeOK, Size
<1>3. CASE InRange(call.start)
  <2>1. Items = call.end - call.start /\ Items \in Nat /\ Items > 0
        BY <1>1, <1>3, NoWrap DEF Items, InRange
  <2>2. /\ Share \in Nat /\ Share <= Items
        /\ threads_used = 1 => Share > 0
        BY <1>2, <2>1, ShareOfItems DEF Share
  <2>3. iter = call.start /\ launched = 0 /\ iter' = iter /\ launched' = launched
        BY <1>2 DEF SharesFit, Size
  <2> QED
      BY <1>1, <1>2, <1>3, <2>1, <2>2, <2>3 DEF Size, SharesFit, InRange, GiveUpThread
<1>4. CASE ~InRange(call.start)
      BY <1>1, <1>2, <1>4 DEF Size, SharesFit, InRange
<1> QED
    BY <1>3, <1>4

(* A chunk handed to a new thread goes on where the last one ended, holds  *)
(* at least one item and leaves nothing or a whole share.                  *)
LEMMA NewChunk ==
  ASSUME TypeOK, SharesFit, Launch
  PROVE  /\ InRange(call.start) /\ call.start <= iter
         /\ iter < ChunkEnd /\ ChunkEnd <= call.end
         /\ LastItem = ChunkEnd - 1 /\ LastItem < UINT_MAX
         /\ ChunkEnd < call.end =>
              iter_per_thread > 0 /\ iter_per_thread <= call.end - ChunkEnd
<1>1. /\ call.start \in Word /\ call.end \in Word /\ iter \in Word /\ iter_per_thread \in Word
      /\ call.start \in Nat /\ call.end \in Nat /\ iter \in Nat /\ iter_per_thread \in Nat
      /\ call.end <= UINT_MAX
      BY CallFields, WordAssumption DEF TypeOK, Word
<1>2. iter < call.end /\ iter_per_thread > 0 /\ iter_per_thread <= call.end - iter
      BY DEF Launch, SharesFit
<1>3. InRange(call.start) /\ call.start <= iter
      BY <1>1, <1>2 DEF SharesFit, InRange
<1> DEFINE te == iter + iter_per_thread
<1>4. te \in Word /\ te \in Nat /\ te <= call.end /\ Plus(iter, iter_per_thread) = te
      BY <1>1, <1>2, NoWrap, WordAssumption DEF Word
<1>5. Minus(call.end, te) = call.end - te
      BY <1>1, <1>4, NoWrap
<1> HIDE DEF te
<1>6. ChunkEnd = IF call.end - te < iter_per_thread THEN call.end ELSE te
      BY <1>4, <1>5 DEF ChunkEnd
<1>7. iter < te
      BY <1>1, <1>2 DEF te
<1>8. /\ iter < ChunkEnd /\ ChunkEnd <= call.end /\ ChunkEnd \in Nat
      /\ ChunkEnd < call.end => iter_per_thread <= call.end - ChunkEnd
      BY <1>1, <1>2, <1>4, <1>6, <1>7
<1>9. ChunkEnd \in Word /\ 1 \in Word /\ 1 <= ChunkEnd
      BY <1>1, <1>8, WordAssumption DEF Word
<1>10. LastItem = ChunkEnd - 1
      BY <1>9, NoWrap DEF LastItem
<1> QED
    BY <1>1, <1>2, <1>3, <1>8, <1>10, WordAssumption

LEMMA ChunkInts ==
  ASSUME TypeOK
  PROVE  \A t \in Tid : /\ t \in Nat
                        /\ first[t] \in Int /\ last[t] \in Int /\ cur[t] \in Int
<1> TAKE t \in Tid
<1>1. t \in Nat
      BY MaxLaunchAssumption DEF Tid
<1>2. first[t] \in Word /\ last[t] \in Word /\ cur[t] \in Word
      BY DEF TypeOK
<1> QED
    BY <1>1, <1>2, WordInt

LEMMA LaunchStep == IInv /\ TopologyKnown /\ Launch => SharesFit' /\ ChunksInOrder' /\ ItemsOwned'
<1> SUFFICES ASSUME TypeOK, SharesFit, ChunksInOrder, ItemsOwned, Launch
             PROVE  SharesFit' /\ ChunksInOrder' /\ ItemsOwned'
    BY DEF IInv, ChunksInv
<1>1. /\ InRange(call.start) /\ call.start <= iter
      /\ iter < ChunkEnd /\ ChunkEnd <= call.end
      /\ LastItem = ChunkEnd - 1 /\ LastItem < UINT_MAX
      /\ ChunkEnd < call.end =>
           iter_per_thread > 0 /\ iter_per_thread <= call.end - ChunkEnd
      BY NewChunk
<1>2. /\ call.start \in Int /\ call.end \in Int /\ iter \in Int /\ iter_per_thread \in Int
      BY CallFields, WordInt DEF TypeOK
<1>2a. ChunkEnd \in Int
      <2>1. Plus(iter, iter_per_thread) \in Int
            BY <1>2, PlusWord, WordInt
      <2> QED
          BY <1>2, <2>1 DEF ChunkEnd
<1>3. launched \in Tid /\ launched \in Nat
      BY MaxLaunchAssumption DEF Launch, TypeOK, Tid
<1>4. /\ call' = call /\ pc' = pc /\ pc = "launch" /\ iter' = ChunkEnd /\ launched' = launched + 1
      /\ iter_per_thread' = iter_per_thread /\ processed' = processed /\ to_join' = to_join
      BY DEF Launch
<1>5. SharesFit'
      BY <1>1, <1>2, <1>2a, <1>4 DEF SharesFit, InRange
<1>6. /\ first'[launched] = iter /\ last'[launched] = LastItem
      /\ cur'[launched] = iter /\ state'[launched] = "run"
      /\ \A t \in Tid : t # launched => /\ first'[t] = first[t] /\ last'[t] = last[t]
                                        /\ cur'[t] = cur[t] /\ state'[t] = state[t]
      BY <1>3 DEF Launch, TypeOK
<1>7. \A t \in Tid : /\ t \in Nat
                     /\ first[t] \in Int /\ last[t] \in Int /\ cur[t] \in Int
      BY ChunkInts
<1>8. ChunksInOrder'
  <2> SUFFICES ASSUME NEW t \in Tid
               PROVE  /\ (state'[t] = "none") <=> (t >= launched + 1)
                      /\ t < launched + 1 =>
                           /\ call.start <= first'[t] /\ first'[t] <= last'[t]
                           /\ first'[t] <= cur'[t] /\ cur'[t] <= last'[t] + 1
                           /\ last'[t] < ChunkEnd /\ last'[t] < UINT_MAX
                      /\ \A u \in Tid : t < u /\ u < launched + 1 => last'[t] < first'[u]
                      /\ state'[t] \in {"returned", "joined"} => cur'[t] = last'[t] + 1
      BY <1>4 DEF ChunksInOrder
  <2>1. (state'[t] = "none") <=> (t >= launched + 1)
        BY <1>3, <1>6, <1>7 DEF ChunksInOrder
  <2>2. t < launched + 1 =>
           /\ call.start <= first'[t] /\ first'[t] <= last'[t]
           /\ first'[t] <= cur'[t] /\ cur'[t] <= last'[t] + 1
           /\ last'[t] < ChunkEnd /\ last'[t] < UINT_MAX
    <3>1. CASE t = launched
          BY <1>1, <1>2, <1>2a, <1>6, <3>1
    <3>2. CASE t # launched
          BY <1>1, <1>2, <1>2a, <1>3, <1>6, <1>7, <3>2 DEF ChunksInOrder
    <3> QED
        BY <3>1, <3>2
  <2>3. ASSUME NEW u \in Tid, t < u, u < launched + 1 PROVE last'[t] < first'[u]
    <3>1. t # launched /\ t < launched
          BY <1>3, <1>7, <2>3
    <3>2. CASE u = launched
          BY <1>6, <3>1, <3>2 DEF ChunksInOrder
    <3>3. CASE u # launched
          BY <1>3, <1>6, <1>7, <2>3, <3>1, <3>3 DEF ChunksInOrder
    <3> QED
        BY <3>2, <3>3
  <2>4. state'[t] \in {"returned", "joined"} => cur'[t] = last'[t] + 1
        BY <1>6 DEF ChunksInOrder
  <2> QED
      BY <2>1, <2>2, <2>3, <2>4
<1>9. ItemsOwned'
  <2> SUFFICES ASSUME NEW i \in Word
               PROVE  /\ call.start <= i /\ i < ChunkEnd =>
                           \E t \in Tid : t < launched + 1 /\ first'[t] <= i /\ i <= last'[t]
                      /\ processed[i] = IF \E t \in Tid : t < launched + 1 /\ first'[t] <= i /\ i < cur'[t]
                                        THEN 1 ELSE 0
      BY <1>4 DEF ItemsOwned
  <2>0. i \in Int
        BY WordInt
  <2>1. ASSUME call.start <= i, i < ChunkEnd
        PROVE  \E t \in Tid : t < launched + 1 /\ first'[t] <= i /\ i <= last'[t]
    <3>1. CASE i < iter
      <4>1. PICK t \in Tid : t < launched /\ first[t] <= i /\ i <= last[t]
            BY <2>1, <3>1 DEF ItemsOwned
      <4> QED
          BY <1>3, <1>6, <1>7, <4>1
    <3>2. CASE iter <= i
          BY <1>1, <1>2, <1>2a, <1>3, <1>6, <2>0, <2>1, <3>2
    <3> QED
        BY <1>2, <2>0, <3>1, <3>2
  <2>2. (\E t \in Tid : t < launched + 1 /\ first'[t] <= i /\ i < cur'[t])
          <=> (\E t \in Tid : t < launched /\ first[t] <= i /\ i < cur[t])
        BY <1>2, <1>3, <1>6, <1>7, <2>0
  <2> QED
      BY <2>1, <2>2 DEF ItemsOwned
<1> QED
    BY <1>5, <1>8, <1>9

(* A thread does the item it has reached: nobody had done it, for the      *)
(* chunks are disjoint, and the count of no other item changes.            *)
LEMMA ProcessItem ==
  ASSUME TypeOK, SharesFit, ChunksInOrder, ItemsOwned, NEW t \in Tid, Process(t)
  PROVE  /\ t < launched /\ first[t] <= cur[t] /\ cur[t] <= last[t]
         /\ cur[t] \in Word /\ call.start <= cur[t] /\ cur[t] < call.end
         /\ processed[cur[t]] = 0
         /\ processed' = [processed EXCEPT ![cur[t]] = 1]
         /\ cur' = [cur EXCEPT ![t] = cur[t] + 1]
         /\ pc # "done"
<1>1. \A u \in Tid : /\ u \in Nat
                     /\ first[u] \in Int /\ last[u] \in Int /\ cur[u] \in Int
      BY ChunkInts
<1>2. /\ call.start \in Int /\ call.end \in Int /\ iter \in Int /\ launched \in Nat
  <2>1. launched \in Nat
        BY MaxLaunchAssumption DEF TypeOK
  <2> QED
      BY <2>1, CallFields, WordInt DEF TypeOK
<1>3. state[t] = "run" /\ cur[t] <= last[t]
      BY <1>1 DEF Process, CallbackEnds
<1>4. t < launched
      BY <1>1, <1>2, <1>3 DEF ChunksInOrder
<1>5. call.start <= first[t] /\ first[t] <= cur[t] /\ last[t] < iter /\ last[t] < UINT_MAX
      BY <1>4 DEF ChunksInOrder
<1>6. iter <= call.end
      BY <1>4, <1>1, <1>2 DEF SharesFit
<1>7. cur[t] \in Word /\ call.start <= cur[t] /\ cur[t] < call.end
      BY <1>1, <1>2, <1>3, <1>5, <1>6 DEF TypeOK
<1>8. ~ \E u \in Tid : u < launched /\ first[u] <= cur[t] /\ cur[t] < cur[u]
  <2> SUFFICES ASSUME NEW u \in Tid, u < launched, first[u] <= cur[t], cur[t] < cur[u]
               PROVE  FALSE
      OBVIOUS
  <2>1. t # u /\ cur[u] <= last[u] + 1
        BY <1>1 DEF ChunksInOrder
  <2>2. t < u => last[t] < first[u]
        BY DEF ChunksInOrder
  <2>3. u < t => last[u] < first[t]
        BY <1>4 DEF ChunksInOrder
  <2> QED
      BY <1>1, <1>3, <1>5, <2>1, <2>2, <2>3
<1>9. processed[cur[t]] = 0
      BY <1>7, <1>8 DEF ItemsOwned
<1>10. Plus(cur[t], 1) = cur[t] + 1
  <2>1. 1 \in Word /\ cur[t] + 1 <= UINT_MAX
        BY <1>1, <1>3, <1>5, <1>7, WordAssumption DEF Word
  <2> QED
      BY <1>7, <2>1, NoWrap
<1>11. processed' = [processed EXCEPT ![cur[t]] = 1] /\ cur' = [cur EXCEPT ![t] = cur[t] + 1]
       BY <1>9, <1>10 DEF Process
<1>12. pc # "done"
  <2> SUFFICES ASSUME pc = "done" PROVE FALSE
      OBVIOUS
  <2>1. to_join = 0
        BY DEF SharesFit
  <2>2. state[t] = "joined"
        BY <1>1, <1>4, <2>1 DEF ChunksInOrder
  <2> QED
      BY <1>3, <2>2
<1> QED
    BY <1>3, <1>4, <1>5, <1>7, <1>9, <1>11, <1>12

LEMMA ProcessStep ==
  ASSUME IInv, TopologyKnown, NEW t \in Tid, Process(t)
  PROVE  SharesFit' /\ ChunksInOrder' /\ ItemsOwned'
<1>0. TypeOK /\ SharesFit /\ ChunksInOrder /\ ItemsOwned
      BY DEF IInv, ChunksInv
<1>1. /\ t < launched /\ first[t] <= cur[t] /\ cur[t] <= last[t] /\ cur[t] \in Word
      /\ processed' = [processed EXCEPT ![cur[t]] = 1]
      /\ cur' = [cur EXCEPT ![t] = cur[t] + 1]
      BY <1>0, ProcessItem
<1>2. \A u \in Tid : /\ u \in Nat
                     /\ first[u] \in Int /\ last[u] \in Int /\ cur[u] \in Int
      BY <1>0, ChunkInts
<1>3. /\ UNCHANGED <<call, pc, threads_used, iter_per_thread, iter, launched, to_join>>
      /\ UNCHANGED <<first, last, state>> /\ state[t] = "run"
      BY DEF Process, caller
<1>4. SharesFit'
      BY <1>0, <1>3 DEF SharesFit, InRange
<1>5. /\ cur'[t] = cur[t] + 1 /\ \A u \in Tid : u # t => cur'[u] = cur[u]
      BY <1>0, <1>1 DEF TypeOK
<1>6. ChunksInOrder'
      BY <1>0, <1>1, <1>2, <1>3, <1>5 DEF ChunksInOrder
<1>7. ItemsOwned'
  <2> SUFFICES ASSUME NEW i \in Word
               PROVE  processed'[i] =
                        IF \E u \in Tid : u < launched /\ first[u] <= i /\ i < cur'[u] THEN 1 ELSE 0
      BY <1>0, <1>3 DEF ItemsOwned
  <2>0. i \in Int
        BY WordInt
  <2>1. CASE i = cur[t]
        BY <1>0, <1>1, <1>2, <1>5, <2>0, <2>1 DEF TypeOK
  <2>2. CASE i # cur[t]
    <3>1. processed'[i] = processed[i]
          BY <1>0, <1>1, <2>2 DEF TypeOK
    <3>2. \A u \in Tid : i < cur'[u] <=> i < cur[u]
          BY <1>2, <1>5, <2>0, <2>2
    <3> QED
        BY <1>0, <3>1, <3>2 DEF ItemsOwned
  <2> QED
      BY <2>1, <2>2
<1> QED
    BY <1>4, <1>6, <1>7

LEMMA ReturnStep ==
  ASSUME IInv, TopologyKnown, NEW t \in Tid, Return(t)
  PROVE  SharesFit' /\ ChunksInOrder' /\ ItemsOwned'
<1>0. TypeOK /\ SharesFit /\ ChunksInOrder /\ ItemsOwned
      BY DEF IInv, ChunksInv
<1>1. \A u \in Tid : /\ u \in Nat
                     /\ first[u] \in Int /\ last[u] \in Int /\ cur[u] \in Int
      BY <1>0, ChunkInts
<1>2. /\ UNCHANGED <<call, pc, threads_used, iter_per_thread, iter, launched, to_join>>
      /\ UNCHANGED <<first, last, cur, processed>>
      /\ state[t] = "run" /\ cur[t] > last[t]
      BY DEF Return, caller, CallbackEnds
<1>3. SharesFit' /\ ItemsOwned'
      BY <1>0, <1>2 DEF SharesFit, ItemsOwned, InRange
<1>4. state'[t] = "returned" /\ \A u \in Tid : u # t => state'[u] = state[u]
      BY <1>0 DEF Return, TypeOK
<1>5. launched \in Nat
      BY <1>0, MaxLaunchAssumption DEF TypeOK
<1>6. t < launched
      BY <1>0, <1>1, <1>2, <1>5 DEF ChunksInOrder
<1>7. cur[t] = last[t] + 1
      BY <1>0, <1>1, <1>2, <1>6 DEF ChunksInOrder
<1>8. ~(pc \in {"join", "done"} /\ t >= to_join)
      BY <1>0, <1>2, <1>6 DEF ChunksInOrder
<1>9. ChunksInOrder'
  <2> SUFFICES ASSUME NEW u \in Tid
               PROVE  /\ (state'[u] = "none") <=> (u >= launched)
                      /\ u < launched =>
                           /\ call.start <= first[u] /\ first[u] <= last[u]
                           /\ first[u] <= cur[u] /\ cur[u] <= last[u] + 1
                           /\ last[u] < iter /\ last[u] < UINT_MAX
                      /\ \A w \in Tid : u < w /\ w < launched => last[u] < first[w]
                      /\ state'[u] \in {"returned", "joined"} => cur[u] = last[u] + 1
                      /\ pc \in {"join", "done"} /\ u < launched /\ u >= to_join
                           => state'[u] = "joined"
      BY <1>2 DEF ChunksInOrder
  <2>1. CASE u = t
        BY <1>0, <1>1, <1>2, <1>4, <1>5, <1>6, <1>7, <1>8, <2>1 DEF ChunksInOrder
  <2>2. CASE u # t
        BY <1>0, <1>4, <2>2 DEF ChunksInOrder
  <2> QED
      BY <2>1, <2>2
<1> QED
    BY <1>3, <1>9

LEMMA JoinStep ==
  ASSUME IInv, TopologyKnown, Join
  PROVE  SharesFit' /\ ChunksInOrder' /\ ItemsOwned'
<1>0. TypeOK /\ SharesFit /\ ChunksInOrder /\ ItemsOwned
      BY DEF IInv, ChunksInv
<1>1. \A u \in Tid : u \in Nat
      BY <1>0, ChunkInts
<1>2. /\ UNCHANGED <<call, pc, threads_used, iter_per_thread, iter, launched>>
      /\ UNCHANGED <<first, last, cur, processed>>
      /\ pc = "join" /\ to_join > 0 /\ state[to_join - 1] = "returned" /\ to_join' = to_join - 1
      BY DEF Join
<1>3. SharesFit' /\ ItemsOwned'
      BY <1>0, <1>2 DEF SharesFit, ItemsOwned, InRange
<1>4. to_join - 1 \in Tid /\ to_join \in Nat /\ launched \in Nat
      BY <1>0, <1>2, MaxLaunchAssumption DEF TypeOK, Tid
<1>5. state'[to_join - 1] = "joined" /\ \A u \in Tid : u # to_join - 1 => state'[u] = state[u]
      BY <1>0, <1>4 DEF Join, TypeOK
<1>6. ChunksInOrder'
  <2> SUFFICES ASSUME NEW u \in Tid
               PROVE  /\ (state'[u] = "none") <=> (u >= launched)
                      /\ u < launched =>
                           /\ call.start <= first[u] /\ first[u] <= last[u]
                           /\ first[u] <= cur[u] /\ cur[u] <= last[u] + 1
                           /\ last[u] < iter /\ last[u] < UINT_MAX
                      /\ \A w \in Tid : u < w /\ w < launched => last[u] < first[w]
                      /\ state'[u] \in {"returned", "joined"} => cur[u] = last[u] + 1
                      /\ u < launched /\ u >= to_join - 1 => state'[u] = "joined"
      BY <1>2 DEF ChunksInOrder
  <2>1. CASE u = to_join - 1
        BY <1>0, <1>2, <1>5, <2>1 DEF ChunksInOrder
  <2>2. CASE u # to_join - 1
    <3>1. u < launched /\ u >= to_join - 1 => state'[u] = "joined"
          BY <1>0, <1>1, <1>2, <1>4, <1>5, <2>2 DEF ChunksInOrder
    <3> QED
        BY <1>0, <1>5, <2>2, <3>1 DEF ChunksInOrder
  <2> QED
      BY <2>1, <2>2
<1> QED
    BY <1>3, <1>6

LEMMA CallerStep ==
  ASSUME IInv, TopologyKnown, SizeEnds \/ LaunchEnds \/ Finish
  PROVE  SharesFit' /\ ChunksInOrder' /\ ItemsOwned'
<1>0. TypeOK /\ SharesFit /\ ChunksInOrder /\ ItemsOwned
      BY DEF IInv, ChunksInv
<1>1. /\ UNCHANGED <<call, threads_used, iter_per_thread, iter, launched>>
      /\ UNCHANGED <<first, last, cur, state, processed>>
      BY DEF SizeEnds, LaunchEnds, Finish, workers
<1>2. ItemsOwned'
      BY <1>0, <1>1 DEF ItemsOwned
<1>3. /\ call.start \in Int /\ call.end \in Int /\ iter \in Int /\ threads_used \in Int
      BY <1>0, CallFields, WordInt DEF TypeOK
<1>4. CASE SizeEnds
      BY <1>0, <1>1, <1>2, <1>3, <1>4 DEF SizeEnds, SharesFit, ChunksInOrder, InRange
<1>5. CASE LaunchEnds
  <2>0. launched \in Nat /\ \A t \in Tid : t \in Nat
        BY <1>0, ChunkInts, MaxLaunchAssumption DEF TypeOK
  <2>1. ChunksInOrder'
        BY <1>0, <1>1, <1>5, <2>0 DEF LaunchEnds, ChunksInOrder
  <2>2. SharesFit'
        BY <1>0, <1>1, <1>3, <1>5 DEF LaunchEnds, SharesFit, InRange
  <2> QED
      BY <1>2, <2>1, <2>2
<1>6. CASE Finish
      BY <1>0, <1>1, <1>2, <1>6 DEF Finish, SharesFit, ChunksInOrder, InRange
<1> QED
    BY <1>4, <1>5, <1>6

LEMMA IInvNext == IInv /\ [Next]_vars => IInv'
<1> SUFFICES ASSUME IInv, [Next]_vars, TopologyKnown'
             PROVE  (SharesFit /\ ChunksInOrder /\ ItemsOwned)'
    BY TypeOKNext DEF IInv, ChunksInv
<1>1. TopologyKnown
  <2>1. call' = call
        BY DEF Next, Caller, Worker, Terminated, vars, Size, SizeEnds, Launch, LaunchEnds,
               Join, Finish, Process, Return
  <2> QED
      BY <2>1 DEF TopologyKnown, ThreadsAsked
<1>2. CASE Size
  <2>1. SharesFit'
        BY <1>1, <1>2, SizeStep
  <2>2. ChunksInOrder' /\ ItemsOwned'
    <3>1. ChunksInOrder /\ ItemsOwned
          BY <1>1 DEF IInv, ChunksInv
    <3>2. launched = 0 /\ iter = call.start
          BY <1>1, <1>2 DEF IInv, ChunksInv, SharesFit, Size
    <3>3. /\ UNCHANGED <<call, iter, launched, to_join, first, last, cur, state, processed>>
          /\ pc' \in {"size", "launch"}
          BY <1>2 DEF Size, workers
    <3> QED
        BY <3>1, <3>3 DEF ChunksInOrder, ItemsOwned
  <2> QED
      BY <2>1, <2>2
<1>3. CASE Launch
      BY <1>1, <1>3, LaunchStep
<1>4. CASE SizeEnds \/ LaunchEnds \/ Finish
      BY <1>1, <1>4, CallerStep
<1>5. CASE Join
      BY <1>1, <1>5, JoinStep
<1>6. ASSUME NEW t \in Tid, Process(t) PROVE SharesFit' /\ ChunksInOrder' /\ ItemsOwned'
      BY <1>1, <1>6, ProcessStep
<1>7. ASSUME NEW t \in Tid, Return(t) PROVE SharesFit' /\ ChunksInOrder' /\ ItemsOwned'
      BY <1>1, <1>7, ReturnStep
<1>8. CASE UNCHANGED vars
  <2>1. SharesFit /\ ChunksInOrder /\ ItemsOwned
        BY <1>1 DEF IInv, ChunksInv
  <2>2. /\ UNCHANGED <<call, pc, threads_used, iter_per_thread, iter, launched, to_join>>
        /\ UNCHANGED <<first, last, cur, state, processed>>
        BY <1>8 DEF vars, caller, workers
  <2> QED
      BY <2>1, <2>2 DEF SharesFit, ChunksInOrder, ItemsOwned, InRange
<1> QED
    BY <1>2, <1>3, <1>4, <1>5, <1>6, <1>7, <1>8
       DEF Next, Caller, Worker, Terminated

LEMMA Invariant == Spec => []IInv
BY IInvInit, IInvNext, PTL DEF Spec

(* Everything between start and end is done when all threads are joined,   *)
(* and nothing else ever is.                                               *)
LEMMA DoneOnlyInRange ==
  ASSUME IInv, TopologyKnown, NEW i \in Word, processed[i] > 0
  PROVE  processed[i] = 1 /\ InRange(i)
<1>0. TypeOK /\ SharesFit /\ ChunksInOrder /\ ItemsOwned
      BY DEF IInv, ChunksInv
<1>1. PICK t \in Tid : t < launched /\ first[t] <= i /\ i < cur[t]
      BY <1>0 DEF ItemsOwned
<1>2. processed[i] = 1
      BY <1>0, <1>1 DEF ItemsOwned
<1>3. call.start <= first[t] /\ cur[t] <= last[t] + 1 /\ last[t] < iter
      BY <1>0, <1>1 DEF ChunksInOrder
<1>4. /\ first[t] \in Int /\ last[t] \in Int /\ cur[t] \in Int /\ t \in Nat
      /\ i \in Int /\ iter \in Int /\ call.start \in Int /\ call.end \in Int
      BY <1>0, ChunkInts, CallFields, WordInt DEF TypeOK
<1>4a. launched \in Nat
      BY <1>0, MaxLaunchAssumption DEF TypeOK
<1>5. iter <= call.end
      BY <1>0, <1>1, <1>4, <1>4a DEF SharesFit
<1> QED
    BY <1>1, <1>2, <1>3, <1>4, <1>5 DEF InRange

LEMMA JoinedMeansDone ==
  ASSUME IInv, TopologyKnown, pc \in {"join", "done"}, to_join = 0, NEW i \in Word, InRange(i)
  PROVE  processed[i] = 1
<1>0. TypeOK /\ SharesFit /\ ChunksInOrder /\ ItemsOwned
      BY DEF IInv, ChunksInv
<1>1. i \in Int /\ iter \in Int /\ call.start \in Int /\ call.end \in Int
      BY <1>0, CallFields, WordInt DEF TypeOK
<1>2. call.start <= i /\ i < iter
      BY <1>0, <1>1 DEF SharesFit, InRange
<1>3. PICK t \in Tid : t < launched /\ first[t] <= i /\ i <= last[t]
      BY <1>0, <1>2 DEF ItemsOwned
<1>4. /\ t \in Nat /\ last[t] \in Int
      BY <1>0, ChunkInts
<1>5. state[t] = "joined"
      BY <1>0, <1>3, <1>4 DEF ChunksInOrder
<1>6. cur[t] = last[t] + 1
      BY <1>0, <1>5 DEF ChunksInOrder
<1>7. i < cur[t]
      BY <1>1, <1>3, <1>4, <1>6
<1> QED
    BY <1>0, <1>3, <1>7 DEF ItemsOwned

(* No item is processed twice and none outside [start, end) is, whatever   *)
(* the interleaving of the threads.                                        *)
THEOREM AtMostOnce == Spec => []ItemsAtMostOnce
<1>1. IInv => ItemsAtMostOnce
      BY DoneOnlyInRange DEF ItemsAtMostOnce
<1> QED
    BY <1>1, Invariant, PTL

(* When the call returns, no item of [start, end) is left.                 *)
THEOREM AllDone == Spec => []AllItemsAtReturn
<1>1. IInv => AllItemsAtReturn
  <2> SUFFICES ASSUME IInv, TopologyKnown, pc = "done", NEW i \in Word, InRange(i)
               PROVE  processed[i] = 1
      BY DEF AllItemsAtReturn
  <2>1. to_join = 0
        BY DEF IInv, ChunksInv, SharesFit
  <2> QED
      BY <2>1, JoinedMeansDone
<1> QED
    BY <1>1, Invariant, PTL

(* When the items divide evenly the shares are exact, and as many chunks    *)
(* lie between start and iter as threads have been created.                *)
EvenCall == TopologyKnown /\ InRange(call.start) /\ Items % ThreadsAsked = 0
SharesAreExact ==
  EvenCall =>
    /\ launched <= ThreadsAsked
    /\ pc = "size" => threads_used = ThreadsAsked
    /\ pc = "launch" => /\ iter_per_thread > 0 /\ ThreadsAsked * iter_per_thread = Items
                        /\ iter = call.start + launched * iter_per_thread

LEMMA WholeShares ==
  ASSUME NEW n \in Nat, NEW d \in Nat, n > 0, d > 0, n % d = 0
  PROVE  n \div d \in Nat /\ n \div d > 0 /\ d * (n \div d) = n
OBVIOUS

LEMMA NextShare ==
  ASSUME NEW k \in Nat, NEW d \in Nat, NEW s \in Nat, s > 0, k * s < d * s
  PROVE  /\ k < d
         /\ (k + 1) * s = k * s + s
         /\ d * s - (k + 1) * s < s => (k + 1) * s = d * s
<1>1. k < d
      OBVIOUS
<1>2. (k + 1) * s = k * s + s
      OBVIOUS
<1>3. CASE k + 1 = d
      BY <1>1, <1>2, <1>3
<1>4. CASE k + 1 < d
  <2>1. PICK m \in Nat : d = k + 2 + m
        BY <1>4, d - k - 2 \in Nat
  <2>2. d * s = (k + 1) * s + s + m * s
        BY <2>1
  <2>3. m * s >= 0
        OBVIOUS
  <2> QED
      BY <1>1, <1>2, <2>2, <2>3
<1> QED
    BY <1>1, <1>3, <1>4

LEMMA ExactNext == IInv /\ SharesAreExact /\ [Next]_vars => SharesAreExact'
<1>0. ASSUME [Next]_vars PROVE call' = call
  <2>1. ASSUME NEW t \in Tid, Worker(t) PROVE call' = call
        BY <2>1 DEF Worker, Process, Return
  <2>2. CASE Caller \/ UNCHANGED vars
        BY <2>2 DEF Caller, Size, SizeEnds, Launch, LaunchEnds, Join, Finish, vars
  <2> QED
      BY <1>0, <2>1, <2>2 DEF Next, Terminated
<1> SUFFICES ASSUME IInv, SharesAreExact, [Next]_vars, EvenCall PROVE SharesAreExact'
    BY <1>0 DEF SharesAreExact, EvenCall, TopologyKnown, ThreadsAsked, InRange, Items
<1>1. /\ call.start \in Nat /\ call.end \in Nat /\ ThreadsAsked \in Nat /\ ThreadsAsked > 0
      /\ iter \in Nat /\ iter_per_thread \in Nat /\ launched \in Nat
      BY CallFields, WordAssumption, MaxLaunchAssumption DEF IInv, TypeOK, Word, EvenCall, TopologyKnown
<1>2. Items = call.end - call.start /\ Items \in Nat /\ Items > 0
      BY <1>1, CallFields, NoWrap DEF IInv, TypeOK, Items, InRange, EvenCall
<1>3. launched <= ThreadsAsked
      BY DEF SharesAreExact
<1>4. CASE Size
  <2>1. threads_used = ThreadsAsked /\ call' = call /\ iter' = iter /\ launched' = launched
        BY <1>4 DEF Size, SharesAreExact
  <2>2. Share \in Nat /\ Share > 0 /\ ThreadsAsked * Share = Items
        BY <1>1, <1>2, <2>1, WholeShares DEF Share, EvenCall
  <2>3. iter_per_thread' = Share /\ pc' = "launch"
        BY <1>4, <2>2 DEF Size
  <2>4. iter = call.start /\ launched = 0
        BY <1>4 DEF Size, IInv, ChunksInv, SharesFit, EvenCall
  <2>5. ThreadsAsked' = ThreadsAsked /\ Items' = Items
        BY <2>1 DEF ThreadsAsked, Items
  <2> QED
      BY <1>1, <1>3, <2>1, <2>2, <2>3, <2>4, <2>5 DEF SharesAreExact
<1>5. CASE Launch
  <2> DEFINE s     == iter_per_thread
             given == launched * s
             next  == (launched + 1) * s
             all   == ThreadsAsked * s
  <2>1. s > 0 /\ all = Items /\ iter = call.start + given /\ iter < call.end
        BY <1>5 DEF Launch, SharesAreExact
  <2>2. given < all
    <3>1. given \in Nat /\ all \in Nat
          BY <1>1
    <3> HIDE DEF given, all
    <3> QED
        BY <1>1, <1>2, <2>1, <3>1
  <2>3. launched < ThreadsAsked /\ next = given + s /\ (all - next < s => next = all)
        BY <1>1, <2>1, <2>2, NextShare
  <2>4. given \in Nat /\ next \in Nat
        BY <1>1
  <2> HIDE DEF given, next, all
  <2>5. iter + s <= call.end
        BY <1>1, <1>5 DEF IInv, ChunksInv, SharesFit, Launch, EvenCall
  <2>6. ChunkEnd = call.start + next
    <3>1. iter \in Word /\ s \in Word /\ call.end \in Word
          BY CallFields DEF IInv, TypeOK
    <3>2. iter + s = call.start + next
          BY <1>1, <2>1, <2>3, <2>4
    <3>3. iter + s <= UINT_MAX /\ iter + s \in Word
          BY <1>1, <2>5, <3>1, WordAssumption DEF Word
    <3>4. Plus(iter, s) = iter + s /\ Minus(call.end, iter + s) = call.end - (iter + s)
          BY <2>5, <3>1, <3>3, NoWrap
    <3>5. call.end - (iter + s) < s => call.end = iter + s
      <4>1. call.end - (iter + s) = all - next
            BY <1>1, <1>2, <2>1, <2>4, <3>2
      <4> QED
          BY <1>1, <1>2, <2>1, <2>3, <2>4, <3>2, <4>1
    <3> QED
        BY <3>2, <3>4, <3>5 DEF ChunkEnd
  <2>7. /\ call' = call /\ pc' = "launch" /\ iter_per_thread' = s
        /\ iter' = ChunkEnd /\ launched' = launched + 1
        BY <1>5 DEF Launch
  <2>8. ThreadsAsked' = ThreadsAsked /\ Items' = Items
        BY <2>7 DEF ThreadsAsked, Items
  <2>9. launched + 1 <= ThreadsAsked
        BY <1>1, <2>3
  <2> QED
      BY <2>1, <2>6, <2>7, <2>8, <2>9 DEF SharesAreExact, next, all
<1>6. CASE SizeEnds
      BY <1>1, <1>6 DEF SizeEnds, SharesAreExact
<1>7. CASE LaunchEnds \/ Join \/ Finish
      BY <1>3, <1>7 DEF LaunchEnds, Join, Finish, SharesAreExact, ThreadsAsked
<1>8. CASE UNCHANGED vars \/ \E t \in Tid : Worker(t)
  <2>1. call' = call /\ pc' = pc /\ threads_used' = threads_used /\ iter_per_thread' = iter_per_thread
        /\ iter' = iter /\ launched' = launched
        BY <1>8 DEF vars, caller, workers, Worker, Process, Return
  <2> QED
      BY <2>1 DEF SharesAreExact, EvenCall, ThreadsAsked, Items
<1> QED
    BY <1>4, <1>5, <1>6, <1>7, <1>8 DEF Next, Caller, Terminated

(* When the items divide evenly, no more threads are created than were     *)
(* asked for: fft_for() indexes its benches by thread number.              *)
THEOREM EvenSplit == Spec => []EvenSplitThreads
<1>1. Init => SharesAreExact
  <2> SUFFICES ASSUME Init, EvenCall PROVE SharesAreExact
      BY DEF SharesAreExact
  <2> QED
      BY CallFields DEF Init, SharesAreExact, EvenCall, TopologyKnown
<1>2. SharesAreExact => EvenSplitThreads
      BY DEF SharesAreExact, EvenCall, EvenSplitThreads
<1> QED
    BY <1>1, <1>2, Invariant, ExactNext, PTL DEF Spec

(* The call implements ForEach: while the threads run, each step either    *)
(* does one item of the job that nobody has done, or changes nothing the   *)
(* caller can see; the call returns only when every item has been done.    *)
THEOREM Implements ==
  ASSUME \A c \in Calls : ThreadsAskedBy(c) > 0
  PROVE  Spec => EachItemOnce
<1>1. Init => FE!Init
  <2> SUFFICES ASSUME Init PROVE FE!Init
      OBVIOUS
  <2> QED
      BY DEF Init, FE!Init
<1>2. IInv /\ [Next]_vars => [FE!Next]_(FE!vars)
  <2> SUFFICES ASSUME IInv, [Next]_vars PROVE [FE!Next]_(FE!vars)
      OBVIOUS
  <2>0. TopologyKnown /\ TypeOK
        BY DEF IInv, TypeOK, TopologyKnown, ThreadsAsked
  <2>1. CASE Finish
    <3>1. \A i \in JobOf(call) : processed[i] = 1
          BY <2>0, <2>1, JoinedMeansDone DEF Finish, JobOf, InRange
    <3>2. FE!Return
          BY <2>1, <3>1 DEF Finish, workers, FE!Return
    <3> QED
        BY <3>2 DEF FE!Next
  <2>2. ASSUME NEW t \in Tid, Process(t) PROVE FE!Next
    <3>1. /\ cur[t] \in Word /\ call.start <= cur[t] /\ cur[t] < call.end
          /\ processed[cur[t]] = 0
          /\ processed' = [processed EXCEPT ![cur[t]] = 1]
          /\ pc # "done"
          BY <2>0, <2>2, ProcessItem DEF IInv, ChunksInv
    <3>2. call' = call /\ pc' = pc
          BY <2>2 DEF Process, caller
    <3>3. FE!Do(cur[t])
          BY <3>1, <3>2 DEF FE!Do, JobOf
    <3> QED
        BY <3>1, <3>3 DEF FE!Next
  <2>3. CASE Size \/ SizeEnds \/ Launch \/ LaunchEnds \/ Join
        BY <2>3 DEF Size, SizeEnds, Launch, LaunchEnds, Join, workers, FE!vars
  <2>4. ASSUME NEW t \in Tid, Return(t) PROVE UNCHANGED FE!vars
        BY <2>4 DEF Return, caller, FE!vars
  <2>5. CASE UNCHANGED vars
        BY <2>5 DEF vars, caller, workers, FE!vars
  <2> QED
      BY <2>1, <2>2, <2>3, <2>4, <2>5 DEF Next, Caller, Worker, Terminated
<1> QED
    BY <1>1, <1>2, Invariant, PTL DEF Spec, EachItemOnce, FE!Spec

-----------------------------------------------------------------------------
(* The sum of what the threads returned.  A set of numbers has a least.   *)
LEMMA Least ==
  ASSUME NEW T, T \subseteq Nat, T # {}
  PROVE  \E x \in T : \A y \in T : x <= y
<1> DEFINE R == {ss \in Nat \X Nat : ss[1] < ss[2]}
<1>1. IsWellFoundedOn(R, Nat)
      BY NatLessThanWellFounded, Zenon DEF OpToRel
<1> HIDE DEF R
<1>2. PICK x \in T : \A y \in T : ~ (<<y, x>> \in R)
      BY <1>1, WFMin
<1>3. ASSUME NEW y \in T PROVE x <= y
  <2>1. <<y, x>> \in Nat \X Nat
        OBVIOUS
  <2> QED
      BY <2>1, <1>2 DEF R
<1> QED
    BY <1>2, <1>3

(* Of some subsets of a finite set, one has none of the others in it. *)
LEMMA Smallest ==
  ASSUME NEW A, IsFiniteSet(A), NEW B, B \subseteq SUBSET A, B # {}
  PROVE  \E s \in B : \A r \in B : r \subseteq s => r = s
<1>1. \A s \in B : IsFiniteSet(s) /\ Cardinality(s) \in Nat
      BY FS_Subset, FS_CardinalityType
<1> DEFINE Sizes == {Cardinality(s) : s \in B}
<1>2. PICK n \in Sizes : \A m \in Sizes : n <= m
  <2>1. Sizes \subseteq Nat /\ Sizes # {}
        BY <1>1
  <2> QED
      BY <2>1, Least
<1>3. PICK s \in B : Cardinality(s) = n
      OBVIOUS
<1>4. ASSUME NEW r \in B, r \subseteq s PROVE r = s
  <2>1. Cardinality(r) <= Cardinality(s) /\ (Cardinality(s) = Cardinality(r) => s = r)
        BY <1>1, <1>4, FS_Subset
  <2>2. Cardinality(s) <= Cardinality(r)
        BY <1>2, <1>3
  <2> QED
      BY <1>1, <2>1, <2>2
<1> QED
    BY <1>4

(* What MapThenSumSet() adds up: the value of one member and the sum of the *)
(* others.                                                                  *)
Picked(s) == CHOOSE x \in s : TRUE
Sums(v, A) ==
  CHOOSE f : f = [s \in SUBSET A |->
    IF s = {} THEN 0 ELSE v[Picked(s)] + f[s \ {Picked(s)}]]

LEMMA PickedFacts ==
  ASSUME NEW s, s # {}
  PROVE  Picked(s) \in s /\ s \ {Picked(s)} # s /\ s \ {Picked(s)} \subseteq s
BY DEF Picked

LEMMA IsSums == ASSUME NEW A PROVE MapThenSumSet(LAMBDA t : value[t], A) = Sums(value, A)[A]
BY DEF MapThenSumSet, MapThenFoldSet, Sums, Picked

(* There is such a function, for it can be had for the sets of up to n, any n. *)
LEMMA SumsExist ==
  ASSUME NEW A, IsFiniteSet(A), NEW v
  PROVE  Sums(v, A) = [s \in SUBSET A |->
           IF s = {} THEN 0 ELSE v[Picked(s)] + Sums(v, A)[s \ {Picked(s)}]]
<1> DEFINE Upto(n) == {s \in SUBSET A : Cardinality(s) <= n}
           OneStep(f, s) == IF s = {} THEN 0 ELSE v[Picked(s)] + f[s \ {Picked(s)}]
           Good(n) == \E f : DOMAIN f = Upto(n) /\ \A s \in Upto(n) : f[s] = OneStep(f, s)
<1>1. \A s \in SUBSET A : IsFiniteSet(s) /\ Cardinality(s) \in Nat /\ Cardinality(s) <= Cardinality(A)
      BY FS_Subset, FS_CardinalityType
<1>2. \A s \in SUBSET A : s # {} => s \ {Picked(s)} \in SUBSET A /\ Cardinality(s \ {Picked(s)}) = Cardinality(s) - 1
      BY <1>1, PickedFacts, FS_RemoveElement
<1>3. \A s \in SUBSET A : s # {} => Cardinality(s) > 0
      BY <1>1, FS_EmptySet
<1> HIDE DEF Upto
<1>4. Good(0)
  <2> DEFINE f == [s \in Upto(0) |-> 0]
  <2>1. \A s \in Upto(0) : s = {}
        BY <1>1, <1>3 DEF Upto
  <2>2. DOMAIN f = Upto(0) /\ \A s \in Upto(0) : f[s] = OneStep(f, s)
        BY <2>1
  <2> QED
      BY <2>2
<1>5. ASSUME NEW n \in Nat, Good(n) PROVE Good(n + 1)
  <2>1. PICK f : DOMAIN f = Upto(n) /\ \A s \in Upto(n) : f[s] = OneStep(f, s)
        BY <1>5
  <2> DEFINE g == [s \in Upto(n + 1) |-> OneStep(f, s)]
  <2>2. \A s \in Upto(n) : g[s] = f[s]
        BY <1>1, <2>1 DEF Upto
  <2>3. \A s \in Upto(n + 1) : s # {} => s \ {Picked(s)} \in Upto(n)
        BY <1>1, <1>2 DEF Upto
  <2>4. \A s \in Upto(n + 1) : g[s] = OneStep(g, s)
        BY <2>2, <2>3
  <2> QED
      BY <2>4
<1> HIDE DEF Good
<1>6. Good(Cardinality(A))
  <2> SUFFICES ASSUME ~Good(Cardinality(A)) PROVE FALSE
      OBVIOUS
  <2> DEFINE Bad == {n \in Nat : ~Good(n)}
  <2>1. Bad \subseteq Nat /\ Bad # {}
        BY FS_CardinalityType
  <2>2. PICK n \in Bad : \A m \in Bad : n <= m
        BY <2>1, Least
  <2>3. n # 0 /\ n \in Nat
        BY <1>4
  <2>4. n - 1 \in Nat /\ n - 1 \notin Bad
        BY <2>2, <2>3
  <2>5. Good((n - 1) + 1)
        BY <1>5, <2>4
  <2> QED
      BY <2>3, <2>5
<1>7. PICK f : DOMAIN f = SUBSET A /\ \A s \in SUBSET A : f[s] = OneStep(f, s)
  <2>1. Upto(Cardinality(A)) = SUBSET A
        BY <1>1 DEF Upto
  <2> QED
      BY <1>6, <2>1 DEF Good
<1>8. Upto(Cardinality(A)) = SUBSET A
      BY <1>1 DEF Upto
<1>9. \E g : g = [s \in SUBSET A |-> OneStep(g, s)]
  <2> DEFINE g == [s \in SUBSET A |-> f[s]]
  <2>1. \A s \in SUBSET A : s # {} => s \ {Picked(s)} \in SUBSET A
        OBVIOUS
  <2>2. \A s \in SUBSET A : g[s] = OneStep(g, s)
        BY <1>7, <2>1
  <2>3. g = [s \in SUBSET A |-> OneStep(g, s)]
        BY <2>2
  <2> QED
      BY <2>3
<1> QED
    BY <1>9 DEF Sums

LEMMA SumsUnfold ==
  ASSUME NEW A, IsFiniteSet(A), NEW v, NEW s \in SUBSET A
  PROVE  Sums(v, A)[s] = IF s = {} THEN 0 ELSE v[Picked(s)] + Sums(v, A)[s \ {Picked(s)}]
<1> DEFINE S == Sums(v, A)
<1>1. S = [r \in SUBSET A |-> IF r = {} THEN 0 ELSE v[Picked(r)] + S[r \ {Picked(r)}]]
      BY SumsExist
<1> HIDE DEF S
<1>2. S[s] = IF s = {} THEN 0 ELSE v[Picked(s)] + S[s \ {Picked(s)}]
      BY <1>1
<1> QED
    BY <1>2 DEF S

LEMMA SumsNat ==
  ASSUME NEW A, IsFiniteSet(A), NEW v, \A x \in A : v[x] \in Nat
  PROVE  \A s \in SUBSET A : Sums(v, A)[s] \in Nat
<1> DEFINE S == Sums(v, A)
           Bad == {s \in SUBSET A : S[s] \notin Nat}
<1>1. \A s \in SUBSET A : S[s] = IF s = {} THEN 0 ELSE v[Picked(s)] + S[s \ {Picked(s)}]
      BY SumsUnfold
<1> HIDE DEF S
<1> SUFFICES ASSUME Bad # {} PROVE FALSE
    BY DEF S
<1>b. Bad \subseteq SUBSET A /\ Bad # {}
      OBVIOUS
<1>2. PICK s \in Bad : \A r \in Bad : r \subseteq s => r = s
  <2> HIDE DEF Bad
  <2> QED
      BY <1>b, Smallest
<1>3. s # {} /\ s \in SUBSET A
  <2>1. s \in SUBSET A
        BY <1>b
  <2>2. ASSUME s = {} PROVE FALSE
        BY <1>1, <2>1, <2>2
  <2> QED
      BY <2>1, <2>2
<1>4. s \ {Picked(s)} \in SUBSET A /\ s \ {Picked(s)} \notin Bad /\ Picked(s) \in A
      BY <1>2, <1>3, PickedFacts
<1> QED
    BY <1>1, <1>3, <1>4

(* The sum depends on what is added only. *)
LEMMA SumsAgree ==
  ASSUME NEW B, IsFiniteSet(B), NEW A, A \subseteq B, NEW v, NEW w, \A x \in A : v[x] = w[x]
  PROVE  \A s \in SUBSET A : Sums(w, B)[s] = Sums(v, A)[s]
<1> DEFINE S == Sums(v, A)
           T == Sums(w, B)
           Bad == {s \in SUBSET A : T[s] # S[s]}
<1>0. IsFiniteSet(A)
      BY FS_Subset
<1>s. ASSUME NEW s \in SUBSET A PROVE S[s] = IF s = {} THEN 0 ELSE v[Picked(s)] + S[s \ {Picked(s)}]
      BY <1>0, SumsUnfold, Zenon
<1>t. ASSUME NEW s \in SUBSET A PROVE T[s] = IF s = {} THEN 0 ELSE w[Picked(s)] + T[s \ {Picked(s)}]
  <2>1. s \in SUBSET B
        OBVIOUS
  <2> QED BY <2>1, SumsUnfold, Zenon
<1> HIDE DEF S, T
<1>1. \A s \in SUBSET A : /\ S[s] = IF s = {} THEN 0 ELSE v[Picked(s)] + S[s \ {Picked(s)}]
                          /\ T[s] = IF s = {} THEN 0 ELSE w[Picked(s)] + T[s \ {Picked(s)}]
      BY <1>s, <1>t, Zenon
<1> SUFFICES ASSUME Bad # {} PROVE FALSE
    BY DEF S, T
<1>b. Bad \subseteq SUBSET A /\ Bad # {}
      OBVIOUS
<1>2. PICK s \in Bad : \A r \in Bad : r \subseteq s => r = s
  <2> HIDE DEF Bad
  <2> QED
      BY <1>0, <1>b, Smallest
<1>3. s # {} /\ s \in SUBSET A
  <2>1. s \in SUBSET A
        BY <1>b
  <2>2. ASSUME s = {} PROVE FALSE
        BY <1>1, <2>1, <2>2
  <2> QED
      BY <2>1, <2>2
<1>4. s \ {Picked(s)} \in SUBSET A /\ s \ {Picked(s)} \notin Bad /\ Picked(s) \in A
      BY <1>2, <1>3, PickedFacts
<1> QED
    BY <1>1, <1>3, <1>4

(* Whichever member is taken out first, the sum is the same. *)
LEMMA SumsTakeOut ==
  ASSUME NEW A, IsFiniteSet(A), NEW v, \A x \in A : v[x] \in Nat
  PROVE  \A s \in SUBSET A : \A x \in s : Sums(v, A)[s] = v[x] + Sums(v, A)[s \ {x}]
<1> DEFINE S == Sums(v, A)
           Bad == {s \in SUBSET A : \E x \in s : S[s] # v[x] + S[s \ {x}]}
<1>1. \A s \in SUBSET A : S[s] \in Nat /\ S[s] = IF s = {} THEN 0 ELSE v[Picked(s)] + S[s \ {Picked(s)}]
      BY SumsUnfold, SumsNat
<1> HIDE DEF S
<1> SUFFICES ASSUME Bad # {} PROVE FALSE
    BY DEF S
<1>b. Bad \subseteq SUBSET A /\ Bad # {}
      OBVIOUS
<1>2. PICK s \in Bad : \A r \in Bad : r \subseteq s => r = s
  <2> HIDE DEF Bad
  <2> QED
      BY <1>b, Smallest
<1>3. PICK x \in s : S[s] # v[x] + S[s \ {x}]
      OBVIOUS
<1> DEFINE p == Picked(s)
<1>4. p \in s /\ p \in A /\ x \in A /\ s \in SUBSET A
      BY PickedFacts
<1>5. S[s] = v[p] + S[s \ {p}] /\ p # x
      BY <1>1, <1>3, <1>4
<1> HIDE DEF p
<1>6. s \ {p} \notin Bad /\ s \ {x} \notin Bad /\ s \ {p} \in SUBSET A /\ s \ {x} \in SUBSET A
      BY <1>2, <1>4
<1>7. S[s \ {p}] = v[x] + S[(s \ {p}) \ {x}]
      BY <1>5, <1>6
<1>8. S[s \ {x}] = v[p] + S[(s \ {x}) \ {p}]
      BY <1>4, <1>5, <1>6
<1>9. (s \ {x}) \ {p} = (s \ {p}) \ {x} /\ (s \ {p}) \ {x} \in SUBSET A
      BY <1>4
<1>10. v[x] \in Nat /\ v[p] \in Nat /\ S[(s \ {p}) \ {x}] \in Nat
       BY <1>1, <1>4, <1>9
<1>11. S[(s \ {x}) \ {p}] = S[(s \ {p}) \ {x}]
       BY <1>9
<1> HIDE DEF Bad
<1> QED
    BY <1>3, <1>5, <1>7, <1>8, <1>10, <1>11

(* One more to add. *)
LEMMA SumOneMore ==
  ASSUME NEW A, IsFiniteSet(A), NEW x, x \notin A, NEW v, \A y \in A \cup {x} : v[y] \in Nat
  PROVE  Sums(v, A \cup {x})[A \cup {x}] = v[x] + Sums(v, A)[A]
<1> DEFINE B == A \cup {x}
<1>1. IsFiniteSet(B) /\ A \subseteq B /\ B \ {x} = A /\ x \in B
      BY FS_AddElement
<1> HIDE DEF B
<1>2. \A y \in B : v[y] \in Nat
      BY DEF B
<1>3. Sums(v, B)[B] = v[x] + Sums(v, B)[A]
      BY <1>1, <1>2, SumsTakeOut
<1>4. Sums(v, B)[A] = Sums(v, A)[A]
      BY <1>1, SumsAgree
<1> QED
    BY <1>3, <1>4 DEF B

(* The threads joined so far that returned a value. *)
Counted == {t \in Tid : to_join <= t /\ t < launched /\ value[t] # NULL}

(* While it joins, the caller has the sum of the threads it has joined;     *)
(* whether the topology is known plays no part.                             *)
JoinedSum ==
  /\ \A t \in Tid : state[t] = "none" <=> t >= launched
  /\ pc \in {"size", "launch"} => result = -1
  /\ pc \in {"join", "done"} =>
       /\ \A t \in Tid : to_join <= t /\ t < launched => state[t] = "joined"
       /\ result = IF Counted = {} THEN -1 ELSE Sums(value, Counted)[Counted]
  /\ pc = "done" => to_join = 0

LEMMA CountedFacts ==
  ASSUME TypeOK
  PROVE  IsFiniteSet(Counted) /\ \A t \in Counted : value[t] \in Nat
<1>1. IsFiniteSet(Tid)
      BY MaxLaunchAssumption, FS_Interval DEF Tid
<1>2. Counted \in SUBSET Tid
      BY DEF Counted
<1>3. IsFiniteSet(Counted)
      BY <1>1, <1>2, FS_Subset
<1> QED
    BY <1>3 DEF TypeOK, Counted

LEMMA JoinedSumInit == Init => JoinedSum
BY MaxLaunchAssumption DEF Init, JoinedSum, Tid

LEMMA JoinStepSum ==
  ASSUME TypeOK, JoinedSum, Join
  PROVE  result' = IF Counted' = {} THEN -1 ELSE Sums(value, Counted')[Counted']
<1> DEFINE t == to_join - 1
<1>1. t \in Tid /\ to_join' = t /\ launched' = launched /\ value' = value /\ pc = "join" /\ state[t] = "returned"
      BY MaxLaunchAssumption DEF Join, TypeOK, Tid
<1>2. t < launched /\ result' = Added(value[t]) /\ to_join = t + 1 /\ t \in Int
      BY <1>1 DEF JoinedSum, Join, Tid, TypeOK
<1> HIDE DEF t
<1>3. IsFiniteSet(Counted) /\ (\A u \in Counted : value[u] \in Nat) /\ t \notin Counted
      BY <1>2, CountedFacts DEF Counted
<1>4. result = IF Counted = {} THEN -1 ELSE Sums(value, Counted)[Counted]
      BY <1>1 DEF JoinedSum
<1>5. Sums(value, Counted)[Counted] \in Nat
      BY <1>3, SumsNat
<1>6. CASE value[t] = NULL
  <2>1. Counted' = Counted
        BY <1>1, <1>2, <1>6 DEF Counted, Tid
  <2> QED
      BY <1>2, <1>4, <1>6, <2>1 DEF Added
<1>7. CASE value[t] # NULL
  <2>1. Counted' = Counted \cup {t}
        BY <1>1, <1>2, <1>7 DEF Counted, Tid
  <2>2. value[t] \in Nat
        BY <1>1, <1>7 DEF TypeOK
  <2>3. Sums(value, Counted \cup {t})[Counted \cup {t}] = value[t] + Sums(value, Counted)[Counted]
        BY <1>3, <2>2, SumOneMore
  <2>4. Counted = {} => Sums(value, Counted)[Counted] = 0
        BY <1>3, SumsUnfold
  <2>5. result' = value[t] + Sums(value, Counted)[Counted]
        BY <1>2, <1>4, <1>5, <1>7, <2>2, <2>4 DEF Added
  <2> QED
      BY <2>1, <2>3, <2>5
<1> QED
    BY <1>6, <1>7

LEMMA JoinedSumNext == TypeOK /\ JoinedSum /\ [Next]_vars => JoinedSum'
<1> SUFFICES ASSUME TypeOK, JoinedSum, [Next]_vars PROVE JoinedSum'
    OBVIOUS
<1>0. launched \in 0 .. MaxLaunch /\ to_join \in 0 .. MaxLaunch /\ Tid = 0 .. (MaxLaunch - 1) /\ MaxLaunch \in Nat
      BY MaxLaunchAssumption DEF TypeOK, Tid
<1>1. CASE Size \/ SizeEnds \/ Finish
      BY <1>1 DEF Size, SizeEnds, Finish, workers, JoinedSum, Counted
<1>2. CASE Launch
  <2>1. state' = [state EXCEPT ![launched] = "run"] /\ launched \in Tid
        BY <1>0, <1>2 DEF Launch
  <2>2. \A u \in Tid : state'[u] = "none" <=> u >= launched + 1
        BY <1>0, <2>1 DEF JoinedSum, TypeOK
  <2> QED
      BY <1>2, <2>2 DEF Launch, JoinedSum
<1>3. CASE LaunchEnds
  <2>1. to_join' = launched /\ launched' = launched /\ pc' = "join" /\ result' = -1 /\ state' = state
        BY <1>3 DEF LaunchEnds, workers, JoinedSum
  <2>2. Counted' = {}
        BY <1>0, <2>1 DEF Counted
  <2> QED
      BY <1>0, <2>1, <2>2 DEF JoinedSum
<1>4. CASE Join
  <2>1. /\ state' = [state EXCEPT ![to_join - 1] = "joined"] /\ to_join - 1 \in Tid /\ to_join' = to_join - 1
        /\ pc = "join" /\ pc' = pc /\ launched' = launched /\ value' = value /\ state[to_join - 1] = "returned"
        BY <1>0, <1>4 DEF Join
  <2>2. \A u \in Tid : state'[u] = "none" <=> u >= launched
        BY <2>1 DEF JoinedSum, TypeOK
  <2>3. \A u \in Tid : to_join' <= u /\ u < launched => state'[u] = "joined"
        BY <1>0, <2>1 DEF JoinedSum, TypeOK
  <2>4. result' = IF Counted' = {} THEN -1 ELSE Sums(value, Counted')[Counted']
        BY <1>4, JoinStepSum
  <2> QED
      BY <2>1, <2>2, <2>3, <2>4 DEF JoinedSum
<1>5. ASSUME NEW t \in Tid, Process(t) PROVE JoinedSum'
      BY <1>5 DEF Process, caller, JoinedSum, Counted
<1>6. ASSUME NEW t \in Tid, Return(t) PROVE JoinedSum'
  <2>1. /\ state[t] = "run" /\ state' = [state EXCEPT ![t] = "returned"]
        /\ pc' = pc /\ result' = result /\ to_join' = to_join /\ launched' = launched
        BY <1>6 DEF Return, caller
  <2>2. PICK r : value' = [value EXCEPT ![t] = r]
        BY <1>6 DEF Return
  <2>3. \A u \in Tid : u # t => value'[u] = value[u]
        BY <2>2 DEF TypeOK
  <2>4. \A u \in Tid : state'[u] = "none" <=> u >= launched
        BY <2>1 DEF JoinedSum, TypeOK
  <2>5. CASE pc \in {"join", "done"}
    <3>1. ~(to_join <= t /\ t < launched) /\ t \notin Counted
          BY <2>1, <2>5 DEF JoinedSum, Counted
    <3>2. Counted' = Counted
          BY <2>1, <2>3, <3>1 DEF Counted
    <3>3. \A u \in Counted : value[u] = value'[u]
          BY <2>3, <3>1 DEF Counted
    <3>4. Sums(value', Counted)[Counted] = Sums(value, Counted)[Counted]
          BY <3>3, CountedFacts, SumsAgree
    <3>5. \A u \in Tid : to_join <= u /\ u < launched => state'[u] = "joined"
          BY <2>1, <2>5, <3>1 DEF JoinedSum, TypeOK
    <3> QED
        BY <2>1, <2>4, <2>5, <3>2, <3>4, <3>5 DEF JoinedSum
  <2>6. CASE pc \notin {"join", "done"}
        BY <2>1, <2>4, <2>6 DEF JoinedSum
  <2> QED
      BY <2>5, <2>6
<1>7. CASE UNCHANGED vars
      BY <1>7 DEF vars, caller, workers, JoinedSum, Counted
<1> QED
    BY <1>1, <1>2, <1>3, <1>4, <1>5, <1>6, <1>7 DEF Next, Caller, Worker, Terminated

(* The value the call reports is the sum of what the callbacks returned,   *)
(* whatever they returned and in whatever order the threads ended, and -1  *)
(* when none of them returned anything.                                    *)
THEOREM ResultIsSumForAll == Spec => []ResultIsSum
<1>1. TypeOK /\ JoinedSum => ResultIsSum
  <2> SUFFICES ASSUME TypeOK, JoinedSum, pc = "done"
               PROVE  result = IF Answered = {} THEN -1 ELSE MapThenSumSet(LAMBDA t : value[t], Answered)
      BY DEF ResultIsSum
  <2>1. Answered = Counted
        BY MaxLaunchAssumption DEF JoinedSum, Answered, Counted, Tid
  <2>2. result = IF Counted = {} THEN -1 ELSE Sums(value, Counted)[Counted]
        BY DEF JoinedSum
  <2>3. MapThenSumSet(LAMBDA t : value[t], Answered) = Sums(value, Answered)[Answered]
        BY IsSums
  <2> QED
      BY <2>1, <2>2, <2>3
<1> QED
    BY <1>1, TypeOKInit, TypeOKNext, JoinedSumInit, JoinedSumNext, PTL DEF Spec
=============================================================================
