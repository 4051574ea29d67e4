------------------------------ MODULE ForEach ------------------------------
(***************************************************************************)
(* What a caller of benchmark_parallel_for() relies on: every item of the  *)
(* job is done once and only once, in any order, by anybody, and the call  *)
(* returns when none is left, never before.                                *)
(***************************************************************************)
CONSTANTS Item, Jobs    \* Jobs \subseteq SUBSET Item

VARIABLES
  job,       \* the items of this call
  count,     \* how often each item was done
  returned
vars == <<job, count, returned>>

Init == job \in Jobs /\ count = [i \in Item |-> 0] /\ returned = FALSE

Do(i) ==
  /\ i \in job /\ count[i] = 0 /\ ~returned
  /\ count' = [count EXCEPT ![i] = 1]
  /\ UNCHANGED <<job, returned>>

Return ==
  /\ ~returned /\ \A i \in job : count[i] = 1
  /\ returned' = TRUE
  /\ UNCHANGED <<job, count>>

Next == Return \/ \E i \in Item : Do(i)
Spec == Init /\ [][Next]_vars
=============================================================================
