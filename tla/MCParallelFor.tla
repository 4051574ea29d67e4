--------------------------- MODULE MCParallelFor ---------------------------
(* ParallelFor for TLC: words of four bits, short jobs, few processors.    *)
EXTENDS ParallelFor

Call(n, s, e, threads, cores) ==
  [n_threads |-> n, start |-> s, end |-> e, cpu_threads |-> threads, cpu_cores |-> cores]

(* Any number of threads asked for against jobs shorter and longer than it, *)
(* an empty job, a job given backwards, and a job at the end of the words.  *)
KnownCalls ==
  {Call(n, s, s + k, 3, 2) : n \in {-1, 0, 1, 4, 5}, s \in {0, 2}, k \in 0 .. 5}
  \cup {Call(4, 12, 15, 3, 2), Call(1, 5, 3, 3, 2), Call(-1, 11, 15, 3, 2),
        Call(3, 15, 15, 3, 2)}

(* /sys/devices/system/cpu/present cannot be read.                          *)
UnknownCalls == {Call(0, 0, 3, -1, -1), Call(-1, 1, 3, -1, -1), Call(2, 0, 3, -1, -1)}

OneOrNothing == {1, NULL}
=============================================================================
