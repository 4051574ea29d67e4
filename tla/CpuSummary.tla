----------------------------- MODULE CpuSummary -----------------------------
(***************************************************************************)
(* The summary above the list of processors: how many there are of each    *)
(* name, clock and cache (processor_meta() in devices/x86/processor.c, and *)
(* devices.c), and how many packages, cores, threads and nodes             *)
(* (hardinfo/cpu_util.c, over the sets of bits of cpubits.c). Each count   *)
(* is made by sorting a list, dropping what is in it twice and counting    *)
(* what stands side by side.                                               *)
(***************************************************************************)
EXTENDS Integers, Sequences, SequencesExt, FiniteSets, FiniteSetsExt

CONSTANTS
  Machines,            \* what may be found: [names, clocks, caches, present, nodes, topology], see below
  MAX_CORES_PER_PACK,
  None

VARIABLES
  machine,
  describe,  \* the rows of names
  clocks,    \* the rows of clocks
  caches,    \* the rows of caches
  counts,    \* of packages, cores, threads and nodes
  pc
vars == <<machine, describe, clocks, caches, counts, pc>>

Init ==
  /\ machine \in Machines
  /\ describe = <<>> /\ clocks = <<>> /\ caches = <<>>
  /\ counts = None /\ pc = "describe"

(* cmp_*(): what comes first in a tuple decides. *)
Before(a, b) == \E i \in 1 .. Len(a) : a[i] < b[i] /\ \A j \in 1 .. i - 1 : a[j] = b[j]
SortedBy(Key, list) == SetToSortSeq(DOMAIN list, LAMBDA i, j :
  Before(Key[list[i]], Key[list[j]]) \/ (Key[list[i]] = Key[list[j]] /\ i < j))

(* A key is a function from what is listed to a tuple.                      *)
(* What stands side by side in a list and is the same, with how many it is. *)
Runs(Key, list) ==
  FoldLeft(LAMBDA runs, x :
             IF runs # <<>> /\ Key[Last(runs).of] = Key[x]
             THEN [runs EXCEPT ![Len(runs)].count = @ + 1]
             ELSE Append(runs, [of |-> x, count |-> 1]),
           <<>>, list)
Listed(Key, list) == LET at == SortedBy(Key, list) IN [i \in 1 .. Len(at) |-> list[at[i]]]
Unique(Key, list) == LET runs == Runs(Key, Listed(Key, list)) IN [i \in 1 .. Len(runs) |-> runs[i].of]

(* processor_describe_by_counting_names(): machine.names has a number for    *)
(* each processor's name.                                                    *)
NameKey == [n \in ToSet(machine.names) |-> <<n>>]
Describe ==
  /\ pc = "describe" /\ pc' = "clocks"
  /\ describe' = Runs(NameKey, Listed(NameKey, machine.names))
  /\ UNCHANGED <<machine, clocks, caches, counts>>

(* clocks_summary(): of the processors whose clock is known, those that      *)
(* share it with others once.                                                *)
ClockKey == [c \in ToSet(machine.clocks) |-> <<c.shared_list, c.max, c.min>>]
ClockKeyIgnoreAffected == [c \in ToSet(machine.clocks) |-> <<c.max, c.min>>]
ClocksSummary ==
  /\ pc = "clocks" /\ pc' = "caches"
  /\ clocks' = LET known == SelectSeq(Reverse(machine.clocks), LAMBDA c : c.max > 0)
               IN Runs(ClockKeyIgnoreAffected, Unique(ClockKey, known))
  /\ UNCHANGED <<machine, describe, caches, counts>>

(* caches_summary(): each processor has those it uses; one of several is the *)
(* same by its id, or, when that is not known, by who shares it.             *)
Found == UNION {ToSet(machine.caches[i]) : i \in DOMAIN machine.caches}
CacheKey ==
  [c \in Found |-> <<c.phy_sock, c.type, c.level, c.size, c.uid, IF c.uid = -1 THEN c.shared_cpu_list ELSE 0>>]
CacheKeyIgnoreId == [c \in Found |-> <<c.phy_sock, c.type, c.level, c.size>>]
CachesSummary ==
  /\ pc = "caches" /\ pc' = "count"
  /\ caches' = Runs(CacheKeyIgnoreId, Unique(CacheKey, FlattenSeq(machine.caches)))
  /\ UNCHANGED <<machine, describe, clocks, counts>>

(* cpubits_from_str(): what is between the commas. *)
Bits(ranges) == UNION {r[1] .. r[2] : r \in ToSet(ranges)}

(* cpu_procs_cores_threads_nodes(): cores of all packages in one set. Ids    *)
(* that are not known are negative. Without a list of nodes their number is  *)
(* whatever the caller has there.                                            *)
PackId(i) == IF machine.topology[i].pack < 0 THEN 0 ELSE machine.topology[i].pack
CoreBit(i) == PackId(i) * MAX_CORES_PER_PACK + machine.topology[i].core
CountCores ==
  /\ pc = "count" /\ pc' = "done"
  /\ LET threads == Bits(machine.present)
         ids == 0 .. Max(threads)
         cores == {CoreBit(i) : i \in {i \in ids : machine.topology[i].core >= 0}}
         AtLeast1(n) == IF n = 0 THEN 1 ELSE n
     IN \E garbage \in 1 .. 2 :
          counts' = [packs |-> AtLeast1(Cardinality({PackId(i) : i \in ids})),
                     cores |-> AtLeast1(Cardinality(cores)),
                     threads |-> Cardinality(threads),
                     nodes |-> IF machine.nodes = None THEN garbage ELSE AtLeast1(Cardinality(Bits(machine.nodes)))]
  /\ UNCHANGED <<machine, describe, clocks, caches>>

Next == Describe \/ ClocksSummary \/ CachesSummary \/ CountCores

-----------------------------------------------------------------------------
TotalOf(rows, Is(_)) == MapThenSumSet(LAMBDA i : rows[i].count, {i \in DOMAIN rows : Is(rows[i].of)})

(* The counts are those of the machine, in whatever order its processors are *)
(* found: a name as often as processors have it; the clocks of a range, over *)
(* all its rows, as many as lists of processors share one; the caches of one *)
(* kind in one row, as many as there are; and packages, cores and threads    *)
(* while the ids fit the set of bits and no id in between is missing. All    *)
(* rest on duplicates standing side by side after sorting                    *)
(* (devices.c:238, x86/processor.c:290 and 394, cpu_util.c:74).            *)
CountsAreRight ==
  /\ pc # "describe" =>
       \A n \in ToSet(machine.names) :
         /\ Cardinality({i \in DOMAIN describe : describe[i].of = n}) = 1
         /\ TotalOf(describe, LAMBDA x : x = n) = Cardinality({i \in DOMAIN machine.names : machine.names[i] = n})
  /\ pc \notin {"describe", "clocks"} =>
       LET known == {c \in ToSet(machine.clocks) : c.max > 0}
       IN \A c \in known :
            TotalOf(clocks, LAMBDA x : x.max = c.max /\ x.min = c.min)
              = Cardinality({d.shared_list : d \in {d \in known : d.max = c.max /\ d.min = c.min}})
  /\ pc \in {"count", "done"} =>
       LET Same(c, d) == CacheKeyIgnoreId[c] = CacheKeyIgnoreId[d]
       IN \A c \in Found :
            /\ Cardinality({i \in DOMAIN caches : Same(caches[i].of, c)}) = 1
            /\ TotalOf(caches, LAMBDA x : Same(x, c))
                 = Cardinality({IF d.uid = -1 THEN <<"shared", d.shared_cpu_list>> ELSE <<"id", d.uid>>
                                  : d \in {d \in Found : Same(c, d)}})
  /\ pc = "done" =>
       LET threads == Bits(machine.present)
           known == [i \in threads |-> machine.topology[i]]
       IN (/\ threads = 0 .. Max(threads)
           /\ \A i \in threads : known[i].pack >= 0 /\ known[i].core \in 0 .. MAX_CORES_PER_PACK - 1) =>
            /\ counts.threads = Cardinality(threads)
            /\ counts.packs = Cardinality({known[i].pack : i \in threads})
            /\ counts.cores = Cardinality({known[i] : i \in threads})
=============================================================================
