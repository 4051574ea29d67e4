---------------------------- MODULE BenchResults ----------------------------
(***************************************************************************)
(* The results of a benchmark (modules/benchmark.c, bench_results.c): the  *)
(* line in which the child hands its result over, and the list shown of    *)
(* it: this machine among those of benchmark.json, sorted, of which only   *)
(* a window around this machine is shown when --max-results asks for it.   *)
(***************************************************************************)
EXTENDS Integers, Sequences, SequencesExt, FiniteSetsExt

CONSTANTS
  Order,     \* per benchmark: "asc" or "desc"
  Measured,  \* what a benchmark may give: [result, threads, revision, extra] and the note of --user-note
  Files,     \* what benchmark.json may hold: a sequence of JSON objects
  Asked,     \* --max-results: 0 stands for 1, less for all
  None,      \* no text; a member that is not there; nothing shown
  MaxShown   \* bound on the number of lists shown

VARIABLES
  max_bench_results, file,
  measured,       \* what each benchmark last measured
  bench_results,  \* what its line says, and the note
  rows,           \* the list shown: [key, this, value]
  shown,          \* of which benchmark, while its result is the one listed
  moreinfo,       \* the details under "BENCH"
  ri,             \* makes the keys of the rows differ
  lists
vars == <<max_bench_results, file, measured, bench_results, rows, shown, moreinfo, ri, lists>>

EMPTY_BENCH_VALUE == [result |-> -1, threads |-> 0, revision |-> -1, extra |-> None, note |-> None]
Benchmarks == DOMAIN Order

Init ==
  /\ max_bench_results \in Asked /\ file \in Files
  /\ measured = [b \in Benchmarks |-> EMPTY_BENCH_VALUE]
  /\ bench_results = measured
  /\ rows = <<>> /\ shown = None
  /\ moreinfo = [k \in {} |-> None]
  /\ ri = 0 /\ lists = 0

(* bench_value_to_str(): what the value has, in order, up to the last there  *)
(* is.  bench_value_from_str(): up to the first text that is empty.          *)
ToStr(r) ==
  CASE r.note # None -> <<r.result, r.threads, r.revision, r.extra, r.note>>
    [] r.note = None /\ r.extra # None -> <<r.result, r.threads, r.revision, r.extra>>
    [] r.note = None /\ r.extra = None /\ r.revision >= 0 -> <<r.result, r.threads, r.revision>>
    [] OTHER -> <<r.result, r.threads>>

FromStr(line) ==
  LET empty == {i \in 4 .. Len(line) : line[i] = None}
      c == IF empty = {} THEN Len(line) ELSE Min(empty) - 1
  IN [result   |-> line[1], threads |-> line[2],
      revision |-> IF c >= 3 THEN line[3] ELSE EMPTY_BENCH_VALUE.revision,
      extra    |-> IF c >= 4 THEN line[4] ELSE EMPTY_BENCH_VALUE.extra,
      note     |-> IF c >= 5 THEN line[5] ELSE EMPTY_BENCH_VALUE.note]

(* do_benchmark(), of a child that ends well: the scan before its list, or   *)
(* one of an upload, which leaves the list that is shown behind.  The child  *)
(* is started without the note; do_benchmark_handler() attaches it to what   *)
(* the line says.  There is one note, or none, as long as the program runs.  *)
Received(v) == [FromStr(ToStr([v EXCEPT !.note = None])) EXCEPT !.note = v.note]
Run(b) == \E v \in Measured :
  /\ \A c \in Benchmarks : measured[c] # EMPTY_BENCH_VALUE => measured[c].note = v.note
  /\ measured' = [measured EXCEPT ![b] = v]
  /\ bench_results' = [bench_results EXCEPT ![b] = Received(v)]
  /\ shown' = IF shown = b THEN None ELSE shown
  /\ UNCHANGED <<max_bench_results, file, rows, moreinfo, ri, lists>>

(* bench_result_benchmarkjson(): a number that is missing is 0, a text empty. *)
(* The revision always is: it is written and shipped as BenchmarkVersion.     *)
Number(machine, member) == IF member \in DOMAIN machine THEN machine[member] ELSE 0
Text(machine, member) == IF member \in DOMAIN machine THEN machine[member] ELSE None
FromJson(machine) ==
  [result   |-> Number(machine, "BenchmarkResult"),
   threads  |-> Number(machine, "UsedThreads"),
   revision |-> Number(machine, "BenchmarkRevision"),
   extra    |-> Text(machine, "ExtraInfo"),
   note     |-> Text(machine, "UserNote")]

(* Each result with whether it is this machine's, in a stable order. *)
Results(b) ==
  (IF bench_results[b].result > 0 THEN <<[this |-> TRUE, value |-> bench_results[b]]>> ELSE <<>>)
  \o [i \in 1 .. Len(file) |-> [this |-> FALSE, value |-> FromJson(file[i])]]

Ascending(list) ==
  LET Place(i) == Cardinality({j \in 1 .. Len(list) :
                     list[j].value.result < list[i].value.result
                     \/ (list[j].value.result = list[i].value.result /\ j <= i)})
  IN [p \in 1 .. Len(list) |-> list[CHOOSE i \in 1 .. Len(list) : Place(i) = p]]

Sorted(b) == IF Order[b] = "desc" THEN Reverse(Ascending(Results(b))) ELSE Ascending(Results(b))

(* get_bench_window(): the places shown, [min, max) from 0. *)
Size(len) == IF max_bench_results = 0 THEN 1 ELSE IF max_bench_results < 0 THEN len ELSE max_bench_results
Smaller(a, b) == IF a < b THEN a ELSE b
Larger(a, b)  == IF a > b THEN a ELSE b
NotFilled(len, loc) ==
  LET min == Larger(loc - Size(len) \div 2, 0)
  IN IF loc < 0 THEN [min |-> 0, max |-> len] ELSE [min |-> min, max |-> Smaller(loc + Size(len) \div 2, len)]
Window(len, loc) ==
  LET size == Size(len)
      min == loc - size \div 2
  IN IF loc < 0 THEN [min |-> 0, max |-> len]
     ELSE IF min < 0 THEN [min |-> 0, max |-> Smaller(size, len)]
     ELSE IF min + size > len THEN [min |-> Larger(len - size, 0), max |-> len]
     ELSE [min |-> min, max |-> min + size]

IndexOfThis(list) == IF \E i \in 1 .. Len(list) : list[i].this
                     THEN (CHOOSE i \in 1 .. Len(list) : list[i].this) - 1 ELSE -1
InWindow(list) == LET w == Window(Len(list), IndexOfThis(list)) IN SubSeq(list, w.min + 1, w.max)

(* bench_result_more_info(): the lines of the details; an optional one is   *)
(* hidden when there is nothing to say.                                     *)
Details(r) == [threads |-> r.value.threads,
               hidden |-> (IF r.value.revision < 0 THEN {"Revision"} ELSE {})
                          \cup (IF r.value.extra = None THEN {"Extra"} ELSE {})
                          \cup (IF r.value.note = None THEN {"User Note"} ELSE {})]

(* benchmark_include_results(), which the entry calls each time it is shown; *)
(* the details of the benchmark shown before are deleted.                    *)
Show(b) ==
  /\ lists < MaxShown /\ lists' = lists + 1
  /\ LET list == InWindow(Sorted(b)) IN
       /\ rows' = [i \in 1 .. Len(list) |-> [key |-> ri + i, this |-> list[i].this, value |-> list[i].value]]
       /\ moreinfo' = [k \in (ri + 1) .. (ri + Len(list)) |-> Details(list[k - ri])]
       /\ ri' = ri + Len(list)
  /\ shown' = b
  /\ UNCHANGED <<max_bench_results, file, measured, bench_results>>

Next == \E b \in Benchmarks : Run(b) \/ Show(b)

-----------------------------------------------------------------------------
NoWorse(a, b) == IF Order[shown] = "desc" THEN a >= b ELSE a <= b
Times(x, list) == Cardinality({i \in 1 .. Len(list) : list[i] = x})

(* Right after a list is made: what its rows show, what the file gives, and *)
(* what was cut off from the list above and below its rows.                 *)
ShownResults == [i \in 1 .. Len(rows) |-> rows[i].value.result]
FileResults == [i \in 1 .. Len(file) |-> FromJson(file[i]).result]
CutOff == {x \in ToSet(FileResults) : Times(x, FileResults) > Times(x, ShownResults)}
Above == {x \in CutOff : x # ShownResults[1] /\ NoWorse(x, ShownResults[1])}
Below == {x \in CutOff : x # Last(ShownResults) /\ NoWorse(Last(ShownResults), x)}

(* A list shows this machine once, with all its benchmark measured however   *)
(* the child's line was taken apart and with the note, among as many of the other results as   *)
(* were asked for, the nearest ones and in order: as many on either side,    *)
(* unless one side has too few. Every row opens its own details.             *)
AmongNeighbours ==
  shown # None /\ bench_results[shown].result > 0 =>
    \E at \in 1 .. Len(rows) :
       /\ \A i \in 1 .. Len(rows) : rows[i].this <=> i = at
       /\ rows[at].value = measured[shown]
       /\ Len(rows) = IF max_bench_results < 0 THEN Len(file) + 1
                      ELSE Smaller(Len(file) + 1, Larger(1, max_bench_results))
       /\ \A i \in 1 .. (Len(rows) - 1) : NoWorse(ShownResults[i], ShownResults[i + 1])
       /\ \A x \in CutOff : NoWorse(x, ShownResults[1]) \/ NoWorse(Last(ShownResults), x)
       /\ Above # {} /\ Below # {} => (at - 1) - (Len(rows) - at) \in 0 .. 1
       /\ \A i \in 1 .. Len(rows) : moreinfo[rows[i].key] = Details(rows[i])
=============================================================================
