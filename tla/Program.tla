------------------------------ MODULE Program ------------------------------
(***************************************************************************)
(* What the program does with what it has read: the modules it loads, the  *)
(* rows of its entries and their details, the window, the benchmark results*)
(* it lists, the reports it writes, the load graph, the memory modules it  *)
(* gives to sockets, and the processors it makes of /proc/cpuinfo.         *)
(* None of these calls another while it runs, so a behaviour is one of the *)
(* one that is live in it.  One that is not among them may do what it likes*)
(* with the variables: Parts adds the readers, each of them by its steps.  *)
(***************************************************************************)
EXTENDS DmiMemory, FiniteSets

CONSTANTS
  SecDevices, SecScanned, SecUnreadable, SecMaxScans, ModDeps, ModWeight, ModRequests, ModMaxDepth,
  WinEntries, WinBench, WinOverview, WinSummary, WinBare, WinMaxDepth, BenchOrder, BenchMeasured,
  BenchFiles, BenchAsked, BenchMaxShown, RepTree, RepForced, GraphValues, GraphSize, GraphPeriod, GraphHeight,
  CpuFiles

VARIABLES
  live,
  moreinfo, list, listed, icons, scans, params, gui_running, create_report, markup_ok, unread,
  modules, depth, stack, tree, shellSelected, hbox, refreshOn, reportOn, progress, pulses,
  max_bench_results, file, measured, bench_results, rows, shown, ri, lists,
  force_all_details, sel, fmt_opts, format, todo, row, columns, parent_columns, in_details, output,
  data, max_value, remax_count, points, line, rep, processor, procs

Sec == INSTANCE Sections WITH Devices <- SecDevices, Scanned <- SecScanned,
      Unreadable <- SecUnreadable, MaxScans <- SecMaxScans
Start == INSTANCE Startup WITH Files <- DOMAIN ModDeps, Deps <- ModDeps, Weight <- ModWeight,
      Requests <- ModRequests, MaxDepth <- ModMaxDepth
Win == INSTANCE Window WITH Entries <- WinEntries, Bench <- WinBench, Overview <- WinOverview,
      Summary <- WinSummary, Bare <- WinBare, MaxDepth <- WinMaxDepth
Bench == INSTANCE BenchResults WITH Order <- BenchOrder, Measured <- BenchMeasured,
      Files <- BenchFiles, Asked <- BenchAsked, MaxShown <- BenchMaxShown
Rep == INSTANCE Report WITH Tree <- RepTree, Forced <- RepForced
Graph == INSTANCE LoadGraph WITH Values <- GraphValues, Size <- GraphSize, Period <- GraphPeriod,
      Height <- GraphHeight
Info == INSTANCE CpuInfo WITH Files <- CpuFiles

(* Of the entries these alone have rows with details. *)
ASSUME ScannedAssumption == SecScanned \subseteq Sec!Entries

(* What a module depends on is a list of names, of modules or not.          *)
ASSUME ModulesAssumption ==
  /\ IsFiniteSet(DOMAIN ModDeps)
  /\ \A f \in DOMAIN ModDeps : ModDeps[f] \in Seq({ModDeps[f][i] : i \in DOMAIN ModDeps[f]}) /\ ModWeight[f] \in Int

(* benchmark.json holds a list of objects; integers stand for the numbers a  *)
(* benchmark gives; a benchmark that has no revision says -1.                *)
ASSUME ResultsAssumption ==
  /\ BenchAsked \subseteq Int
  /\ \A f \in BenchFiles : f \in Seq({f[i] : i \in DOMAIN f})
       /\ \A i \in DOMAIN f : Bench!Number(f[i], "BenchmarkResult") \in Int
  /\ \A v \in BenchMeasured :
       /\ v = [result |-> v.result, threads |-> v.threads, revision |-> v.revision, extra |-> v.extra, note |-> v.note]
       /\ v.result \in Int /\ v.revision \in Nat \cup {-1}

(* The modules of a report have entries, and these have rows.               *)
ASSUME ReportAssumption ==
  /\ Len(RepTree) \in Nat
  /\ \A m \in 1 .. Len(RepTree) :
       /\ Len(RepTree[m]) \in Nat
       /\ \A e \in 1 .. Len(RepTree[m]) :
            LET printed == RepTree[m][e].rows
            IN Len(printed) \in Nat /\ \A i \in 1 .. Len(printed) : printed[i].details \in Nat \cup {None}

(* A load graph keeps 114 samples: load_graph_new(75) in shell.c:792.       *)
ASSUME GraphAssumption ==
  GraphValues \subseteq Int /\ GraphSize \in Nat /\ GraphSize >= 2 /\ GraphHeight \in Nat

(* /proc/cpuinfo has the keys of a kernel. *)
ASSUME CpuFilesAssumption == \A f \in CpuFiles : Info!OfKernel(f)

Own == {"memory", "sections", "startup", "window", "benchmarks", "report", "graph", "cpuinfo"}

ProgramInit ==
  \/ live = "memory" /\ Init
  \/ live = "sections" /\ Sec!Init
  \/ live = "startup" /\ Start!Init
  \/ live = "window" /\ Win!Init
  \/ live = "benchmarks" /\ Bench!Init
  \/ live = "report" /\ Rep!Init
  \/ live = "graph" /\ Graph!Init
  \/ live = "cpuinfo" /\ Info!Init
  \/ live \notin Own

ProgramNext ==
  /\ UNCHANGED live
  /\ \/ live = "memory" /\ Next
     \/ live = "sections" /\ Sec!Next
     \/ live = "startup" /\ Start!Next
     \/ live = "window" /\ Win!Next
     \/ live = "benchmarks" /\ Bench!Next
     \/ live = "report" /\ Rep!Next
     \/ live = "graph" /\ Graph!Next
     \/ live = "cpuinfo" /\ Info!Next
     \/ live \notin Own

its == <<live, vars, Sec!vars, Start!vars, Win!vars, Bench!vars, Rep!vars, Graph!vars, Info!vars>>
ProgramSpec == ProgramInit /\ [][ProgramNext]_its

-----------------------------------------------------------------------------
(* Whatever order the entries are scanned and rescanned in, a row of a list  *)
(* has details, and they are those of its own last scan.                     *)
RowsHaveTheirDetails == live = "sections" => Sec!RowsHaveTheirDetails

(* However the modules depend on one another and whichever cannot be loaded, *)
(* the search for what is missing comes to an end, and the list it leaves    *)
(* has each module that is asked for and what it depends on.                 *)
ModulesAreLoaded == live = "startup" => Start!ListIsClosed /\ Start!ChecksEnd

(* When no operation of the window is going on any more, the window can be   *)
(* used, whatever was begun inside what.                                     *)
UsableAtRest == live = "window" => Win!UsableAtRest

(* A list of benchmark results has the result of this machine among those    *)
(* next to it, as many as were asked for.                                    *)
AmongNeighbours == live = "benchmarks" => Bench!AmongNeighbours

(* A report has the entries that were ticked, each row with its own details  *)
(* and in the columns of its own entry.                                      *)
ReportIsAsTicked == live = "report" => Rep!ReportIsAsTicked

(* The curve of a load graph stays within the drawing. *)
CurveStaysInside == live = "graph" => Graph!CurveStaysInside

(* What /proc/cpuinfo says of a processor is said of that processor, and     *)
(* under the field whose key the line has.                                   *)
CpusAreRight == live = "cpuinfo" => Info!LinesGoWhereTheyBelong
=============================================================================
