# hardinfo in TLA+

A verification project for hardinfo, the system profiler and benchmark for
Linux. hardinfo reads `/proc`, `/sys`, databases of identifiers and the output
of helper programs and shows them in a GTK window. Two kinds of things go wrong
there in ways a test hardly reaches. Some depend on an *order* of events:
benchmark threads, a child process behind a modal dialog, timers, network
requests whose senders wait in nested main loops, a garbage list that any thread
may use. Others depend on *many steps that each decide a little*: which scan
deletes whose details, which socket gets a memory module, how far a chip was
read before it is decoded, in which order matches are blanked out. Both are
modelled here, module by module. Everything is translated from the C code; the
comments in the modules name the functions.

Contents: [inventory](#inventory) - [how the parts interact](#interactions) -
[modules](#modules) - [runs](#runs) - [bounds](#bounds) - [fairness](#fairness) -
[proofs](#proofs) - [where code and comments disagree](#disagreements) -
[what is not modelled](#not-modelled) - [plan](#plan)

## Inventory

Modelled, or modelled in part:

| Component | Source | State it keeps | Operations | What is hard | What makes it correct |
|---|---|---|---|---|---|
| Parallel-for | `modules/benchmark.c`: `benchmark_parallel_for`, `benchmark_parallel`, dispatcher | number of threads, chunk size, list of threads, running sum | cut `[start, end)` into chunks, start a thread each, join, sum | wrapping division, fewer items than threads, joins out of step | every item done exactly once; the call returns the sum |
| Crunch-for | `modules/benchmark.c`: `benchmark_crunch_for`, dispatcher | `stop`, a count per thread | run callbacks until time is up | `stop` is shared without a lock | no run counted that was late; no thread misses `stop` |
| Benchmark runner | `modules/benchmark.c`: `do_benchmark` and its handler; the scan macros; `get_benchmark_results` | child, dialog, GIO watch, `results`, `scanned` | spawn, read the result, Cancel, collect results for upload | a raw pointer held by a watch; Cancel and result ready together; silent children | no result in freed memory or under another name; no child left running; the dialog ends |
| Network updater | `shell/syncmanager.c` | the entries, the global `loop`, `session`, a `SyncNetAction` per request | fetch at start-up, the dialog, Cancel, Close | one global loop for nested waits; aborted requests are answered later; idles nest | one response ends one wait; nothing freed is used; the calls return |
| Main window | `shell/shell.c` (selection, `update_tbl`, `update_sfusrc`, timers), `shell/callbacks.c` | the row selected and shown, field/reload/rescan timers | select, refresh, timer dispatches | events pass inside a selection; two owners free a `ShellFieldUpdate` | no timer uses what was freed or cleared; the shown entry keeps its timers, others lose theirs |
| Delayed free | `deps/sysobj_early/src/auto_free.c` | `free_list`, timer, timeout, `free_final` | `auto_free`, `auto_free_on_exit`, the timeout, thread end, program end | unlocked looks at timer and timeout; the time read before the lock | nothing freed before its delay, by a stranger, or never |
| Memory sockets | `modules/devices/dmi_memory.c` | arrays, sockets, modules read by SPD, who has whom, the sums | read the DMI tables, match, sum up, list | a better match displaces another, which queues again; arrays unknown or in doubt; several sources for one total | a module is shown once, and nothing better was possible; an array has what its sockets have |
| UDisks2 client | `hardinfo/udisks2_util.c` | the connection, drives and temperatures asked for | connect, ask for drives, ask for temperatures, shut down | three objects per drive, any of which may not answer | each drive once, with what is its own |
| SPD | `modules/devices/spd-decode.c` | the list of modules, what driver was found | udev, the EEPROM drivers, decode by type of memory | drivers give different numbers of bytes | only bytes that were read are decoded |
| Details of devices | `hardinfo/util.c` (`moreinfo_*`); the scans of `modules/devices*`, `computer*`, `network*` | one table of details for all entries; a list and icons per entry | add, delete by prefix, list | prefixes that cover each other's keys, early returns between deleting and adding | each row has details, its own, of its last scan |
| Start-up, module loader | `hardinfo/hardinfo.c`, `util.c` (`parameters_init`, `ui_init`, `modules_*`) | `params`, the list of modules | parse, load, check dependencies | a check that loads and calls itself | dependencies are there, nothing twice, the check ends |
| Sensitivity of the window | `shell/shell.c`, `callbacks.c`, `report.c`, `syncmanager.c`, `benchmark.c` | the progress bar, pulses, sensitive or not | select, scan, refresh, benchmark, report, synchronise | one long operation inside another | usable when nothing is going on |
| Benchmark results | `modules/benchmark.c`, `bench_results.c` | results, `benchmark.json` | line from the child, parse, sort, window | empty parts of the line; the ends of the list | this machine among its neighbours, as many as asked for |
| Info tree, rows | `hardinfo/info.c`, `shell/shell.c` (`group_handle_*`, `update_field`) | groups, fields, the update table | build, flatten, take apart, update | keys that hold flags, tag and label in one text | each field is shown, once, as it was given; tagged fields update |
| Report | `shell/report.c` | ticks, columns, `params.fmt_opts` | walk over modules, entries, rows, details | columns of details between those of entries | what is ticked is reported, in its own columns |
| `/proc/cpuinfo` | `modules/devices/*/processor.c` | a processor per block | read line by line | keys that begin others; lines before or after all processors | each value goes to its own processor |
| Topology | `hardinfo/cpu_util.c`, `cpubits.c`, `modules/devices.c`, x86 | none | sort, drop doubles, count | missing files, shared caches, packages with equal core numbers | counts are those of the machine |
| Formulas | `hardinfo/expr.c` | two stacks | cut, to postfix, evaluate | signs, priorities, parentheses | worth what the formula means |
| Sensors | `modules/devices/sensors.c`, `memory_usage.c` | `sensor_labels`, `sensor_compute`, `lginterval` | read sensors3.conf once per chip, scan | tables kept between scans, sections of several chips | configured as the file says |
| EDID | `util_edid.c` | blocks, modes | read extensions, blocks in blocks | lengths at each level, order of candidates | the best mode is one that is there |
| Device tree | `hardinfo/dt_util.c` | maps of aliases, symbols, phandles | walk, show a property, range of operating points | meaning kept at other nodes; nodes missing | all cells shown, each with the right neighbours |
| Device identifiers | `util_ids.c`, `pci_util.c`, `usb_util.c` | lists of devices | list by sysfs or tool, search the files | fall-backs mixed with first answers; early ends of a search | a device has the names of its numbers |
| Vendors | `hardinfo/vendor.c`, `strstr_word.c` | the sorted list | load, search a text in passes | matches that contain each other | vendors found stand in the text apart from one another |
| Load graph | `shell/loadgraph.c` | samples, maximum | update, rescale, draw | the maximum outlives its sample | the curve stays in the drawing |

Not modelled (reasons [below](#not-modelled)):

| Component | Source | What it does |
|---|---|---|
| Helper processes | `hardinfo/util.c`, `hinote_util.c` | spawn and wait (the set `Slow` of `ShellView`), a cache of paths |
| Benchmark callbacks | `modules/benchmark/*.c` | numeric kernels |
| Load graph for GTK 3 | `loadgraph-uber.c`, `deps/uber-graph` | a third-party widget |
| Menu, icons, callbacks | `shell/menu.c`, `stock.c`, `iconcache.c`, `callbacks.c` | action tables, a cache of pixbufs |
| Text of key files | `gg_*.c` | copies of GLib functions |
| Other decoders | `dmi_util.c`, `gpu_util.c`, `storage_util.c`, `x_util.c`, `monitors.c`, ... | one answer turned into text |
| Other entries | the rest of `computer/*`, `network/*` | likewise |
| Text helpers | `socket.c`, `binreloc.c`, `format_early.c`, `nice_name.c`, `appf.c` | formatting |

<a id="interactions"></a>
## How the parts interact

* A click selects an entry (`module_selected`); the shell sets it selected,
  calls the entry's scan, and builds the view from the text the module
  returns. Fields that ask for it get a timer. The scan of a benchmark goes
  through the scan macros of `hardinfo.h` into `do_benchmark`, which runs the
  program again as a child (`hardinfo -b`) and waits in a modal dialog.
* The child runs the same code without a window: its callback goes through
  `benchmark_parallel_for` or `benchmark_crunch_for`, which create threads,
  and prints one line, which the parent's GIO watch reads.
* The synchronisation dialog asks the modules for what to upload
  (`get_benchmark_results`), which runs every benchmark that has no result, and
  sends it with libsoup; each sender waits in `g_main_loop_run`.
* Status-bar pulses, "Updating...", helper processes and the nested main loops
  all dispatch pending events: timers, clicks, idles and network answers arrive
  inside other calls. `ShellView` and `SyncManager` model this with an explicit
  stack of the calls that wait.
* `auto_free` is used everywhere text is made; its timeout is one more source of
  the main loop.
* Entries of all modules share one moreinfo table, in which a scan deletes by the
  beginning of the keys: `Sections` has the scans of pci, usb, gpu, input,
  printers, monitors, storage, kernel modules, users, languages, filesystems and
  network interfaces together. Two entries share `lginterval` (`Sensors`).
* The window's sensitivity is set by five files around operations that let
  events pass; `Window` has them on one stack.
* The other components are sequential and call one another only as functions:
  the SPD decoder gives modules to the matching, sensors evaluate formulas, the
  databases name what the scans list. They meet in `Program` and `Parts`.

<a id="modules"></a>
## Modules

Each component has a module with its state, one action per handler or step, and
its properties; an `MC` module with the values TLC needs; and most have a
`Proofs` module, eight in all. Some definitions have a twin right before them
(`NoRescan` before `Rescan`): the twin is a plausible slip in that piece of code,
kept to show which property notices it.

### ForEach and ParallelFor

`ForEach` is what a caller of `benchmark_parallel_for` relies on, with no
threads in it: every item of the job is done once, and the call returns when
none is left. `ParallelFor` is the function (benchmark.c:243-333): `Size` is a
turn of the loop that divides the items by fewer and fewer threads, `SizeEnds`
its condition failing, `Launch` a turn of the loop that creates threads with
the merge of a last chunk that would be too small (`ChunkEnd`), `Join` one
`g_thread_join` and the sum, from the head of the list, so the last thread
created first. `Process` and `Return` are the steps of a thread in the
callback's loop. Arithmetic wraps at `UINT_MAX`; `iter_per_thread` starts with
an arbitrary word because the C variable is not initialised; the processor
counts may be -1, as `cpu_util.c` reports when `/sys` cannot be read.
The result is a number of callbacks' values, an integer in place of a double.
`benchmark_parallel` is the call with `end` equal to the number of threads.

`EachItemOnce` says that the call implements `ForEach`, the count of an item
being how often a thread has processed it.

### CrunchFor

The threads poll `stop` before each run and read it again after the run, to
decide whether it counts. The two reads are two steps, and because `stop` is a
plain `int` the compiler may use the second reading as the next condition too:
`Recheck` may go to `reread` and `BeginOnOldRead`, or end at once. The history
variables `ended` and `late` say what the wall clock saw.

### BenchRun

`StartBenchmark` is the scan macro's beginning and `do_benchmark` up to
`g_spawn_async_with_pipes`; `Spawn` / `SpawnFails` the two results of that
call; `Iterate` an iteration of the main loop collecting the sources that are
ready, because GLib dispatches *all* sources found ready before it looks again:
this is how a Cancel and a result meet. `HandleOutput` is
`do_benchmark_handler`, `HandleAct` the dialog's response, `DialogReturns` all
that follows `gtk_dialog_run` with the end of the scan macro.
The `BenchmarkDialog` lives at an address (`block`, `owner`) that is free after
the call and may be used again, so a stale pointer would be noticed (`stray`).
The user may press Cancel, where there is the button, or leave the dialog by
Escape or its window's close button. That is `GTK_RESPONSE_DELETE_EVENT`, which
the switch of lines 694-704 does not list: `DialogReturns` then leaves the watch,
the child and the dialog as they are (`escaped`), the dialog stays on the screen and is
modal (`LeftOpen`) until it is closed once more (`CloseLeftDialog`), and a line
that comes late is written through the stale pointer. The properties say that
calls left by Escape are the only ones that do this.
`BeginUpload`, `ScanForUpload` and `EndUpload` are `get_benchmark_results`.

### SyncManager

A `SyncNetAction` is a pair of a loop and an entry: loop 0 is that of the
start-up, loop *d* the one dialog *d* creates. `stack` has the waiting calls:
`pulse` (a `shell_status_pulse` in `sync_one`), `request`
(`send_request_for_net_action` in `g_main_loop_run`), `generate` (the same
function while it makes the contents of an upload, syncmanager.c:289), `choose` and `wait` (the
dialog's own loops), `prepare` (the events a dialog lets pass before its first
request). An upload runs benchmarks, which let events pass and of which each ends by
giving the window back (benchmark.c:709): `Benchmark` is the start or end of one,
`Generated` the end of them all with the request that follows, whatever was
dispatched in between, a Cancel for instance. `OpenDialog` is possible
wherever the view takes input and no dialog is asking its question, so also inside the
start-up and inside another dialog's upload. `todo` is the part of the dialog's array of actions it still goes through,
in the order of the list. Only the innermost call can return. `GotResponse` quits whatever loop
the global `loop` names at that moment, as `got_response` does; `refs` and `mem`
are the memory of loops and actions, and `stray` records any use after free.
`CancelSync` aborts the requests, which are still answered, later. The user may
delete the dialog's window (`gone`), which in this code answers nothing.
`pressed` and `overlaps` are histories: who cancelled, and whether a dialog began to
synchronise inside something else. `Undisturbed` is neither. Whether the setting asks for a
synchronisation at start-up (`atStartup`) is part of the initial state.

### ShellView

`stack` has the calls of `module_selected` and `shell_do_reload` that let
events pass, innermost first; a `ShellFieldUpdate` is a pair of the show (the
call of `module_selected_show_info`) that made it and a field number, with its
memory (`mem`), its timeout (`source`) and its place in `update_sfusrc` (`list`).
`ShowInfo` is `module_selected_show_info` with `shell_clear_field_updates` and
the timers it starts; `UpdateField`, `ReloadSection` and `RescanSection` are the
three timer callbacks, `ModuleSelected` the function of that name, including
the early return when an update is going on already (`Updating`). The reload and
rescan timers are only counted: the code keeps no handle on them.
An entry in `Slow` starts a helper program or pulses the status bar when it is scanned, so
that clicks and timers are dispatched in the middle: in a selection (`scan`), a
Refresh (`reload`) or a timer's `reload_section()` (`reloading`). "Operating
System" is such an entry and has fields with timers; "USB Devices" is one and
reloads itself. `Overruns` are the entries of the second kind: `reload_section()` does
not look again whether its entry is selected when the scan has ended, and shows
it over whatever was selected meanwhile. The assumption
`Rescans \cap Slow = {}` was read off the modules: the two entries with a
rescan timer, memory usage and sensors, read files and sockets (computer.c:378,
devices.c:769). The component is *partly* modelled: widgets, sorting, the
detail pane and the load graph are left out, and so is that the pulses of a slow scan make
the view insensitive at the sixth, which `Window` has: here clicks get through at any time.

### AutoFree

`Begin`, `SetTimer`, `SetSource`, `Stamp` and `Prepend` are the steps of
`auto_free_ex_` between its unlocked looks at shared variables; `Enter` the
beginning of `free_auto_free_ex`, where the time is read before the lock is
taken; `Pass` the walk over the list under the lock; `Dispatch` the timeout.
`Leave` is a thread that ends without `free_auto_free_thread_final`. The code
has the mutex and the owner field for several threads; hardinfo itself calls
`auto_free` from its main thread only (its benchmark threads do not), so the
interleavings checked are those the file provides for. `Final` is one step
because it is called when only the main thread is left.

### The sequential components: Program, Parts and MCParts

What follows are components in which nothing is concurrent, except for the user
and for the order in which the system gives its answers. They are composed in
two layers, so that the proofs need to look at one of them only:

* `Program` has the components that keep state from one call to the next: the
  memory, the scans, the start-up, the window, the benchmark results, the
  reports and the load graph; and the reader of /proc/cpuinfo, which is proved as
  they are. A behaviour is one of the component that is `live`; of a `live`
  that is none of these, `ProgramSpec` says nothing but that it stays.
* `Parts` adds the other readers, which turn what the system says into what is shown,
  each with its own steps. The variables of components that are not live are
  `None`, and components share variables of the same name. `PSpec` has one
  disjunct per component, so one run fires the actions of all of them.
* `MCInputs` has the machines, files and requests each of them meets; `MCParts`
  is `Parts` with these.

The components:

* `DmiMemory` - `dmi_mem_new` after the tables are read: `Turn` is one turn of
  the loop over the queue of sockets (`PassBy` an unpopulated one, `Take` the
  best module that agrees less with the socket it is in), `EndMatch` what
  follows, `SpdShownIn` and `Unmatched` the rows of `memory_devices_get_info`.
* `MemoryTables` - the rest of that file: `ReadArray`, `ReadSocket`, `SumSocket`
  one turn of each loop over the tables, `FillFromSpd` what a socket takes from
  the module it was matched to, `Total` the memory of the system from the first
  source that has it, `List` and `ListModule` the rows, `Hinote` the note on missing sources.
* `Udisks` - the connection, then `get_udisks2_all_drives_info` and `..._temps`:
  one `LookAt` per block device, which is left out or becomes a drive with its
  partitions, its temperature and its SMART values. Any question may be left
  unanswered; `Crash` is a drive that refuses its SMART attributes, whose proxy is
  then given back twice.
* `SpdScan` - `FromUdev`, then per driver `OpenDriver`, one `Decode` per EEPROM and
  `NextDriver`; a field of a decoder is the set of bytes it looks at, which
  `Decoded` compares with the number that `read_spd` got. A field beyond them
  would be decoded from bytes that were only cleared.
* `Sections` - one `Scan...` action per entry, whole: what it deletes, what it
  adds, whether it returns early, what becomes of its list and icons. `InitCups` is
  the first scan of printers, which only looks for CUPS. A key is a
  tuple, so that a prefix of the text is a prefix of the tuple.
* `Startup` - `main()` from the options to the end: `ReadAll` the modules asked
  for, `CheckDeps` one call of `modules_check_deps()` with the module it loads,
  `Checked` the calls returning.
* `Window` - a stack of operations; `StatusPulse` counts pulses and makes the
  window insensitive at the sixth, `StatusOff` gives it back.
* `BenchResults` - `Run`: a result goes as a line from child to parent
  (`bench_value_to_str`, `bench_value_from_str`), without the user's note, which the
  parent attaches to what it has read (`Received`); `Show`: this machine and
  benchmark.json are sorted and cut to a window.
* `InfoText` - fields to text (`Flatten`), text to fields again, text to rows
  and timers. `MCInfoText` runs it alone for the fields with tags.
* `Report` - ticks in the dialog, then `StartEntry`, `Row`, `Details`,
  `EndEntry`, `Save`; `First` is the next entry in the order of the tree.
* `CpuInfo` - for fourteen architectures, the keys in the order they are looked
  for and what begins a processor. `ReadLine` is one turn of the loop over the
  lines, `EndOfFile` what follows it, `Reduplicate` what the arm and ppc readers give
  processors that say less than a later one. A key is a tuple of words, cut where
  another key ends that it begins with, so that `g_str_has_prefix` is `IsPrefix`.
  Which lines tell of which processor is said once more without steps (`Said`,
  `Meant`), for `LinesGoWhereTheyBelong`. `CpuSummary` - the counts over all of them.
* `Expr` - characters to tokens to postfix to a value, the value being the term
  that is computed. `Sensors` - sensors3.conf read line by line when a chip is
  seen first, then hwmon and the other sources; scanned more than once.
* `Edid` - extensions, the blocks in them, checksums, modes and the best mode.
* `DeviceTree` - the three maps, then any property and any range of operating
  points. Directories give their entries in any order.
* `DeviceIds` - lists of PCI and USB devices by sysfs or tool, and
  `scan_ids_file` line by line until it may stop.
* `Vendors` - the files, or the rows compiled in when there are none (`Internal`,
  with the four members as the C initialisers have them), the sorted list, the passes over a text in
  which a match is blanked. `DevicesAreNamed` says of a vendor that it is found apart
  from the others and what it is *called*: from files by its name or short
  name, from the internal rows by what stands in the place of the short name.
* `LoadGraph` - a sample per update and the scale that lags behind.

<a id="runs"></a>
## Runs

| Run | States | Asks | Shows |
|---|---|---|---|
| `parallel_for` | 29 735 | `EvenSplitThreads`, `ResultIsSum`, `CallReturns`, `EachItemOnce` | exactly one pass over every item in every interleaving, for jobs longer, shorter and emptier than the threads, and at the end of the words; the call returns, with the sum |
| `crunch_for` | 2 670 | `CountsInTime`, `OneLateRun`, `CallReturns` | the counts are right although `stop` has no lock: late runs are never counted, at most one run in time goes uncounted per thread |
| `bench_run` | 412 017 | `WatchHasItsDialog`, `ResultOfOwnRun`, `NoChildRunsOn`, `RetriedForUpload`, `ResultEndsDialog` | Cancel removes the watch in time and kills the child; a watch, a child or a stray line that outlives its call is one of a call left by Escape; failed benchmarks are run again before an upload |
| `sync_manager` | 246 474 | `DoneIsAnswered`, `RecordsOutliveRequests`, `NothingStray`, `MarksInOrder`, `CancelStops`, `ShowReturns`, `StartupSyncs` | the nested start-up requests take turns; while nobody cancels and no dialog starts inside something else, every wait is ended by its own answer; a dialog that was cancelled sends nothing more than the upload it was making |
| `shell_view` | 536 774 | `NoDanglingUpdate`, `NothingStray`, `SelectedIsShown`, `TimersKeepOn`, `TimersEnd` | with clicks, Refresh and timers inside one another and inside slow scans, the two owners of a field update never meet, and only two ways are left for a timer to write to the wrong view |
| `auto_free` | 405 513 | `KeptForDelay`, `NothingLeft`, `LoopFrees` | no thread's slip around the unlocked timer frees an item early, and none is forgotten |
| `parts` | 489 587 | one property per hazard of the sequential components: `ShownOnce`, `Stable`, `ChipsAreRead`, `RowsHaveTheirDetails`, `ModulesAreLoaded`, `UsableAtRest`, `AmongNeighbours`, `EachFieldShown`, `ReportIsAsTicked`, `CpusAreRight`, `SystemIsRead` (drives, counts of processors, sensors, formulas, monitors, device tree), `DevicesAreNamed`, `CurveStaysInside` | what is read is what is shown, of its own device and once (`ChipsAreRead`: of the memory both what its chips and what the tables of the firmware say), with the exceptions the properties name (see [below](#disagreements)) |
| `parallel_for_unknown_topology` | | violates `EndExcluded` | see [below](#disagreements) |
| `bench_run_silent` | | violates `SilentEndNoticed` | |
| `sync_cancel_wait` | | violates `WaitsForClose` | |
| `shell_view_refresh` | | violates `OneReloadTimer` | |
| `info_tags` | | violates `TaggedFieldsUpdate` | |

`TypeOK` of `ParallelFor`, `CrunchFor`, `AutoFree` and `DmiMemory` is proved, not
run: it says nothing of the code that another property does not.

`Undisturbed` in three properties of `SyncManager` is not decoration: after a
Cancel they fail, which is what `sync_cancel_wait` shows from the user's side, and
so they do when one dialog begins inside another's upload or inside the start-up.
`ShowReturns` excepts a dialog whose *window* was closed and which then waits for Close:
that button is gone; and both liveness properties except what overlaps, since a dialog
that is started inside replaces the loop that the outer one waits in. In `ShellView`
`NothingStray` and `SelectedIsShown` name the two cases the code does not keep out
(`SelectedInItsReload`, `Overruns`); every step of an entry whose reload is not slow,
and every selection that is not inside a reload of its own entry, is covered.

<a id="bounds"></a>
### Bounds, and why they are enough

* `ParallelFor`: words of four bits (`UINT_MAX = 15`), so that wrapping happens;
  `MaxLaunch = 5`; calls with 1 to 5 threads, 0 and -1 (from a machine of 3
  threads and 2 cores) and 0 to 5 items: every case of more, as many and fewer
  items than threads, and uneven divisions that create more threads than
  asked for. `Returns` is a number or nothing. The safety part is proved for
  all values anyway.
* `CrunchFor`: two threads that do not interact but through `stop`, three runs
  each: one uncounted, one counted, one late. `Used` has -1, 1 and 2.
* `BenchRun`: two benchmarks, three calls of `do_benchmark`, as many addresses:
  enough for a late line of the first child to meet the second or third call at
  the same address, and for an upload to retry one benchmark and skip another.
  Both `cancel` and `escape` are allowed, so that an upload may leave both its dialogs open.
* `SyncManager`: three entries of which one is an upload; two synchronisations
  (`MaxSyncs`), that is two dialogs or the start-up and one dialog, so that a
  late answer of the first meets the second and each can be started inside the
  other; `Patience = 2` where the code
  waits five pulses, so that with two fetches at start-up the view is disabled.
* `ShellView`: four entries, one of each kind (a timed field and a rescan;
  a reload; a timed field and a slow scan; a reload by a slow scan), three shows, calls
  three deep: an entry can be shown, left and shown again with all its earlier timers
  alive, and be selected inside its own reload.
* `AutoFree`: the main thread and a worker, two items, a period of 2 s, a delay
  of 1 s, a clock that ends at 5 s: two dispatches of the timeout and
  an item stamped on either side of each. The code has 11 s and 10 s: as here, a
  period that is one second longer than the delay.

* `parts`: `DmiMemory` three sockets and three modules, since a chain of two
  displacements needs three, with modules that agree in number, size, vendor or
  nothing; `MemoryTables` a main array and one for flash memory, two sockets of
  known, unknown or equal arrays, two modules, every set of sources; `Udisks` two
  drives, a loop and a partition in any order, or a UDisks2 that does not
  answer; `Sections` two devices and two scans of any entries, so that one scan
  follows each other one and itself (`MaxScans`; `InitCups` is not counted); `Startup` four modules with
  chains, a ring and files that cannot be loaded, five calls deep
  (`MaxDepth`): one more than a check that ends can need; `Window` three
  operations inside one another, every kind inside every kind it can be in;
  `BenchResults` two lists shown one after the other (`MaxShown`); `Sensors` and
  `DeviceIds` two scans, the first of which leaves what the second finds;
  `LoadGraph` three samples and a period of two, where the code has a period of
  20: the maximum outlives its sample by less, but it does.

Deadlock is checked where the system has a final state that stutters
(`ParallelFor`, `CrunchFor`); the other models may stop because a bound is
reached or the user does nothing.

<a id="fairness"></a>
### Fairness, and why the code justifies it

* `ParallelFor`, `CrunchFor`: weak fairness of the calling thread and of each
  thread; the operating system schedules runnable threads, callbacks are finite
  loops.
* `BenchRun`: of the parent (its main loop runs) and of each child (benchmarks
  end); none of the user, who may never click.
* `SyncManager`: pending idles and returned loops are served by the main loop;
  the benchmarks of an upload end (whether one does in fact is `ResultEndsDialog`,
  and see `bench_run_silent`);
  each request is answered, because libsoup's session is made with a time-out of
  10 s (syncmanager.c:209); the user
  answers the first question and clicks a Close button that is there.
* `ShellView`: of each timer callback, dispatched by the main loop.
* `AutoFree`: of the clock, the timeout, and each thread inside a call.
* `parts` states no fairness: its properties are about states, and that a check
  or a search ends is bounded instead (`ChecksEnd`).

No strong fairness is assumed, and nothing is assumed of the order in which
sources that are ready are dispatched.

<a id="proofs"></a>
## Proofs

Checked by TLAPS, for every value of the constants that satisfies the
named assumptions (`WordAssumption`, `CallsAssumption`, ... next to the
`CONSTANTS`); none is stronger than what the C types and the callers give. Those of
`ParallelFor`, `CrunchFor`, `AutoFree`, `BenchRun` and `SyncManager` give types and
signs only; `ViewAssumption` also has `Rescans \cap Slow = {}`, explained above. Those of `Program`:
`ScannedAssumption`, that the entries scanned are among those `Sections` has;
`ModulesAssumption`, that there are finitely many modules, each with a list of
names and a weight; `ResultsAssumption`, that benchmark.json is a list of objects
and results are integers (in place of doubles), a revision being -1 when
there is none; `ReportAssumption`, that modules are lists of entries and these
lists of rows, a row's details being none or some number of rows; `GraphAssumption`, that a graph keeps two samples or more (it
keeps 114, shell.c:792) and these are integers; `CpuFilesAssumption`, that
/proc/cpuinfo is of an architecture there is a reader for and has finitely many lines,
each with a value, and that a line whose key only *begins* with one that is looked for
is a line of a field in `Misread` (`OfKernel`: without it the readers do show
other lines' values, and the two fields where kernels have such keys are named). Those of
`Parts`: `SpdAssumption`, that a driver of sysfs gives a chip as a file of 256 or 512
bytes or cannot read it (the drivers make the files, and of these sizes);
`MemAssumption`, that the tables of the firmware give each array a handle of its own
that is not `0x0`, and an empty socket no size, and that the value for "no text" is
none of the texts. TLC evaluates them in `parts`.
One theorem has a hypothesis beside these: `Implements` of `ParallelForProofs`, that every call asks
for a positive number of threads (see `parallel_for_unknown_topology`). What a theorem about `BenchRun`, `SyncManager`
or `ShellView` excepts is in the property, as a condition on what has happened in the behaviour.

| Module | Theorem | Says |
|---|---|---|
| `ParallelForProofs` | `TypeCorrect` | `[]TypeOK` |
| | `AtMostOnce` | `[]ItemsAtMostOnce`: nothing twice, nothing outside `[start, end)` |
| | `AllDone` | `[]AllItemsAtReturn`: nothing left out |
| | `EvenSplit` | `[]EvenSplitThreads`: an even division needs no more threads than were asked for |
| | `ResultIsSumForAll` | `[]ResultIsSum`: what is returned is the sum of what the threads returned, or -1 |
| | `Implements` | the call implements `ForEach` |
| `CrunchForProofs` | `TypeCorrect`, `InTime`, `LateRuns`, `Frozen` | `TypeOK`, `CountsInTime`, `OneLateRun`, and the action property `CountsFrozen` |
| `AutoFreeProofs` | `TypeCorrect`, `LivesLong`, `OwnersFree`, `ExitStays`, `EmptyAtEnd` | `TypeOK`, `KeptForDelay`, `FreedByOwner`, `ExitItemsStay`, `NothingLeft` |
| `BenchRunProofs` | `WatchesEnd` | `[]WatchHasItsDialog`: a child's output is handled while its `BenchmarkDialog` lives; a line handled later is that of a call left by Escape |
| | `ResultsAreOwn` | `[]ResultOfOwnRun`: as long as there was no such line, no call records another benchmark's result |
| | `ChildrenEnd` | `[]NoChildRunsOn`: no child outlives its call, but those of calls left by Escape |
| | `UploadsRetry` | `[]RetriedForUpload`: what is uploaded without a result was run again |
| `SyncManagerProofs` | `InOrder` | `[]MarksInOrder`: a dialog stops at its first action that did not end well |
| | `CancelSendsNothing` | the action property `CancelStops`: a dialog that was cancelled sends nothing more but the upload it was making |
| | `DoneWhenAnswered`, `RecordsOutlive`, `NoStrayUse` | `[]DoneIsAnswered`, `[]RecordsOutliveRequests`, `[]NothingStray`: while nobody has cancelled and no dialog has started inside something else, whatever dialogs are opened and wherever |
| `ShellViewProofs` | `UpdatesAreLive` | `[]NoDanglingUpdate` |
| | `NoStrayWrite` | `[]NothingStray`: a timer that fires writes to the view that is shown, but for an entry selected inside its own reload and a slow reload shown over another entry |
| | `CurrentIsShown` | `[]SelectedIsShown`: the entry that counts as selected is the current one, and shown or covered by a slow reload |
| | `SelectedIsTimed` | `[]TimersKeepOn`: the selected entry has the timers it needs |
| `ProgramProofs` | `OnceForAll`, `StableForAll` | `[]ShownOnce`: a module is in one row, its own socket's or one without a socket; `[]Stable`: when the queue has emptied, no socket agrees better with a module than both with what they have |
| | `WindowRecovers` | `[]UsableAtRest`: the window can be used when nothing is going on |
| | `CurveInsideForAll` | `[]CurveStaysInside` |
| | `DetailsFollowRows` | `[]RowsHaveTheirDetails` |
| | `ModulesLoadedForAll` | `[]ModulesAreLoaded`: dependencies loaded, nothing else, nothing twice, by weight; the checks end |
| | `NeighboursForAll` | `[]AmongNeighbours`: a list of results is sorted, has this machine once, and the nearest others |
| | `ReportsForAll` | `[]ReportIsAsTicked`: a report has what was ticked and nothing else, once, in order, in its own entry's columns |
| | `CpusForAll` | `[]CpusAreRight`: on every architecture each processor of /proc/cpuinfo is there once, in the order of the file, and shows what the lines with exactly a field's key say of it |
| `PartsProofs` | `PartsRefine`, `PartsKeep` | `PSpec` implements `ProgramSpec`, so all of these hold beside the readers, too |
| | `ChipsForAll` | `[]ChipsAreRead`: no field of a memory module is decoded from bytes that were not read, and a field left out is noted; an array has the sockets and the memory of just its own sockets, the system that of the chosen arrays; no two sockets have one name, and each has the maker the tables or else its own module name |

The arguments:

* **ParallelFor.** "Each item at most once" is not inductive: a new chunk could
  overlap an old one. `ChunksInv` adds why it does not: `SharesFit` (what is
  left is empty or holds a whole share, so the addition that finds the next
  chunk cannot wrap), `ChunksInOrder` (the chunks lie one after the other
  up to `iter`, and each thread is inside its own) and `ItemsOwned` (an item
  below `iter` has an owner, and its count is 1 exactly when the owner is past
  it). It holds only when the number of threads is positive (`TopologyKnown`).
  The refinement is then one step per action: `Process` maps to `Do`, `Finish` to
  `Return`, all else stutters. `SharesAreExact`, for `EvenSplit`: a share times the
  threads asked for is all the items, and `iter` is as many shares from the start
  as there are threads, so that the last chunk ends where the items do.
  For the sum, `JoinedSum`: `result` is the sum over the threads joined so far
  that returned something. A sum over a set is a fold that takes out one element
  after the other; that it exists and does not depend on which is taken first
  is shown by the least set for which it would (well-foundedness of its size).
* **CrunchFor.** `CountsUpToDate`: while `stop` is 0 a thread owes exactly the
  run it has just ended; once it is 1, only a thread that is in `reread` can
  still begin a run, and only one.
* **AutoFree.** An age is the difference of two readings of a timer that
  another thread may have replaced. `Clocked` says the timer there is never
  makes a stamp look older than the item is, `Swept` that the reading a thread
  took before it locked the list does not either for its own items;
  `HasTimer` that nobody stamps without a timer, `Fresh` that no pointer is on
  the list twice. `Tick` keeps out of the few instructions that set the timer:
  a thread suspended between looking at the timer and setting it for
  longer than the delay is not covered. `Ended` is for `EmptyAtEnd`: after the end
  main is in no call and the other threads are gone, so nobody who had taken the
  list's lock, or was waiting for it, puts an item back.
* **BenchRun.** The hazard is a callback that outlives the stack frame it writes
  to, and addresses are reused. `CallHasItsRecord`: an open call owns its
  address, and its record holds nothing or its own result. `InModal`: watches,
  running children, what the loop has found ready and a loop told to quit
  belong to the call whose dialog is open, or were left by Escape; this has to cover
  `ready` and `act`, which an iteration keeps from one handler to the next.
  `WaysOut`: the loop quits because of Cancel, which removes the watch and kills the
  child, because of Escape, which does neither and puts the call into `escaped`, or
  because the handler removed the watch of a child that had printed. Once a line of a
  call left by Escape has been written through its pointer (`stray`) the dialog it ends may be another
  call's, and no more is claimed of records; `StrayIsEscaped` says that nothing else leads there.
  For the upload `Retrying`: from its begin and through each of its dialogs, every entry
  it has been through has a result or a call younger than the upload.
* **SyncManager.** Two invariants. `IInv` holds whatever the user does, with dialogs
  opened inside one another or not. `Calls`: each dialog has one waiting call at most
  (`OfDialog`), and `Stage` says what its labels are while that call waits: an upload
  that is made or a request is for the least entry in `todo`, the others in it are
  waiting, and the ones before it are done. `Fresh`: a dialog to come has no
  labels. `Remembered`: once the user has cancelled a dialog, its flag
  stays set; an answer that comes late cannot clear it. That gives `InOrder` and
  `CancelSendsNothing`; neither needs to know which loop an answer quits.
  The other three follow from `Steady`, which holds while `Undisturbed`. `Shape`: above a
  call that works or waits there are only questions of dialogs, so a second dialog that
  is opened inside an upload and refused does no harm. `AllHeld`: each call has what it
  relies on; the start-up's the loop 0 and their actions, a dialog's its own loop, which is
  the global one with one reference, and the memory of what is left in `todo`. `Sent`: a
  request that is sent is the innermost working call's, and the loop runs. `Counted`: loop 0
  has one reference more than the start-up has actions it did not release (`Live`).
  `Closing`, `Waiting`, `Marked` and `Stores` are the same for the Close button, the
  idles, the labels and the memory. `StillUndisturbed` lets the step use that the state
  before was undisturbed, too.
* **ShellView.** `Begun`: the list and the timeouts belong to shows there have
  been, so the timers a new show starts are none of the old ones. For the
  selection, `Good`: however calls nest, one `module_selected()` at most is past its
  guard, and `Stage` says what may count as selected when it is there: nothing
  while it shows "Updating..." or a summary, its own row from then on, in a view
  that shows it once it has been filled; without such a call, the current entry.
  Between its scan and its filling the view is still the old one, and a field timer
  dispatched there would write to the wrong store. It does not, since `update_field()` looks
  at `update_tbl` first: an entry that has items there is scanned slowly again only inside
  its own Refresh or reload (`Scanned`), whence the one exception of a selection (`NoOldView`).
  `HasItems`: the view that is shown is the one whose items are in the table; `HasView`: a
  selected entry without a view is being scanned or was shown over. `Timely`: the entry
  that is shown and selected has its timers, or is selected by a scan that ends with
  starting them; a reload timer counts while its own reload is on the stack.

* **DmiMemory.** A stable matching, for any number of sockets and modules and
  whatever they say. `PairsAgree`: the two directions of a pair never differ, so
  nothing is shown twice. `QueueLooks`: a socket in the queue has no module and
  is there once; without it a displaced socket could be served twice.
  `Settled` is `Stable` of the sockets that do not queue: a socket is content
  when no module agrees better with it than what it has, or the module's own
  match is at least as good. It stays so because a module's score only grows
  and a socket is displaced into the queue. That `Best` exists is
  well-foundedness of the numbers. The limit of four turns per socket (504) may
  end the search earlier; `Stable` is about a queue that has emptied.
* **Window.** `Usable`: when it is insensitive, an operation that will give the
  sensitivity back is waiting, at any depth (`Held`), or a report is
  being prepared for an entry that has nothing to show; and a scan that may have
  taken it is directly inside an operation that gives it back (`Owned`).
* **LoadGraph.** `Curve`: no sample is above the maximum, and what is drawn is
  what the two give, or the flat line of the beginning. A new sample raises the
  maximum before it is drawn; a search for the maximum finds the greatest
  sample there is.
* **Sections.** The lemma behind `Tables` is `ScanKeeps`: what a scan deletes has
  a key of a kind that only its entry makes, since no kind's prefix begins another's
  key; `KindsCovered` goes through the entries. Then a row's key is
  in the table with what the list has, and for the entries that forget nothing
  else is. The entries that do not (`Forgetful` has those that do) have the first
  half only.
* **Startup.** `Loaded`: every wanted module is in the list or still to be read;
  the list has nothing that a closed list with the wanted ones could do
  without (`Needed`), so it is the least; nothing twice; and each check that
  calls itself has made it longer, which ends it at the number of modules there
  are. Sorting is by ranks: `Ranking` shows that counting, for each place, those
  that come before it is a bijection, by which the weights do not fall.
* **BenchResults.** `Tabled`: a shown list is what `Show` makes of results
  that have not changed since; running the benchmark that is shown takes the
  list away. That such a list is right (`ListedAmong`) is no matter of steps:
  `SortedResults` from `Ranking`, `WindowFacts` that the window contains this
  machine's place and has the size asked for, `CutOffOutside` that a result
  left out is outside the window and so no better placed than its ends,
  `LineKeeps` that a value without a note comes through the child's line as it was,
  and so `ReceivedKeeps` that one with a note does, which is added afterwards.
* **Report.** `Printing`: what has been printed is what is asked for of the entries
  that are done and of the rows before this one (`Printed`), in their order; what
  comes next is later than all of it (`PrintMore`). `OwnColumns`: the columns are those of
  the entry, but for details in HTML, which have none and put the entry's back;
  in each format a row is thus cut up as `Expected` says. `TicksAgree`: the
  module of a ticked entry is ticked, however both came to be, so skipping modules
  without a tick loses no entry. `FirstFacts`: of some entries there is a first.
* **CpuInfo.** What goes wrong easily is a key looked for before a longer one
  that begins with it. `WellMade` says that no table has one, nor a key for all
  processors or a field's that begins like what begins a processor; each
  of the fourteen tables is shown to be like that (`X86Reads` ... `SparcReads`), and
  `KeyFindsItself` that then a line with exactly a field's key is read as that
  field. `CpuInv`, while lines are read (`ReadUpTo`): the finished processors
  and the one being read are, one for one and in order, the beginnings among the
  lines so far, and show what those lines say of them; what was
  read for all is what the lines say of all. It speaks of the lines *up to* the
  one being read, for what is said of a processor changes as long as
  no other begins. The last step is to fill in: `LaterAre`, that the first later
  processor that tells is the first later beginning that does.
* **SpdScan.** `FieldsFit`, by type of memory: a field without a condition lies in the
  first 256 bytes (`Early`); one with a condition in 512, and no chip of 256 bytes meets
  the condition (`Late`). `SpdInv`
  then says of every module in the list that it came from `Decode` of a file that
  can be (`Kept`), and that the flag is set when one of them lacked bytes; the files still
  to be decoded are of the driver that is open.
* **MemoryTables.** "An array adds up" is said of the end; `FirmInv` says what holds after
  each turn of the loops: what an array counts as present and populated, and the memory
  it has, are sums over the sockets seen *so far* that name its handle
  (`Summed`); while short names are thought to tell the sockets apart, those seen so far
  differ from all later ones (`Apart`); and once rows are made, each begins as its array or
  socket says (`RowsListed`). That a turn adds to one sum and leaves
  the others alone uses that handles differ. Sums over the sockets are taken
  out one at a time, as in `ParallelFor`; `SumStep` and `SumEnds` relate the sum over the first
  sockets to the next one and to all of them.
* **Program and Parts.** `LiveStays`: what is live remains so, hence an invariant
  of a component is one of the composition. `PartsRefine` maps each step of
  `Parts` to one of `Program`; a reader's are those `Program` leaves open.

Only model-checked: liveness (`CallReturns`, `LoopFrees`, `ResultEndsDialog`,
`ShowReturns`, `StartupSyncs`, `TimersEnd`), which the prover does not do
with fairness; and the properties of most readers in `Parts`,
`EachFieldShown`, `SystemIsRead` and `DevicesAreNamed`. Those
compare a state machine that goes over a text, a tree or a file with a
definition that sees it whole, made by folds or recursion over the same data;
the two meet by induction over it, which the provers cannot instantiate.
`CpuInfo`, `SpdScan` and `MemoryTables` are proved because both of their sides are without
recursion over what is read: they take a step for each line, chip or socket, and what these
amount to is the last of a set, the members of a list, or a sum over a set.

<a id="disagreements"></a>
## Where the code and its comments disagree

Each of these has a run that ends in a counterexample.

1. **`parallel_for_unknown_topology`**, benchmark.c:252-288. When the processors
   cannot be counted and the caller asked for "all", the number of threads is
   -1, the sizing loop is not entered, and the launching loop adds an
   uninitialised `iter_per_thread`. The comment at line 240 says that `end` is
   excluded; chunks run past it.
2. **`bench_run_silent`**, benchmark.c:690. The watch asks for `G_IO_IN` only. A
   child that ends without printing anything is never noticed, and the branch
   for it (line 596, "error while reading benchmark result") not reached; the
   dialog waits for the user, and during an upload it has no Cancel button.
3. **`sync_cancel_wait`**, syncmanager.c:273. The late answer of an aborted
   request quits the loop that waits for Close (line 236), so the dialog
   vanishes by itself; the error is written into an action already freed.
4. **`shell_view_refresh`**, shell.c:1218. Each Refresh of an entry with a
   `ReloadInterval` adds another reload timer to those it has; line 1009 speaks
   of one that is destroyed and set up again.

5. **`info_tags`**, shell.c:859. `update_field()` looks up the row by the whole
   key of a field, flags and all; the table has it under the tag. A field with a
   tag and an interval (the entropy of computer.c:642) is never updated, against
   the comment at shell.c:1196.

Others can be seen by taking an exception out of a property of an existing run:

* `SyncManager`: a dialog that starts while the start-up synchronises, or while another
  dialog makes an upload (each benchmark ends by making the view sensitive, benchmark.c:709,
  though the dialog had made it insensitive), replaces the global loop: the outer waits are
  released by the wrong answers, and loops and actions are used after they
  were freed. Without `overlaps`, `NothingStray`, `DoneIsAnswered`, `ShowReturns` and
  `StartupSyncs` fail in `sync_manager`.
* `SyncManager`: a Cancel while an upload is made does not stop its request, which is
  sent when the benchmarks are done (syncmanager.c:289-296) and waited for; that is why `CancelStops` is
  about the next actions.
* `SyncManager`: a cancelled request is shown as failed, the error being cleared
  before the branch that would tell the two apart (syncmanager.c:379-381).
* `BenchRun`: Escape or closing the dialog's window is a
  response the code does not list (benchmark.c:694-704). The child runs on into the next benchmark,
  the dialog stays, and the child's line is written into a record that was freed at line 713, or
  is another benchmark's. Without `escaped` and `stray` in them, `WatchHasItsDialog`,
  `ResultOfOwnRun` and `NoChildRunsOn` fail in `bench_run`.
* `ShellView`: a selection dropped because another is being handled leaves the
  tree and the view showing different entries until the next click.
* `ShellView`: `reload_section()` of an entry that lets events pass shows that entry over
  the one selected meanwhile, whose timers go; and an entry selected inside its own
  reload lets its old timers write to a view that is not its own. Without `Overruns` and
  `SelectedInItsReload`, `NothingStray` and `SelectedIsShown` fail in `shell_view`.

And these were met in translating the sequential components. The models do what
the code does; where a property would fail, it names the case it leaves out.

* *SPD* (`spd-decode.c`): the eeprom-proc driver gives 64 bytes to decoders that
  look at up to 128; modules found by udev are decoded from zeroes; 104-108 tests
  the opposite of what its comment says.
* *Memory* (`dmi_memory.c`): arrays with the same locator share one entry of
  details (702-763; `MemoryTables` leaves these tags out).
* *UDisks2*: one that does not say its version counts as connected (205-214); when
  the SMART attributes are refused the proxy is given back twice (390, 394).
* *Details* (`Forgetful` in `Sections`): graphics cards of the device tree,
  monitors and languages are never deleted; the icons of storage devices
  grow with every scan; a scan that finds no printer frees the icons (185) and sets no
  new ones, so they are used freed, and the next scan frees them again; network details are deleted before a return that adds none.
* *Start-up*: with automatic loading, a dependency that cannot be loaded is found
  missing again and again. *Window*: a reload long enough to make the window
  insensitive and then interrupted by a row without a summary leaves it so, and
  so does a benchmark that cannot be started.
* *Benchmark results*: in the line that `hardinfo -b` prints, an empty extra before a
  note loses the note (the window's own note is attached after the line was read, and is not lost); the revision
  is written under one name and read under another; a list without
  benchmark.json begins uninitialised.
* *Report*: `params.fmt_opts` is not given back when no file is chosen (936); a
  subtitle spans the columns of the entry before.
* *Processors*: the ia64 and x86 readers leave fields of lines that they look
  for too late; a core number of 256 or more counts as a core of the next
  package; without a list of nodes their number is uninitialised.
* *Formulas*: "5-3" is 5, for the minus belongs to a number; "2 * -1" is
  computed in the wrong order; a parenthesis too many looks below the stack.
* *Sensors*: a directory that cannot be opened is tried for ever (348); the
  update intervals of sensors and of memory overwrite each other.
* *EDID*: each extension is checked with the sum of the first block; the last
  three bytes of embedded CEA data are not searched; the best mode depends on
  the order of DisplayID blocks.
* *Device tree*: `#address-cells` and `#size-cells` are taken from the node itself
  before its parent, and two zeroes divide by zero; interrupts without a parent
  are shown with what lies in memory behind them, since bytes are counted as
  cells; the pairs of "operating-points" are neither swapped nor counted in pairs.
* *Identifiers*: lspci is asked for one device only when sysfs *did* work
  (pci_util.c:376-380); a PCI device that is gone while it is listed ends the program.
* *Vendors*: the rows compiled in are written as `{ match_string, match_rule, name, url }`
  (vendor.c:31), but the fourth member is `name_short` (vendor.h:44-49): without a file
  the address of a vendor is shown where its short name is wanted, when it is
  shorter than the name. The pass meant for strings in parentheses tries
  all (565); the rules for numbers swap their treatment of case (635-644).
* *Load graph*: when the maximum is looked for among zeroes, the scale is
  infinite (321).

<a id="not-modelled"></a>
## What is not modelled, and why

* Decoders and scans that turn one answer into text: `dmi_util.c`, `gpu_util.c`,
  `storage_util.c`, `x_util.c`, most of `computer/*` and `network/*`, the text
  helpers. Their difficulty is the shape of data; a model would be the program
  again.
* Numeric kernels of the benchmarks: `ParallelFor` and `CrunchFor` model who
  calls them, when, and with which items.
* GTK, GLib, libsoup and the kernel are environment: main loops, sources,
  threads and requests behave as documented, in any order they allow.
* Drawing, menus, icons: no order to get wrong.
* In the modelled parts: formatting, labels, the JSON text of an upload, the
  widgets; the failure to write a fetched file counts as an error of its
  request.
* In the sequential components: what the bytes of a chip mean once read, the
  texts of rows, the wording of report formats, the fields of the base EDID
  block, "overrides" of the device tree, the network part of the sensors.
* The compositions of the sequential components with one another go through
  texts; `Program` and `Parts` put them side by side only.

<a id="plan"></a>
## Plan

Done: the parallel benchmarks, the runner, the network updater, the main window,
the delayed free; the sequential components; proofs of every safety property of
the concurrent components and of `Program`. Left, in this order:

1. `Window` composed with `ShellView`, so that what a benchmark or a report does
   to the window is seen with the timers running.
2. A bound on the turns of `DmiMemory`: that four per socket suffice, or a
   machine where they do not.
3. `Sections` with the details of the devices' own fields, so that a scan that
   adds them one after the other is seen in the middle.
