------------------------------ MODULE Parts --------------------------------
(***************************************************************************)
(* The sequential components: those of Program, and the readers of what the*)
(* kernel, the firmware and files say.  None of them calls another while it*)
(* runs: a behaviour is one of the component that is live in it, and what  *)
(* the others would have is None.  They share the variables that have the  *)
(* same name.                                                              *)
(***************************************************************************)
EXTENDS Program

CONSTANTS
  SpdMachines, MemMachines, CpuMachines, CpuMaxCores, ExprOperators, ExprNumbers, SensConfigs,
  SensMachines, SensMaxScans, DtTrees, DtRoot, IdsMachines, IdsDatabases, IdsRanges, IdsMaxLists,
  VenFiles, VenBuiltin, VenTexts, VenLower, VenDigits, Buses, Infos, Formulas, Edids, SvdPixels

VARIABLES
  machine, driver, eeprom_list, dimm_list, spd_ddr4_partial_data, driver_found, spd_no_driver,
  spd_no_support, arrays, sockets, at, unique_short_locators, system_memory, sketchy_info, note,
  bus, conn, asked, disks, temps, given, info, text, passes, update_tbl, timers, describe, clocks,
  caches, counts, formula, infix, postfix, conf, hwmon, hwmon_first_run, met, sensor_labels,
  sensor_compute, sensors, meminfo, lginterval, edid, ext, ext_ok, dtds, cea_blocks, svds, didts,
  did_strings, name, serial, img, img_max, aliases, symbols, phandles, walk, obj, str, opp,
  databases, kind, pci_ids_file, usb_ids_file, device, queries, results, limit, read, current,
  vendors, pass, next, found, answer

Spd == INSTANCE SpdScan WITH Machines <- SpdMachines
Firmware == INSTANCE MemoryTables WITH Machines <- MemMachines
Disks == INSTANCE Udisks
Shown == INSTANCE InfoText
Cpus == INSTANCE CpuSummary WITH Machines <- CpuMachines, MAX_CORES_PER_PACK <- CpuMaxCores
Term == INSTANCE Expr WITH Operators <- ExprOperators, Numbers <- ExprNumbers
Sens == INSTANCE Sensors WITH Configs <- SensConfigs, Machines <- SensMachines, MaxScans <- SensMaxScans
Monitor == INSTANCE Edid
Dtree == INSTANCE DeviceTree WITH Trees <- DtTrees, Root <- DtRoot
Ids == INSTANCE DeviceIds WITH Machines <- IdsMachines, Databases <- IdsDatabases, Ranges <- IdsRanges,
      MaxLists <- IdsMaxLists
Ven == INSTANCE Vendors WITH Files <- VenFiles, Builtin <- VenBuiltin, Texts <- VenTexts,
      Letters <- DOMAIN VenLower, Digits <- VenDigits, Lower <- VenLower

(* The drivers give the EEPROMs of memory modules whole, or none of them.   *)
ASSUME SpdAssumption == \A m \in SpdMachines : Spd!WholeFiles(m)

(* The tables of the firmware name each array otherwise.                     *)
ASSUME MemAssumption == None \notin {"sources", "sketchy"} \cup Firmware!Roms /\ \A m \in MemMachines : Firmware!Handles(m)

Parts == {"memory", "spd", "arrays", "drives", "sections", "startup", "window", "benchmarks", "info", "report",
          "cpuinfo", "cpus", "expr", "sensors", "edid", "tree", "ids", "vendors", "graph"}

(* What belongs to a component that is not live; the memory keeps what one   *)
(* inventory makes of it, since its properties are those of DmiMemory.       *)
Idle ==
  /\ IF live \in {"spd", "arrays", "cpus", "sensors", "ids"} THEN TRUE ELSE machine = None
  /\ IF live = "spd" THEN TRUE ELSE
       driver = None /\ eeprom_list = None /\ dimm_list = None /\ spd_ddr4_partial_data = None /\
       driver_found = None /\ spd_no_driver = None /\ spd_no_support = None
  /\ IF live = "arrays" THEN TRUE ELSE
       arrays = None /\ sockets = None /\ unique_short_locators = None /\ system_memory = None /\
       sketchy_info = None /\ note = None
  /\ IF live \in {"arrays", "expr", "ids"} THEN TRUE ELSE at = None
  /\ IF live \in {"arrays", "benchmarks", "info"} THEN TRUE ELSE rows = None
  /\ IF live = "drives" THEN TRUE ELSE
       bus = None /\ conn = None /\ asked = None /\ disks = None /\ temps = None
  /\ IF live \in {"drives", "report", "ids"} THEN TRUE ELSE todo = None
  /\ IF live \in {"sections", "startup", "benchmarks", "sensors"} THEN TRUE ELSE moreinfo = None
  /\ IF live \in {"sections", "ids"} THEN TRUE ELSE list = None
  /\ IF live = "sections" THEN TRUE ELSE listed = None /\ icons = None
  /\ IF live \in {"sections", "sensors"} THEN TRUE ELSE scans = None
  /\ IF live = "startup" THEN TRUE ELSE
       params = None /\ gui_running = None /\ create_report = None /\ markup_ok = None /\
       modules = None /\ depth = None
  /\ IF live \in {"startup", "tree"} THEN TRUE ELSE unread = None
  /\ IF live \in {"window", "expr"} THEN TRUE ELSE stack = None
  /\ IF live \in {"window", "tree"} THEN TRUE ELSE tree = None
  /\ IF live = "window" THEN TRUE ELSE
       shellSelected = None /\ hbox = None /\ refreshOn = None /\ reportOn = None /\
       progress = None /\ pulses = None
  /\ IF live = "benchmarks" THEN TRUE ELSE
       max_bench_results = None /\ measured = None /\ bench_results = None /\ shown = None /\
       ri = None
  /\ IF live \in {"benchmarks", "cpuinfo", "vendors"} THEN TRUE ELSE file = None
  /\ IF live \in {"benchmarks", "ids"} THEN TRUE ELSE lists = None
  /\ IF live = "info" THEN TRUE ELSE given = None /\ info = None /\ update_tbl = None /\ timers = None
  /\ IF live \in {"info", "vendors"} THEN TRUE ELSE text = None /\ passes = None
  /\ IF live = "report" THEN TRUE ELSE
       force_all_details = None /\ sel = None /\ fmt_opts = None /\ format = None /\ row = None /\
       columns = None /\ parent_columns = None /\ in_details = None /\ output = None
  /\ IF live = "cpuinfo" THEN TRUE ELSE line = None /\ rep = None /\ processor = None /\ procs = None
  /\ IF live = "cpus" THEN TRUE ELSE describe = None /\ clocks = None /\ caches = None /\ counts = None
  /\ IF live = "expr" THEN TRUE ELSE formula = None /\ infix = None /\ postfix = None
  /\ IF live = "sensors" THEN TRUE ELSE
       conf = None /\ hwmon = None /\ hwmon_first_run = None /\ met = None /\
       sensor_labels = None /\ sensor_compute = None /\ sensors = None /\ meminfo = None /\
       lginterval = None
  /\ IF live = "edid" THEN TRUE ELSE
       edid = None /\ ext = None /\ ext_ok = None /\ dtds = None /\ cea_blocks = None /\
       svds = None /\ didts = None /\ did_strings = None /\ name = None /\ serial = None /\
       img = None /\ img_max = None
  /\ IF live = "tree" THEN TRUE ELSE
       aliases = None /\ symbols = None /\ phandles = None /\ walk = None /\ obj = None /\
       str = None /\ opp = None
  /\ IF live = "ids" THEN TRUE ELSE
       databases = None /\ kind = None /\ pci_ids_file = None /\ usb_ids_file = None /\
       device = None /\ queries = None /\ results = None
  /\ IF live = "vendors" THEN TRUE ELSE
       limit = None /\ read = None /\ current = None /\ vendors = None /\ pass = None /\
       next = None /\ found = None /\ answer = None
  /\ IF live = "graph" THEN TRUE ELSE
       data = None /\ max_value = None /\ remax_count = None /\ points = None
  /\ IF live \in {"drives", "sections", "window", "benchmarks", "graph"} THEN pc = None ELSE TRUE

MemoryIdle ==
  IF live = "memory" THEN TRUE ELSE
    /\ says = CHOOSE i \in Inventory : TRUE
    /\ sock_queue = [i \in Sockets |-> i] /\ loops = Turns
    /\ spd = [s \in Sockets |-> None]
    /\ dmi_socket = [e \in Spds |-> None] /\ match_score = [e \in Spds |-> 0]

PInit ==
  /\ live \in Parts
  /\ Idle
  /\ MemoryIdle
  /\ \/ live = "memory" /\ Init
     \/ live = "spd" /\ Spd!Init
     \/ live = "arrays" /\ Firmware!Init
     \/ live = "drives" /\ Disks!Init
     \/ live = "sections" /\ Sec!Init
     \/ live = "startup" /\ Start!Init
     \/ live = "window" /\ Win!Init
     \/ live = "benchmarks" /\ Bench!Init
     \/ live = "info" /\ Shown!Init
     \/ live = "report" /\ Rep!Init
     \/ live = "cpuinfo" /\ Info!Init
     \/ live = "cpus" /\ Cpus!Init
     \/ live = "expr" /\ Term!Init
     \/ live = "sensors" /\ Sens!Init
     \/ live = "edid" /\ Monitor!Init
     \/ live = "tree" /\ Dtree!Init
     \/ live = "ids" /\ Ids!Init
     \/ live = "vendors" /\ Ven!Init
     \/ live = "graph" /\ Graph!Init

(* A step is one of the live component. *)
Resting ==
  /\ UNCHANGED live
  /\ IF live = "memory" THEN TRUE ELSE UNCHANGED <<says, sock_queue, loops, spd, dmi_socket, match_score>>
  /\ IF live \in {"drives", "sections", "window", "benchmarks", "graph"} THEN UNCHANGED pc ELSE TRUE
  /\ IF live \in {"spd", "arrays", "cpus", "sensors", "ids"} THEN TRUE ELSE UNCHANGED <<machine>>
  /\ IF live = "spd" THEN TRUE ELSE UNCHANGED
       <<driver, eeprom_list, dimm_list, spd_ddr4_partial_data, driver_found, spd_no_driver,
       spd_no_support>>
  /\ IF live = "arrays" THEN TRUE ELSE UNCHANGED
       <<arrays, sockets, unique_short_locators, system_memory, sketchy_info, note>>
  /\ IF live \in {"arrays", "expr", "ids"} THEN TRUE ELSE UNCHANGED <<at>>
  /\ IF live \in {"arrays", "benchmarks", "info"} THEN TRUE ELSE UNCHANGED <<rows>>
  /\ IF live = "drives" THEN TRUE ELSE UNCHANGED <<bus, conn, asked, disks, temps>>
  /\ IF live \in {"drives", "report", "ids"} THEN TRUE ELSE UNCHANGED <<todo>>
  /\ IF live \in {"sections", "startup", "benchmarks", "sensors"} THEN TRUE ELSE UNCHANGED <<moreinfo>>
  /\ IF live \in {"sections", "ids"} THEN TRUE ELSE UNCHANGED <<list>>
  /\ IF live = "sections" THEN TRUE ELSE UNCHANGED <<listed, icons>>
  /\ IF live \in {"sections", "sensors"} THEN TRUE ELSE UNCHANGED <<scans>>
  /\ IF live = "startup" THEN TRUE ELSE UNCHANGED
       <<params, gui_running, create_report, markup_ok, modules, depth>>
  /\ IF live \in {"startup", "tree"} THEN TRUE ELSE UNCHANGED <<unread>>
  /\ IF live \in {"window", "expr"} THEN TRUE ELSE UNCHANGED <<stack>>
  /\ IF live \in {"window", "tree"} THEN TRUE ELSE UNCHANGED <<tree>>
  /\ IF live = "window" THEN TRUE ELSE UNCHANGED
       <<shellSelected, hbox, refreshOn, reportOn, progress, pulses>>
  /\ IF live = "benchmarks" THEN TRUE ELSE UNCHANGED
       <<max_bench_results, measured, bench_results, shown, ri>>
  /\ IF live \in {"benchmarks", "cpuinfo", "vendors"} THEN TRUE ELSE UNCHANGED <<file>>
  /\ IF live \in {"benchmarks", "ids"} THEN TRUE ELSE UNCHANGED <<lists>>
  /\ IF live = "info" THEN TRUE ELSE UNCHANGED <<given, info, update_tbl, timers>>
  /\ IF live \in {"info", "vendors"} THEN TRUE ELSE UNCHANGED <<text, passes>>
  /\ IF live = "report" THEN TRUE ELSE UNCHANGED
       <<force_all_details, sel, fmt_opts, format, row, columns, parent_columns, in_details, output>>
  /\ IF live = "cpuinfo" THEN TRUE ELSE UNCHANGED <<line, rep, processor, procs>>
  /\ IF live = "cpus" THEN TRUE ELSE UNCHANGED <<describe, clocks, caches, counts>>
  /\ IF live = "expr" THEN TRUE ELSE UNCHANGED <<formula, infix, postfix>>
  /\ IF live = "sensors" THEN TRUE ELSE UNCHANGED
       <<conf, hwmon, hwmon_first_run, met, sensor_labels, sensor_compute, sensors, meminfo,
       lginterval>>
  /\ IF live = "edid" THEN TRUE ELSE UNCHANGED
       <<edid, ext, ext_ok, dtds, cea_blocks, svds, didts, did_strings, name, serial, img, img_max>>
  /\ IF live = "tree" THEN TRUE ELSE UNCHANGED <<aliases, symbols, phandles, walk, obj, str, opp>>
  /\ IF live = "ids" THEN TRUE ELSE UNCHANGED
       <<databases, kind, pci_ids_file, usb_ids_file, device, queries, results>>
  /\ IF live = "vendors" THEN TRUE ELSE UNCHANGED
       <<limit, read, current, vendors, pass, next, found, answer>>
  /\ IF live = "graph" THEN TRUE ELSE UNCHANGED <<data, max_value, remax_count, points>>

PNext ==
  \/ live = "memory" /\ Next /\ Resting
  \/ live = "spd" /\ Spd!Next /\ Resting
  \/ live = "arrays" /\ Firmware!Next /\ Resting
  \/ live = "drives" /\ Disks!Next /\ Resting
  \/ live = "sections" /\ Sec!Next /\ Resting
  \/ live = "startup" /\ Start!Next /\ Resting
  \/ live = "window" /\ Win!Next /\ Resting
  \/ live = "benchmarks" /\ Bench!Next /\ Resting
  \/ live = "info" /\ Shown!Next /\ Resting
  \/ live = "report" /\ Rep!Next /\ Resting
  \/ live = "cpuinfo" /\ Info!Next /\ Resting
  \/ live = "cpus" /\ Cpus!Next /\ Resting
  \/ live = "expr" /\ Term!Next /\ Resting
  \/ live = "sensors" /\ Sens!Next /\ Resting
  \/ live = "edid" /\ Monitor!Next /\ Resting
  \/ live = "tree" /\ Dtree!Next /\ Resting
  \/ live = "ids" /\ Ids!Next /\ Resting
  \/ live = "vendors" /\ Ven!Next /\ Resting
  \/ live = "graph" /\ Graph!Next /\ Resting

all == <<its, Spd!vars, Firmware!vars, Disks!vars, Shown!vars, Cpus!vars, Term!vars, Sens!vars,
         Monitor!vars, Dtree!vars, Ids!vars, Ven!vars>>
PSpec == PInit /\ [][PNext]_all

-----------------------------------------------------------------------------

(* What is shown of the memory is what chips and firmware say: modules are   *)
(* decoded from bytes that a driver gave, and what is left out for want of   *)
(* them is noted (modules/devices/spd-decode.c); the arrays have what their  *)
(* sockets have, the system what its arrays have, and a socket is told apart *)
(* from others and completed by its own module (dmi_memory.c).               *)
ChipsAreRead ==
  /\ live = "spd" => Spd!DecodedWasRead /\ Spd!PartialIsNoted
  /\ live = "arrays" => Firmware!ArraysAddUp /\ Firmware!SocketsAreTold

(* A field that an entry was given is shown, in its group, with its flags    *)
(* and its icon, and so it is when it went through the text and back.        *)
EachFieldShown == live = "info" => Shown!EachFieldShown

(* What the kernel and its services say of the system is shown so: drives    *)
(* are listed with what is their own (udisks2_util.c), processors and caches *)
(* summed up (devices.c), sensors ignored, named and computed as             *)
(* sensors3.conf says of their own chip, with formulas worth what they mean  *)
(* (sensors.c, expr.c), the modes of a monitor those in the blocks of its    *)
(* EDID (util_edid.c), and properties of the device tree have all their cells*)
(* and the nodes these refer to (dt_util.c).                                 *)
SystemIsRead ==
  /\ live = "drives" => Disks!DrivesAreListed
  /\ live = "cpus" => Cpus!CountsAreRight
  /\ live = "sensors" => Sens!SensorsAsConfigured
  /\ live = "expr" => Term!WorthWhatItMeans
  /\ live = "edid" => Monitor!ModesAreFound
  /\ live = "tree" => Dtree!TreeIsShown

(* A device has the names that the files of identifiers give it, and a text  *)
(* names the vendors whose strings are in it, apart from one another.        *)
DevicesAreNamed ==
  /\ live = "ids" => Ids!DevicesAreNamed
  /\ live = "vendors" => Ven!VendorsAreApart

=============================================================================
