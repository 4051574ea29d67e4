------------------------------ MODULE Sensors ------------------------------
(***************************************************************************)
(* The sensors (modules/devices/sensors.c) and the use of memory           *)
(* (modules/computer/memory_usage.c), two entries that are scanned every   *)
(* few seconds and whose update intervals are kept in one variable. The    *)
(* names of the sensors come from sensors3.conf, of which the section of a *)
(* chip is read the first time there is one.                               *)
(***************************************************************************)
EXTENDS Integers, Sequences, SequencesExt, FiniteSetsExt, TLC

CONSTANTS
  Configs,   \* what sensors3.conf may say: lines [is |-> "chip", chips] or
             \* [is |-> "label", "ignore" or "compute", sensor, to]
  Machines,  \* what may be there: [hwmon, others, silent, meminfo], see ReadHwmon and ReadOther;
             \* names are tuples, of a sensor <<type, number>> or a text
  None,
  MaxScans   \* bound on the scans of either entry

VARIABLES
  conf, machine,
  pc, hwmon,             \* what is read next: <<prefix, number>> of those of hwmon
  hwmon_first_run,
  met,                   \* the devices of the first run: history only
  sensor_labels, sensor_compute,
  sensors,               \* the rows: [group, key, label, value]
  meminfo,               \* the rows of the use of memory
  moreinfo,
  lginterval,            \* the keys to update, of either entry
  scans
config == <<hwmon_first_run, met, sensor_labels, sensor_compute>>
vars == <<conf, machine, pc, hwmon, config, sensors, meminfo, moreinfo, lginterval, scans>>

Nothing == [k \in {} |-> None]

Init ==
  /\ conf \in Configs /\ machine \in Machines
  /\ pc = "rest" /\ hwmon = <<1, 1>> /\ hwmon_first_run = TRUE /\ met = {}
  /\ sensor_labels = Nothing /\ sensor_compute = Nothing
  /\ sensors = <<>> /\ meminfo = <<>> /\ moreinfo = Nothing /\ lginterval = <<>>
  /\ scans = 0

-----------------------------------------------------------------------------
(* read_sensor_labels(): the first section with a chip that begins with the  *)
(* name of the device. Later lines of it win; when an "ignore" is taken back *)
(* the program frees a text that is its own.                                 *)
Ignore == <<"ignore">>
IsChipOf(line, devname) == line.is = "chip" /\ \E chip \in line.chips : IsPrefix(devname, chip)
Reader == [lock |-> FALSE, left |-> FALSE, labels |-> sensor_labels, compute |-> sensor_compute, freed |-> FALSE]
NeverEnds(reader) == FALSE
Ends(reader) == reader.lock

ReadLine(reader, line, devname) ==
  LET key == <<devname, line.sensor>>
      known == key \in DOMAIN reader.labels
  IN IF reader.left THEN reader
     ELSE IF line.is = "chip"
     THEN [reader EXCEPT !.left = Ends(reader), !.lock = @ \/ IsChipOf(line, devname)]
     ELSE IF ~reader.lock THEN reader
     ELSE IF line.is = "compute" THEN [reader EXCEPT !.compute = key :> line.to @@ @]
     ELSE [reader EXCEPT !.labels = key :> (IF line.is = "ignore" THEN Ignore ELSE line.to) @@ @,
                         !.freed = @ \/ (known /\ reader.labels[key] = Ignore)]
ReadSensorLabels(devname) == FoldLeft(LAMBDA r, line : ReadLine(r, line, devname), Reader, conf)

(* add_sensor(): rows [group, key, label, value]; the key is that of the     *)
(* parent and the label.                                                     *)
Sensor(type, label, parent, value) == [group |-> type, key |-> <<parent, label>>, label |-> label, value |-> value]
AddSensors(list) ==
  /\ sensors' = sensors \o list
  /\ moreinfo' = FoldLeft(LAMBDA m, s : s.key :> s.value @@ m, moreinfo, list)
  /\ lginterval' = lginterval \o [i \in 1 .. Len(list) |-> list[i].key]

(* scan_sensors_do(). *)
ScanSensors ==
  /\ pc = "rest" /\ scans < MaxScans /\ scans' = scans + 1
  /\ pc' = "libsensors"
  /\ sensors' = <<>> /\ lginterval' = <<>>
  /\ UNCHANGED <<conf, machine, hwmon, config, meminfo, moreinfo>>

(* libsensors gives its own labels; with none found the rest is read.        *)
ReadLibsensors ==
  /\ pc = "libsensors"
  /\ AddSensors(machine.others.libsensors)
  /\ pc' = IF machine.others.libsensors = <<>> THEN "hwmon" ELSE "windfarm"
  /\ hwmon' = <<1, 1>>
  /\ UNCHANGED <<conf, machine, config, meminfo, scans>>

(* read_sensors_hwmon(), for one directory: machine.hwmon has two sequences  *)
(* of these, each up to where one is missing. In its inputs, type by type    *)
(* and number by number, are those whose value can be read: [type, number,   *)
(* raw, label], the label being None when there is no file for it.           *)
Dir == machine.hwmon[hwmon[1]][hwmon[2]]
HwmonLeft == hwmon[2] <= Len(machine.hwmon[hwmon[1]])
Own(input) == <<input.type, input.number>>

NameOf(input, devname, labels) ==
  LET key == <<devname, Own(input)>>
  IN IF key \in DOMAIN labels /\ labels[key] # None THEN labels[key]
     ELSE IF input.label # None THEN input.label ELSE Own(input)
Adjusted(input, devname, compute) ==
  LET key == <<devname, Own(input)>>
  IN IF key \in DOMAIN compute THEN <<input.raw, compute[key]>> ELSE <<input.raw, None>>

ReadHwmon ==
  /\ pc = "hwmon" /\ HwmonLeft
  /\ LET read == IF hwmon_first_run THEN ReadSensorLabels(Dir.devname) ELSE Reader
         named == SelectSeq(Dir.inputs, LAMBDA input : NameOf(input, Dir.devname, read.labels) # Ignore)
     IN /\ met' = IF hwmon_first_run THEN met \cup {Dir.devname} ELSE met
        /\ sensor_labels' = read.labels /\ sensor_compute' = read.compute
        /\ \/ read.freed /\ pc' = "undefined" /\ UNCHANGED <<sensors, moreinfo, lginterval, hwmon>>
           \/ /\ ~read.freed /\ ~Dir.opens /\ pc' = "hang"  \* the same again, for ever
              /\ UNCHANGED <<sensors, moreinfo, lginterval, hwmon>>
           \/ /\ ~read.freed /\ Dir.opens
              /\ AddSensors([i \in 1 .. Len(named) |->
                   Sensor(named[i].type, NameOf(named[i], Dir.devname, read.labels), Dir.devname,
                          Adjusted(named[i], Dir.devname, read.compute))])
              /\ hwmon' = [hwmon EXCEPT ![2] = @ + 1]
              /\ UNCHANGED pc
  /\ UNCHANGED <<conf, machine, hwmon_first_run, meminfo, scans>>

EndHwmon ==
  /\ pc = "hwmon" /\ ~HwmonLeft
  /\ \/ hwmon[1] = 1 /\ hwmon' = <<2, 1>> /\ UNCHANGED <<hwmon_first_run, pc>>
     \/ hwmon[1] = 2 /\ hwmon_first_run' = FALSE /\ pc' = "acpi" /\ UNCHANGED hwmon
  /\ UNCHANGED <<conf, machine, met, sensor_labels, sensor_compute, sensors, meminfo, moreinfo, lginterval, scans>>

(* The other sources, one after the other. A server of hddtemp that closes   *)
(* the connection without a word is waited for without an end.               *)
After == [acpi |-> "thermal", thermal |-> "omnibook", omnibook |-> "windfarm",
          windfarm |-> "hddtemp", hddtemp |-> "udisks2", udisks2 |-> "rest"]
ReadOther ==
  /\ pc \in DOMAIN After
  /\ \/ pc = "hddtemp" /\ machine.silent /\ pc' = "hang" /\ UNCHANGED <<sensors, moreinfo, lginterval>>
     \/ (pc = "hddtemp" => ~machine.silent) /\ pc' = After[pc] /\ AddSensors(machine.others[pc])
  /\ UNCHANGED <<conf, machine, hwmon, config, meminfo, scans>>

(* scan_memory_do(). *)
ScanMemory ==
  /\ pc = "rest" /\ scans < MaxScans /\ scans' = scans + 1
  /\ meminfo' = machine.meminfo
  /\ moreinfo' = FoldLeft(LAMBDA m, f : f.key :> f.value @@ m, moreinfo, machine.meminfo)
  /\ lginterval' = [i \in 1 .. Len(machine.meminfo) |-> machine.meminfo[i].key]
  /\ UNCHANGED <<conf, machine, pc, hwmon, config, sensors>>

(* Values change; devices come and go. *)
Change ==
  /\ pc = "rest" /\ machine' \in Machines
  /\ UNCHANGED <<conf, pc, hwmon, config, sensors, meminfo, moreinfo, lginterval, scans>>

Next == ScanSensors \/ ReadLibsensors \/ ReadHwmon \/ EndHwmon \/ ReadOther \/ ScanMemory \/ Change

-----------------------------------------------------------------------------
(* What sensors3.conf says of a sensor: in the first section that is for its *)
(* device, the last line about it.                                           *)
Sections(devname) == {n \in 1 .. Len(conf) : IsChipOf(conf[n], devname)}
Section(devname) ==
  IF Sections(devname) = {} THEN {}
  ELSE LET first == Min(Sections(devname))
       IN {n \in first + 1 .. Len(conf) : \A m \in first + 1 .. n : conf[m].is # "chip"}
LinesFor(devname, sensor, kinds) == {n \in Section(devname) : conf[n].is \in kinds /\ conf[n].sensor = sensor}

Called(input, devname) ==
  LET lines == LinesFor(devname, Own(input), {"label", "ignore"})
  IN IF lines # {} THEN IF conf[Max(lines)].is = "ignore" THEN Ignore ELSE conf[Max(lines)].to
     ELSE IF input.label # None THEN input.label ELSE Own(input)
Computed(input, devname) ==
  LET lines == LinesFor(devname, Own(input), {"compute"})
  IN <<input.raw, IF lines = {} THEN None ELSE conf[Max(lines)].to>>

Expected(dir) ==
  LET shown == SelectSeq(dir.inputs, LAMBDA input : Called(input, dir.devname) # Ignore)
  IN [i \in 1 .. Len(shown) |->
        Sensor(shown[i].type, Called(shown[i], dir.devname), dir.devname, Computed(shown[i], dir.devname))]

(* The sensors shown of the devices that were there at the first scan are    *)
(* those that sensors3.conf does not have ignored, each under the name and   *)
(* with the formula that the device's own section gives it and no other's,   *)
(* at that scan and at all others; and a row opens its own value, unless     *)
(* another is called the same.                                               *)
SensorsAsConfigured ==
  /\ pc = "acpi" =>
       LET dirs == machine.hwmon[1] \o machine.hwmon[2]
       IN (\A i \in 1 .. Len(dirs) : dirs[i].devname \in met) =>
            sensors = FlattenSeq([i \in 1 .. Len(dirs) |-> Expected(dirs[i])])
  /\ \A r \in ToSet(sensors) : (\A t \in ToSet(sensors) : t.key = r.key => t = r) => moreinfo[r.key] = r.value
=============================================================================
