------------------------------- MODULE Udisks -------------------------------
(***************************************************************************)
(* The client of UDisks2 (hardinfo/udisks2_util.c): which block devices    *)
(* are drives, what is known of each, its partitions and its temperature.  *)
(* Every call waits for its answer; an answer may be an error.             *)
(***************************************************************************)
EXTENDS Integers, Sequences, SequencesExt

CONSTANTS
  Buses,   \* what UDisks2 and /sys tell: blocks, drives and the partitions of a table
  None     \* an error, or no such property

VARIABLES
  bus,
  conn,        \* udisks2_conn: whether there is a connection
  asked,       \* "info" or "temps", "crashed"
  todo,        \* the block devices that are still to be looked at
  disks, temps \* what was found
vars == <<bus, conn, asked, todo, disks, temps>>

Init ==
  /\ bus \in Buses
  /\ conn = FALSE /\ asked = None
  /\ todo = <<>> /\ disks = <<>> /\ temps = <<>>

(* udisks2_init(), and udisks2_shutdown() at the end.  The bus is enough: an *)
(* UDisks2 that does not tell its version is taken for one that does.       *)
Connected == bus.there
udisks2_init ==
  /\ ~conn /\ asked = None
  /\ conn' = Connected
  /\ asked' = "connected"
  /\ UNCHANGED <<bus, todo, disks, temps>>
udisks2_shutdown ==
  /\ conn /\ todo = <<>>
  /\ conn' = FALSE
  /\ UNCHANGED <<bus, asked, todo, disks, temps>>

(* An old UDisks2 does not list its block devices, or one that lists none   *)
(* is not asked further: they are those of /sys then.                       *)
BlockDevices == IF bus.listed \in {None, <<>>} THEN bus.sysfs ELSE bus.listed
Ask(what) ==
  /\ asked \notin {None, "crashed", what} /\ todo = <<>>
  /\ asked' = what
  /\ todo' = IF conn THEN BlockDevices ELSE <<>>
  /\ UNCHANGED <<bus, conn>>
get_udisks2_all_drives_info == Ask("info") /\ disks' = <<>> /\ UNCHANGED temps
get_udisks2_temps == Ask("temps") /\ temps' = <<>> /\ UNCHANGED disks

(* What UDisks2 does not know of has no property. *)
Unknown == [partition |-> FALSE, loop |-> FALSE, drive |-> None, table |-> None, partitions |-> <<>>]
Block(b) == IF b \in DOMAIN bus.blocks THEN bus.blocks[b] ELSE Unknown
Skipped(b) == Block(b).partition \/ Block(b).loop
NoDrive == {None, "/"}

(* get_udisks2_partition_info(): a partition is a block device by its path; *)
(* an empty text is none.                                                   *)
NotEmpty(str) == IF str = "" THEN None ELSE str
IsBlock(path) == path.dir = "block_devices"
PartitionInfo(path) ==
  LET known == path.name \in DOMAIN bus.parts
      part == bus.parts[path.name]
  IN [block |-> path.name,
      label |-> IF known THEN NotEmpty(part.label) ELSE None,
      size |-> IF known THEN part.size ELSE 0]
Partitions(b) ==
  LET table == SelectSeq(Block(b).partitions, IsBlock)
  IN [i \in DOMAIN table |-> PartitionInfo(table[i])]

(* Kelvin to degrees, cut off as the conversion to int does; both in        *)
(* hundredths and thousandths.                                              *)
CutOff(n, d) == IF n < 0 THEN -((-n) \div d) ELSE n \div d
Celsius(hundredths) == CutOff(hundredths - 27315, 100)

(* get_udisks2_smart_attributes(): a value in the unit that suits it.       *)
HourMs == 1000 * 60 * 60
Interpreted(a) ==
  CASE a.unit = 1 -> [unit |-> "", value |-> a.pretty]
    [] a.unit = 2 -> IF a.pretty > HourMs THEN [unit |-> "h", value |-> a.pretty \div HourMs]
                     ELSE [unit |-> "ms", value |-> a.pretty]
    [] a.unit = 3 -> [unit |-> "sectors", value |-> a.pretty]
    [] a.unit = 4 -> [unit |-> "C", value |-> CutOff(a.pretty - 273150, 1000)]
    [] OTHER      -> [unit |-> "skip", value |-> -1]
Smart(d) ==
  [temperature |-> IF d.temperature = None THEN 0 ELSE Celsius(d.temperature),
   attributes |-> IF d.attributes = None THEN <<>> ELSE [i \in DOMAIN d.attributes |-> Interpreted(d.attributes[i])]]

(* The world-wide name in the form that names its kind. *)
Wwid(wwn) ==
  CASE wwn.kind = "0x"              -> [wwn EXCEPT !.kind = "nna."]
    [] wwn.kind \in {"nna.", "eui."} -> wwn
    [] OTHER                        -> None

(* get_udisks2_drive_info(), get_udisks2_temp(). *)
DriveInfo(b, d) ==
  [block_dev |-> b, model |-> d.model, wwid |-> IF d.wwn = None THEN None ELSE Wwid(d.wwn),
   media |-> IF d.media = None THEN None ELSE NotEmpty(d.media),
   smart |-> IF d.smart_enabled THEN Smart(d) ELSE None,
   table |-> Block(b).table, partitions |-> Partitions(b)]
HasTemperature(d) == d.smart_enabled /\ d.temperature # None
DriveTemp(d) == [drive |-> d.model, temperature |-> Celsius(d.temperature)]

(* udisks2_drives_func_caller(): one turn of its loop. *)
LookAt ==
  /\ todo # <<>>
  /\ LET b == Head(todo)
         drive == Block(b).drive
         d == bus.drives[drive]
     IN \/ /\ Skipped(b) \/ drive \in NoDrive
           /\ UNCHANGED <<disks, temps>>
        \/ /\ ~Skipped(b) /\ drive \notin NoDrive
           /\ disks' = IF asked = "info" THEN Append(disks, DriveInfo(b, d)) ELSE disks
           /\ temps' = IF asked = "temps" /\ HasTemperature(d) THEN Append(temps, DriveTemp(d)) ELSE temps
  /\ todo' = Tail(todo)
  /\ UNCHANGED <<bus, conn, asked>>

(* Where the attributes are refused their proxy is given back twice, which  *)
(* may end the program (390, 394).                                          *)
Crash ==
  /\ asked = "info" /\ todo # <<>>
  /\ LET b == Head(todo)
         d == bus.drives[Block(b).drive]
     IN ~Skipped(b) /\ Block(b).drive \notin NoDrive /\ d.smart_enabled /\ d.attributes = None
  /\ asked' = "crashed" /\ conn' = FALSE /\ todo' = <<>>
  /\ UNCHANGED <<bus, disks, temps>>

Next == udisks2_init \/ get_udisks2_all_drives_info \/ get_udisks2_temps \/ LookAt \/ Crash \/ udisks2_shutdown

-----------------------------------------------------------------------------
(* The drives there are, and those whose temperature is known, by what the  *)
(* bus says of them alone.                                                  *)
Drives == {b \in ToSet(BlockDevices) \cap DOMAIN bus.blocks :
             ~bus.blocks[b].partition /\ ~bus.blocks[b].loop /\ bus.blocks[b].drive \notin NoDrive}
DriveOf(b) == bus.drives[bus.blocks[b].drive]

(* Once all have been looked at each drive is listed once, in the order of  *)
(* the bus, with the partitions of its own table, each with its own label   *)
(* and no path that is not a block device; the temperatures are those of    *)
(* the drives that tell theirs, and whatever SMART says is worth what is    *)
(* shown of it, to less than one unit.                                      *)
DrivesAreListed ==
  LET names(parts) == [i \in DOMAIN parts |-> parts[i].block]
      own(b) == SelectSeq(bus.blocks[b].partitions, LAMBDA p : p.dir = "block_devices")
      Near(c, thousandths) == LET k == 1000 * c + 273150 IN k - 1000 < thousandths /\ thousandths < k + 1000
      listed == [i \in DOMAIN disks |-> disks[i].block_dev]
  IN todo = <<>> =>
       /\ asked = "info" /\ conn => listed = SelectSeq(BlockDevices, LAMBDA b : b \in Drives)
       /\ \A i \in DOMAIN disks :
            LET disk == disks[i] IN
              /\ names(disk.partitions) = [j \in DOMAIN own(disk.block_dev) |-> own(disk.block_dev)[j].name]
              /\ \A p \in ToSet(disk.partitions) : p.label # "" /\
                   (p.block \in DOMAIN bus.parts /\ bus.parts[p.block].label # "" => p.label = bus.parts[p.block].label)
              /\ disk.smart # None =>
                   \A j \in DOMAIN disk.smart.attributes :
                     LET shown == disk.smart.attributes[j]
                         a == DriveOf(disk.block_dev).attributes[j]
                     IN /\ shown.unit = "h" => HourMs * shown.value <= a.pretty /\ a.pretty < HourMs * (shown.value + 1)
                        /\ shown.unit = "C" => Near(shown.value, a.pretty)
       /\ asked = "temps" /\ conn =>
            LET known == SelectSeq(BlockDevices, LAMBDA b : b \in Drives /\ HasTemperature(DriveOf(b)))
            IN /\ Len(temps) = Len(known)
               /\ \A i \in DOMAIN known :
                    /\ temps[i].drive = DriveOf(known[i]).model
                    /\ Near(temps[i].temperature, 10 * DriveOf(known[i]).temperature)
=============================================================================
