------------------------------ MODULE Sections ------------------------------
(***************************************************************************)
(* The entries whose rows have details: each scan deletes what it knew     *)
(* from the moreinfo table (hardinfo/util.c), begins its list again, and   *)
(* adds a row, details and an icon for every device it finds.  A row and   *)
(* its details only share a key, and the table is one for all entries: a   *)
(* scan deletes by the beginning of the key.                               *)
(***************************************************************************)
EXTENDS Integers, Sequences, SequencesExt, FiniteSets

CONSTANTS
  Devices,     \* what a scan may find
  Scanned,     \* the entries that are scanned: a subset of Entries
  Unreadable,  \* those whose source may be gone when they are scanned
  None,
  MaxScans     \* bound on the number of scans

VARIABLES
  moreinfo,    \* key -> what was seen: a device and when
  list,        \* per entry: key -> what was seen
  listed,      \* the entries whose list is not NULL
  icons,       \* per entry: the keys in its list of icons, or Freed
  scans
vars == <<moreinfo, list, listed, icons, scans>>

(* The keys, as their parts; a scan numbers its devices or uses their names. *)
Kinds == [
  pci         |-> {<<"DEV", "PCI">>},
  usb         |-> {<<"DEV", "USB">>},
  gpu         |-> {<<"DEV", "GPU">>},
  soc_gpu     |-> {<<"DEV", "dt-soc-gpu">>},
  input       |-> {<<"DEV", "INP">>},
  printers    |-> {<<"DEV", "PRN">>},
  monitors    |-> {<<"DEV", "n-DRM">>},
  udisks      |-> {<<"DEV", "UDISKS">>},
  ide         |-> {<<"DEV", "IDE">>},
  scsi        |-> {<<"DEV", "SCSI">>},
  modules     |-> {<<"COMP", "MOD">>},
  users       |-> {<<"COMP", "USER">>},
  languages   |-> {<<"COMP", "locale">>},
  filesystems |-> {<<"COMP", "FS">>},
  network     |-> {<<"NET", "NET">>}]

Numbered == {<<"DEV", k>> : k \in {"INP", "PRN", "UDISKS", "IDE", "SCSI", "n-DRM"}} \cup {<<"COMP", "FS">>}

PciDeletes     == {<<"DEV", "PCI">>}
UsbDeletes     == {<<"DEV", "USB">>}
GpuDeletes     == {<<"DEV", "GPU">>}
InputDeletes   == {<<"DEV", "INP">>}
PrinterDeletes == {<<"DEV", "PRN">>}
UdisksDeletes  == {<<"DEV", "UDISKS">>}
AllDeleted     == {<<"DEV">>}
DisksDelete    == {<<"DEV", "IDE">>, <<"DEV", "SCSI">>}
ModuleDeletes  == {<<"COMP", "MOD">>}
UserDeletes    == {<<"COMP", "USER">>}
FsDeletes      == {<<"COMP", "FS">>}
NetDeletes     == {<<"NET">>}

Entries == {"pci", "usb", "gpu", "input", "printers", "monitors", "storage",
            "modules", "users", "languages", "filesystems", "network"}

(* moreinfo_add_with_prefix(), moreinfo_del_with_prefix(). *)
Covers(prefixes, key) == \E p \in prefixes : IsPrefix(p, key)
Without(prefixes, table) ==
  [k \in {k \in DOMAIN table : ~Covers(prefixes, k)} |-> table[k]]
With(rows, table) ==
  [k \in DOMAIN rows \cup DOMAIN table |-> IF k \in DOMAIN rows THEN rows[k] ELSE table[k]]
Nothing == [k \in {} |-> None]

(* The rows a scan makes of the devices it finds. *)
Names(kind, found) == IF kind \in Numbered THEN 1 .. Cardinality(found) ELSE found
Seen(kind, found) ==
  [k \in {Append(kind, n) : n \in Names(kind, found)} |->
     [device |-> IF kind \in Numbered THEN SetToSeq(found)[Last(k)] ELSE Last(k), at |-> scans + 1]]
Rows(part, found) ==
  [k \in UNION {DOMAIN Seen(kind, found[kind]) : kind \in Kinds[part]} |->
     Seen(Front(k), found[Front(k)])[k]]
Founds(part) == [Kinds[part] -> SUBSET Devices]

Init ==
  /\ moreinfo = Nothing
  /\ list = [s \in Scanned |-> Nothing] /\ listed = {}
  /\ icons = [s \in Scanned |-> {}]
  /\ scans = 0

(* One scan of s that deletes what these prefixes cover, and shows rows.   *)
Shown(s, prefixes, rows) ==
  /\ moreinfo' = With(rows, Without(prefixes, moreinfo))
  /\ list' = [list EXCEPT ![s] = rows] /\ listed' = listed \cup {s}

NewIcons(s, rows) == icons' = [icons EXCEPT ![s] = DOMAIN rows]
NoIcons == UNCHANGED icons

(* The details are deleted once there has been a list. *)
IfListed(s, prefixes) == IF s \in listed THEN prefixes ELSE {}

PciRows(f) == Rows("pci", f)
ScanPci == \E f \in Founds("pci") : LET rows == PciRows(f) IN
  Shown("pci", IfListed("pci", PciDeletes), rows) /\ NewIcons("pci", rows)

UsbRows(f) == Rows("usb", f)
ScanUsb == \E f \in Founds("usb") : LET rows == UsbRows(f) IN
  Shown("usb", IfListed("usb", UsbDeletes), rows) /\ NewIcons("usb", rows)

(* The processor's own, of which a device tree tells, is no "GPU...". *)
GpuRows(f) == Rows("gpu", f)
SocGpuRows(own) == Rows("soc_gpu", [kind \in Kinds["soc_gpu"] |-> own])
ScanGpu == \E f \in Founds("gpu"), own \in {{}, {"own"}} :
  LET rows == With(GpuRows(f), SocGpuRows(own)) IN
  Shown("gpu", IfListed("gpu", GpuDeletes), rows) /\ NoIcons

ScanInput == \E f \in Founds("input") : LET rows == Rows("input", f) IN
  Shown("input", IfListed("input", InputDeletes), rows) /\ NewIcons("input", rows)

(* The first scan of the printers only looks for the CUPS library (without   *)
(* it, so does every other); once its list says so, a scan asks CUPS.  The   *)
(* icons of the last scan are freed, and when there is no printer nothing    *)
(* takes their place: a further scan would free them again.                  *)
InitCups ==
  /\ "printers" \in Scanned \ listed
  /\ listed' = listed \cup {"printers"}
  /\ UNCHANGED <<moreinfo, list, icons, scans>>

Freed == {<<"freed">>}
ScanPrinters == \E f \in Founds("printers") : LET rows == Rows("printers", f) IN
  /\ "printers" \in listed /\ icons["printers"] # Freed
  /\ Shown("printers", PrinterDeletes, rows)
  /\ \/ DOMAIN rows # {} /\ NewIcons("printers", rows)
     \/ DOMAIN rows = {} /\ icons' = [icons EXCEPT !["printers"] = Freed]

(* Nothing is deleted: the next scan adds to it. *)
ScanMonitors == \E f \in Founds("monitors") : LET rows == Rows("monitors", f) IN
  Shown("monitors", {}, rows) /\ NewIcons("monitors", rows)

(* UDisks2 has drives, or else the disks are those of /proc.  The icons    *)
(* are added to those there are.                                           *)
UdisksRows(f) == Rows("udisks", f)
IdeRows(f) == Rows("ide", f)
ScsiRows(f) == Rows("scsi", f)
ScanStorage == \E u \in Founds("udisks"), i \in Founds("ide"), c \in Founds("scsi") :
  LET udisks == UdisksRows(u)
      rows == IF DOMAIN udisks # {} THEN udisks ELSE With(IdeRows(i), ScsiRows(c))
  IN /\ Shown("storage", IF DOMAIN udisks # {} THEN UdisksDeletes ELSE UdisksDeletes \cup DisksDelete, rows)
     /\ icons' = [icons EXCEPT !["storage"] = @ \cup DOMAIN rows]

ScanModules == \E f \in Founds("modules") : LET rows == Rows("modules", f) IN
  Shown("modules", ModuleDeletes, rows) /\ NewIcons("modules", rows)

ScanUsers == \E f \in Founds("users") : LET rows == Rows("users", f) IN
  /\ DOMAIN rows # {}
  /\ Shown("users", IfListed("users", UserDeletes), rows) /\ NoIcons

ScanLanguages == \E f \in Founds("languages") : LET rows == Rows("languages", f) IN
  Shown("languages", {}, rows) /\ NoIcons

ScanFilesystems == \E f \in Founds("filesystems") : LET rows == Rows("filesystems", f) IN
  Shown("filesystems", FsDeletes, rows) /\ NoIcons

(* /proc/net/dev is always there. *)
ScanNetwork == \E f \in Founds("network") : LET rows == Rows("network", f) IN
  Shown("network", NetDeletes, rows) /\ NewIcons("network", rows)

(* The source is gone: the list of modules with it, and that of file       *)
(* systems is empty; the input devices stay as they were.                  *)
ScanNothing(s) ==
  /\ s \in Unreadable
  /\ \/ /\ s = "input"
        /\ UNCHANGED <<moreinfo, list, listed, icons>>
     \/ /\ s = "modules"
        /\ moreinfo' = Without(ModuleDeletes, moreinfo)
        /\ list' = [list EXCEPT ![s] = Nothing] /\ listed' = listed \ {s}
        /\ icons' = [icons EXCEPT ![s] = {}]
     \/ /\ s = "filesystems"
        /\ Shown(s, FsDeletes, Nothing)
        /\ NoIcons

(* The first scan, or a reload of the window's. *)
Scan(s) ==
  \/ s = "pci" /\ ScanPci
  \/ s = "usb" /\ ScanUsb
  \/ s = "gpu" /\ ScanGpu
  \/ s = "input" /\ ScanInput
  \/ s = "printers" /\ ScanPrinters
  \/ s = "monitors" /\ ScanMonitors
  \/ s = "storage" /\ ScanStorage
  \/ s = "modules" /\ ScanModules
  \/ s = "users" /\ ScanUsers
  \/ s = "languages" /\ ScanLanguages
  \/ s = "filesystems" /\ ScanFilesystems
  \/ s = "network" /\ ScanNetwork
  \/ ScanNothing(s)

(* The bound counts the scans that may find something. *)
Next ==
  \/ InitCups
  \/ scans < MaxScans /\ scans' = scans + 1 /\ \E s \in Scanned : Scan(s)

-----------------------------------------------------------------------------
(* What is known of a device, its details and its icon, goes when a scan   *)
(* no longer finds it.  Not so for the entries that delete too little.     *)
Forgetful == Scanned \ {"gpu", "monitors", "storage", "languages"}
KeysOf(s) == {k \in DOMAIN moreinfo : Front(k) \in Kinds[s]} \cup (icons[s] \ Freed)
Rowed(s) == DOMAIN list[s]

(* Every row of every list opens the details of the device it stands for,  *)
(* as its own last scan saw it, whichever entries were scanned since; and  *)
(* the table keeps no device that the entry no longer shows: a scan        *)
(* deletes by the beginning of the key (util.c:1296) neither too much nor  *)
(* too little.                                                             *)
RowsHaveTheirDetails ==
  /\ \A s \in Scanned : \A k \in Rowed(s) : k \in DOMAIN moreinfo /\ moreinfo[k] = list[s][k]
  /\ \A s \in Forgetful : KeysOf(s) \subseteq Rowed(s)
=============================================================================
