---------------------------- MODULE MemoryTables ----------------------------
(***************************************************************************)
(* modules/devices/dmi_memory.c but for the matching, which DmiMemory has: *)
(* the arrays and the sockets of the DMI tables, what the sockets of an    *)
(* array add up to, how much memory the system has, and what is listed.    *)
(***************************************************************************)
EXTENDS Integers, Sequences, FiniteSetsExt, SequencesExt

CONSTANTS
  Machines,  \* the tables, the modules with an SPD, the sockets these were matched to, and /sys
  None       \* no string, no module

VARIABLES
  machine, pc,
  arrays,                 \* as read, with the sums over their sockets
  sockets,                \* as read, then filled from their modules
  at,                     \* the sockets that were summed up, or the modules listed
  unique_short_locators,
  system_memory,          \* [MiB, types]
  rows, sketchy_info,     \* what is listed
  note                    \* "sources", "sketchy" or None
vars == <<machine, pc, arrays, sockets, at, unique_short_locators, system_memory, rows, sketchy_info, note>>

NoModule == "No Module Installed"
Mainboard == "System Board Or Motherboard"
Told(str, ignored) == IF str \in ignored THEN None ELSE str
Placeholders == {"<BAD INDEX>", "Manufacturer0", "Manufacturer1", "Manufacturer2", "Manufacturer3", "Unknown"}
NoParts == {"PartNum0", "PartNum1", "PartNum2", "PartNum3"}
NoBank == {"Unknown", "Not Specified"}
Roms == {"Flash", "ROM"}
RamTypes == {"DDR", "DDR2", "DDR3", "DDR4", "DRDRAM", "RDRAM"}

Init ==
  /\ machine \in Machines
  /\ pc = "arrays"
  /\ arrays = <<>> /\ sockets = <<>> /\ at = 0
  /\ unique_short_locators = TRUE
  /\ system_memory = [MiB |-> 0, types |-> {}]
  /\ rows = <<>> /\ sketchy_info = FALSE /\ note = None

(* dmi_mem_array_new(). *)
Shorter(location) == IF location = Mainboard THEN "Mainboard" ELSE location
IsMain(a) == a.use = "System Memory" \/ a.location = Mainboard
NewArray(a) ==
  [handle |-> a.handle, main |-> IsMain(a),
   locator |-> Shorter(a.location), max |-> a.max, present |-> 0, rom |-> 0, populated |-> 0, types |-> {}]
ReadArray ==
  /\ pc = "arrays"
  /\ IF Len(arrays) < Len(machine.arrays)
     THEN arrays' = Append(arrays, NewArray(machine.arrays[Len(arrays) + 1])) /\ UNCHANGED pc
     ELSE pc' = "sockets" /\ UNCHANGED arrays
  /\ UNCHANGED <<machine, sockets, at, unique_short_locators, system_memory, rows, sketchy_info, note>>

(* dmi_mem_socket_new(): a socket's array may be unknown or not be there.   *)
(* Its maker is named, or given as the two bytes of a code, or by an id.    *)
ArrayLocator(h) ==
  LET known == {i \in DOMAIN machine.arrays : machine.arrays[i].handle = h}
  IN IF known = {} THEN h ELSE Shorter(machine.arrays[CHOOSE i \in known : TRUE].location)
Codes == [code \in {"80CE", "FFFF"} |-> IF code = "80CE" THEN "Samsung" ELSE None]
Maker(s) ==
  LET name == Told(s.mfgr, Placeholders)
  IN IF name = None THEN Told(s.id, {"Unknown"})
     ELSE IF name \in DOMAIN Codes THEN Codes[name] ELSE name
ArrayOf(s) == IF s.array \in {None, "Unknown"} THEN "0x0" ELSE s.array
NewSocket(s) ==
  LET populated == s.says # NoModule
      type == IF populated THEN Told(s.type, {"Unknown"}) ELSE None
      bank == Told(s.bank, NoBank)
      short == <<ArrayLocator(ArrayOf(s)), s.locator>>
  IN [array |-> ArrayOf(s), short |-> short, full |-> IF bank = None THEN short ELSE <<short[1], bank, short[2]>>,
      says |-> s.says, MiB |-> s.MiB, populated |-> populated, rom |-> type \in Roms,
      types |-> {type} \cap RamTypes, mfgr |-> IF populated THEN Maker(s) ELSE None,
      partno |-> IF populated THEN Told(s.partno, NoParts) ELSE None]
Empty == sockets = <<>> /\ arrays = <<>> /\ machine.spd = <<>>
ReadSocket ==
  /\ pc = "sockets"
  /\ IF Len(sockets) < Len(machine.sockets)
     THEN sockets' = Append(sockets, NewSocket(machine.sockets[Len(sockets) + 1])) /\ UNCHANGED pc
     ELSE pc' = (IF Empty THEN "total" ELSE "sums") /\ UNCHANGED sockets
  /\ UNCHANGED <<machine, arrays, at, unique_short_locators, system_memory, rows, sketchy_info, note>>

(* One socket adds to its array; its name is compared with the later ones. *)
Added(a, s) ==
  IF s.rom THEN [a EXCEPT !.rom = @ + s.MiB]
  ELSE [a EXCEPT !.present = @ + s.MiB, !.populated = @ + (IF s.populated THEN 1 ELSE 0), !.types = @ \cup s.types]
Duplicate(i) == \E j \in i + 1 .. Len(sockets) : sockets[j].short = sockets[i].short
FindArray(h) == {i \in DOMAIN arrays : arrays[i].handle = h /\ \A j \in 1 .. i - 1 : arrays[j].handle # h}
SumSocket ==
  /\ pc = "sums" /\ at < Len(sockets)
  /\ at' = at + 1
  /\ unique_short_locators' = (unique_short_locators /\ ~Duplicate(at'))
  /\ LET s == sockets[at'] IN
       arrays' = [i \in DOMAIN arrays |-> IF i \in FindArray(s.array) THEN Added(arrays[i], s) ELSE arrays[i]]
  /\ UNCHANGED <<machine, pc, sockets, system_memory, rows, sketchy_info, note>>

(* dmi_fill_from_spd(): what a socket does not tell its module may know. *)
Filled(s, e) ==
  [s EXCEPT !.mfgr = IF @ = None THEN e.vendor ELSE @, !.partno = IF @ = None THEN e.partno ELSE @]
FillFromSpd ==
  /\ pc = "sums" /\ at = Len(sockets)
  /\ pc' = "total"
  /\ sockets' = [i \in DOMAIN sockets |->
       IF machine.matched[i] = None THEN sockets[i] ELSE Filled(sockets[i], machine.spd[machine.matched[i]])]
  /\ UNCHANGED <<machine, arrays, at, unique_short_locators, system_memory, rows, sketchy_info, note>>

(* The memory of the system: that of the main arrays, or else of all       *)
(* modules with an SPD; that of the device tree where there is nothing     *)
(* else; and if no size is known yet that of the blocks that are online.   *)
Sum(f) == MapThenSumSet(LAMBDA i : f[i], DOMAIN f)
Main == {i \in DOMAIN arrays : arrays[i].main}
MainMiB == Sum([i \in Main |-> arrays[i].present])
SpdMiB == Sum([i \in DOMAIN machine.spd |-> machine.spd[i].MiB])
SpdTypes == {machine.spd[i].type : i \in DOMAIN machine.spd} \ {None}
OnlineMiB == machine.block * machine.online
Total ==
  /\ pc = "total"
  /\ pc' = "list"
  /\ LET MiB == IF Empty THEN (IF machine.tree = None THEN 0 ELSE machine.tree.MiB)
                ELSE IF MainMiB # 0 THEN MainMiB ELSE SpdMiB
         main == UNION {arrays[i].types : i \in Main}
         types == IF Empty THEN (IF machine.tree = None THEN {} ELSE {machine.tree.type})
                  ELSE IF MainMiB # 0 THEN main ELSE main \cup SpdTypes
     IN system_memory' = [MiB |-> IF MiB = 0 THEN OnlineMiB ELSE MiB, types |-> types]
  /\ UNCHANGED <<machine, arrays, sockets, at, unique_short_locators, rows, sketchy_info, note>>

(* memory_devices_get_info(): whole GiB where there is more than one. *)
InGiB(MiB) == MiB > 1024 /\ MiB % 1024 = 0
In(unit, MiB) == [n |-> IF unit = "GiB" THEN MiB \div 1024 ELSE MiB, unit |-> unit]
Size(MiB) == In(IF InGiB(MiB) THEN "GiB" ELSE "MiB", MiB)
ArrayRow(a) ==
  LET unit == IF InGiB(a.max) /\ InGiB(a.present) THEN "GiB" ELSE "MiB"
  IN [of |-> "array", name |-> a.locator, size |-> In(unit, a.present), max |-> In(unit, a.max), rom |-> Size(a.rom)]
SocketSize(s) ==
  CASE ~s.populated                 -> "(Empty)"
    [] s.populated /\ s.says = None -> "(Unknown)"
    [] OTHER                        -> IF s.MiB = 0 THEN s.says ELSE In("MiB", s.MiB)
SocketRow(s) ==
  [of |-> "socket", name |-> IF unique_short_locators THEN s.short ELSE s.full,
   size |-> SocketSize(s), mfgr |-> s.mfgr, partno |-> s.partno]
Summary ==
  IF arrays = <<>> /\ machine.spd # <<>>
  THEN <<[of |-> "summary", size |-> Size(SpdMiB), types |-> SpdTypes]>> ELSE <<>>
List ==
  /\ pc = "list"
  /\ pc' = "modules" /\ at' = 0
  /\ sketchy_info' = (\E i \in DOMAIN arrays : arrays[i].max < arrays[i].present)
  /\ rows' = [i \in DOMAIN arrays |-> ArrayRow(arrays[i])] \o [i \in DOMAIN sockets |-> SocketRow(sockets[i])] \o Summary
  /\ UNCHANGED <<machine, arrays, sockets, unique_short_locators, system_memory, note>>

(* Then the modules that no socket has claimed. *)
Claimed == {machine.matched[i] : i \in DOMAIN machine.matched}
ModuleRow(e) == [of |-> "module", size |-> IF machine.spd[e].MiB = 0 THEN "(Unknown)" ELSE In("MiB", machine.spd[e].MiB),
                 mfgr |-> machine.spd[e].vendor, partno |-> machine.spd[e].partno]
ListModule ==
  /\ pc = "modules"
  /\ IF at < Len(machine.spd)
     THEN /\ at' = at + 1 /\ UNCHANGED pc
          /\ rows' = IF at' \in Claimed THEN rows ELSE Append(rows, ModuleRow(at'))
     ELSE pc' = "listed" /\ UNCHANGED <<at, rows>>
  /\ UNCHANGED <<machine, arrays, sockets, unique_short_locators, system_memory, sketchy_info, note>>

(* memory_devices_hinote(): which of dmidecode and the EEPROM drivers there *)
(* would have to be for all that can be shown. The types are those of the   *)
(* sockets.                                                                 *)
BestState ==
  LET ddr3 == \E i \in DOMAIN sockets : "DDR3" \in sockets[i].types
  IN /\ ~Empty /\ machine.root
     /\ \/ machine.at24 /\ ~machine.partial
        \/ machine.ee1004 /\ ~ddr3
Hinote ==
  /\ pc = "listed"
  /\ pc' = "done"
  /\ note' = IF ~BestState THEN "sources" ELSE IF sketchy_info THEN "sketchy" ELSE None
  /\ UNCHANGED <<machine, arrays, sockets, at, unique_short_locators, system_memory, rows, sketchy_info>>

Next == ReadArray \/ ReadSocket \/ SumSocket \/ FillFromSpd \/ Total \/ List \/ ListModule \/ Hinote

-----------------------------------------------------------------------------
(* The sockets of an array that hold RAM, and those that hold what is not. *)
In16(h) == {i \in DOMAIN machine.sockets : machine.sockets[i].array = h /\ machine.sockets[i].says # NoModule}
RomIn(h) == {i \in In16(h) : machine.sockets[i].type \in Roms}
RamIn(h) == In16(h) \ RomIn(h)
Held(S) == Sum([i \in S |-> machine.sockets[i].MiB])

(* An array has what its own sockets have: neither flash nor ROM is counted *)
(* as memory, nor an empty socket as a module, and no socket twice.  The    *)
(* system has what its main arrays have and, only where they tell of none,  *)
(* what the modules, the device tree or the memory blocks sum up to.  What  *)
(* is rounded to GiB is worth the same.                                     *)
ArraysAddUp ==
  LET main == Sum([i \in {i \in DOMAIN machine.arrays : IsMain(machine.arrays[i])} |-> Held(RamIn(machine.arrays[i].handle))])
      tree == IF Empty /\ machine.tree # None THEN machine.tree.MiB ELSE 0
      Worth(size) == IF size.unit = "GiB" THEN 1024 * size.n ELSE size.n
  IN pc = "done" =>
       /\ \A i \in DOMAIN arrays :
            LET a == arrays[i] IN
              /\ a.present = Held(RamIn(a.handle)) /\ a.rom = Held(RomIn(a.handle))
              /\ a.populated = Cardinality(RamIn(a.handle))
              /\ Worth(rows[i].size) = a.present /\ Worth(rows[i].max) = a.max /\ Worth(rows[i].rom) = a.rom
              /\ a.max < a.present => note # None
       /\ system_memory.MiB =
            CASE main # 0                            -> main
              [] main = 0 /\ SpdMiB # 0              -> SpdMiB
              [] main = 0 /\ SpdMiB = 0 /\ tree # 0 -> tree
              [] main = 0 /\ SpdMiB = 0 /\ tree = 0 -> OnlineMiB

(* Two sockets of one name are told apart by their banks, and a socket that *)
(* holds a module shows the maker and the part number that the tables have  *)
(* or, failing these, its own module.                                       *)
SocketsAreTold ==
  LET of(i) == rows[Len(arrays) + i]
      spd(i) == machine.spd[machine.matched[i]]
      First(told, e) == IF told # None THEN told ELSE IF machine.matched[e] = None THEN None ELSE spd(e).vendor
  IN pc = "done" =>
       \A i \in DOMAIN sockets :
         LET s == machine.sockets[i] IN
           /\ \A j \in DOMAIN sockets :
                s.array = machine.sockets[j].array /\ s.bank # machine.sockets[j].bank
                /\ {s.bank, machine.sockets[j].bank} \cap ({None} \cup NoBank) = {} =>
                  of(i).name # of(j).name
           /\ s.says # NoModule => of(i).mfgr = First(Maker(s), i)

(* Arrays have handles of their own, which none is that stands for an array  *)
(* that is not known; and an empty socket has no size.                       *)
Handles(m) ==
  /\ m.arrays \in Seq({m.arrays[i] : i \in DOMAIN m.arrays})
  /\ m.sockets \in Seq({m.sockets[i] : i \in DOMAIN m.sockets})
  /\ \A i \in 1 .. Len(m.arrays) :
       /\ m.arrays[i].handle \notin {None, "Unknown", "0x0"} /\ m.arrays[i].max \in Nat
       /\ \A j \in 1 .. Len(m.arrays) : m.arrays[j].handle = m.arrays[i].handle => j = i
  /\ \A i \in 1 .. Len(m.sockets) :
       m.sockets[i].MiB \in Nat /\ (m.sockets[i].says = NoModule => m.sockets[i].MiB = 0)
=============================================================================
