------------------------------ MODULE SpdScan ------------------------------
(***************************************************************************)
(* spd_scan() of modules/devices/spd-decode.c: the memory modules, from    *)
(* udev or else from the first driver whose EEPROMs hold any; and, for     *)
(* each type of memory, which of the bytes read its decoding looks at.     *)
(***************************************************************************)
EXTENDS Integers, Sequences, SequencesExt

CONSTANT Machines  \* what may be found: [udev |-> what its lines say, dir |-> per driver None or its
                   \* devices, loaded |-> whether /sys/module has a driver]
CONSTANT None

(* spd_drivers[]: without sysfs a file holds 16 bytes, and four are read. *)
Drivers == <<[name |-> "ee1004",      max_size |-> 512, use_sysfs |-> TRUE],
             [name |-> "at24",        max_size |-> 256, use_sysfs |-> TRUE],
             [name |-> "eeprom",      max_size |-> 256, use_sysfs |-> TRUE],
             [name |-> "eeprom-proc", max_size |-> 256, use_sysfs |-> FALSE]>>

Least(a, b) == IF a < b THEN a ELSE b
ReadSpd(size, d) == Least(size, IF d.use_sysfs THEN d.max_size ELSE 4 * 16)

(* The bytes a field is decoded from, and the spd_size below which it is not. *)
Field(need, bytes) == [need |-> need, bytes |-> bytes]
Always(bytes) == {Field(0, bytes)}

(* The vendor in front of the part number, which ends at the first byte that *)
(* is not text: 18 characters in a module that keeps to the standard.        *)
Marking == Always(64 .. 71) \cup Always(73 .. 91) \cup Always({62})
SdrTimings == Always({3, 4, 5, 17}) \cup Always({18, 9, 29, 27, 30})
SdrFields == Marking \cup SdrTimings \cup Always({3} \cup {4} \cup {5} \cup {7, 6} \cup {8} \cup {11} \cup {12})
DdrFields == Marking \cup Always({3, 4, 5, 17} \cup {9, 7, 6, 11}) \cup Always({18, 9, 29, 27, 30})
Ddr2Fields == Marking \cup Always({3, 4, 5, 17} \cup {9, 7, 6, 11} \cup {20} \cup {94, 93}) \cup
  Always({8} \cup {18, 9, 23, 25} \cup {29, 27, 30})
Ddr3Fields == Always({1}) \cup Always(128 .. 145) \cup Always({117, 118} \cup {94, 95} \cup {121, 120}) \cup
  Always({4, 7, 8} \cup {3} \cup {10, 11, 12, 8}) \cup
  Always({10, 11, 12, 16, 18, 20, 21, 22} \cup {7, 33, 32, 6, 14, 15})
Ddr4Basics == Always({1} \cup {3} \cup {18, 125, 13} \cup {4, 13, 12, 6} \cup {11}) \cup
  Always(18 .. 28 \cup 121 .. 125)
Ddr4Unguarded == {Field(0, 320 .. 351)}
Ddr4Guarded == {Field(348, 329 .. 348), Field(321, {320, 321}), Field(351, {350, 351}), Field(324, {324, 323})}
Ddr4Xmp == {Field(387, {384, 385, 387}), Field(405, {396, 431, 401, 430, 402, 429, 403, 428, 404, 405, 393})}

Fields(type) ==
  CASE type = "SDR"  -> SdrFields
    [] type = "DDR"  -> DdrFields
    [] type = "DDR2" -> Ddr2Fields
    [] type = "DDR3" -> Ddr3Fields
    [] type = "DDR4" -> Ddr4Basics \cup Ddr4Guarded \cup Ddr4Xmp

(* decode_ram_type() looks at bytes 0 and 2: nothing is known of a module that *)
(* could not be read, and the other types have no decoder.                     *)
RamType(e, n) == IF n > 2 THEN e.type ELSE "UNKNOWN"
Decodable == {"SDR", "DDR", "DDR2", "DDR3", "DDR4"}

Partial(m) == m.type = "DDR4" /\ m.spd_size < 512

VARIABLES
  machine, driver,
  eeprom_list,           \* the devices of the driver that are still to be looked at
  dimm_list, spd_ddr4_partial_data, driver_found, spd_no_driver, spd_no_support, pc
flags == <<spd_no_driver, spd_no_support>>
vars == <<machine, driver, eeprom_list, dimm_list, spd_ddr4_partial_data, driver_found, flags, pc>>

Init ==
  /\ machine \in Machines
  /\ driver = 1 /\ eeprom_list = <<>>
  /\ dimm_list = <<>>
  /\ spd_ddr4_partial_data = FALSE
  /\ driver_found = FALSE
  /\ spd_no_driver = FALSE /\ spd_no_support = FALSE
  /\ pc = "udev"

(* memory_info_from_udev(): a line is about the module before it while it has *)
(* its id; one that gives no type has None.                                   *)
UdevModules(lines) ==
  FoldLeft(LAMBDA found, l :
             LET modules == IF found # <<>> /\ Last(found).id = l.id THEN found
                            ELSE Append(found, [id |-> l.id, type |-> "UNKNOWN"])
             IN IF l.type = None THEN modules ELSE [modules EXCEPT ![Len(modules)].type = l.type],
           <<>>, lines)
FromUdev ==
  /\ pc = "udev"
  /\ LET modules == UdevModules(machine.udev)
     IN dimm_list' = [i \in 1 .. Len(modules) |-> [type |-> modules[i].type, spd_size |-> 0, by |-> "udev"]]
  /\ pc' = IF machine.udev = <<>> THEN "drivers" ELSE "done"
  /\ UNCHANGED <<machine, driver, eeprom_list, spd_ddr4_partial_data, driver_found, flags>>

(* The devices a driver has: with sysfs those whose name is not the one the  *)
(* driver gives an EEPROM of a module (is_spd is what g_strcmp0() returns).  *)
IsSpd(e, d) == IF d.use_sysfs THEN ~e.named ELSE e.named

OpenDriver ==
  /\ pc = "drivers" /\ driver <= Len(Drivers)
  /\ LET files == machine.dir[Drivers[driver].name]
     IN /\ driver_found' = (driver_found \/ files # None)
        /\ eeprom_list' = IF files = None THEN <<>> ELSE files
  /\ dimm_list' = <<>>
  /\ pc' = "decode"
  /\ UNCHANGED <<machine, driver, spd_ddr4_partial_data, flags>>

(* One turn of decode_dimms2(). *)
Dimm(e, d) == LET n == ReadSpd(e.size, d) IN [type |-> RamType(e, n), spd_size |-> n, by |-> d.name]
Decode ==
  /\ pc = "decode" /\ eeprom_list # <<>>
  /\ LET d == Drivers[driver]
         e == Head(eeprom_list)
         m == Dimm(e, d)
         listed == IsSpd(e, d) /\ m.type \in Decodable
     IN /\ dimm_list' = IF listed THEN Append(dimm_list, m) ELSE dimm_list
        /\ spd_ddr4_partial_data' = (spd_ddr4_partial_data \/ (listed /\ Partial(m)))
  /\ eeprom_list' = Tail(eeprom_list)
  /\ UNCHANGED <<machine, driver, driver_found, flags, pc>>

NextDriver ==
  /\ pc = "decode" /\ eeprom_list = <<>>
  /\ driver' = driver + 1
  /\ pc' = IF dimm_list # <<>> THEN "done" ELSE "drivers"
  /\ UNCHANGED <<machine, eeprom_list, dimm_list, spd_ddr4_partial_data, driver_found, flags>>

NoDriverHasAny ==
  /\ pc = "drivers" /\ driver > Len(Drivers)
  /\ spd_no_driver' = (~driver_found /\ ~machine.loaded)
  /\ spd_no_support' = (~driver_found /\ machine.loaded)
  /\ pc' = "done"
  /\ UNCHANGED <<machine, driver, eeprom_list, dimm_list, spd_ddr4_partial_data, driver_found>>

Next == FromUdev \/ OpenDriver \/ Decode \/ NextDriver \/ NoDriverHasAny

-----------------------------------------------------------------------------
Decoded(m) == {f \in Fields(m.type) : f.need <= m.spd_size}

(* What is shown of a module comes from bytes that were read from it: no     *)
(* field is decoded from beyond what the driver gives. eeprom-proc, whose    *)
(* first four files are all that is read, and udev, which gives no bytes,    *)
(* are left out: their modules are decoded from bytes that stayed zero.      *)
DecodedWasRead ==
  pc = "done" => \A m \in ToSet(dimm_list) :
    m.by \in {"ee1004", "at24", "eeprom"} =>
      \A f \in Decoded(m) : f.bytes \subseteq 0 .. (m.spd_size - 1)

(* When a field of a module is left out because its driver gives too few     *)
(* bytes, the flag that makes the note ask for the other driver is set.      *)
PartialIsNoted ==
  (pc = "done" /\ \E m \in ToSet(dimm_list) : m.by # "udev" /\ Decoded(m) # Fields(m.type))
    => spd_ddr4_partial_data

(* A driver of sysfs gives each chip a file of 256 or 512 bytes, or none can *)
(* be read of it.                                                            *)
WholeFiles(m) ==
  \A k \in 1 .. Len(Drivers) :
    LET files == m.dir[Drivers[k].name]
    IN files # None =>
         /\ files \in Seq({files[i] : i \in DOMAIN files})
         /\ \A i \in DOMAIN files :
              files[i].size \in Nat /\ (Drivers[k].use_sysfs => files[i].size \in {0, 256, 512})
=============================================================================
