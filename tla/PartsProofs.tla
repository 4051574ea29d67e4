---------------------------- MODULE PartsProofs ----------------------------
(***************************************************************************)
(* What ProgramProofs proves of the program holds of it beside the readers:*)
(* Parts refines Program, whose steps leave open what anything else does.  *)
(* And of the memory, that the modules show what was read of their chips   *)
(* (SpdScan), and what the tables of the firmware sum up to (MemoryTables).*)
(***************************************************************************)
EXTENDS Parts, ProgramProofs

LEMMA PartsInit == PInit => ProgramInit
BY DEF PInit, ProgramInit, Own

LEMMA PartsStep == [PNext]_all => [ProgramNext]_its
<1>1. ASSUME PNext PROVE ProgramNext
  <2>a. Resting
        BY <1>1, Zenon DEF PNext
  <2>1. UNCHANGED live
        BY <2>a, Zenon DEF Resting
  <2>2. CASE live = "memory" /\ Next
        BY <2>1, <2>2, Zenon DEF ProgramNext
  <2>3. CASE live = "sections" /\ Sec!Next
        BY <2>1, <2>3, Zenon DEF ProgramNext
  <2>4. CASE live = "startup" /\ Start!Next
        BY <2>1, <2>4, Zenon DEF ProgramNext
  <2>5. CASE live = "window" /\ Win!Next
        BY <2>1, <2>5, Zenon DEF ProgramNext
  <2>6. CASE live = "benchmarks" /\ Bench!Next
        BY <2>1, <2>6, Zenon DEF ProgramNext
  <2>7. CASE live = "report" /\ Rep!Next
        BY <2>1, <2>7, Zenon DEF ProgramNext
  <2>8. CASE live = "graph" /\ Graph!Next
        BY <2>1, <2>8, Zenon DEF ProgramNext
  <2>9. CASE live = "cpuinfo" /\ Info!Next
        BY <2>1, <2>9, Zenon DEF ProgramNext
  <2>10. CASE live \notin Own
         BY <2>1, <2>10, Zenon DEF ProgramNext
  <2>11. live \in Own => \/ live = "memory" /\ Next
                         \/ live = "sections" /\ Sec!Next
                         \/ live = "startup" /\ Start!Next
                         \/ live = "window" /\ Win!Next
                         \/ live = "benchmarks" /\ Bench!Next
                         \/ live = "report" /\ Rep!Next
                         \/ live = "graph" /\ Graph!Next
                         \/ live = "cpuinfo" /\ Info!Next
         BY <1>1 DEF PNext, Own
  <2> QED BY <2>2, <2>3, <2>4, <2>5, <2>6, <2>7, <2>8, <2>9, <2>10, <2>11, Zenon
<1>2. UNCHANGED all => UNCHANGED its
      BY DEF all
<1> QED BY <1>1, <1>2

(* With the readers the program takes no step that Program does not allow.  *)
THEOREM PartsRefine == PSpec => ProgramSpec
BY PartsInit, PartsStep, PTL DEF PSpec, ProgramSpec

(* So whatever is read, a row has its own details, the modules that are     *)
(* needed are loaded, the window can be used when nothing goes on in it,    *)
(* a result is listed among its neighbours, a report is as it was ticked,   *)
(* the curve of a load graph stays within its drawing, a processor has what *)
(* /proc/cpuinfo says of it, and each memory module is listed once, well    *)
(* matched.                                                                 *)
THEOREM PartsKeep ==
  PSpec => /\ []RowsHaveTheirDetails /\ []ModulesAreLoaded /\ []UsableAtRest
           /\ []AmongNeighbours /\ []ReportIsAsTicked /\ []CurveStaysInside /\ []CpusAreRight
           /\ [](live = "memory" => ShownOnce /\ Stable)
BY PartsRefine, DetailsFollowRows, ModulesLoadedForAll, WindowRecovers, NeighboursForAll,
   ReportsForAll, CurveInsideForAll, CpusForAll, MemoryForAll, PTL

-----------------------------------------------------------------------------
(* The SPD of memory modules. Every field but some of DDR4 is among the first*)
(* 256 bytes, and those are not decoded from less than 321.                  *)
Early(f) == f.need = 0 /\ f.bytes \subseteq 0 .. 255
Late(f) == f.need \in 257 .. 511 /\ f.bytes \subseteq 0 .. 511

LEMMA AlwaysFits == ASSUME NEW b, b \subseteq 0 .. 255 PROVE \A f \in Spd!Always(b) : Early(f)
<1> TAKE f \in Spd!Always(b)
<1>1. f = [need |-> 0, bytes |-> b]
      BY DEF Spd!Always, Spd!Field
<1>2. f.need = 0 /\ f.bytes = b
      BY <1>1
<1> QED BY <1>2, Zenon DEF Early

LEMMA MarkingFits == \A f \in Spd!Marking : Early(f)
BY DEF Spd!Marking, Spd!Always, Spd!Field, Early

LEMMA TimingsFit == \A f \in Spd!SdrTimings : Early(f)
BY DEF Spd!SdrTimings, Spd!Always, Spd!Field, Early

LEMMA SdrFits == \A f \in Spd!SdrFields : Early(f)
<1>1. \A f \in Spd!Always({3} \cup {4} \cup {5} \cup {7, 6} \cup {8} \cup {11} \cup {12}) : Early(f)
      BY DEF Spd!Always, Spd!Field, Early
<1> QED BY <1>1, MarkingFits, TimingsFit DEF Spd!SdrFields

LEMMA DdrFits == \A f \in Spd!DdrFields : Early(f)
<1>1. \A f \in Spd!Always({3, 4, 5, 17} \cup {9, 7, 6, 11}) \cup Spd!Always({18, 9, 29, 27, 30}) : Early(f)
      BY DEF Spd!Always, Spd!Field, Early
<1> QED BY <1>1, MarkingFits DEF Spd!DdrFields

LEMMA Ddr2Fits == \A f \in Spd!Ddr2Fields : Early(f)
<1>1. \A f \in Spd!Always({3, 4, 5, 17} \cup {9, 7, 6, 11} \cup {20} \cup {94, 93}) : Early(f)
      BY DEF Spd!Always, Spd!Field, Early
<1>2. \A f \in Spd!Always({8} \cup {18, 9, 23, 25} \cup {29, 27, 30}) : Early(f)
      BY DEF Spd!Always, Spd!Field, Early
<1> QED BY <1>1, <1>2, MarkingFits DEF Spd!Ddr2Fields

LEMMA Ddr3Fits == \A f \in Spd!Ddr3Fields : Early(f)
<1>1. \A f \in Spd!Always({1}) \cup Spd!Always(128 .. 145) : Early(f)
      BY DEF Spd!Always, Spd!Field, Early
<1>2. \A f \in Spd!Always({117, 118} \cup {94, 95} \cup {121, 120}) : Early(f)
      BY DEF Spd!Always, Spd!Field, Early
<1>3. \A f \in Spd!Always({4, 7, 8} \cup {3} \cup {10, 11, 12, 8}) : Early(f)
      BY DEF Spd!Always, Spd!Field, Early
<1>4. \A f \in Spd!Always({10, 11, 12, 16, 18, 20, 21, 22} \cup {7, 33, 32, 6, 14, 15}) : Early(f)
      BY DEF Spd!Always, Spd!Field, Early
<1> QED BY <1>1, <1>2, <1>3, <1>4 DEF Spd!Ddr3Fields

LEMMA Ddr4Fits == \A f \in Spd!Ddr4Basics \cup Spd!Ddr4Guarded \cup Spd!Ddr4Xmp : Early(f) \/ Late(f)
<1>1. \A f \in Spd!Ddr4Basics : Early(f)
  <2>1. \A f \in Spd!Always({1} \cup {3} \cup {18, 125, 13} \cup {4, 13, 12, 6} \cup {11}) : Early(f)
    <3>1. {1} \cup {3} \cup {18, 125, 13} \cup {4, 13, 12, 6} \cup {11} \subseteq 0 .. 255
          OBVIOUS
    <3> QED BY <3>1, AlwaysFits
  <2>2. \A f \in Spd!Always(18 .. 28 \cup 121 .. 125) : Early(f)
        BY DEF Spd!Always, Spd!Field, Early
  <2> QED BY <2>1, <2>2 DEF Spd!Ddr4Basics
<1>2. \A f \in Spd!Ddr4Guarded : Late(f)
      BY DEF Spd!Ddr4Guarded, Spd!Field, Late
<1>3. \A f \in Spd!Ddr4Xmp : Late(f)
      BY DEF Spd!Ddr4Xmp, Spd!Field, Late
<1> QED BY <1>1, <1>2, <1>3

LEMMA FieldsFit ==
  ASSUME NEW t \in Spd!Decodable, NEW f \in Spd!Fields(t)
  PROVE  Early(f) \/ (t = "DDR4" /\ Late(f))
<1>1. CASE t = "SDR"
      BY <1>1, SdrFits DEF Spd!Fields
<1>2. CASE t = "DDR"
      BY <1>2, DdrFits DEF Spd!Fields
<1>3. CASE t = "DDR2"
      BY <1>3, Ddr2Fits DEF Spd!Fields
<1>4. CASE t = "DDR3"
      BY <1>4, Ddr3Fits DEF Spd!Fields
<1>5. CASE t = "DDR4"
      BY <1>5, Ddr4Fits DEF Spd!Fields
<1> QED BY <1>1, <1>2, <1>3, <1>4, <1>5 DEF Spd!Decodable

(* What a driver gave of a module: of sysfs all of its file. *)
Kept ==
  {m \in [type : Spd!Decodable, spd_size : Nat, by : {"ee1004", "at24", "eeprom", "eeprom-proc"}] :
     m.by # "eeprom-proc" => m.spd_size \in {256, 512}}
Noted == \A i \in 1 .. Len(dimm_list) : Spd!Partial(dimm_list[i]) => spd_ddr4_partial_data
Files(k) == machine.dir[Spd!Drivers[k].name]
Chips(k) == IF Files(k) = None THEN {} ELSE {Files(k)[i] : i \in DOMAIN Files(k)}

SpdInv ==
  /\ machine \in SpdMachines /\ driver \in Nat /\ driver >= 1
  /\ pc \in {"udev", "drivers", "decode", "done"}
  /\ pc = "udev" => driver = 1
  /\ pc = "decode" => driver <= 4 /\ eeprom_list \in Seq(Chips(driver))
  /\ pc = "decode" \/ (pc = "drivers" /\ driver > 1) => dimm_list \in Seq(Kept) /\ Noted
  /\ pc = "done" => \/ \A m \in Spd!ToSet(dimm_list) : m.by = "udev"
                    \/ dimm_list \in Seq(Kept) /\ Noted

(* What is decoded of such a module was read, and what is not is noted. *)
LEMMA KeptRead ==
  ASSUME NEW m \in Kept
  PROVE  /\ m.by # "eeprom-proc" => \A f \in Spd!Decoded(m) : f.bytes \subseteq 0 .. (m.spd_size - 1)
         /\ Spd!Decoded(m) # Spd!Fields(m.type) => Spd!Partial(m)
<1>1. /\ m.type \in Spd!Decodable /\ m.spd_size \in Nat
      /\ m.by # "eeprom-proc" => m.spd_size \in {256, 512}
      BY DEF Kept
<1>2. ASSUME m.by # "eeprom-proc", NEW f \in Spd!Decoded(m)
      PROVE  f.bytes \subseteq 0 .. (m.spd_size - 1)
  <2>1. f \in Spd!Fields(m.type) /\ f.need <= m.spd_size
        BY <1>2 DEF Spd!Decoded
  <2>2. Early(f) \/ Late(f)
        BY <1>1, <2>1, FieldsFit
  <2>3. CASE m.spd_size = 256
        BY <2>1, <2>2, <2>3 DEF Early, Late
  <2>4. CASE m.spd_size = 512
        BY <2>2, <2>4 DEF Early, Late
  <2> QED BY <1>1, <1>2, <2>3, <2>4
<1>3. ASSUME Spd!Decoded(m) # Spd!Fields(m.type)
      PROVE  Spd!Partial(m)
  <2>1. PICK f \in Spd!Fields(m.type) : ~(f.need <= m.spd_size)
        BY <1>3 DEF Spd!Decoded
  <2>2. Early(f) \/ (m.type = "DDR4" /\ Late(f))
        BY <1>1, <2>1, FieldsFit
  <2> QED BY <1>1, <2>1, <2>2 DEF Early, Late, Spd!Partial
<1> QED BY <1>2, <1>3

(* There are four drivers. *)
LEMMA FourDrivers ==
  /\ Len(Spd!Drivers) = 4
  /\ \A k \in 1 .. 4 :
       /\ Spd!Drivers[k].name \in {"ee1004", "at24", "eeprom", "eeprom-proc"}
       /\ Spd!Drivers[k].name # "eeprom-proc" => Spd!Drivers[k].use_sysfs
       /\ Spd!Drivers[k].max_size \in {256, 512}
BY DEF Spd!Drivers

(* The files of a driver. *)
LEMMA FilesOf ==
  ASSUME machine \in SpdMachines, NEW k \in 1 .. 4, Files(k) # None
  PROVE  /\ Files(k) \in Seq({Files(k)[i] : i \in DOMAIN Files(k)})
         /\ \A i \in DOMAIN Files(k) :
              Files(k)[i].size \in Nat /\ (Spd!Drivers[k].use_sysfs => Files(k)[i].size \in {0, 256, 512})
<1>1. Spd!WholeFiles(machine)
      BY SpdAssumption, Zenon
<1>2. k \in 1 .. Len(Spd!Drivers)
      BY FourDrivers
<1> QED BY <1>1, <1>2, Zenon DEF Spd!WholeFiles, Files

(* A module that is listed is such a one. *)
LEMMA ListedIsKept ==
  ASSUME machine \in SpdMachines, NEW k \in 1 .. 4, NEW e \in Chips(k),
         Spd!Dimm(e, Spd!Drivers[k]).type \in Spd!Decodable
  PROVE  Spd!Dimm(e, Spd!Drivers[k]) \in Kept
<1> DEFINE d == Spd!Drivers[k]
           n == Spd!ReadSpd(e.size, d)
           m == Spd!Dimm(e, d)
<1>1. e.size \in Nat /\ (d.use_sysfs => e.size \in {0, 256, 512})
  <2>1. Files(k) # None /\ \E i \in DOMAIN Files(k) : e = Files(k)[i]
        BY DEF Chips
  <2>2. \A i \in DOMAIN Files(k) :
          Files(k)[i].size \in Nat /\ (d.use_sysfs => Files(k)[i].size \in {0, 256, 512})
        BY <2>1, FilesOf, Zenon
  <2>3. PICK i \in DOMAIN Files(k) : e = Files(k)[i]
        BY <2>1
  <2> HIDE DEF d
  <2> QED BY <2>2, <2>3
<1>2. /\ d.name \in {"ee1004", "at24", "eeprom", "eeprom-proc"} /\ (d.name # "eeprom-proc" => d.use_sysfs)
      /\ d.max_size \in {256, 512}
      BY FourDrivers
<1> HIDE DEF d
<1>3. n \in Nat /\ (d.use_sysfs => n \in {0, 256, 512})
      BY <1>1, <1>2 DEF Spd!ReadSpd, Spd!Least
<1>4. m = [type |-> Spd!RamType(e, n), spd_size |-> n, by |-> d.name]
      BY DEF Spd!Dimm
<1> HIDE DEF m, n
<1>5. m.type \in Spd!Decodable
      BY DEF m, d
<1>6. n > 2
      BY <1>4, <1>5 DEF Spd!RamType, Spd!Decodable
<1>7. m \in Kept
      BY <1>2, <1>3, <1>4, <1>5, <1>6 DEF Kept
<1> QED BY <1>7 DEF m, d

LEMMA SpdStart == ASSUME Spd!Init PROVE SpdInv
BY DEF Spd!Init, SpdInv

LEMMA SpdStep ==
  ASSUME SpdInv, Spd!Next
  PROVE  SpdInv'
<1>1. CASE Spd!FromUdev
  <2>1. /\ machine' = machine /\ driver' = driver /\ pc' \in {"drivers", "done"} /\ pc = "udev"
        /\ \A m \in Spd!ToSet(dimm_list') : m.by = "udev"
        BY <1>1 DEF Spd!FromUdev, Spd!ToSet
  <2> QED BY <2>1 DEF SpdInv
<1>2. CASE Spd!OpenDriver
  <2>1. /\ machine' = machine /\ driver' = driver /\ pc' = "decode" /\ pc = "drivers" /\ driver \in 1 .. 4
        /\ dimm_list' = <<>>
        BY <1>2, FourDrivers DEF Spd!OpenDriver, SpdInv
  <2>2. eeprom_list' \in Seq(Chips(driver))
    <3>1. eeprom_list' = IF Files(driver) = None THEN <<>> ELSE Files(driver)
          BY <1>2 DEF Spd!OpenDriver, Files
    <3>2. ASSUME Files(driver) # None PROVE Files(driver) \in Seq({Files(driver)[i] : i \in DOMAIN Files(driver)})
      <4>1. machine \in SpdMachines
            BY DEF SpdInv
      <4> QED BY <2>1, <3>2, <4>1, FilesOf, Zenon
    <3>3. CASE Files(driver) = None
          BY <3>1, <3>3
    <3>4. CASE Files(driver) # None
          BY <3>1, <3>2, <3>4, Zenon DEF Chips
    <3> QED BY <3>3, <3>4
  <2>3. Chips(driver)' = Chips(driver)
        BY <2>1 DEF Chips, Files
  <2>4. dimm_list' \in Seq(Kept) /\ Noted'
        BY <2>1 DEF Noted
  <2> QED BY <2>1, <2>2, <2>3, <2>4 DEF SpdInv
<1>3. CASE Spd!Decode
  <2> DEFINE e == Head(eeprom_list)
             m == Spd!Dimm(e, Spd!Drivers[driver])
             gets == Spd!IsSpd(e, Spd!Drivers[driver]) /\ m.type \in Spd!Decodable
  <2>1. /\ machine' = machine /\ driver' = driver /\ pc' = "decode" /\ pc = "decode" /\ eeprom_list # <<>>
        /\ eeprom_list' = Tail(eeprom_list)
        /\ dimm_list' = IF gets THEN Append(dimm_list, m) ELSE dimm_list
        /\ spd_ddr4_partial_data' = (spd_ddr4_partial_data \/ (gets /\ Spd!Partial(m)))
        BY <1>3 DEF Spd!Decode
  <2>2. /\ machine \in SpdMachines /\ driver \in 1 .. 4 /\ eeprom_list \in Seq(Chips(driver))
        /\ dimm_list \in Seq(Kept) /\ Noted
        BY <2>1 DEF SpdInv
  <2>3. e \in Chips(driver) /\ eeprom_list' \in Seq(Chips(driver))
        BY <2>1, <2>2
  <2>4. Chips(driver)' = Chips(driver)
        BY <2>1 DEF Chips, Files
  <2>5. dimm_list' \in Seq(Kept) /\ Noted'
    <3>1. CASE gets
      <4>1. m \in Kept
            BY <2>2, <2>3, <3>1, ListedIsKept
      <4> HIDE DEF m
      <4>2. /\ dimm_list' = Append(dimm_list, m)
            /\ spd_ddr4_partial_data' = (spd_ddr4_partial_data \/ Spd!Partial(m))
            BY <2>1, <3>1
      <4>3. /\ dimm_list' \in Seq(Kept)
            /\ \A i \in 1 .. Len(dimm_list') :
                 dimm_list'[i] = m \/ (i \in 1 .. Len(dimm_list) /\ dimm_list'[i] = dimm_list[i])
            BY <2>2, <4>1, <4>2
      <4>4. ASSUME NEW i \in 1 .. Len(dimm_list'), Spd!Partial(dimm_list'[i]) PROVE spd_ddr4_partial_data'
        <5>1. CASE dimm_list'[i] = m
              BY <4>2, <4>4, <5>1, Zenon
        <5>2. CASE i \in 1 .. Len(dimm_list) /\ dimm_list'[i] = dimm_list[i]
              BY <2>2, <4>2, <4>4, <5>2, Zenon DEF Noted
        <5> QED BY <4>3, <5>1, <5>2, Zenon
      <4> QED BY <4>3, <4>4, Zenon DEF Noted
    <3>2. CASE ~gets
      <4> HIDE DEF gets, m
      <4>1. dimm_list' = dimm_list /\ (spd_ddr4_partial_data => spd_ddr4_partial_data')
            BY <2>1, <3>2
      <4> QED BY <2>2, <4>1, Zenon DEF Noted
    <3> QED BY <3>1, <3>2
  <2> HIDE DEF gets, m, e
  <2> QED BY <2>1, <2>2, <2>3, <2>4, <2>5 DEF SpdInv
<1>4. CASE Spd!NextDriver
  <2>1. /\ machine' = machine /\ driver' = driver + 1 /\ pc' \in {"drivers", "done"} /\ pc = "decode"
        /\ dimm_list' = dimm_list /\ spd_ddr4_partial_data' = spd_ddr4_partial_data
        BY <1>4 DEF Spd!NextDriver
  <2>2. Noted' <=> Noted
        BY <2>1 DEF Noted
  <2> QED BY <2>1, <2>2 DEF SpdInv
<1>5. CASE Spd!NoDriverHasAny
  <2>1. /\ machine' = machine /\ driver' = driver /\ pc' = "done" /\ pc = "drivers" /\ driver > 4
        /\ dimm_list' = dimm_list /\ spd_ddr4_partial_data' = spd_ddr4_partial_data
        BY <1>5, FourDrivers DEF Spd!NoDriverHasAny
  <2>2. Noted' <=> Noted
        BY <2>1 DEF Noted
  <2> QED BY <2>1, <2>2 DEF SpdInv
<1> QED BY <1>1, <1>2, <1>3, <1>4, <1>5 DEF Spd!Next

LEMMA SpdStutter == ASSUME SpdInv, UNCHANGED Spd!vars PROVE SpdInv'
<1>1. /\ machine' = machine /\ driver' = driver /\ pc' = pc /\ eeprom_list' = eeprom_list
      /\ dimm_list' = dimm_list /\ spd_ddr4_partial_data' = spd_ddr4_partial_data
      BY DEF Spd!vars
<1>2. (Noted' <=> Noted) /\ Chips(driver)' = Chips(driver)
      BY <1>1 DEF Noted, Chips, Files
<1> QED BY <1>1, <1>2 DEF SpdInv

LEMMA SpdRight == ASSUME SpdInv PROVE Spd!DecodedWasRead /\ Spd!PartialIsNoted
<1> SUFFICES ASSUME pc = "done" PROVE Spd!DecodedWasRead /\ Spd!PartialIsNoted
    BY DEF Spd!DecodedWasRead, Spd!PartialIsNoted
<1>1. CASE \A m \in Spd!ToSet(dimm_list) : m.by = "udev"
      BY <1>1 DEF Spd!DecodedWasRead, Spd!PartialIsNoted
<1>2. CASE dimm_list \in Seq(Kept) /\ Noted
  <2>1. \A m \in Spd!ToSet(dimm_list) : m \in Kept /\ (Spd!Partial(m) => spd_ddr4_partial_data)
        BY <1>2 DEF Spd!ToSet, Noted
  <2>2. Spd!DecodedWasRead
        BY <2>1, KeptRead DEF Spd!DecodedWasRead
  <2>3. Spd!PartialIsNoted
        BY <2>1, KeptRead DEF Spd!PartialIsNoted
  <2> QED BY <2>2, <2>3
<1> QED BY <1>1, <1>2 DEF SpdInv

-----------------------------------------------------------------------------
(* The arrays of memory. *)
(* What MapThenSumSet() adds up is the sum over a finite set. *)
LEMMA IsSums == ASSUME NEW v PROVE Firmware!Sum(v) = Sums(v, DOMAIN v)[DOMAIN v]
BY DEF Firmware!Sum, Firmware!MapThenSumSet, Firmware!MapThenFoldSet, Sums, Picked

(* What a set of sockets holds: nothing if there are none, and with one more *)
(* as much more as that one.                                                 *)
LEMMA HeldType ==
  ASSUME NEW S, IsFiniteSet(S), \A i \in S : machine.sockets[i].MiB \in Nat
  PROVE  Firmware!Held(S) \in Nat
<1> DEFINE v == [i \in S |-> machine.sockets[i].MiB]
<1>1. Firmware!Held(S) = Firmware!Sum(v)
      BY Zenon DEF Firmware!Held
<1>2. DOMAIN v = S /\ \A i \in S : v[i] \in Nat
      OBVIOUS
<1> HIDE DEF v
<1>3. Firmware!Sum(v) = Sums(v, S)[S]
      BY <1>2, IsSums
<1>4. Sums(v, S)[S] \in Nat
      BY <1>2, SumsNat
<1> QED BY <1>1, <1>3, <1>4

LEMMA HeldNone == Firmware!Held({}) = 0
<1> DEFINE v == [i \in {} |-> machine.sockets[i].MiB]
<1>1. Firmware!Held({}) = Firmware!Sum(v)
      BY Zenon DEF Firmware!Held
<1>2. DOMAIN v = {} /\ IsFiniteSet({})
      BY FS_EmptySet
<1> HIDE DEF v
<1>3. Firmware!Sum(v) = Sums(v, {})[{}]
      BY <1>2, IsSums
<1>4. Sums(v, {})[{}] = 0
      BY <1>2, SumsUnfold
<1> QED BY <1>1, <1>3, <1>4

LEMMA HeldOneMore ==
  ASSUME NEW S, IsFiniteSet(S), NEW k, k \notin S, \A i \in S \cup {k} : machine.sockets[i].MiB \in Nat
  PROVE  Firmware!Held(S \cup {k}) = machine.sockets[k].MiB + Firmware!Held(S)
<1> DEFINE v == [i \in S |-> machine.sockets[i].MiB]
           B == S \cup {k}
           w == [i \in B |-> machine.sockets[i].MiB]
<1>1. Firmware!Held(S) = Firmware!Sum(v) /\ Firmware!Held(B) = Firmware!Sum(w)
      BY Zenon DEF Firmware!Held
<1>2. DOMAIN v = S /\ DOMAIN w = B /\ w[k] = machine.sockets[k].MiB
      OBVIOUS
<1>3. (\A i \in B : w[i] \in Nat) /\ \A i \in S : w[i] = v[i]
      OBVIOUS
<1> HIDE DEF v, w
<1>4. Firmware!Sum(v) = Sums(v, S)[S]
      BY <1>2, IsSums
<1>5. Firmware!Sum(w) = Sums(w, B)[B]
      BY <1>2, IsSums
<1>6. Sums(w, B)[B] = w[k] + Sums(w, S)[S]
      BY <1>3, SumOneMore
<1>7. Sums(w, S)[S] = Sums(v, S)[S]
  <2>1. \A x \in S : v[x] = w[x]
        BY <1>3
  <2> QED BY <2>1, SumsSame
<1> HIDE DEF B
<1>8. Firmware!Held(B) = machine.sockets[k].MiB + Firmware!Held(S)
      BY <1>1, <1>2, <1>4, <1>5, <1>6, <1>7
<1> QED BY <1>8 DEF B

(* No module sums up to nothing. *)
LEMMA SumNone == ASSUME NEW v, DOMAIN v = {} PROVE Firmware!Sum(v) = 0
<1>1. Firmware!Sum(v) = Sums(v, {})[{}]
      BY IsSums
<1>2. Sums(v, {})[{}] = 0
      BY FS_EmptySet, SumsUnfold
<1> QED BY <1>1, <1>2

(* What the tables tell of an array and of a socket, and what the first k    *)
(* sockets add to an array: RAM, ROM and modules.                            *)
NumArrays == Len(machine.arrays)
NumSockets == Len(machine.sockets)
Arr(i) == Firmware!NewArray(machine.arrays[i])
Sock(i) == Firmware!NewSocket(machine.sockets[i])
RamOf(i) == Firmware!RamIn(machine.arrays[i].handle)
RomOf(i) == Firmware!RomIn(machine.arrays[i].handle)
Ram(i, k) == Firmware!Held(RamOf(i) \cap 1 .. k)
Rom(i, k) == Firmware!Held(RomOf(i) \cap 1 .. k)
Modules(i, k) == Cardinality(RamOf(i) \cap 1 .. k)
ArrRec ==
  [handle : {Arr(i).handle : i \in 1 .. NumArrays}, main : BOOLEAN,
   locator : {Arr(i).locator : i \in 1 .. NumArrays}, max : Nat, present : Nat, rom : Nat, populated : Nat,
   types : SUBSET Firmware!RamTypes]

LEMMA TablesOf ==
  ASSUME machine \in MemMachines
  PROVE  /\ NumArrays \in Nat /\ NumSockets \in Nat
         /\ DOMAIN machine.arrays = 1 .. NumArrays /\ DOMAIN machine.sockets = 1 .. NumSockets
         /\ \A i \in 1 .. NumArrays :
              /\ machine.arrays[i].handle \notin {None, "Unknown", "0x0"} /\ machine.arrays[i].max \in Nat
              /\ \A j \in 1 .. NumArrays : machine.arrays[j].handle = machine.arrays[i].handle => j = i
         /\ \A i \in 1 .. NumSockets :
              machine.sockets[i].MiB \in Nat /\ (machine.sockets[i].says = Firmware!NoModule => machine.sockets[i].MiB = 0)
         /\ None \notin Firmware!Roms
<1>1. Firmware!Handles(machine) /\ None \notin {"sources", "sketchy"} \cup Firmware!Roms
      BY MemAssumption, Zenon
<1>2. machine.arrays \in Seq({machine.arrays[i] : i \in DOMAIN machine.arrays})
      /\ machine.sockets \in Seq({machine.sockets[i] : i \in DOMAIN machine.sockets})
      BY <1>1, Zenon DEF Firmware!Handles
<1>3. /\ \A i \in 1 .. NumArrays :
           /\ machine.arrays[i].handle \notin {None, "Unknown", "0x0"} /\ machine.arrays[i].max \in Nat
           /\ \A j \in 1 .. NumArrays : machine.arrays[j].handle = machine.arrays[i].handle => j = i
      /\ \A i \in 1 .. NumSockets :
           machine.sockets[i].MiB \in Nat /\ (machine.sockets[i].says = Firmware!NoModule => machine.sockets[i].MiB = 0)
      BY <1>1, Zenon DEF Firmware!Handles, NumArrays, NumSockets
<1>4. /\ NumArrays \in Nat /\ DOMAIN machine.arrays = 1 .. NumArrays
      /\ NumSockets \in Nat /\ DOMAIN machine.sockets = 1 .. NumSockets
      BY <1>2 DEF NumArrays, NumSockets
<1>5. None \notin Firmware!Roms
      BY <1>1
<1> QED BY <1>3, <1>4, <1>5, Zenon

LEMMA ArrFacts ==
  ASSUME machine \in MemMachines, NEW i \in 1 .. NumArrays
  PROVE  /\ Arr(i) \in ArrRec /\ Arr(i).handle = machine.arrays[i].handle /\ Arr(i).max = machine.arrays[i].max
         /\ Arr(i).main = Firmware!IsMain(machine.arrays[i])
         /\ Arr(i).present = 0 /\ Arr(i).rom = 0 /\ Arr(i).populated = 0
<1>1. machine.arrays[i].max \in Nat
      BY TablesOf, Zenon
<1>2. Firmware!IsMain(machine.arrays[i]) \in BOOLEAN
      BY Zenon DEF Firmware!IsMain
<1>3. Arr(i) = [handle |-> machine.arrays[i].handle, main |-> Firmware!IsMain(machine.arrays[i]),
                locator |-> Firmware!Shorter(machine.arrays[i].location), max |-> machine.arrays[i].max,
                present |-> 0, rom |-> 0, populated |-> 0, types |-> {}]
      BY Zenon DEF Arr, Firmware!NewArray
<1>4. /\ Arr(i).handle \in {Arr(j).handle : j \in 1 .. NumArrays}
      /\ Arr(i).locator \in {Arr(j).locator : j \in 1 .. NumArrays}
      OBVIOUS
<1> QED BY <1>1, <1>2, <1>3, <1>4 DEF ArrRec

LEMMA SockFacts ==
  ASSUME machine \in MemMachines, NEW k \in 1 .. NumSockets
  PROVE  LET s == machine.sockets[k] IN
         /\ Sock(k).MiB = s.MiB /\ Sock(k).MiB \in Nat
         /\ Sock(k).populated = (s.says # Firmware!NoModule)
         /\ ~Sock(k).populated => Sock(k).MiB = 0
         /\ Sock(k).populated => Sock(k).rom = (s.type \in Firmware!Roms)
         /\ Sock(k).types \subseteq Firmware!RamTypes
         /\ Sock(k).populated => Sock(k).mfgr = Firmware!Maker(s)
         /\ \A i \in 1 .. NumArrays : Sock(k).array = Arr(i).handle <=> s.array = machine.arrays[i].handle
<1> DEFINE s == machine.sockets[k]
           populated == s.says # Firmware!NoModule
           type == IF populated THEN Firmware!Told(s.type, {"Unknown"}) ELSE None
<1>1. /\ Sock(k).array = Firmware!ArrayOf(s) /\ Sock(k).MiB = s.MiB /\ Sock(k).populated = populated
      /\ Sock(k).rom = (type \in Firmware!Roms) /\ Sock(k).types = {type} \cap Firmware!RamTypes
      /\ Sock(k).mfgr = IF populated THEN Firmware!Maker(s) ELSE None
      BY DEF Sock, Firmware!NewSocket
<1>2. s.MiB \in Nat /\ (~populated => s.MiB = 0) /\ None \notin Firmware!Roms
      BY TablesOf
<1>3. populated => (type \in Firmware!Roms) = (s.type \in Firmware!Roms)
  <2>1. Firmware!Told(s.type, {"Unknown"}) = IF s.type = "Unknown" THEN None ELSE s.type
        BY DEF Firmware!Told
  <2>2. "Unknown" \notin Firmware!Roms
        BY DEF Firmware!Roms
  <2> HIDE DEF s
  <2> QED BY <1>2, <2>1, <2>2
<1>4. ASSUME NEW i \in 1 .. NumArrays
      PROVE  Sock(k).array = Arr(i).handle <=> s.array = machine.arrays[i].handle
  <2>1. machine.arrays[i].handle \notin {None, "Unknown", "0x0"} /\ Arr(i).handle = machine.arrays[i].handle
        BY TablesOf, ArrFacts
  <2>2. Firmware!ArrayOf(s) = IF s.array \in {None, "Unknown"} THEN "0x0" ELSE s.array
        BY Zenon DEF Firmware!ArrayOf
  <2> QED BY <1>1, <2>1, <2>2
<1> HIDE DEF type
<1>5. Sock(k).types \subseteq Firmware!RamTypes
      BY <1>1
<1>6. Sock(k).MiB \in Nat /\ (~Sock(k).populated => Sock(k).MiB = 0)
      BY <1>1, <1>2
<1> HIDE DEF populated
<1>7. Sock(k).populated => Sock(k).rom = (s.type \in Firmware!Roms) /\ Sock(k).mfgr = Firmware!Maker(s)
      BY <1>1, <1>3
<1> QED BY <1>1, <1>4, <1>5, <1>6, <1>7, Zenon DEF populated

(* One more socket is counted where it belongs. *)
LEMMA SocketMore ==
  ASSUME machine \in MemMachines, NEW A, A \subseteq 1 .. NumSockets, NEW k \in 1 .. NumSockets
  PROVE  /\ Firmware!Held(A \cap 1 .. (k - 1)) \in Nat /\ Cardinality(A \cap 1 .. (k - 1)) \in Nat
         /\ k \in A =>
              /\ Firmware!Held(A \cap 1 .. k) = machine.sockets[k].MiB + Firmware!Held(A \cap 1 .. (k - 1))
              /\ Cardinality(A \cap 1 .. k) = Cardinality(A \cap 1 .. (k - 1)) + 1
         /\ k \notin A => A \cap 1 .. k = A \cap 1 .. (k - 1)
<1> DEFINE S == A \cap 1 .. (k - 1)
           T == A \cap 1 .. k
<1>1. NumSockets \in Nat /\ \A i \in 1 .. NumSockets : machine.sockets[i].MiB \in Nat
      BY TablesOf
<1>2. S \subseteq 1 .. NumSockets /\ k \notin S /\ (k \in A => T = S \cup {k}) /\ (k \notin A => T = S)
      BY <1>1
<1> HIDE DEF S, T
<1>3. IsFiniteSet(S)
  <2>1. IsFiniteSet(1 .. NumSockets)
        BY <1>1, FS_Interval
  <2> QED BY <1>2, <2>1, FS_Subset
<1>4. Firmware!Held(S) \in Nat
      BY <1>1, <1>2, <1>3, HeldType
<1>5. Cardinality(S) \in Nat
      BY <1>3, FS_CardinalityType
<1>6. ASSUME k \in A PROVE Firmware!Held(T) = machine.sockets[k].MiB + Firmware!Held(S)
                           /\ Cardinality(T) = Cardinality(S) + 1
  <2>1. T = S \cup {k} /\ \A i \in S \cup {k} : machine.sockets[i].MiB \in Nat
        BY <1>1, <1>2, <1>6
  <2>2. Firmware!Held(S \cup {k}) = machine.sockets[k].MiB + Firmware!Held(S)
        BY <1>2, <1>3, <2>1, HeldOneMore
  <2>3. Cardinality(S \cup {k}) = Cardinality(S) + 1
        BY <1>2, <1>3, FS_AddElement
  <2> QED BY <2>1, <2>2, <2>3
<1> QED BY <1>2, <1>4, <1>5, <1>6 DEF S, T

LEMMA Members ==
  ASSUME machine \in MemMachines, NEW i \in 1 .. NumArrays
  PROVE  /\ RamOf(i) \subseteq 1 .. NumSockets /\ RomOf(i) \subseteq 1 .. NumSockets
         /\ \A k \in 1 .. NumSockets :
              /\ k \in RomOf(i) <=> Sock(k).array = Arr(i).handle /\ Sock(k).populated /\ Sock(k).rom
              /\ k \in RamOf(i) <=> Sock(k).array = Arr(i).handle /\ Sock(k).populated /\ ~Sock(k).rom
<1> DEFINE h == machine.arrays[i].handle
<1>1. DOMAIN machine.sockets = 1 .. NumSockets
      BY TablesOf, Zenon
<1>2. \A k : k \in Firmware!In16(h) <=>
        k \in 1 .. NumSockets /\ machine.sockets[k].array = h /\ machine.sockets[k].says # Firmware!NoModule
      BY <1>1 DEF Firmware!In16
<1>3. \A k : k \in RomOf(i) <=> k \in Firmware!In16(h) /\ machine.sockets[k].type \in Firmware!Roms
      BY Zenon DEF RomOf, Firmware!RomIn
<1>4. \A k : k \in RamOf(i) <=> k \in Firmware!In16(h) /\ k \notin RomOf(i)
      BY Zenon DEF RamOf, RomOf, Firmware!RamIn
<1>5. ASSUME NEW k \in 1 .. NumSockets
      PROVE  /\ Sock(k).array = Arr(i).handle <=> machine.sockets[k].array = h
             /\ Sock(k).populated <=> machine.sockets[k].says # Firmware!NoModule
             /\ Sock(k).populated => (Sock(k).rom <=> machine.sockets[k].type \in Firmware!Roms)
  <2>1. Sock(k).array = Arr(i).handle <=> machine.sockets[k].array = h
        BY SockFacts, Zenon
  <2>2. Sock(k).populated = (machine.sockets[k].says # Firmware!NoModule)
        BY SockFacts, Zenon
  <2>3. Sock(k).populated => Sock(k).rom = (machine.sockets[k].type \in Firmware!Roms)
        BY SockFacts, Zenon
  <2> QED BY <2>1, <2>2, <2>3, Zenon
<1> HIDE DEF h
<1>6. ASSUME NEW k \in 1 .. NumSockets
      PROVE  /\ k \in RomOf(i) <=> Sock(k).array = Arr(i).handle /\ Sock(k).populated /\ Sock(k).rom
             /\ k \in RamOf(i) <=> Sock(k).array = Arr(i).handle /\ Sock(k).populated /\ ~Sock(k).rom
      BY <1>2, <1>3, <1>4, <1>5, Zenon
<1>7. RamOf(i) \subseteq 1 .. NumSockets /\ RomOf(i) \subseteq 1 .. NumSockets
      BY <1>2, <1>3, <1>4, Zenon
<1> QED BY <1>6, <1>7, Zenon

(* What the k-th socket adds to an array.                                    *)
LEMMA SumType ==
  ASSUME machine \in MemMachines, NEW i \in 1 .. NumArrays, NEW k \in 1 .. NumSockets
  PROVE  Ram(i, k - 1) \in Nat /\ Rom(i, k - 1) \in Nat /\ Modules(i, k - 1) \in Nat
<1>1. RamOf(i) \subseteq 1 .. NumSockets /\ RomOf(i) \subseteq 1 .. NumSockets
      BY Members, Zenon
<1> QED BY <1>1, SocketMore, Zenon DEF Ram, Rom, Modules

LEMMA SumStep ==
  ASSUME machine \in MemMachines, NEW i \in 1 .. NumArrays, NEW k \in 1 .. NumSockets
  PROVE  /\ Sock(k).array # Arr(i).handle =>
              Ram(i, k) = Ram(i, k - 1) /\ Rom(i, k) = Rom(i, k - 1) /\ Modules(i, k) = Modules(i, k - 1)
         /\ Sock(k).array = Arr(i).handle /\ Sock(k).rom =>
              /\ Ram(i, k) = Ram(i, k - 1) /\ Modules(i, k) = Modules(i, k - 1)
              /\ Rom(i, k) = Rom(i, k - 1) + Sock(k).MiB
         /\ Sock(k).array = Arr(i).handle /\ ~Sock(k).rom =>
              /\ Ram(i, k) = Ram(i, k - 1) + Sock(k).MiB /\ Rom(i, k) = Rom(i, k - 1)
              /\ Modules(i, k) = Modules(i, k - 1) + (IF Sock(k).populated THEN 1 ELSE 0)
<1>1. RamOf(i) \subseteq 1 .. NumSockets /\ RomOf(i) \subseteq 1 .. NumSockets
      BY Members, Zenon
<1>2. /\ k \in RomOf(i) <=> Sock(k).array = Arr(i).handle /\ Sock(k).populated /\ Sock(k).rom
      /\ k \in RamOf(i) <=> Sock(k).array = Arr(i).handle /\ Sock(k).populated /\ ~Sock(k).rom
      BY Members, Zenon
<1>3. Sock(k).MiB \in Nat /\ Sock(k).MiB = machine.sockets[k].MiB /\ (~Sock(k).populated => Sock(k).MiB = 0)
      BY SockFacts, Zenon
<1>4. Ram(i, k - 1) \in Nat /\ Rom(i, k - 1) \in Nat /\ Modules(i, k - 1) \in Nat
      BY SumType, Zenon
<1>5. /\ k \in RamOf(i) => Ram(i, k) = machine.sockets[k].MiB + Ram(i, k - 1) /\ Modules(i, k) = Modules(i, k - 1) + 1
      /\ k \notin RamOf(i) => Ram(i, k) = Ram(i, k - 1) /\ Modules(i, k) = Modules(i, k - 1)
      BY <1>1, SocketMore, Zenon DEF Ram, Modules
<1>6. /\ k \in RomOf(i) => Rom(i, k) = machine.sockets[k].MiB + Rom(i, k - 1)
      /\ k \notin RomOf(i) => Rom(i, k) = Rom(i, k - 1)
      BY <1>1, SocketMore, Zenon DEF Rom
<1>7. CASE Sock(k).array # Arr(i).handle
      BY <1>2, <1>5, <1>6, <1>7
<1>8. CASE Sock(k).array = Arr(i).handle /\ Sock(k).rom
      BY <1>2, <1>3, <1>4, <1>5, <1>6, <1>8
<1>9. CASE Sock(k).array = Arr(i).handle /\ ~Sock(k).rom
      BY <1>2, <1>3, <1>4, <1>5, <1>6, <1>9
<1> QED BY <1>7, <1>8, <1>9, Zenon

(* To begin with they have nothing; with all sockets, what is theirs.        *)
LEMMA SumEnds ==
  ASSUME machine \in MemMachines, NEW i \in 1 .. NumArrays
  PROVE  /\ Ram(i, 0) = 0 /\ Rom(i, 0) = 0 /\ Modules(i, 0) = 0
         /\ Ram(i, NumSockets) = Firmware!Held(RamOf(i)) /\ Rom(i, NumSockets) = Firmware!Held(RomOf(i))
         /\ Modules(i, NumSockets) = Cardinality(RamOf(i))
<1>1. RamOf(i) \subseteq 1 .. NumSockets /\ RomOf(i) \subseteq 1 .. NumSockets
      BY Members, Zenon
<1>2. RamOf(i) \cap 1 .. 0 = {} /\ RomOf(i) \cap 1 .. 0 = {}
      OBVIOUS
<1>3. RamOf(i) \cap 1 .. NumSockets = RamOf(i) /\ RomOf(i) \cap 1 .. NumSockets = RomOf(i)
      BY <1>1
<1>4. Cardinality({}) = 0
      BY FS_EmptySet
<1>5. Ram(i, 0) = 0 /\ Rom(i, 0) = 0 /\ Modules(i, 0) = 0
      BY <1>2, <1>4, HeldNone DEF Ram, Rom, Modules
<1> QED BY <1>3, <1>5 DEF Ram, Rom, Modules

(* Where the inventory of the memory is: what was read, what the arrays have  *)
(* of the first k sockets, whose names differ from all that follow, what is   *)
(* shown of a socket, how much memory there is, and the rows.                 *)
Summed(k) ==
  \A i \in 1 .. Len(arrays) :
    /\ arrays[i].handle = Arr(i).handle /\ arrays[i].max = Arr(i).max /\ arrays[i].main = Arr(i).main
    /\ arrays[i].present = Ram(i, k) /\ arrays[i].rom = Rom(i, k) /\ arrays[i].populated = Modules(i, k)
Apart(k) == unique_short_locators => \A i \in 1 .. k : \A j \in i + 1 .. NumSockets : Sock(j).short # Sock(i).short
SocketsRead ==
  /\ sockets \in Seq({Sock(i) : i \in 1 .. NumSockets}) /\ Len(sockets) <= NumSockets
  /\ \A i \in 1 .. Len(sockets) : sockets[i] = Sock(i)
MakerOf(i) ==
  IF Sock(i).mfgr # None THEN Sock(i).mfgr
  ELSE IF machine.matched[i] = None THEN None ELSE machine.spd[machine.matched[i]].vendor
SocketsFilled ==
  /\ DOMAIN sockets = 1 .. NumSockets
  /\ \A i \in 1 .. NumSockets :
       sockets[i].short = Sock(i).short /\ sockets[i].full = Sock(i).full /\ sockets[i].mfgr = MakerOf(i)
MainSum ==
  Firmware!Sum([i \in {i \in DOMAIN machine.arrays : Firmware!IsMain(machine.arrays[i])} |-> Firmware!Held(RamOf(i))])
MemoryRight ==
  LET dt == IF Firmware!Empty /\ machine.tree # None THEN machine.tree.MiB ELSE 0
  IN system_memory.MiB =
       CASE MainSum # 0                                      -> MainSum
         [] MainSum = 0 /\ Firmware!SpdMiB # 0               -> Firmware!SpdMiB
         [] MainSum = 0 /\ Firmware!SpdMiB = 0 /\ dt # 0 -> dt
         [] MainSum = 0 /\ Firmware!SpdMiB = 0 /\ dt = 0 -> Firmware!OnlineMiB
RowsOf ==
  {Firmware!ArrayRow(arrays[i]) : i \in 1 .. NumArrays} \cup {Firmware!SocketRow(sockets[i]) : i \in 1 .. NumSockets}
  \cup {Firmware!Summary[i] : i \in DOMAIN Firmware!Summary} \cup {Firmware!ModuleRow(e) : e \in Nat}
RowsListed ==
  /\ rows \in Seq(RowsOf) /\ Len(rows) >= NumArrays + NumSockets
  /\ \A i \in 1 .. NumArrays : rows[i] = Firmware!ArrayRow(arrays[i])
  /\ \A i \in 1 .. NumSockets : rows[NumArrays + i] = Firmware!SocketRow(sockets[i])
Sketchy == (\E i \in 1 .. NumArrays : arrays[i].max < arrays[i].present) => sketchy_info

Reading == {"arrays", "sockets", "sums"}
Listing == {"modules", "listed", "done"}
FirmInv ==
  /\ machine \in MemMachines
  /\ pc \in Reading \cup {"total", "list"} \cup Listing
  /\ arrays \in Seq(ArrRec) /\ Len(arrays) <= NumArrays
  /\ pc # "arrays" => Len(arrays) = NumArrays
  /\ pc \in {"arrays", "sockets"} => at = 0
  /\ pc \in Reading => at \in 0 .. NumSockets /\ Summed(at) /\ SocketsRead /\ Apart(at)
  /\ pc = "sums" => Len(sockets) = NumSockets
  /\ pc \notin Reading => Summed(NumSockets) /\ Apart(NumSockets) /\ SocketsFilled
  /\ pc \in {"list"} \cup Listing => MemoryRight
  /\ pc = "modules" => at \in Nat
  /\ pc \in Listing => RowsListed /\ Sketchy
  /\ pc = "done" => (sketchy_info => note # None)

LEMMA SameTables ==
  ASSUME machine' = machine
  PROVE  /\ NumArrays' = NumArrays /\ NumSockets' = NumSockets
         /\ \A i : Arr(i)' = Arr(i) /\ Sock(i)' = Sock(i) /\ RamOf(i)' = RamOf(i) /\ RomOf(i)' = RomOf(i) /\ MakerOf(i)' = MakerOf(i)
         /\ \A i, k : Ram(i, k)' = Ram(i, k) /\ Rom(i, k)' = Rom(i, k) /\ Modules(i, k)' = Modules(i, k)
         /\ ArrRec' = ArrRec /\ MainSum' = MainSum /\ Firmware!SpdMiB' = Firmware!SpdMiB
         /\ Firmware!OnlineMiB' = Firmware!OnlineMiB
<1>1. NumArrays' = NumArrays /\ NumSockets' = NumSockets
      BY DEF NumArrays, NumSockets
<1>2. \A i : Arr(i)' = Arr(i)
      BY Zenon DEF Arr, Firmware!NewArray, Firmware!IsMain, Firmware!Shorter
<1>3. \A h : Firmware!ArrayLocator(h)' = Firmware!ArrayLocator(h)
      BY DEF Firmware!ArrayLocator
<1>4. \A i : Sock(i)' = Sock(i)
      BY <1>3 DEF Sock, Firmware!NewSocket
<1>5. \A i : RomOf(i)' = RomOf(i)
      BY DEF RomOf, Firmware!RomIn, Firmware!In16
<1>6. \A i : RamOf(i)' = RamOf(i)
      BY <1>5 DEF RamOf, Firmware!RamIn, RomOf, Firmware!RomIn, Firmware!In16
<1>7. \A S : Firmware!Held(S)' = Firmware!Held(S)
      BY DEF Firmware!Held
<1>8. \A i, k : Ram(i, k)' = Ram(i, k) /\ Rom(i, k)' = Rom(i, k) /\ Modules(i, k)' = Modules(i, k)
      BY <1>5, <1>6, <1>7 DEF Ram, Rom, Modules
<1>9. \A i : MakerOf(i)' = MakerOf(i)
      BY <1>4 DEF MakerOf
<1>10. ArrRec' = ArrRec
       BY <1>1, <1>2 DEF ArrRec
<1>11. MainSum' = MainSum
       BY <1>6, <1>7 DEF MainSum
<1>12. Firmware!SpdMiB' = Firmware!SpdMiB /\ Firmware!OnlineMiB' = Firmware!OnlineMiB
       BY DEF Firmware!SpdMiB, Firmware!OnlineMiB
<1> QED BY <1>1, <1>2, <1>4, <1>5, <1>6, <1>8, <1>9, <1>10, <1>11, <1>12, Zenon

LEMMA SameSums ==
  ASSUME machine' = machine, NEW k
  PROVE  /\ arrays' = arrays => Summed(k)' = Summed(k)
         /\ unique_short_locators' = unique_short_locators => Apart(k)' = Apart(k)
         /\ sockets' = sockets => SocketsRead' = SocketsRead /\ SocketsFilled' = SocketsFilled
<1>1. arrays' = arrays => Summed(k)' = Summed(k)
      BY SameTables DEF Summed
<1>2. unique_short_locators' = unique_short_locators => Apart(k)' = Apart(k)
      BY SameTables DEF Apart
<1>3. sockets' = sockets => SocketsRead' = SocketsRead
      BY SameTables DEF SocketsRead
<1>4. sockets' = sockets => SocketsFilled' = SocketsFilled
      BY SameTables DEF SocketsFilled
<1> QED BY <1>1, <1>2, <1>3, <1>4

LEMMA SameRows ==
  ASSUME machine' = machine, arrays' = arrays, sockets' = sockets, unique_short_locators' = unique_short_locators
  PROVE  /\ RowsOf' = RowsOf
         /\ rows' = rows => RowsListed' = RowsListed
         /\ sketchy_info' = sketchy_info => Sketchy' = Sketchy
         /\ system_memory' = system_memory => MemoryRight' = MemoryRight
<1>1. /\ \A a : Firmware!ArrayRow(a)' = Firmware!ArrayRow(a)
      /\ \A s : Firmware!SocketRow(s)' = Firmware!SocketRow(s)
      /\ \A e : Firmware!ModuleRow(e)' = Firmware!ModuleRow(e)
  <2>1. \A a : Firmware!ArrayRow(a)' = Firmware!ArrayRow(a)
        BY DEF Firmware!ArrayRow
  <2>2. \A s : Firmware!SocketRow(s)' = Firmware!SocketRow(s)
        BY Zenon DEF Firmware!SocketRow
  <2>3. \A e : Firmware!ModuleRow(e)' = Firmware!ModuleRow(e)
        BY Zenon DEF Firmware!ModuleRow
  <2> QED BY <2>1, <2>2, <2>3
<1>2. Firmware!Summary' = Firmware!Summary
      BY DEF Firmware!Summary, Firmware!SpdMiB, Firmware!SpdTypes
<1>3. NumArrays' = NumArrays /\ NumSockets' = NumSockets
      BY SameTables
<1>4. RowsOf' = RowsOf
      BY <1>1, <1>2, <1>3 DEF RowsOf
<1>5. rows' = rows => RowsListed' = RowsListed
      BY <1>1, <1>3, <1>4 DEF RowsListed
<1>6. sketchy_info' = sketchy_info => Sketchy' = Sketchy
      BY <1>3 DEF Sketchy
<1>7. Firmware!Empty' = Firmware!Empty
      BY DEF Firmware!Empty
<1>8. system_memory' = system_memory => MemoryRight' = MemoryRight
      BY <1>7, SameTables DEF MemoryRight
<1> QED BY <1>4, <1>5, <1>6, <1>8

LEMMA FirmStart == ASSUME Firmware!Init PROVE FirmInv
<1>1. /\ machine \in MemMachines /\ pc = "arrays" /\ arrays = <<>> /\ sockets = <<>> /\ at = 0
      BY DEF Firmware!Init
<1>2. NumArrays \in Nat /\ NumSockets \in Nat
      BY <1>1, TablesOf
<1>3. Summed(at) /\ SocketsRead /\ Apart(at)
      BY <1>1, <1>2 DEF Summed, SocketsRead, Apart
<1> QED BY <1>1, <1>2, <1>3 DEF FirmInv, Reading, Listing

LEMMA ReadArrayKeeps == ASSUME FirmInv, Firmware!ReadArray PROVE FirmInv'
<1>1. /\ pc = "arrays" /\ machine' = machine /\ sockets' = sockets /\ at' = at
      /\ unique_short_locators' = unique_short_locators
      BY DEF Firmware!ReadArray
<1>2. /\ machine \in MemMachines /\ arrays \in Seq(ArrRec) /\ Len(arrays) <= NumArrays
      /\ at = 0 /\ at \in 0 .. NumSockets /\ Summed(0) /\ SocketsRead /\ Apart(0)
      BY <1>1 DEF FirmInv, Reading
<1>3. SocketsRead' /\ Apart(0)' /\ NumArrays' = NumArrays /\ NumSockets' = NumSockets /\ ArrRec' = ArrRec
      BY <1>1, <1>2, SameSums, SameTables
<1>4. CASE Len(arrays) < Len(machine.arrays)
  <2> DEFINE n == Len(arrays) + 1
  <2>1. arrays' = Append(arrays, Arr(n)) /\ pc' = "arrays"
        BY <1>1, <1>4 DEF Firmware!ReadArray, Arr
  <2>2. n \in 1 .. NumArrays /\ Arr(n) \in ArrRec
        BY <1>2, <1>4, TablesOf, ArrFacts DEF NumArrays
  <2>3. arrays' \in Seq(ArrRec) /\ Len(arrays') = n /\ (\A i \in 1 .. n : arrays'[i] = IF i = n THEN Arr(n) ELSE arrays[i])
        BY <1>2, <2>1, <2>2
  <2>4. ASSUME NEW i \in 1 .. n
        PROVE  /\ arrays'[i].handle = Arr(i).handle /\ arrays'[i].max = Arr(i).max /\ arrays'[i].main = Arr(i).main
               /\ arrays'[i].present = Ram(i, 0) /\ arrays'[i].rom = Rom(i, 0) /\ arrays'[i].populated = Modules(i, 0)
    <3>1. CASE i = n
      <4>1. arrays'[i] = Arr(i) /\ i \in 1 .. NumArrays
            BY <2>2, <2>3, <3>1
      <4>2. Arr(i).present = 0 /\ Arr(i).rom = 0 /\ Arr(i).populated = 0
            BY <1>2, <4>1, ArrFacts
      <4>3. Ram(i, 0) = 0 /\ Rom(i, 0) = 0 /\ Modules(i, 0) = 0
            BY <1>2, <4>1, SumEnds
      <4> QED BY <4>1, <4>2, <4>3
    <3>2. CASE i # n
      <4>1. i \in 1 .. Len(arrays) /\ arrays'[i] = arrays[i]
            BY <1>2, <2>3, <3>2
      <4> QED BY <1>2, <4>1 DEF Summed
    <3> QED BY <3>1, <3>2
  <2>5. Summed(0)'
        BY <1>1, <2>3, <2>4, SameTables DEF Summed
  <2> QED BY <1>1, <1>2, <1>3, <2>1, <2>2, <2>3, <2>5 DEF FirmInv, Reading, Listing
<1>5. CASE ~(Len(arrays) < Len(machine.arrays))
  <2>1. arrays' = arrays /\ pc' = "sockets"
        BY <1>1, <1>5 DEF Firmware!ReadArray
  <2>2. Summed(0)'
        BY <1>1, <1>2, <2>1, SameSums
  <2>3. Len(arrays) = NumArrays
        BY <1>2, <1>5, TablesOf DEF NumArrays
  <2> QED BY <1>1, <1>2, <1>3, <2>1, <2>2, <2>3 DEF FirmInv, Reading, Listing
<1> QED BY <1>4, <1>5

LEMMA ReadSocketKeeps == ASSUME FirmInv, Firmware!ReadSocket PROVE FirmInv'
<1>1. /\ pc = "sockets" /\ machine' = machine /\ arrays' = arrays /\ at' = at
      /\ unique_short_locators' = unique_short_locators
      BY DEF Firmware!ReadSocket
<1>2. /\ machine \in MemMachines /\ arrays \in Seq(ArrRec) /\ Len(arrays) = NumArrays
      /\ at = 0 /\ at \in 0 .. NumSockets /\ Summed(0) /\ SocketsRead /\ Apart(0)
      BY <1>1 DEF FirmInv, Reading
<1>3. Summed(0)' /\ Apart(0)' /\ NumArrays' = NumArrays /\ NumSockets' = NumSockets /\ ArrRec' = ArrRec
      BY <1>1, <1>2, SameSums, SameTables
<1>4. NumSockets \in Nat /\ NumArrays \in Nat
      BY <1>2, TablesOf
<1>5. CASE Len(sockets) < Len(machine.sockets)
  <2> DEFINE n == Len(sockets) + 1
             S == {Sock(i) : i \in 1 .. NumSockets}
  <2>1. sockets' = Append(sockets, Sock(n)) /\ pc' = "sockets"
        BY <1>1, <1>5 DEF Firmware!ReadSocket, Sock
  <2>2. sockets \in Seq(S) /\ \A i \in 1 .. Len(sockets) : sockets[i] = Sock(i)
        BY <1>2 DEF SocketsRead
  <2>3. n \in 1 .. NumSockets
        BY <1>4, <1>5, <2>2 DEF NumSockets
  <2>4. Sock(n) \in S
        BY <2>3
  <2> HIDE DEF S
  <2>5. sockets' \in Seq(S) /\ Len(sockets') = n /\ \A i \in 1 .. n : sockets'[i] = Sock(i)
        BY <2>1, <2>2, <2>4
  <2>6. \A i : Sock(i)' = Sock(i)
        BY <1>1, SameTables
  <2>7. SocketsRead'
        BY <1>3, <2>3, <2>5, <2>6 DEF SocketsRead, S
  <2> QED BY <1>1, <1>2, <1>3, <2>1, <2>7 DEF FirmInv, Reading, Listing
<1>6. CASE ~(Len(sockets) < Len(machine.sockets))
  <2>1. sockets' = sockets /\ pc' = IF Firmware!Empty THEN "total" ELSE "sums"
        BY <1>1, <1>6 DEF Firmware!ReadSocket
  <2>2. SocketsRead' /\ SocketsFilled' = SocketsFilled
        BY <1>1, <1>2, <2>1, SameSums
  <2>3. Len(sockets) = NumSockets
    <3>1. Len(sockets) <= NumSockets /\ Len(sockets) \in Nat
          BY <1>2 DEF SocketsRead
    <3> QED BY <1>4, <1>6, <3>1 DEF NumSockets
  <2>4. CASE Firmware!Empty
    <3>1. Len(sockets) = 0
          BY <2>4 DEF Firmware!Empty
    <3>2. NumSockets = 0
          BY <2>3, <3>1
    <3>3. SocketsFilled
      <4>1. DOMAIN sockets = 1 .. 0
            BY <2>4 DEF Firmware!Empty
      <4> QED BY <3>2, <4>1 DEF SocketsFilled
    <3>4. Summed(NumSockets)' /\ Apart(NumSockets)'
      <4>1. NumSockets' = 0
            BY <1>3, <3>2
      <4> QED BY <1>3, <4>1
    <3> QED BY <1>1, <1>2, <1>3, <2>1, <2>2, <2>4, <3>3, <3>4 DEF FirmInv, Reading, Listing
  <2>5. CASE ~Firmware!Empty
        BY <1>1, <1>2, <1>3, <2>1, <2>2, <2>3, <2>5 DEF FirmInv, Reading, Listing
  <2> QED BY <2>4, <2>5
<1> QED BY <1>5, <1>6

(* What a socket of RAM changes of its array. *)
LEMMA RamAdded ==
  ASSUME NEW a \in ArrRec, NEW x \in Nat, NEW y \in Nat, NEW t, t \subseteq Firmware!RamTypes
  PROVE  [a EXCEPT !.present = x, !.populated = y, !.types = t] \in ArrRec
<1> DEFINE b == [a EXCEPT !.present = x]
           c == [b EXCEPT !.populated = y]
           d == [c EXCEPT !.types = t]
<1>1. b \in ArrRec
      BY DEF ArrRec
<1> HIDE DEF b
<1>2. c \in ArrRec
      BY <1>1 DEF ArrRec
<1> HIDE DEF c
<1>3. d \in ArrRec
      BY <1>2 DEF ArrRec
<1> QED BY <1>3 DEF b, c, d

(* One socket more is summed up. *)
LEMMA SumSocketKeeps == ASSUME FirmInv, Firmware!SumSocket PROVE FirmInv'
<1>0. PICK k : k = at + 1
      OBVIOUS
<1> DEFINE s == sockets[k]
<1>1. /\ pc = "sums" /\ at < Len(sockets) /\ at' = k /\ machine' = machine /\ sockets' = sockets /\ pc' = "sums"
      /\ unique_short_locators' = (unique_short_locators /\ ~Firmware!Duplicate(k))
      /\ arrays' = [i \in DOMAIN arrays |->
           IF i \in Firmware!FindArray(s.array) THEN Firmware!Added(arrays[i], s) ELSE arrays[i]]
      BY <1>0 DEF Firmware!SumSocket
<1>2. /\ machine \in MemMachines /\ arrays \in Seq(ArrRec) /\ Len(arrays) = NumArrays /\ Len(sockets) = NumSockets
      /\ at \in 0 .. NumSockets /\ Summed(at) /\ SocketsRead /\ Apart(at)
      BY <1>1 DEF FirmInv, Reading
<1>3. SocketsRead' /\ NumArrays' = NumArrays /\ NumSockets' = NumSockets /\ ArrRec' = ArrRec
      BY <1>1, <1>2, SameSums, SameTables
<1>4. NumSockets \in Nat /\ NumArrays \in Nat /\ k \in 1 .. NumSockets /\ k - 1 = at /\ DOMAIN arrays = 1 .. NumArrays
      BY <1>0, <1>1, <1>2, TablesOf
<1>5. \A j \in 1 .. NumSockets : sockets[j] = Sock(j)
      BY <1>2 DEF SocketsRead
<1>6. s = Sock(k)
      BY <1>4, <1>5
<1> HIDE DEF s
<1>7. Apart(k)'
  <2>1. \A j : Sock(j)' = Sock(j)
        BY <1>1, SameTables
  <2>2. ASSUME unique_short_locators', NEW i \in 1 .. k, NEW j \in i + 1 .. NumSockets
        PROVE  Sock(j).short # Sock(i).short
    <3>1. unique_short_locators /\ ~Firmware!Duplicate(k)
          BY <1>1, <2>2
    <3>2. CASE i = k
      <4>1. k \in 1 .. NumSockets /\ j \in k + 1 .. Len(sockets) /\ j \in 1 .. NumSockets
            BY <1>2, <1>4, <3>2
      <4>2. sockets[j].short # sockets[k].short
            BY <3>1, <4>1 DEF Firmware!Duplicate
      <4> QED BY <1>5, <3>2, <4>1, <4>2
    <3>3. CASE i # k
      <4>1. i \in 1 .. at
            BY <1>2, <1>4, <3>3
      <4> QED BY <1>2, <3>1, <4>1 DEF Apart
    <3> QED BY <3>2, <3>3
  <2> QED BY <1>3, <2>1, <2>2 DEF Apart
<1>8. ASSUME NEW i \in 1 .. NumArrays
      PROVE  /\ arrays'[i] \in ArrRec
             /\ arrays'[i].handle = Arr(i).handle /\ arrays'[i].max = Arr(i).max /\ arrays'[i].main = Arr(i).main
             /\ arrays'[i].present = Ram(i, k) /\ arrays'[i].rom = Rom(i, k) /\ arrays'[i].populated = Modules(i, k)
  <2> DEFINE a == arrays[i]
  <2>1. /\ a \in ArrRec /\ a.handle = Arr(i).handle /\ a.max = Arr(i).max /\ a.main = Arr(i).main
        /\ a.present = Ram(i, k - 1) /\ a.rom = Rom(i, k - 1) /\ a.populated = Modules(i, k - 1)
        BY <1>2, <1>4 DEF Summed
  <2>2. i \in Firmware!FindArray(s.array) <=> s.array = Arr(i).handle
    <3>1. \A j \in 1 .. NumArrays : arrays[j].handle = Arr(j).handle
          BY <1>2 DEF Summed
    <3>2. \A j \in 1 .. NumArrays : Arr(j).handle = Arr(i).handle => j = i
          BY <1>2, TablesOf, ArrFacts
    <3>3. \A j \in 1 .. i - 1 : arrays[j].handle # Arr(i).handle
          BY <1>4, <3>1, <3>2
    <3> QED BY <1>4, <3>1, <3>3 DEF Firmware!FindArray
  <2>3. arrays'[i] = IF s.array = Arr(i).handle THEN Firmware!Added(a, s) ELSE a
        BY <1>1, <1>4, <2>2
  <2>4. /\ s.MiB \in Nat /\ s.types \subseteq Firmware!RamTypes
        BY <1>2, <1>4, <1>6, SockFacts
  <2> HIDE DEF a
  <2>5. CASE s.array # Arr(i).handle
    <3>1. Ram(i, k) = Ram(i, k - 1) /\ Rom(i, k) = Rom(i, k - 1) /\ Modules(i, k) = Modules(i, k - 1)
          BY <1>2, <1>4, <1>6, <2>5, SumStep
    <3> QED BY <2>1, <2>3, <2>5, <3>1
  <2>6. CASE s.array = Arr(i).handle /\ s.rom
    <3>1. Ram(i, k) = Ram(i, k - 1) /\ Modules(i, k) = Modules(i, k - 1) /\ Rom(i, k) = Rom(i, k - 1) + s.MiB
          BY <1>2, <1>4, <1>6, <2>6, SumStep
    <3>2. arrays'[i] = [a EXCEPT !.rom = a.rom + s.MiB]
          BY <2>3, <2>6 DEF Firmware!Added
    <3>3. a.rom \in Nat
          BY <2>1 DEF ArrRec
    <3> QED BY <2>1, <2>4, <3>1, <3>2, <3>3 DEF ArrRec
  <2>7. CASE s.array = Arr(i).handle /\ ~s.rom
    <3> DEFINE one == IF s.populated THEN 1 ELSE 0
    <3>1. /\ Ram(i, k) = Ram(i, k - 1) + s.MiB /\ Rom(i, k) = Rom(i, k - 1)
          /\ Modules(i, k) = Modules(i, k - 1) + one
          BY <1>2, <1>4, <1>6, <2>7, SumStep
    <3>2. arrays'[i] = [a EXCEPT !.present = a.present + s.MiB, !.populated = a.populated + one,
                                 !.types = a.types \cup s.types]
          BY <2>3, <2>7 DEF Firmware!Added
    <3>3. one \in Nat /\ a.present \in Nat /\ a.populated \in Nat /\ a.types \cup s.types \in SUBSET Firmware!RamTypes
          BY <2>1, <2>4 DEF ArrRec
    <3> HIDE DEF one
    <3>4. arrays'[i] \in ArrRec
      <4> DEFINE x == a.present + s.MiB
                 y == a.populated + one
                 t == a.types \cup s.types
      <4>1. a \in ArrRec /\ x \in Nat /\ y \in Nat
            BY <2>1, <2>4, <3>3
      <4>2. t \subseteq Firmware!RamTypes
            BY <3>3
      <4>3. arrays'[i] = [a EXCEPT !.present = x, !.populated = y, !.types = t]
            BY <3>2, Zenon
      <4> HIDE DEF x, y, t
      <4>4. [a EXCEPT !.present = x, !.populated = y, !.types = t] \in ArrRec
            BY <4>1, <4>2, RamAdded, Zenon
      <4> QED BY <4>3, <4>4, Zenon
    <3>5. /\ arrays'[i].handle = a.handle /\ arrays'[i].max = a.max /\ arrays'[i].main = a.main
          /\ arrays'[i].rom = a.rom /\ arrays'[i].present = a.present + s.MiB /\ arrays'[i].populated = a.populated + one
          BY <2>1, <3>2 DEF ArrRec
    <3> QED BY <2>1, <3>1, <3>4, <3>5
  <2> QED BY <2>5, <2>6, <2>7
<1>9. arrays' \in Seq(ArrRec) /\ Len(arrays') = NumArrays
      BY <1>1, <1>2, <1>4, <1>8
<1>10. Summed(k)'
       BY <1>1, <1>8, <1>9, SameTables DEF Summed
<1> QED BY <1>1, <1>2, <1>3, <1>4, <1>7, <1>9, <1>10 DEF FirmInv, Reading, Listing

(* What a socket does not tell its module may know.                          *)
LEMMA FilledFacts ==
  ASSUME NEW i, NEW e
  PROVE  /\ Firmware!Filled(Sock(i), e).short = Sock(i).short /\ Firmware!Filled(Sock(i), e).full = Sock(i).full
         /\ Firmware!Filled(Sock(i), e).mfgr = IF Sock(i).mfgr = None THEN e.vendor ELSE Sock(i).mfgr
<1> DEFINE s == Sock(i)
           v == IF s.mfgr = None THEN e.vendor ELSE s.mfgr
           p == IF s.partno = None THEN e.partno ELSE s.partno
<1>1. DOMAIN s = {"array", "short", "full", "says", "MiB", "populated", "rom", "types", "mfgr", "partno"}
      BY DEF Sock, Firmware!NewSocket
<1>2. Firmware!Filled(s, e) = [s EXCEPT !.mfgr = v, !.partno = p]
      BY DEF Firmware!Filled
<1> HIDE DEF s, v, p
<1>3. Firmware!Filled(s, e).short = s.short /\ Firmware!Filled(s, e).full = s.full /\ Firmware!Filled(s, e).mfgr = v
      BY <1>1, <1>2
<1> QED BY <1>3 DEF s, v

LEMMA FillKeeps == ASSUME FirmInv, Firmware!FillFromSpd PROVE FirmInv'
<1>1. /\ pc = "sums" /\ at = Len(sockets) /\ pc' = "total" /\ machine' = machine /\ arrays' = arrays
      /\ unique_short_locators' = unique_short_locators
      /\ sockets' = [i \in DOMAIN sockets |->
           IF machine.matched[i] = None THEN sockets[i]
           ELSE Firmware!Filled(sockets[i], machine.spd[machine.matched[i]])]
      BY DEF Firmware!FillFromSpd
<1>2. /\ machine \in MemMachines /\ arrays \in Seq(ArrRec) /\ Len(arrays) = NumArrays /\ Len(sockets) = NumSockets
      /\ Summed(at) /\ SocketsRead /\ Apart(at)
      BY <1>1 DEF FirmInv, Reading
<1>3. Summed(NumSockets)' /\ Apart(NumSockets)'
  <2>1. at = NumSockets
        BY <1>1, <1>2
  <2>2. PICK k : k = at
        OBVIOUS
  <2>3. Summed(k)' /\ Apart(k)'
        BY <1>1, <1>2, <2>2, SameSums
  <2>4. NumSockets' = k
        BY <1>1, <2>1, <2>2, SameTables
  <2> QED BY <2>3, <2>4
<1>4. NumArrays' = NumArrays /\ NumSockets' = NumSockets /\ ArrRec' = ArrRec
      BY <1>1, SameTables
<1>5. DOMAIN sockets = 1 .. NumSockets /\ \A i \in 1 .. NumSockets : sockets[i] = Sock(i)
      BY <1>2 DEF SocketsRead
<1>6. ASSUME NEW i \in 1 .. NumSockets
      PROVE  sockets'[i].short = Sock(i).short /\ sockets'[i].full = Sock(i).full /\ sockets'[i].mfgr = MakerOf(i)
  <2>1. sockets'[i] = IF machine.matched[i] = None THEN Sock(i)
                      ELSE Firmware!Filled(Sock(i), machine.spd[machine.matched[i]])
        BY <1>1, <1>5
  <2>2. CASE machine.matched[i] = None
        BY <2>1, <2>2 DEF MakerOf
  <2>3. CASE machine.matched[i] # None
        BY <2>1, <2>3, FilledFacts DEF MakerOf
  <2> QED BY <2>2, <2>3
<1>7. SocketsFilled'
  <2>1. DOMAIN sockets' = 1 .. NumSockets
        BY <1>1, <1>5
  <2> QED BY <1>1, <1>4, <1>6, <2>1, SameTables DEF SocketsFilled
<1> QED BY <1>1, <1>2, <1>3, <1>4, <1>7 DEF FirmInv, Reading, Listing

(* The memory of the system is as it should be. *)
LEMMA TotalRight ==
  ASSUME machine \in MemMachines, arrays \in Seq(ArrRec), Len(arrays) = NumArrays, Summed(NumSockets)
  PROVE  /\ Firmware!MainMiB = MainSum
         /\ Firmware!Empty => MainSum = 0 /\ Firmware!SpdMiB = 0
<1>1. NumArrays \in Nat /\ DOMAIN machine.arrays = 1 .. NumArrays /\ DOMAIN arrays = 1 .. NumArrays
      BY TablesOf
<1>2. \A i \in 1 .. NumArrays : /\ arrays[i].main = Firmware!IsMain(machine.arrays[i])
                                /\ arrays[i].present = Firmware!Held(RamOf(i))
      BY ArrFacts, SumEnds DEF Summed
<1> DEFINE Mains == {i \in DOMAIN machine.arrays : Firmware!IsMain(machine.arrays[i])}
           f == [i \in Firmware!Main |-> arrays[i].present]
           g == [i \in Mains |-> Firmware!Held(RamOf(i))]
<1>3. Firmware!Main = Mains /\ Mains \subseteq 1 .. NumArrays
      BY <1>1, <1>2 DEF Firmware!Main
<1> HIDE DEF Mains
<1>4. f = g
      BY <1>2, <1>3
<1>5. Firmware!MainMiB = Firmware!Sum(f) /\ MainSum = Firmware!Sum(g)
      BY Zenon DEF Firmware!MainMiB, MainSum, Mains
<1>6. ASSUME Firmware!Empty PROVE MainSum = 0 /\ Firmware!SpdMiB = 0
  <2>1. arrays = <<>> /\ machine.spd = <<>>
        BY <1>6 DEF Firmware!Empty
  <2>2. DOMAIN g = {}
        BY <1>1, <1>3, <2>1
  <2> DEFINE e == [i \in DOMAIN machine.spd |-> machine.spd[i].MiB]
  <2>3. DOMAIN e = {}
        BY <2>1
  <2>4. Firmware!SpdMiB = Firmware!Sum(e)
        BY Zenon DEF Firmware!SpdMiB
  <2> HIDE DEF e, g
  <2> QED BY <1>5, <2>2, <2>3, <2>4, SumNone
<1> HIDE DEF f, g
<1> QED BY <1>4, <1>5, <1>6

LEMMA TotalKeeps == ASSUME FirmInv, Firmware!Total PROVE FirmInv'
<1> DEFINE MiB == IF Firmware!Empty THEN (IF machine.tree = None THEN 0 ELSE machine.tree.MiB)
                  ELSE IF Firmware!MainMiB # 0 THEN Firmware!MainMiB ELSE Firmware!SpdMiB
<1>1. /\ pc = "total" /\ pc' = "list" /\ machine' = machine /\ arrays' = arrays /\ sockets' = sockets
      /\ unique_short_locators' = unique_short_locators
      BY DEF Firmware!Total
<1>2. system_memory'.MiB = IF MiB = 0 THEN Firmware!OnlineMiB ELSE MiB
      BY DEF Firmware!Total
<1>3. /\ machine \in MemMachines /\ arrays \in Seq(ArrRec) /\ Len(arrays) = NumArrays
      /\ Summed(NumSockets) /\ Apart(NumSockets) /\ SocketsFilled
      BY <1>1 DEF FirmInv, Reading
<1>4. /\ Firmware!MainMiB = MainSum
      /\ Firmware!Empty => MainSum = 0 /\ Firmware!SpdMiB = 0
      BY <1>3, TotalRight
<1> DEFINE dt == IF Firmware!Empty /\ machine.tree # None THEN machine.tree.MiB ELSE 0
<1>5. MiB = CASE MainSum # 0                                      -> MainSum
              [] MainSum = 0 /\ Firmware!SpdMiB # 0               -> Firmware!SpdMiB
              [] MainSum = 0 /\ Firmware!SpdMiB = 0 /\ dt # 0 -> dt
              [] MainSum = 0 /\ Firmware!SpdMiB = 0 /\ dt = 0 -> 0
      BY <1>4
<1>6. (MiB = 0) = (MainSum = 0 /\ Firmware!SpdMiB = 0 /\ dt = 0)
      BY <1>4
<1> HIDE DEF MiB, dt
<1>7. system_memory'.MiB =
        CASE MainSum # 0                                      -> MainSum
          [] MainSum = 0 /\ Firmware!SpdMiB # 0               -> Firmware!SpdMiB
          [] MainSum = 0 /\ Firmware!SpdMiB = 0 /\ dt # 0 -> dt
          [] MainSum = 0 /\ Firmware!SpdMiB = 0 /\ dt = 0 -> Firmware!OnlineMiB
      BY <1>2, <1>5, <1>6
<1>8. MemoryRight'
  <2>1. Firmware!Empty' = Firmware!Empty
        BY <1>1 DEF Firmware!Empty
  <2> QED BY <1>1, <1>7, <2>1, SameTables DEF MemoryRight, dt
<1>9. /\ Summed(NumSockets)' /\ Apart(NumSockets)' /\ SocketsFilled' /\ NumArrays' = NumArrays /\ ArrRec' = ArrRec
      BY <1>1, <1>3, SameSums, SameTables
<1> QED BY <1>1, <1>3, <1>8, <1>9 DEF FirmInv, Reading, Listing

(* What is listed: the arrays, their sockets, and then what else there is.   *)
LEMMA ListKeeps == ASSUME FirmInv, Firmware!List PROVE FirmInv'
<1>1. /\ pc = "list" /\ pc' = "modules" /\ at' = 0 /\ machine' = machine /\ arrays' = arrays /\ sockets' = sockets
      /\ unique_short_locators' = unique_short_locators /\ system_memory' = system_memory
      /\ sketchy_info' = (\E i \in DOMAIN arrays : arrays[i].max < arrays[i].present)
      BY DEF Firmware!List
<1>2. /\ machine \in MemMachines /\ arrays \in Seq(ArrRec) /\ Len(arrays) = NumArrays
      /\ Summed(NumSockets) /\ Apart(NumSockets) /\ SocketsFilled /\ MemoryRight
      BY <1>1 DEF FirmInv, Reading
<1>3. /\ Summed(NumSockets)' /\ Apart(NumSockets)' /\ SocketsFilled' /\ NumArrays' = NumArrays /\ ArrRec' = ArrRec
      /\ NumSockets' = NumSockets
      BY <1>1, <1>2, SameSums, SameTables, Zenon
<1>4. MemoryRight' /\ RowsOf' = RowsOf
      BY <1>1, <1>2, SameRows
<1>5. NumSockets \in Nat /\ NumArrays \in Nat /\ DOMAIN arrays = 1 .. NumArrays /\ DOMAIN sockets = 1 .. NumSockets
      BY <1>2, TablesOf DEF SocketsFilled
<1> DEFINE as == [i \in DOMAIN arrays |-> Firmware!ArrayRow(arrays[i])]
           ss == [i \in DOMAIN sockets |-> Firmware!SocketRow(sockets[i])]
<1>6. rows' = as \o ss \o Firmware!Summary
      BY Zenon DEF Firmware!List
<1>7. /\ as \in Seq(RowsOf) /\ Len(as) = NumArrays /\ \A i \in 1 .. NumArrays : as[i] = Firmware!ArrayRow(arrays[i])
  <2>1. \A i \in 1 .. NumArrays : Firmware!ArrayRow(arrays[i]) \in RowsOf
        BY DEF RowsOf
  <2> QED BY <1>5, <2>1
<1>8. /\ ss \in Seq(RowsOf) /\ Len(ss) = NumSockets /\ \A i \in 1 .. NumSockets : ss[i] = Firmware!SocketRow(sockets[i])
  <2>1. \A i \in 1 .. NumSockets : Firmware!SocketRow(sockets[i]) \in RowsOf
        BY DEF RowsOf
  <2> QED BY <1>5, <2>1
<1> HIDE DEF as, ss
<1>9. Firmware!Summary \in Seq(RowsOf)
  <2>1. PICK r : Firmware!Summary = IF arrays = <<>> /\ machine.spd # <<>> THEN <<r>> ELSE <<>>
        BY Zenon DEF Firmware!Summary
  <2>2. CASE arrays = <<>> /\ machine.spd # <<>>
    <3>1. Firmware!Summary = <<r>>
          BY <2>1, <2>2
    <3>2. Firmware!Summary[1] \in RowsOf
      <4>1. 1 \in DOMAIN Firmware!Summary
            BY <3>1
      <4> QED BY <4>1 DEF RowsOf
    <3> QED BY <3>1, <3>2
  <2>3. CASE ~(arrays = <<>> /\ machine.spd # <<>>)
        BY <2>1, <2>3
  <2> QED BY <2>2, <2>3
<1>10. /\ rows' \in Seq(RowsOf) /\ Len(rows') >= NumArrays + NumSockets
       /\ \A i \in 1 .. NumArrays : rows'[i] = as[i]
       /\ \A i \in 1 .. NumSockets : rows'[NumArrays + i] = ss[i]
  <2> DEFINE m == Firmware!Summary
             t == as \o ss
  <2>1. /\ t \in Seq(RowsOf) /\ Len(t) = NumArrays + NumSockets
        /\ \A i \in 1 .. NumArrays + NumSockets : t[i] = IF i <= NumArrays THEN as[i] ELSE ss[i - NumArrays]
        BY <1>7, <1>8, ConcatProperties, Zenon
  <2> HIDE DEF m, t
  <2>2. m \in Seq(RowsOf) /\ Len(m) \in Nat
        BY <1>9 DEF m
  <2>3. /\ t \o m \in Seq(RowsOf) /\ Len(t \o m) = Len(t) + Len(m)
        /\ \A i \in 1 .. Len(t) + Len(m) : (t \o m)[i] = IF i <= Len(t) THEN t[i] ELSE m[i - Len(t)]
        BY <2>1, <2>2, ConcatProperties, Zenon
  <2>4. rows' = t \o m
        BY <1>6 DEF t, m
  <2>5. Len(rows') >= NumArrays + NumSockets
        BY <1>5, <2>1, <2>2, <2>3, <2>4
  <2>6. \A i \in 1 .. NumArrays + NumSockets : rows'[i] = t[i]
        BY <1>5, <2>1, <2>2, <2>3, <2>4
  <2>7. ASSUME NEW i \in 1 .. NumArrays PROVE rows'[i] = as[i]
    <3>1. i \in 1 .. NumArrays + NumSockets /\ i <= NumArrays
          BY <1>5
    <3>2. rows'[i] = t[i]
          BY <2>6, <3>1, Zenon
    <3>3. t[i] = as[i]
          BY <2>1, <3>1, Zenon
    <3> QED BY <3>2, <3>3
  <2>8. ASSUME NEW i \in 1 .. NumSockets PROVE rows'[NumArrays + i] = ss[i]
    <3>1. NumArrays + i \in 1 .. NumArrays + NumSockets /\ ~(NumArrays + i <= NumArrays) /\ (NumArrays + i) - NumArrays = i
          BY <1>5
    <3>2. rows'[NumArrays + i] = t[NumArrays + i]
          BY <2>6, <3>1, Zenon
    <3>3. t[NumArrays + i] = ss[i]
          BY <2>1, <3>1, Zenon
    <3> QED BY <3>2, <3>3
  <2> QED BY <2>3, <2>4, <2>5, <2>7, <2>8, Zenon
<1>11. RowsListed'
  <2>1. \A i \in 1 .. NumArrays : rows'[i] = Firmware!ArrayRow(arrays[i])
        BY <1>7, <1>10, Zenon
  <2>2. \A i \in 1 .. NumSockets : rows'[NumArrays + i] = Firmware!SocketRow(sockets[i])
        BY <1>8, <1>10
  <2>3. \A a : Firmware!ArrayRow(a)' = Firmware!ArrayRow(a)
        BY DEF Firmware!ArrayRow
  <2>4. \A s : Firmware!SocketRow(s)' = Firmware!SocketRow(s)
        BY <1>1, Zenon DEF Firmware!SocketRow
  <2> QED BY <1>1, <1>3, <1>4, <1>10, <2>1, <2>2, <2>3, <2>4 DEF RowsListed
<1>12. Sketchy'
       BY <1>1, <1>3, <1>5 DEF Sketchy
<1> QED BY <1>1, <1>2, <1>3, <1>4, <1>11, <1>12 DEF FirmInv, Reading, Listing

LEMMA ListModuleKeeps == ASSUME FirmInv, Firmware!ListModule PROVE FirmInv'
<1>1. /\ pc = "modules" /\ machine' = machine /\ arrays' = arrays /\ sockets' = sockets
      /\ unique_short_locators' = unique_short_locators /\ system_memory' = system_memory
      /\ sketchy_info' = sketchy_info
      BY DEF Firmware!ListModule
<1>2. \/ /\ pc' = "modules" /\ at' = at + 1
         /\ \/ rows' = rows
            \/ rows' = Append(rows, Firmware!ModuleRow(at'))
      \/ pc' = "listed" /\ at' = at /\ rows' = rows
      BY <1>1, Zenon DEF Firmware!ListModule
<1>3. /\ machine \in MemMachines /\ arrays \in Seq(ArrRec) /\ Len(arrays) = NumArrays /\ at \in Nat
      /\ Summed(NumSockets) /\ Apart(NumSockets) /\ SocketsFilled /\ MemoryRight /\ RowsListed /\ Sketchy
      BY <1>1 DEF FirmInv, Reading, Listing
<1>4. /\ Summed(NumSockets)' /\ Apart(NumSockets)' /\ SocketsFilled' /\ NumArrays' = NumArrays /\ ArrRec' = ArrRec
      /\ NumSockets' = NumSockets
      BY <1>1, <1>3, SameSums, SameTables, Zenon
<1>5. MemoryRight' /\ Sketchy' /\ (rows' = rows => RowsListed')
      BY <1>1, <1>3, SameRows, Zenon
<1>6. NumSockets \in Nat /\ NumArrays \in Nat
      BY <1>3, TablesOf
<1>7. ASSUME rows' = Append(rows, Firmware!ModuleRow(at')), at' = at + 1 PROVE RowsListed'
  <2> DEFINE r == Firmware!ModuleRow(at')
  <2>1. r \in RowsOf
    <3>1. at' \in Nat
          BY <1>3, <1>7
    <3> QED BY <3>1 DEF RowsOf
  <2>2. rows' = Append(rows, r)
        BY <1>7
  <2> HIDE DEF r
  <2>3. rows \in Seq(RowsOf) /\ Len(rows) >= NumArrays + NumSockets
        BY <1>3 DEF RowsListed
  <2>4. rows' \in Seq(RowsOf) /\ Len(rows') = Len(rows) + 1 /\ \A i \in 1 .. Len(rows) : rows'[i] = rows[i]
        BY <2>1, <2>2, <2>3
  <2>5. Len(rows') >= NumArrays + NumSockets
        BY <1>6, <2>3, <2>4
  <2>6. \A i \in 1 .. NumArrays : rows'[i] = Firmware!ArrayRow(arrays[i])
    <3>1. \A i \in 1 .. NumArrays : rows[i] = Firmware!ArrayRow(arrays[i]) /\ i \in 1 .. Len(rows)
          BY <1>3, <1>6, <2>3 DEF RowsListed
    <3> QED BY <2>4, <3>1
  <2>7. \A i \in 1 .. NumSockets : rows'[NumArrays + i] = Firmware!SocketRow(sockets[i])
    <3>1. \A i \in 1 .. NumSockets : rows[NumArrays + i] = Firmware!SocketRow(sockets[i]) /\ NumArrays + i \in 1 .. Len(rows)
          BY <1>3, <1>6, <2>3 DEF RowsListed
    <3> QED BY <2>4, <3>1
  <2>8. \A a : Firmware!ArrayRow(a)' = Firmware!ArrayRow(a)
        BY DEF Firmware!ArrayRow
  <2>9. \A s : Firmware!SocketRow(s)' = Firmware!SocketRow(s)
        BY <1>1, Zenon DEF Firmware!SocketRow
  <2>10. RowsOf' = RowsOf
         BY <1>1, SameRows
  <2> QED BY <1>1, <1>4, <2>4, <2>5, <2>6, <2>7, <2>8, <2>9, <2>10 DEF RowsListed
<1>8. RowsListed' /\ pc' \in {"modules", "listed"} /\ at' \in Nat
      BY <1>2, <1>3, <1>5, <1>7
<1> QED BY <1>1, <1>3, <1>4, <1>5, <1>8 DEF FirmInv, Reading, Listing

LEMMA HinoteKeeps == ASSUME FirmInv, Firmware!Hinote PROVE FirmInv'
<1>1. /\ pc = "listed" /\ pc' = "done" /\ machine' = machine /\ arrays' = arrays /\ sockets' = sockets
      /\ unique_short_locators' = unique_short_locators /\ system_memory' = system_memory
      /\ sketchy_info' = sketchy_info /\ rows' = rows
      BY DEF Firmware!Hinote
<1>2. /\ machine \in MemMachines /\ arrays \in Seq(ArrRec) /\ Len(arrays) = NumArrays
      /\ Summed(NumSockets) /\ Apart(NumSockets) /\ SocketsFilled /\ MemoryRight /\ RowsListed /\ Sketchy
      BY <1>1 DEF FirmInv, Reading, Listing
<1>3. /\ Summed(NumSockets)' /\ Apart(NumSockets)' /\ SocketsFilled' /\ NumArrays' = NumArrays /\ ArrRec' = ArrRec
      BY <1>1, <1>2, SameSums, SameTables
<1>4. MemoryRight' /\ Sketchy' /\ RowsListed'
      BY <1>1, <1>2, SameRows
<1>5. sketchy_info' => note' # None
  <2>1. note' = IF ~Firmware!BestState THEN "sources" ELSE IF sketchy_info THEN "sketchy" ELSE None
        BY Zenon DEF Firmware!Hinote
  <2>2. None \notin {"sources", "sketchy"}
        BY MemAssumption, Zenon
  <2> QED BY <1>1, <2>1, <2>2
<1> QED BY <1>1, <1>2, <1>3, <1>4, <1>5 DEF FirmInv, Reading, Listing

LEMMA FirmStep == ASSUME FirmInv, Firmware!Next PROVE FirmInv'
BY ReadArrayKeeps, ReadSocketKeeps, SumSocketKeeps, FillKeeps, TotalKeeps, ListKeeps, ListModuleKeeps, HinoteKeeps,
   Zenon DEF Firmware!Next

LEMMA FirmStutter == ASSUME FirmInv, UNCHANGED Firmware!vars PROVE FirmInv'
<1>1. /\ machine' = machine /\ pc' = pc /\ arrays' = arrays /\ sockets' = sockets /\ at' = at
      /\ unique_short_locators' = unique_short_locators /\ system_memory' = system_memory /\ rows' = rows
      /\ sketchy_info' = sketchy_info /\ note' = note
      BY DEF Firmware!vars
<1>2. /\ NumArrays' = NumArrays /\ NumSockets' = NumSockets /\ ArrRec' = ArrRec
      /\ SocketsRead' = SocketsRead /\ SocketsFilled' = SocketsFilled
      BY <1>1, SameSums, SameTables
<1>3. Summed(at)' = Summed(at) /\ Apart(at)' = Apart(at)
  <2>1. PICK k : k = at
        OBVIOUS
  <2> QED BY <1>1, <2>1, SameSums
<1>4. Summed(NumSockets)' = Summed(NumSockets) /\ Apart(NumSockets)' = Apart(NumSockets)
  <2>1. PICK k : k = NumSockets
        OBVIOUS
  <2> QED BY <1>1, <1>2, <2>1, SameSums
<1>5. RowsListed' = RowsListed /\ Sketchy' = Sketchy /\ MemoryRight' = MemoryRight
      BY <1>1, SameRows
<1> QED BY <1>1, <1>2, <1>3, <1>4, <1>5 DEF FirmInv, Reading, Listing

(* Once all is listed, the arrays have what their sockets have.              *)
LEMMA WorthLemma ==
  ASSUME NEW n \in Nat, NEW unit, unit = "GiB" => Firmware!InGiB(n)
  PROVE  LET size == Firmware!In(unit, n) IN (IF size.unit = "GiB" THEN 1024 * size.n ELSE size.n) = n
<1>1. unit = "GiB" => n % 1024 = 0
      BY DEF Firmware!InGiB
<1>2. n % 1024 = 0 => 1024 * (n \div 1024) = n
      OBVIOUS
<1>3. CASE unit = "GiB"
      BY <1>1, <1>2, <1>3 DEF Firmware!In
<1>4. CASE unit # "GiB"
      BY <1>4 DEF Firmware!In
<1> QED BY <1>3, <1>4

(* The two modules count the members of a set alike. *)
LEMMA CountAlike == ASSUME NEW S PROVE Firmware!Cardinality(S) = Cardinality(S)
BY DEF Firmware!Cardinality, Cardinality

LEMMA AddUp == ASSUME FirmInv PROVE Firmware!ArraysAddUp
<1> SUFFICES ASSUME pc = "done" PROVE Firmware!ArraysAddUp
    BY Zenon DEF Firmware!ArraysAddUp
<1>1. /\ machine \in MemMachines /\ arrays \in Seq(ArrRec) /\ Len(arrays) = NumArrays
      /\ Summed(NumSockets) /\ MemoryRight /\ RowsListed /\ Sketchy /\ (sketchy_info => note # None)
      BY DEF FirmInv, Reading, Listing
<1>2. NumArrays \in Nat /\ DOMAIN arrays = 1 .. NumArrays
      BY <1>1, TablesOf
<1> DEFINE Worth(size) == IF size.unit = "GiB" THEN 1024 * size.n ELSE size.n
<1>3. ASSUME NEW i \in DOMAIN arrays
      PROVE  LET a == arrays[i] IN
               /\ a.present = Firmware!Held(Firmware!RamIn(a.handle)) /\ a.rom = Firmware!Held(Firmware!RomIn(a.handle))
               /\ a.populated = Firmware!Cardinality(Firmware!RamIn(a.handle))
               /\ Worth(rows[i].size) = a.present /\ Worth(rows[i].max) = a.max /\ Worth(rows[i].rom) = a.rom
               /\ a.max < a.present => note # None
  <2> DEFINE a == arrays[i]
  <2>1. i \in 1 .. NumArrays /\ a \in ArrRec
        BY <1>1, <1>2
  <2>2. a.present \in Nat /\ a.max \in Nat /\ a.rom \in Nat
        BY <2>1 DEF ArrRec
  <2>3. a.handle = machine.arrays[i].handle
        BY <1>1, <2>1, ArrFacts DEF Summed
  <2>4. /\ a.present = Firmware!Held(RamOf(i)) /\ a.rom = Firmware!Held(RomOf(i))
        /\ a.populated = Cardinality(RamOf(i))
        BY <1>1, <2>1, SumEnds DEF Summed
  <2>5. RamOf(i) = Firmware!RamIn(a.handle) /\ RomOf(i) = Firmware!RomIn(a.handle)
        BY <2>3 DEF RamOf, RomOf
  <2>6. rows[i] = Firmware!ArrayRow(a)
        BY <1>1, <2>1 DEF RowsListed
  <2>7. a.max < a.present => note # None
        BY <1>1, <2>1 DEF Sketchy
  <2> HIDE DEF a
  <2> DEFINE unit == IF Firmware!InGiB(a.max) /\ Firmware!InGiB(a.present) THEN "GiB" ELSE "MiB"
             other == IF Firmware!InGiB(a.rom) THEN "GiB" ELSE "MiB"
  <2>8. /\ rows[i].size = Firmware!In(unit, a.present) /\ rows[i].max = Firmware!In(unit, a.max)
        /\ rows[i].rom = Firmware!In(other, a.rom)
        BY <2>6 DEF Firmware!ArrayRow, Firmware!Size
  <2>9. /\ unit = "GiB" => Firmware!InGiB(a.max) /\ Firmware!InGiB(a.present)
        /\ other = "GiB" => Firmware!InGiB(a.rom)
        OBVIOUS
  <2> HIDE DEF unit, other
  <2>10. Worth(rows[i].size) = a.present
         BY <2>2, <2>8, <2>9, WorthLemma
  <2>11. Worth(rows[i].max) = a.max
         BY <2>2, <2>8, <2>9, WorthLemma
  <2>12. Worth(rows[i].rom) = a.rom
         BY <2>2, <2>8, <2>9, WorthLemma
  <2>13. a.populated = Firmware!Cardinality(Firmware!RamIn(a.handle))
         BY <2>4, <2>5, CountAlike
  <2> HIDE DEF Worth
  <2> QED BY <2>4, <2>5, <2>7, <2>10, <2>11, <2>12, <2>13 DEF a
<1> DEFINE main == Firmware!Sum([i \in {i \in DOMAIN machine.arrays : Firmware!IsMain(machine.arrays[i])} |->
                                  Firmware!Held(Firmware!RamIn(machine.arrays[i].handle))])
           dt == IF Firmware!Empty /\ machine.tree # None THEN machine.tree.MiB ELSE 0
<1>4. main = MainSum
      BY Zenon DEF MainSum, RamOf
<1> HIDE DEF main
<1>5. system_memory.MiB =
        CASE main # 0                                      -> main
          [] main = 0 /\ Firmware!SpdMiB # 0               -> Firmware!SpdMiB
          [] main = 0 /\ Firmware!SpdMiB = 0 /\ dt # 0 -> dt
          [] main = 0 /\ Firmware!SpdMiB = 0 /\ dt = 0 -> Firmware!OnlineMiB
      BY <1>1, <1>4 DEF MemoryRight
<1> HIDE DEF dt
<1> QED BY <1>3, <1>5, Zenon DEF Firmware!ArraysAddUp, main, dt

(* The names of two sockets whose banks are known to differ.                 *)
LEMMA BankInName ==
  ASSUME NEW i, machine.sockets[i].bank \notin {None} \cup Firmware!NoBank
  PROVE  Sock(i).full[2] = machine.sockets[i].bank
<1> DEFINE s == machine.sockets[i]
           bank == Firmware!Told(s.bank, Firmware!NoBank)
           short == <<Firmware!ArrayLocator(Firmware!ArrayOf(s)), s.locator>>
<1>1. bank = s.bank /\ bank # None
      BY DEF Firmware!Told
<1>2. Sock(i).full = IF bank = None THEN short ELSE <<short[1], bank, short[2]>>
      BY DEF Sock, Firmware!NewSocket
<1> HIDE DEF s, bank, short
<1>3. Sock(i).full[2] = bank
      BY <1>1, <1>2
<1> QED BY <1>1, <1>3 DEF s

LEMMA AllTold == ASSUME FirmInv PROVE Firmware!SocketsAreTold
<1> SUFFICES ASSUME pc = "done" PROVE Firmware!SocketsAreTold
    BY Zenon DEF Firmware!SocketsAreTold
<1>1. /\ machine \in MemMachines /\ Len(arrays) = NumArrays
      /\ Apart(NumSockets) /\ SocketsFilled /\ RowsListed
      BY DEF FirmInv, Reading, Listing
<1>2. NumSockets \in Nat /\ DOMAIN sockets = 1 .. NumSockets
      BY <1>1, TablesOf DEF SocketsFilled
<1>3. ASSUME NEW i \in 1 .. NumSockets
      PROVE  /\ rows[Len(arrays) + i].name = IF unique_short_locators THEN Sock(i).short ELSE Sock(i).full
             /\ rows[Len(arrays) + i].mfgr = MakerOf(i)
  <2>1. rows[Len(arrays) + i] = Firmware!SocketRow(sockets[i])
        BY <1>1 DEF RowsListed
  <2>2. sockets[i].short = Sock(i).short /\ sockets[i].full = Sock(i).full /\ sockets[i].mfgr = MakerOf(i)
        BY <1>1 DEF SocketsFilled
  <2>3. /\ Firmware!SocketRow(sockets[i]).name = IF unique_short_locators THEN sockets[i].short ELSE sockets[i].full
        /\ Firmware!SocketRow(sockets[i]).mfgr = sockets[i].mfgr
        BY DEF Firmware!SocketRow
  <2> QED BY <2>1, <2>2, <2>3
<1>4. ASSUME NEW i \in 1 .. NumSockets, NEW j \in 1 .. NumSockets,
             machine.sockets[i].bank # machine.sockets[j].bank,
             {machine.sockets[i].bank, machine.sockets[j].bank} \cap ({None} \cup Firmware!NoBank) = {}
      PROVE  rows[Len(arrays) + i].name # rows[Len(arrays) + j].name
  <2>1. i # j
        BY <1>4
  <2>2. CASE unique_short_locators
    <3>1. Sock(i).short # Sock(j).short
      <4>1. CASE i < j
        <5>1. j \in i + 1 .. NumSockets
              BY <1>2, <4>1
        <5> QED BY <1>1, <2>2, <5>1 DEF Apart
      <4>2. CASE j < i
        <5>1. i \in j + 1 .. NumSockets
              BY <1>2, <4>2
        <5> QED BY <1>1, <2>2, <5>1 DEF Apart
      <4> QED BY <2>1, <4>1, <4>2
    <3> QED BY <1>3, <2>2, <3>1
  <2>3. CASE ~unique_short_locators
    <3>1. machine.sockets[i].bank \notin {None} \cup Firmware!NoBank /\ machine.sockets[j].bank \notin {None} \cup Firmware!NoBank
          BY <1>4
    <3>2. Sock(i).full[2] = machine.sockets[i].bank /\ Sock(j).full[2] = machine.sockets[j].bank
          BY <3>1, BankInName
    <3> QED BY <1>3, <1>4, <2>3, <3>2
  <2> QED BY <2>2, <2>3
<1> DEFINE First(told, e) == IF told # None THEN told
                             ELSE IF machine.matched[e] = None THEN None ELSE machine.spd[machine.matched[e]].vendor
<1>5. ASSUME NEW i \in 1 .. NumSockets, machine.sockets[i].says # Firmware!NoModule
      PROVE  rows[Len(arrays) + i].mfgr = First(Firmware!Maker(machine.sockets[i]), i)
  <2>1. Sock(i).populated /\ Sock(i).mfgr = Firmware!Maker(machine.sockets[i])
        BY <1>1, <1>5, SockFacts
  <2>2. rows[Len(arrays) + i].mfgr = MakerOf(i)
        BY <1>3
  <2>3. MakerOf(i) = First(Sock(i).mfgr, i)
        BY Zenon DEF MakerOf
  <2> HIDE DEF First
  <2> QED BY <2>1, <2>2, <2>3
<1> QED BY <1>2, <1>4, <1>5, Zenon DEF Firmware!SocketsAreTold

(* Of the memory, both of what the chips and of what the firmware tell.      *)
MemoryInv == (live = "spd" => SpdInv) /\ (live = "arrays" => FirmInv)

LEMMA MemoryStart == PInit => MemoryInv
<1> SUFFICES ASSUME PInit PROVE MemoryInv
    OBVIOUS
<1>1. (live = "spd" => Spd!Init) /\ (live = "arrays" => Firmware!Init)
      BY Zenon DEF PInit
<1> QED BY <1>1, SpdStart, FirmStart, Zenon DEF MemoryInv

LEMMA MemoryStep == MemoryInv /\ [PNext]_all => MemoryInv'
<1> SUFFICES ASSUME MemoryInv, [PNext]_all PROVE MemoryInv'
    OBVIOUS
<1>1. CASE PNext
  <2>1. Resting
        BY <1>1, Zenon DEF PNext
  <2>2. live' = live
        BY <2>1, Zenon DEF Resting
  <2>3. CASE live = "spd"
    <3>1. Spd!Next
          BY <1>1, <2>3 DEF PNext
    <3> QED BY <2>2, <2>3, <3>1, SpdStep DEF MemoryInv
  <2>4. CASE live = "arrays"
    <3>1. Firmware!Next
          BY <1>1, <2>4 DEF PNext
    <3> QED BY <2>2, <2>4, <3>1, FirmStep DEF MemoryInv
  <2>5. CASE live \notin {"spd", "arrays"}
        BY <2>2, <2>5 DEF MemoryInv
  <2> QED BY <2>3, <2>4, <2>5
<1>2. CASE UNCHANGED all
  <2>1. live' = live /\ UNCHANGED Spd!vars /\ UNCHANGED Firmware!vars
        BY <1>2 DEF all, Spd!vars, Spd!flags, Firmware!vars, its
  <2> QED BY <2>1, SpdStutter, FirmStutter DEF MemoryInv
<1> QED BY <1>1, <1>2

(* A memory module shows only what was read of it, an array has what its     *)
(* sockets have, the system what its arrays have, and sockets are told apart *)
(* and have the makers that the tables or their own modules name, for any    *)
(* tables whose arrays have handles of their own and any drivers that give   *)
(* a chip whole or not at all.                                               *)
THEOREM ChipsForAll == PSpec => []ChipsAreRead
<1>1. MemoryInv => ChipsAreRead
      BY SpdRight, AddUp, AllTold, Zenon DEF MemoryInv, ChipsAreRead
<1> QED BY <1>1, MemoryStart, MemoryStep, PTL DEF PSpec

=============================================================================
