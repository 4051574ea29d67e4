------------------------------ MODULE MCInputs ------------------------------
(***************************************************************************)
(* What the components of Parts meet: small sets of machines, files and   *)
(* requests, each chosen so that every way through the code is taken.      *)
(* Every set varies one or two things about an ordinary case.              *)
(***************************************************************************)
EXTENDS DmiMemory, SequencesExt, FiniteSets, TLC

-----------------------------------------------------------------------------
(* DmiMemory: three sockets, one of them perhaps empty, and three modules,  *)
(* so that a socket can be displaced twice.                                 *)
Chip(p, z, v) == [partno |-> p, size |-> z, vendor |-> v]
Chips == {Chip(p, 1, v) : p \in {1, 2}, v \in {1, None}} \cup {Chip(2, 2, 1)}
Socket(chip) == [populated |-> TRUE] @@ chip
Slots == {Socket(c) : c \in Chips \cup {Chip(None, 1, 1)}}
         \cup {[populated |-> FALSE] @@ Chip(None, 0, None)}
MemInventory ==
  {[socket |-> s, spd |-> m] : s \in [1 .. 3 -> Slots], m \in {m \in [1 .. 3 -> Chips] : m[1] = Chip(1, 1, 1)}}
-----------------------------------------------------------------------------
(* SpdScan: modules of each kind, some cut short, some known to udev.       *)
Eeprom(t, z) == [type |-> t, size |-> z, named |-> FALSE]
Eeproms ==
  {Eeprom(t, 256) : t \in {"SDR", "DDR3", "EDO"}}
  \cup {Eeprom("DDR4", 512), Eeprom("DDR3", 0), [Eeprom("DDR2", 256) EXCEPT !.named = TRUE]}
Dirs == {None, <<>>} \cup {<<e>> : e \in Eeproms}
Line(id, t) == [id |-> id, type |-> t]
SpdDrivers == {"ee1004", "at24", "eeprom", "eeprom-proc"}
MCSpdMachines ==
  [udev : {<<>>}, loaded : BOOLEAN, dir : {d \in [SpdDrivers -> Dirs] : d["at24"] \in {None, <<>>, <<Eeprom("DDR3", 256)>>}}]
  \cup [udev : [1 .. 3 -> {Line(0, "DDR4"), Line(1, None), Line(1, "DDR4")}], loaded : {TRUE}, dir : {[d \in SpdDrivers |-> None]}]
-----------------------------------------------------------------------------
(* MemoryTables: a main array and one of flash, either of which may be      *)
(* missing; two sockets, empty, full or unknown; with and without modules.  *)
Array(h, use, loc, max) == [handle |-> h, use |-> use, location |-> loc, max |-> max]
Mains == {Array("0x1", "System Memory", "Board", max) : max \in {2048, 6144}} \cup {Array("0x1", "Other", "System Board Or Motherboard", 6144)}
Flashes == {Array("0x2", "Flash Memory", "Board", 0)}
Arrays == {<<>>} \cup {<<m>> : m \in Mains} \cup {<<m, f>> : m \in Mains, f \in Flashes}
Slot(b, l, words, MiB, type, mfgr, id, partno) ==
  [bank |-> b, locator |-> l, says |-> words, MiB |-> MiB, type |-> type, mfgr |-> mfgr, id |-> id, partno |-> partno]
FirstSlots ==
  {Slot(b, "DIMM0", "4 GB", 4096, "DDR4", mfgr, "Unknown", "M1") : b \in {None, "BANK 0"}, mfgr \in {"Kingston", "80CE"}}
  \cup {Slot("BANK 0", "DIMM0", "No Module Installed", 0, None, None, None, None),
        Slot("BANK 0", "DIMM0", None, 0, "Unknown", "Unknown", "Hynix", "PartNum0"),
        Slot("BANK 0", "DIMM0", "Unknown", 0, "Unknown", "FFFF", None, None)}
SecondSlots ==
  {Slot("BANK 1", l, "2 GB", 2048, type, "Manufacturer1", id, "PartNum1") : l \in {"DIMM0", "DIMM1"}, type \in {"DDR3", "ROM"}, id \in {None, "Unknown"}}
  \cup {Slot("Not Specified", "DIMM1", "No Module Installed", 0, None, None, None, None)}
SlotPairs == {<<>>} \cup {<<a>> : a \in FirstSlots} \cup {<<a, b>> : a \in FirstSlots, b \in SecondSlots}
InArrays(slots, h) == [i \in DOMAIN slots |-> [array |-> IF i = 1 THEN "0x1" ELSE h] @@ slots[i]]
SpdModule(MiB, type, v, p) == [MiB |-> MiB, type |-> type, vendor |-> v, partno |-> p]
SpdModules == {<<>>, <<SpdModule(4096, "DDR3", "Samsung", "M1"), SpdModule(0, None, None, None)>>}
Matched(slots, modules) ==
  [i \in DOMAIN slots |-> IF i \in DOMAIN modules /\ slots[i].says # "No Module Installed" THEN i ELSE None]
Sources == {[root |-> r, at24 |-> TRUE, ee1004 |-> e, partial |-> p, tree |-> None, block |-> 128, online |-> 3] :
              r \in BOOLEAN, e \in BOOLEAN, p \in BOOLEAN}
Known(as, s, h, m, sources) == [arrays |-> as, sockets |-> InArrays(s, h), spd |-> m, matched |-> Matched(s, m)] @@ sources
WithTree == [root |-> FALSE, at24 |-> FALSE, ee1004 |-> FALSE, partial |-> FALSE,
             tree |-> [MiB |-> 512, type |-> "DDR2"], block |-> 128, online |-> 3]
MCMemMachines ==
  {Known(as, s, h, m, CHOOSE o \in Sources : o.root /\ ~o.partial) : as \in Arrays, s \in SlotPairs, h \in {"Unknown", "0x1", "0x2"}, m \in SpdModules}
  \cup {Known(as, <<a>>, "0x1", m, o) : as \in Arrays, a \in FirstSlots, m \in SpdModules, o \in Sources}
  \cup {Known(<<>>, s, None, m, WithTree) : s \in {<<>>} \cup {<<a>> : a \in FirstSlots}, m \in SpdModules}
-----------------------------------------------------------------------------
(* Udisks: two drives and a loop, and a partition that is a block device    *)
(* too, listed in any order, by UDisks2 or by /sys; or a UDisks2 that does  *)
(* not answer.                                                              *)
Path(n) == [dir |-> "block_devices", name |-> n]
Partitioned == [partition |-> FALSE, loop |-> FALSE, drive |-> "d1", table |-> "gpt",
                partitions |-> <<Path("sda1"), [dir |-> "drives", name |-> "d1"], Path("sda2")>>]
Bare(drive) == [partition |-> FALSE, loop |-> FALSE, drive |-> drive, table |-> None, partitions |-> <<>>]
Blocks(drive) ==
  [sda |-> Partitioned, sdb |-> Bare(drive), sda1 |-> [Bare("d1") EXCEPT !.partition = TRUE], loop0 |-> [Bare("/") EXCEPT !.loop = TRUE]]
Attribute(unit, pretty) == [unit |-> unit, pretty |-> pretty]
Attributes == <<Attribute(1, 5), Attribute(2, 3600000), Attribute(2, 7200000), Attribute(3, 9), Attribute(4, 272500), Attribute(4, 310150), Attribute(0, 1)>>
Drive(m, enabled, t, as, wwn) ==
  [model |-> m, smart_enabled |-> enabled, temperature |-> t, attributes |-> as, wwn |-> wwn, media |-> IF enabled THEN "" ELSE "optical"]
Wwns == {None, [kind |-> "0x", id |-> "5"], [kind |-> "eui.", id |-> "5"], [kind |-> "other", id |-> "5"]}
Orders == {<<"sda", "sda1", "sdb", "loop0">>, <<"loop0", "sdb", "sda1", "sda">>}
Unheard == [listed |-> None, blocks |-> [b \in {} |-> Bare("/")]]
Answering ==
  {[there |-> r, listed |-> l, sysfs |-> <<"sdb", "sr0", "sda">>, blocks |-> Blocks(b),
    parts |-> [sda1 |-> [label |-> label, size |-> 7]],
    drives |-> [d1 |-> Drive("A", e, t, IF e THEN Attributes ELSE None, w), d2 |-> Drive("B", TRUE, 29815, None, None)]] :
     r \in BOOLEAN, l \in {None, <<>>} \cup Orders, b \in {None, "/", "d1", "d2"}, label \in {"", "root"}, e \in BOOLEAN,
     t \in {None, 27250, 31865}, w \in Wwns}
MCBuses == Answering \cup {Unheard @@ bus : bus \in {a \in Answering : a.there}}
-----------------------------------------------------------------------------
(* Sections: two devices that come and go between two scans.                *)
MCSecScanned == {"pci", "usb", "gpu", "input", "printers", "monitors", "storage", "modules", "users", "languages",
               "filesystems", "network"}
-----------------------------------------------------------------------------
(* Startup: dependencies in a ring, and one file or another that is broken. *)
MCModWeight == [computer |-> 80, devices |-> 85, network |-> 160, benchmark |-> 240]
MCModDeps == [computer |-> <<"devices">>, devices |-> <<"computer">>, network |-> <<>>, benchmark |-> <<"devices">>]
MCModRequests ==
  [r : BOOLEAN, b : BOOLEAN, l : BOOLEAN, a : BOOLEAN, f : {"text", "html", "shell"},
   m : {None, {"computer"}, {"benchmark"}, {"network", "devices"}}, broken : {{}, {"devices"}, {"network"}}]
-----------------------------------------------------------------------------
(* BenchResults: a benchmark where less is better and one where more is, and *)
(* results before, among and after the others, or none.                     *)
MCBenchOrder == [fib |-> "asc", zlib |-> "desc"]
Value(r, v, e, n) == [result |-> r, threads |-> 2, revision |-> v, extra |-> e, note |-> n]
MCBenchMeasured ==
  UNION {{Value(1, -1, None, n), Value(3, 2, "x", n), Value(-1, -1, None, n), Value(5, 0, None, n)} : n \in {None, "n"}}
Result(r) == [BenchmarkResult |-> r, UsedThreads |-> 1]
MCBenchFiles == {<<>>, <<Result(2)>>} \cup {[i \in 1 .. 4 |-> Result(f[i])] : f \in {<<2, 2, 4, 4>>, <<4, 2, 3, 3>>, <<2, 3, 4, 6>>}}
MCBenchAsked == {-1, 0, 2, 3}
-----------------------------------------------------------------------------
(* InfoText: one group, sorted or not, or two; every field with and without *)
(* a tag, a flag, an icon and an interval.                                  *)
Field(t, n, fl, i, iv) == [tag |-> t, name |-> n, flags |-> fl, icon |-> i, interval |-> iv]
Fields(n) ==
  {Field(t, n, fl, i, iv) : t \in {None, <<"t", n>>}, fl \in {{}, {"!"}}, i \in {None, "i"}, iv \in {0, 1}}
Group(s, fs) == [sorted |-> s, fields |-> fs]
MCInfos ==
  {<<Group(s, <<a, b>>)>> : s \in BOOLEAN, a \in Fields(2), b \in Fields(1)}
  \cup {<<Group(FALSE, <<a>>), Group(FALSE, <<b, Field(<<"x">>, n, {}, "j", iv)>>)>> :
          a \in Fields(1), n \in {1, 3}, iv \in {0, 1}, b \in {Field(None, 2, {"!"}, None, 0), Field(<<"t", 2>>, 2, {}, "i", 1)}}
-----------------------------------------------------------------------------
(* Report: a module without entries between two with some.                  *)
Row(p, d, w) == [parts |-> p, details |-> d, wants |-> w]
Entry(h, c, rs) == [hidden |-> h, columns |-> c, rows |-> rs]
MCRepTree ==
  <<<<Entry(FALSE, {"Extra1"}, <<Row(3, 2, TRUE), Row(2, None, FALSE)>>), Entry(FALSE, {}, <<Row(2, 1, FALSE)>>)>>,
    <<>>,
    <<Entry(TRUE, {}, <<Row(1, None, FALSE)>>),
      Entry(FALSE, {"Extra1", "Extra2"}, <<Row(1, 1, FALSE), Row(4, None, TRUE)>>)>>>>
-----------------------------------------------------------------------------
(* CpuInfo: of each architecture the keys of a real file: those up to the    *)
(* line a processor begins with, and the rest; a key that begins with the    *)
(* text of another is cut there.                                             *)
CpuSamples == [
  x86 |-> <<<<<<"processor">>>>,
    <<<<"vendor_id">>, <<"cpu", "family">>, <<"model">>, <<"model", "name">>, <<"stepping">>,
      <<"microcode">>, <<"cpu", "MHz">>, <<"cache", "size">>, <<"fdiv_bug">>, <<"hlt_bug">>,
      <<"f00f_bug">>, <<"coma_bug">>, <<"fpu">>, <<"fpu", "_exception">>, <<"flags">>, <<"bugs">>,
      <<"bogomips">>, <<"power", "management">>>>>>,
  e2k |-> <<<<<<"processor">>>>,
    <<<<"vendor_id">>, <<"cpu", "family">>, <<"model">>, <<"model", "name">>, <<"revision">>,
      <<"cpu", "MHz">>, <<"bogomips">>>>>>,
  arm |-> <<<<<<"Processor">>, <<"processor">>>>,
    <<<<"model", "name">>, <<"BogoMIPS">>, <<"Features">>, <<"CPU", "implementer">>,
      <<"CPU", "architecture">>, <<"CPU", "variant">>, <<"CPU", "part">>, <<"CPU", "revision">>>>>>,
  ppc |-> <<<<<<"processor">>>>,
    <<<<"cpu">>, <<"clock">>, <<"revision">>, <<"BogoMIPS">>>>>>,
  parisc |-> <<<<<<"processor">>>>,
    <<<<"cpu", "family">>, <<"cpu">>, <<"cpu", "MHz">>, <<"model">>, <<"model", "name">>,
      <<"hversion">>, <<"sversion">>, <<"I-cache">>, <<"D-cache">>, <<"bogomips">>>>>>,
  ia64 |-> <<<<<<"processor">>>>,
    <<<<"vendor">>, <<"arch">>, <<"family">>, <<"model">>, <<"model", "name">>, <<"revision">>,
      <<"arch", "rev">>, <<"features">>, <<"cpu", "number">>, <<"cpu", "regs">>, <<"cpu", "MHz">>,
      <<"BogoMIPS">>>>>>,
  riscv |-> <<<<<<"hart">>>>,
    <<<<"isa">>, <<"mmu">>, <<"uarch">>>>>>,
  s390 |-> <<<<<<"vendor_id">>, <<"#", "processors">>, <<"bogomips", "per", "cpu">>, <<"processor", " 0">>>>,
    <<>>>>,
  alpha |-> <<<<>>,
    <<<<"cpu">>, <<"cpu", "model">>, <<"cpu", "variation">>, <<"cpu", "revision">>, <<"system", "type">>,
      <<"cycle", "frequency", "[Hz]">>, <<"BogoMIPS">>, <<"platform", "string">>>>>>,
  loongarch64 |-> <<<<<<"system", "type">>, <<"processor">>>>,
    <<<<"CPU", "Family">>, <<"Model", "Name">>, <<"CPU", "Revision">>, <<"FPU", "Revision">>,
      <<"CPU", "MHz">>, <<"BogoMIPS">>, <<"Features">>>>>>,
  m68k |-> <<<<>>,
    <<<<"CPU">>, <<"MMU">>, <<"FPU">>, <<"Clocking">>, <<"BogoMips">>, <<"Calibration">>>>>>,
  mips |-> <<<<<<"system", "type">>, <<"processor">>>>,
    <<<<"cpu", "model">>, <<"BogoMIPS">>, <<"cpu", "MHz">>>>>>,
  sh |-> <<<<<<"machine">>, <<"processor">>>>,
    <<<<"cpu", "family">>, <<"cpu", "type">>, <<"bogomips">>, <<"cpu", "clock">>, <<"bus", "clock">>,
      <<"module", "clock">>>>>>,
  sparc |-> <<<<>>,
    <<<<"cpu">>, <<"fpu">>, <<"pmu">>, <<"ncpus", "probed">>, <<"cpu", "caps">>>>>>]
Begin(a) == CpuSamples[a][1]
Rest(a) == CpuSamples[a][2]
Text(keys) == [n \in 1 .. Len(keys) |-> [key |-> keys[n], value |-> n]]
Without(keys, dropped) == SelectSeq(keys, LAMBDA k : k \notin dropped)
Drops(a) == {{}} \cup {{k} : k \in ToSet(Rest(a))} \cup {ToSet(Rest(a))}
ManyCpus == {"x86", "e2k", "arm", "ppc", "parisc", "ia64", "riscv", "s390"}
Again(a) == IF Begin(a) = <<>> THEN <<>> ELSE <<Last(Begin(a))>>
CpuFile(a, keys) == [arch |-> a, lines |-> Text(keys)]
MCCpuFiles ==
  UNION {{CpuFile(a, Begin(a) \o Without(Rest(a), dropped)) : dropped \in Drops(a)} : a \in DOMAIN CpuSamples}
  \cup UNION {{CpuFile(a, Without(Begin(a), {k}) \o Rest(a)) : k \in ToSet(Begin(a))} : a \in {"arm", "mips", "sh", "loongarch64"}}
  \cup {CpuFile("arm", <<<<"Processor">>>> \o Without(Rest("arm"), {<<"model", "name">>}))}
  \cup UNION {{CpuFile(a, Begin(a) \o Without(Rest(a), first) \o Again(a) \o Without(Rest(a), second)) :
                 first \in Drops(a), second \in {{}} \cup {{k} : k \in ToSet(Rest(a))}} : a \in ManyCpus}
-----------------------------------------------------------------------------
(* CpuSummary: four names; three clocks; two caches of two levels for each of *)
(* two processors; and packages, cores and nodes that may be unknown.         *)
Clock(l, max, min) == [shared_list |-> l, max |-> max, min |-> min]
Cache(s, t, l, z, u, sh) == [phy_sock |-> s, type |-> t, level |-> l, size |-> z, uid |-> u, shared_cpu_list |-> sh]
Topo(p, c) == [pack |-> p, core |-> c]
PlainCpus ==
  [names |-> <<1, 2, 1>>, clocks |-> <<Clock(1, 2, 1)>>, caches |-> << <<>> >>, present |-> << <<0, 1>> >>, nodes |-> None,
   topology |-> [i \in 0 .. 2 |-> Topo(i % 2, 0)]]
L1(u, l) == Cache(0, 1, 1, 32, u, l)
L2(s, u) == Cache(s, 2, 2, 64, u, 12)
Unknown == -1
MCCpuMachines ==
  {[PlainCpus EXCEPT !.names = ns] : ns \in [1 .. 4 -> 1 .. 3]}
  \cup {[PlainCpus EXCEPT !.clocks = cs] :
          cs \in [1 .. 3 -> {Clock(1, 2, 1), Clock(2, 2, 1), Clock(2, 3, 1), Clock(3, 2, 1), Clock(3, 0, 0)}]}
  \cup {[PlainCpus EXCEPT !.caches = << <<L1(u[1], 1), L2(0, u[2])>>, <<L1(u[3], 2), L2(s, u[4])>> >>] :
          u \in [1 .. 4 -> {Unknown, 0, 1}], s \in {0, 1}}
  \cup {[PlainCpus EXCEPT !.present = p, !.topology[1] = t, !.nodes = ns] :
          p \in {<< <<0, 1>> >>, << <<0, 0>>, <<2, 2>> >>}, ns \in {<< <<0, 1>> >>, None},
          t \in {Topo(Unknown, Unknown), Topo(0, 1), Topo(1, 0), Topo(0, 3), Topo(0, 4)}}
-----------------------------------------------------------------------------
(* Expr: terms of up to three operators, written with no more parentheses    *)
(* than they need, and texts that are no formulas.                           *)
MCExprOperators == {"^", "*", "/", "+", "-"}
Leaf == {<<"@">>, <<"1">>}
Zero == <<"zero">>
Small == {<<o, <<"@">>, <<"1">>>> : o \in MCExprOperators}
Terms ==
  {<<o, a, b>> : o \in MCExprOperators, a \in Leaf \cup Small, b \in Leaf \cup Small}
  \cup {<<o, <<p, <<"@">>, s>>, <<"@">>>> : o \in MCExprOperators, p \in MCExprOperators, s \in Small}
  \cup {<<"-", Zero, t>> : t \in {<<"1">>} \cup {<<o, <<"@">>, <<"1">>>> : o \in {"*", "^"}}}
Rank == ("^" :> 3) @@ ("*" :> 2) @@ ("/" :> 2) @@ ("+" :> 1) @@ ("-" :> 1)
Paren(when, s) == IF when THEN <<"(">> \o s \o <<")">> ELSE s
RECURSIVE Written(_, _)
Written(t, gap) ==
  IF t = Zero THEN <<>> ELSE IF Len(t) = 1 THEN t
  ELSE Paren(Len(t[2]) = 3 /\ Rank[t[2][1]] < Rank[t[1]], Written(t[2], gap)) \o gap \o <<t[1]>>
       \o Paren(Len(t[3]) = 3 /\ Rank[t[3][1]] <= Rank[t[1]], Written(t[3], gap))
MCFormulas ==
  {[text |-> Written(t, gap), means |-> t] : t \in Terms, gap \in {<<>>, <<" ">>}}
  \cup {[text |-> t, means |-> None] : t \in {<<"1", "-", "1">>, <<"@", ")", "1">>, <<"-", "-", "@">>, <<"@", "ln">>,
                                            <<"@", "+", "(">>, <<"(", "@">>}}
-----------------------------------------------------------------------------
(* Sensors: three files of settings, with lines before the first chip, for    *)
(* chips that are not there and said twice; chips of two directories and of   *)
(* the other sources.                                                         *)
OfChip(c) == [is |-> "chip", chips |-> c]
Setting(k, n, t) == [is |-> k, sensor |-> <<"temp", n>>, to |-> t]
MCSensConfigs ==
  {<<>>,
   <<OfChip({<<"k10">>}), Setting("ignore", 1, None), OfChip({<<"it", "88">>, <<"nct">>}), Setting("label", 1, <<"Board">>),
     Setting("label", 2, <<"B2">>), Setting("label", 2, <<"B3">>), OfChip({<<"it", "87">>}), Setting("label", 1, <<"CPU">>),
     Setting("compute", 1, "f"), Setting("ignore", 2, None), OfChip({<<"k10">>})>>,
   <<Setting("label", 1, <<"early">>), OfChip({<<"nct">>, <<"k10">>}), Setting("ignore", 2, None), Setting("compute", 2, "g"),
     Setting("compute", 2, "h"), OfChip({<<"nct">>}), Setting("label", 1, <<"late">>)>>}
Input(n, v, l) == [type |-> "temp", number |-> n, raw |-> v, label |-> l]
HwmonDir(n, opens, is) == [devname |-> n, opens |-> opens, inputs |-> is]
HwmonDirs(v) ==
  {<<>>, <<HwmonDir(<<"it", "87">>, TRUE, <<Input(1, v, <<"file">>), Input(2, v, None)>>)>>,
   <<HwmonDir(<<"nct">>, TRUE, <<Input(1, v, None), Input(2, v, <<"T2">>)>>),
     HwmonDir(<<"k10">>, TRUE, <<Input(1, v, <<"Tctl">>)>>)>>}
Reading(l) == [group |-> "temp", key |-> <<<<"x">>, l>>, label |-> l, value |-> <<1, None>>]
NoOthers == [o \in {"libsensors", "acpi", "thermal", "omnibook", "windfarm", "hddtemp", "udisks2"} |-> <<>>]
SensMachine(c, w, o, hangs, v) ==
  [hwmon |-> <<c, w>>, others |-> o, silent |-> hangs, meminfo |-> <<[key |-> <<"MemFree">>, value |-> <<v, None>>]>>]
MCSensMachines ==
  {SensMachine(<<>>, w, NoOthers, FALSE, 1) : w \in HwmonDirs(1) \cup HwmonDirs(2)}
  \cup {SensMachine(c, w, NoOthers, FALSE, 2) : c \in HwmonDirs(1), w \in HwmonDirs(1)}
  \cup {SensMachine(<<>>, <<HwmonDir(<<"k10">>, FALSE, <<>>)>>, NoOthers, FALSE, 1), SensMachine(<<>>, <<>>, NoOthers, TRUE, 1)}
  \cup {SensMachine(<<>>, <<>>, [NoOthers EXCEPT ![o] = <<Reading(<<o>>), Reading(<<"two">>)>>], FALSE, 1) : o \in DOMAIN NoOthers}
-----------------------------------------------------------------------------
(* Edid: extensions of each kind, short and full, with a block of codes or    *)
(* two, and descriptors that name the monitor in one way or another.          *)
MCSvdPixels == (16 :> 20) @@ (4 :> 9) @@ (97 :> 80)
EdidBlock(t, l, h) == [type |-> t, len |-> l, has |-> h]
Svds(codes) == EdidBlock("svds", Len(codes), codes)
Sads(n) == EdidBlock("sads", 3 * n, n)
Ending(blocks, header, from) == FoldLeft(LAMBDA e, b : e + header + b.len, from, blocks)
CeaBlocks == {<<>>, <<Sads(2), Svds(<<16, 4>>)>>, <<Svds(<<144, 5>>), EdidBlock("vendor", 5, 0), Svds(<<132>>)>>}
Cea(bs, ds, described) ==
  [is |-> "cea", end |-> IF described THEN Ending(bs, 1, 4) ELSE 0, blocks |-> bs, dtds |-> ds]
Timing(t, p, first) == EdidBlock(t, 20, [pixels |-> p, preferred |-> first])
Cta(bs) == EdidBlock("cta", Ending(bs, 1, 0), bs)
DidBlocks ==
  {<<Timing("I", 30, FALSE), EdidBlock("string", 4, "x")>>,
   <<EdidBlock("product", 17, "did name"), Timing("VI", 10, FALSE), Timing("VII", 12, TRUE), Timing("VII", 25, FALSE)>>,
   <<Cta(<<Sads(1), Svds(<<97>>), EdidBlock("speakers", 3, 7)>>), EdidBlock("serial", 3, "s")>>,
   <<Cta(<<Sads(1), Svds(<<16, 132>>)>>), Timing("I", 8, TRUE), Timing("VI", 8, FALSE), Timing("I", 40, FALSE)>>,
   <<Cta(<<Svds(<<16>>), Svds(<<4>>)>>)>>}
Did(bs, pad) == [is |-> "did", end |-> Ending(bs, 3, 0) + pad, blocks |-> bs, dtds |-> <<>>]
Extensions ==
  {Cea(bs, ds, described) : bs \in CeaBlocks, ds \in {<<>>, <<50, 60>>, <<1, 2, 3, 4, 5, 6, 7>>}, described \in BOOLEAN}
  \cup {Did(bs, pad) : bs \in DidBlocks, pad \in {0, 9}}
  \cup {[is |-> "other", end |-> 0, blocks |-> <<>>, dtds |-> <<>>]}
Says(k, t) == [is |-> k, pixels |-> 0, text |-> t]
Detailed(p) == [is |-> "dtd", pixels |-> p, text |-> None]
Descriptors ==
  {<<Detailed(15), Detailed(7), Says("name", "n1"), Says("serial", "s1")>>,
   <<Says("text", "AUO"), Says("other", "q"), Says("text", "t2"), Says("other", "q")>>,
   <<Says("text", "u"), Says("text", "v"), Says("text", "w"), Detailed(3)>>}
Mode(n, p) == [src |-> n, pixels |-> p, preferred |-> FALSE]
MCEdids ==
  {[sum |-> TRUE, modes |-> ms, d |-> ds, exts |-> es] :
     ms \in {<<>>, <<Mode(1, 5), Mode(2, 19), Mode(2, 11)>>}, ds \in Descriptors, es \in {<<>>} \cup {<<e>> : e \in Extensions}}
  \cup {[sum |-> FALSE, modes |-> <<>>, d |-> ds, exts |-> <<e, f>>] :
          ds \in Descriptors, e \in {e \in Extensions : Len(e.dtds) = 0}, f \in {f \in Extensions : Len(f.dtds) < 7}}
-----------------------------------------------------------------------------
(* DeviceIds: files of names with vendors, devices, subsystems and classes    *)
(* in order, some missing; devices that are known, partly known and unknown.  *)
IdsLine(t, i, n) == [tabs |-> t, id |-> i, name |-> n]
PciIds ==
  <<IdsLine(0, 10, "v10"), IdsLine(1, 1, "d10-1"), IdsLine(2, 1101, "s10-1-11"), IdsLine(1, 3, "d10-3"),
    IdsLine(0, 11, "v11"), IdsLine(1, 1, "d11-1"), IdsLine(1, 2, "d11-2"), IdsLine(2, 1101, "s11-2-11"),
    IdsLine(0, 1003, "c3"), IdsLine(1, 0, "c3-0"), IdsLine(1, 1, "c3-1")>>
PciIdsMin == <<IdsLine(0, 10, "v10"), IdsLine(0, 11, "v11"), IdsLine(0, 1003, "c3")>>
UsbIds ==
  <<IdsLine(0, 20, "u20"), IdsLine(1, 1, "p20-1"), IdsLine(0, 21, "u21"), IdsLine(1, 1, "p21-1"), IdsLine(1, 2, "p21-2"),
    IdsLine(0, 1009, "c9"), IdsLine(1, 0, "c9-0"), IdsLine(2, 1, "c9-0-1"), IdsLine(0, 1010, "c10"), IdsLine(1, 0, "c10-0")>>
MCIdsDatabases ==
  {[pci |-> p, pci_min |-> PciIdsMin, usb |-> u] : p \in {None, PciIds}, u \in {None, UsbIds}}
  \cup {[pci |-> None, pci_min |-> None, usb |-> None]}
Pci(s, c, sc, v, d, sv, sd, st) ==
  [slot |-> s, class |-> c, subclass |-> sc, vendor |-> v, device |-> d, sub_vendor |-> sv, sub_device |-> sd, stays |-> st]
Card == Pci("c", 3, 0, 11, 1, 10, 2, TRUE)
PciCards ==
  {Pci("a", 3, 1, 10, 1, 11, 1, TRUE), Pci("a", 3, 0, 10, 2, 11, 1, TRUE), Pci("a", 2, 0, 12, 1, 10, 1, TRUE),
   Pci("b", 3, 2, 11, 2, 11, 1, TRUE), Pci("b", 3, 2, 11, 3, 12, 1, FALSE)}
Usb(b, d, c, v, p, n, is, t) ==
  [bus |-> b, dev |-> d, class |-> c, vendor |-> v, product |-> p, count |-> n, interfaces |-> is, text |-> t]
Numbered(n) == [is |-> "number", number |-> n]
Named(c) == [is |-> "interface", field |-> "class", name |-> c]
LsusbText ==
  <<[is |-> "device", field |-> "vendor", name |-> "u20"], Numbered(0), Named("c9"), Numbered(1), Named("c10"), Numbered(0), Named("c11")>>
UsbSticks ==
  {Usb(1, 1, <<9, 0, 1>>, 20, 2, 0, <<[number |-> 0, class |-> <<9, 0, 0>>]>>, LsusbText),
   Usb(1, 2, <<9, 1, 1>>, 21, 1, 1, <<[number |-> 1, class |-> <<10, 0, 1>>], [number |-> 3, class |-> <<9, 0, 0>>]>>, <<>>),
   Usb(2, 1, <<0, 0, 1>>, 22, 1, 0, <<>>, LsusbText)}
IdsMachine(sysfs, tools, ps, us) == [sysfs |-> sysfs, lspci |-> tools, lsusb |-> tools, pci |-> ps, usb |-> us]
MCIdsMachines ==
  {IdsMachine(TRUE, TRUE, <<p>>, <<>>) : p \in PciCards} \cup {IdsMachine(TRUE, FALSE, <<Card, p>>, <<>>) : p \in PciCards}
  \cup {IdsMachine(s, t, <<Card>>, <<u>>) : s \in BOOLEAN, t \in BOOLEAN, u \in UsbSticks}
  \cup {IdsMachine(s, TRUE, <<>>, us) : s \in BOOLEAN, us \in {us \in UsbSticks \X UsbSticks : us[1] # us[2]}}
  \cup {IdsMachine(TRUE, TRUE, <<>>, us) : us \in SetToSeqs(UsbSticks)}
MCIdsRanges == {{2, 3} \X {0, 1, 2}, {3} \X {0, 1, 2}}
-----------------------------------------------------------------------------
(* Vendors: every rule, with strings that are a part of one another, in       *)
(* parentheses or in two words, and texts in which they stand alone, together *)
(* and inside words.                                                          *)
MCVenLower == ("a" :> "a") @@ ("b" :> "b") @@ ("A" :> "a")
NameIs(n) == [is |-> "name", to |-> n]
ShortIs(n) == [is |-> "name_short", to |-> n]
Match(r, s) == [is |-> "match", rule |-> r, to |-> s]
VenRules == {"word", "word_case", "exact", "prefix", "prefix_case", "suffix", "num_prefix", "num_prefix_case"}
VenStrings == {<<"a">>, <<"a", "b">>, <<"b">>, <<"a", " ", "b">>, <<"(", "a", ")">>}
IdsEntries ==
  {<<NameIs(<<"b", "b", "b">>), Match(r, s), ShortIs(<<"b">>), Match("word", t), NameIs(<<"a", "a">>), Match("prefix_case", <<"a">>)>> :
     r \in VenRules, s \in VenStrings, t \in {<<"b">>, <<"a", "b">>}}
VenEntry(s, r, n, short, url) == [match_string |-> s, rule |-> r, name |-> n, name_short |-> short, url |-> url]
MCVenBuiltin ==
  <<<<<<"a">>, "word", <<"a", "b", "a">>, <<"1", "1">>>>, <<<<"b">>, "word", <<"b", "b">>, <<>>>>,
    <<<<"a", "b">>, "word", <<"b">>, <<"1", "1">>>>>>
MCVenFiles ==
  {[kind |-> "ids", entries |-> es] : es \in IdsEntries \cup {<<>>}} \cup {[kind |-> "none", entries |-> <<>>]}
  \cup {[kind |-> "conf", entries |-> <<VenEntry(s, r, <<"a", "a">>, short, <<"1">>),
                                       VenEntry(<<>>, "word", <<"b">>, <<>>, <<>>),
                                       VenEntry(<<"b">>, "word", <<"b">>, <<>>, <<"1">>)>>] :
          s \in VenStrings, r \in VenRules \ {"suffix"}, short \in {<<>>, <<"1", "1", "1">>, <<"b">>}}
MCVenTexts ==
  {<<"A">>, <<"a", "b">>, <<"a", " ", "b">>, <<"b", "b", " ", "a", "1">>, <<"b", " ", "(", "a", ")">>,
   <<"(", "a", " ", "b", ")", " ", "A", "b">>, <<"a", "1", " ", "A", "1">>, <<"1", " ", "1">>, <<"a", " ", "b", " ", "a", "b">>}
-----------------------------------------------------------------------------
(* LoadGraph: samples of both signs, and of one sign or none for a while.     *)
MCGraphValues == {-1, 0, 1, 3, 7}
-----------------------------------------------------------------------------
(* DeviceTree: a bus with an interrupt controller and a clock, a processor    *)
(* with a table of operating points, and each list of cells as a property of  *)
(* each name: with references to nodes that there are, that there are not and *)
(* that say nothing, whole and cut short.                                     *)
DtNode(p, props) == [parent |-> p, props |-> props]
DtRow(khz) == DtNode("opps", [opp_khz |-> khz, latency |-> khz])
DtCpus ==
  {[latency |-> 5], [operating_points_v2 |-> 5, operating_points |-> 1], [operating_points_v2 |-> 9],
   [operating_points |-> 1, latency |-> 5], [clock_frequency |-> 4]}
DtNodes(cpu, table) == [
  root |-> DtNode("root", [address |-> 1, size |-> 2]),
  soc |-> DtNode("root", [address |-> 1, size |-> 1, phandle |-> 3, interrupt_parent |-> 1]),
  pic |-> DtNode("soc", [phandle |-> 1, interrupt |-> 2, gpio |-> 3, clock |-> 0, address |-> 0]),
  clk |-> DtNode("soc", [phandle |-> 2, clock |-> 1, address |-> 0, size |-> 0]),
  cpu |-> DtNode("root", cpu),
  opps |-> DtNode("cpu", [phandle |-> 5] @@ table),
  slow |-> DtRow(2), fast |-> DtRow(7), off |-> DtNode("opps", [opp_khz |-> 8, disabled |-> 1])]
DtNames ==
  {"reg", "interrupts", "clocks", "gpios", "dmas", "interrupts_extended", "interrupt_parent", "clock_frequency", "phandle", "clock", "serial"}
DtCells == {<<1>>, <<2, 7>>, <<1, 2, 3, 4, 2>>, <<3, 5, 2, 6>>, <<2, 1, 2, 1, 5, 1>>, <<0, 9>>}
DtProp(n, name, cs, odd) == [node |-> n, name |-> name, cells |-> cs, odd |-> odd, text |-> name = "serial" /\ odd = 1]
DtProps ==
  {DtProp("soc", name, cs, 0) : name \in DtNames, cs \in DtCells}
  \cup {DtProp("pic", name, <<2, 1, 2, 1, 5, 1>>, 0) : name \in {"reg", "interrupts", "gpios"}}
  \cup {DtProp("cpu", name, <<1, 2, 3, 4, 5, 6>>, odd) : name \in {"reg", "interrupts", "clocks", "serial", "phandle"}, odd \in {0, 1}}
  \cup {DtProp(n, "reg", <<1, 2, 3>>, 0) : n \in {"clk", "opps"}}
  \cup {DtProp("opps", name, <<>>, 0) : name \in {"reg", "serial"}} \cup {DtProp("cpu", "operating_points_v2", <<5>>, 0)}
DtSymbols == {<<>>, 1 :> "pic" @@ 2 :> "clk" @@ 3 :> None, 2 :> "pic" @@ 4 :> "pic" @@ 7 :> "opps"}
DtTree(cpu, table, ss) ==
  [node |-> DtNodes(cpu, table), props |-> DtProps, aliases |-> 1 :> "pic" @@ 2 :> None, symbols |-> ss]
MCDtTrees ==
  {DtTree([operating_points_v2 |-> 5], [opp_table |-> 1], ss) : ss \in DtSymbols}
  \cup {DtTree(c, [opp_table |-> 1], 2 :> "soc") : c \in DtCpus}
  \cup {DtTree([operating_points_v2 |-> 5], [opp_table |-> 1, disabled |-> 1], 2 :> "soc")}
=============================================================================
