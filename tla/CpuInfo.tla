------------------------------ MODULE CpuInfo ------------------------------
(***************************************************************************)
(* processor_scan() of every architecture (modules/devices/<arch>/         *)
(* processor.c): /proc/cpuinfo read line by line. A line belongs to the    *)
(* first field whose key it begins with, so a key that begins like another *)
(* has to be looked for first; which processor a line tells of depends on  *)
(* the lines before it. Frequencies and topology come from /sys, bugs and  *)
(* capabilities from what was read: they are left out.                     *)
(***************************************************************************)
EXTENDS Integers, Sequences, SequencesExt, FiniteSetsExt

CONSTANTS
  Files,  \* what /proc/cpuinfo may hold: [arch, lines], a line being [key, value];
          \* a key is cut into words, and where another key ends that it begins with
  None

(* What an architecture looks for, in order: a key and the field it is for.  *)
(* Keys in rep are looked for before those that begin a processor and give   *)
(* each processor begun later its first values; begin begins a processor and *)
(* keys in lone one that has no number, and without begin there is one.      *)
Scan(rep, begin, lone, fields) == [rep |-> rep, begin |-> begin, lone |-> lone, fields |-> fields]
Single(fields) == Scan(<<>>, <<>>, {}, fields)

X86 == Scan(<<>>, <<"processor">>, {},
  << <<<<"model", "name">>, "model_name">>, <<<<"vendor_id">>, "vendor_id">>, <<<<"flags">>, "flags">>,
     <<<<"bugs">>, "bugs">>, <<<<"power", "management">>, "pm">>, <<<<"microcode">>, "microcode">>,
     <<<<"cache", "size">>, "cache_size">>, <<<<"cpu", "MHz">>, "cpu_mhz">>, <<<<"bogomips">>, "bogomips">>,
     <<<<"fpu">>, "has_fpu">>, <<<<"fdiv_bug">>, "bug_fdiv">>, <<<<"hlt_bug">>, "bug_hlt">>,
     <<<<"f00f_bug">>, "bug_f00f">>, <<<<"coma_bug">>, "bug_coma">>, <<<<"model">>, "model">>,
     <<<<"cpu", "family">>, "family">>, <<<<"stepping">>, "stepping">> >>)

E2k == Scan(<<>>, <<"processor">>, {},
  << <<<<"model", "name">>, "model_name">>, <<<<"vendor_id">>, "vendor_id">>, <<<<"cpu", "family">>, "family">>,
     <<<<"model">>, "model">>, <<<<"revision">>, "revision">>, <<<<"cpu", "MHz">>, "cpu_mhz">>,
     <<<<"bogomips">>, "bogomips">> >>)

Arm == Scan(<< <<<<"Processor">>, "linux_name">> >>, <<"processor">>, {<<"model", "name">>, <<"Features">>, <<"BogoMIPS">>},
  << <<<<"model", "name">>, "linux_name">>, <<<<"Features">>, "flags">>, <<<<"BogoMIPS">>, "bogomips">>,
     <<<<"CPU", "implementer">>, "cpu_implementer">>, <<<<"CPU", "architecture">>, "cpu_architecture">>,
     <<<<"CPU", "variant">>, "cpu_variant">>, <<<<"CPU", "part">>, "cpu_part">>, <<<<"CPU", "revision">>, "cpu_revision">> >>)

Ppc == Scan(<< <<<<"Processor">>, "model_name">> >>, <<"processor">>, {<<"cpu">>, <<"clock">>, <<"revision">>},
  << <<<<"cpu">>, "model_name">>, <<<<"revision">>, "revision">>, <<<<"clock">>, "cpu_mhz">>, <<<<"BogoMIPS">>, "bogomips">> >>)

Parisc == Scan(<< <<<<"Processor">>, "model_name">> >>, <<"processor">>, {<<"cpu", "family">>, <<"cpu", "MHz">>, <<"cpu">>},
  << <<<<"cpu", "family">>, "cpu_family">>, <<<<"cpu", "MHz">>, "cpu_mhz">>, <<<<"cpu">>, "model_name">>,
     <<<<"bogomips">>, "bogomips">>, <<<<"model", "name">>, "strmodel">>, <<<<"I-cache">>, "icache_str">>,
     <<<<"D-cache">>, "dcache_str">>, <<<<"hversion">>, "hversion">>, <<<<"sversion">>, "sversion">> >>)

Ia64 == Scan(<< <<<<"Processor">>, "model_name">> >>, <<"processor">>, {<<"vendor">>, <<"arch">>, <<"family">>},
  << <<<<"vendor">>, "vendor_id">>, <<<<"arch", "rev">>, "archrev">>, <<<<"arch">>, "arch">>, <<<<"family">>, "family">>,
     <<<<"features">>, "features">>, <<<<"model">>, "model">>, <<<<"revision">>, "revision">>,
     <<<<"BogoMIPS">>, "bogomips">>, <<<<"cpu", "MHz">>, "cpu_mhz">>, <<<<"cpu", "regs">>, "cpu_regs">> >>)

Riscv == Scan(<<>>, <<"hart">>, {<<"mmu">>, <<"isa">>, <<"uarch">>},
  << <<<<"mmu">>, "mmu">>, <<<<"isa">>, "isa">>, <<<<"uarch">>, "uarch">> >>)

(* The number of a processor is in the key here, and its text in the value;  *)
(* how many there are is read and not used.                                  *)
S390 == Scan(<< <<<<"vendor_id">>, "model_name">>, <<<<"bogomips", "per", "cpu">>, "bogomips">> >>, <<"processor">>, {}, <<>>)

Alpha == Single(<< <<<<"cpu", "model">>, "model_name">>, <<<<"BogoMIPS">>, "bogomips">>,
  <<<<"platform", "string">>, "strmodel">>, <<<<"cycle", "frequency", "[Hz]">>, "cycle_frequency_hz_str">> >>)
Loongarch == Single(<< <<<<"system", "type">>, "vendor_id">>, <<<<"CPU", "Family">>, "family">>, <<<<"Model", "Name">>, "model_name">>,
  <<<<"CPU", "Revision">>, "revision">>, <<<<"CPU", "MHz">>, "cpu_mhz">>, <<<<"BogoMIPS">>, "bogomips">>, <<<<"Features">>, "features">> >>)
M68k == Single(<< <<<<"CPU">>, "model_name">>, <<<<"MMU">>, "mmu_name">>, <<<<"FPU">>, "fpu_name">>,
  <<<<"Clocking">>, "cpu_mhz">>, <<<<"BogoMips">>, "bogomips">>, <<<<"Calibration">>, "calibration">> >>)
Mips == Single(<< <<<<"system", "type">>, "vendor_id">>, <<<<"cpu", "model">>, "model_name">>,
  <<<<"cpu", "MHz">>, "cpu_mhz">>, <<<<"BogoMIPS">>, "bogomips">> >>)
Sh == Single(<< <<<<"machine">>, "vendor_id">>, <<<<"cpu", "type">>, "model_name">>, <<<<"cpu", "family">>, "family">>,
  <<<<"cpu", "clock">>, "cpu_mhz">>, <<<<"bus", "clock">>, "bus_mhz">>, <<<<"module", "clock">>, "mod_mhz">>, <<<<"bogomips">>, "bogomips">> >>)
SparcCpuFirst == Single(<< <<<<"cpu">>, "model_name">>, <<<<"cpu", "caps">>, "cpucaps">>, <<<<"fpu">>, "has_fpu">> >>)
Sparc == Single(<< <<<<"cpu", "caps">>, "cpucaps">>, <<<<"cpu">>, "model_name">>, <<<<"fpu">>, "has_fpu">> >>)

Scans == [x86 |-> X86, e2k |-> E2k, arm |-> Arm, ppc |-> Ppc, parisc |-> Parisc, ia64 |-> Ia64, riscv |-> Riscv,
          s390 |-> S390, alpha |-> Alpha, loongarch64 |-> Loongarch, m68k |-> M68k, mips |-> Mips, sh |-> Sh, sparc |-> Sparc]

VARIABLES
  file,
  line,       \* the lines read
  rep,        \* what was read for all processors
  processor,  \* the processor that is being read, or NoProcessor: [id, is]
  procs, pc
vars == <<file, line, rep, processor, procs, pc>>

Arch == Scans[file.arch]
FieldNames == {p[2] : p \in ToSet(Arch.rep) \cup ToSet(Arch.fields)}
Nothing == [f \in FieldNames |-> None]
NoProcessor == [id |-> None, is |-> Nothing]
Begins(l) == Arch.begin # <<>> /\ IsPrefix(Arch.begin, l.key)
TellsOfOne(l) == \E k \in Arch.lone : IsPrefix(k, l.key)

Init ==
  /\ file \in Files
  /\ line = 0 /\ procs = <<>> /\ pc = "read"
  /\ rep = Nothing
  /\ processor = IF Arch.begin = <<>> THEN [id |-> 0, is |-> Nothing] ELSE NoProcessor

(* get_str(), get_int(), get_float(): the first of these keys that key begins with. *)
Matching(keys, key) == {i \in 1 .. Len(keys) : IsPrefix(keys[i][1], key)}
FieldOf(keys, key) == keys[Min(Matching(keys, key))][2]
Get(keys, l, into) == IF Matching(keys, l.key) = {} THEN into ELSE [into EXCEPT ![FieldOf(keys, l.key)] = l.value]

New(id) == [id |-> id, is |-> rep]
Finished == IF processor.id = None THEN procs ELSE Append(procs, processor)

ReadLine ==
  /\ pc = "read" /\ line < Len(file.lines) /\ line' = line + 1
  /\ LET l == file.lines[line + 1]
         is_rep == Matching(Arch.rep, l.key) # {}
         known == IF processor.id = None /\ TellsOfOne(l) THEN New(0) ELSE processor
     IN \/ is_rep /\ rep' = Get(Arch.rep, l, rep) /\ UNCHANGED <<processor, procs>>
        \/ ~is_rep /\ Begins(l) /\ procs' = Finished /\ processor' = New(l.value) /\ UNCHANGED rep
        \/ /\ ~is_rep /\ ~Begins(l)
           /\ processor' = IF known.id = None THEN NoProcessor ELSE [known EXCEPT !.is = Get(Arch.fields, l, @)]
           /\ UNCHANGED <<rep, procs>>
  /\ UNCHANGED <<file, pc>>

EndOfFile ==
  /\ pc = "read" /\ line = Len(file.lines)
  /\ procs' = Finished
  /\ pc' = IF file.arch \in {"arm", "ppc"} THEN "redup" ELSE "done"
  /\ UNCHANGED <<file, line, rep, processor>>

(* What was only written for the last of several processors is given to      *)
(* those before it, the last first. dproc has no value until one is found    *)
(* that has what tells: a processor without it there is compared with        *)
(* whatever is at that address.                                              *)
Tells == IF file.arch = "arm" THEN "flags" ELSE "model_name"
Redup == IF file.arch = "arm"
         THEN {"flags", "cpu_implementer", "cpu_architecture", "cpu_variant", "cpu_part", "cpu_revision"}
         ELSE {"model_name", "revision"}
Later(i) == {j \in i .. Len(procs) : procs[j].is[Tells] # None}
Filled(p, dproc) == [f \in FieldNames |-> IF f \in Redup /\ p.is[f] = None THEN dproc.is[f] ELSE p.is[f]]

Reduplicate ==
  /\ pc = "redup"
  /\ procs' = [i \in 1 .. Len(procs) |->
       IF Later(i) = {} \/ i \in Later(i) THEN procs[i]
       ELSE [procs[i] EXCEPT !.is = Filled(procs[i], procs[Min(Later(i))])]]
  /\ \/ pc' = "done"
     \/ Later(Len(procs)) = {} /\ procs # <<>> /\ pc' = "crash"
  /\ UNCHANGED <<file, line, rep, processor>>

Next == ReadLine \/ EndOfFile \/ Reduplicate

-----------------------------------------------------------------------------
(* What the file says, key by key: where a processor begins, which lines up  *)
(* to n say something of the one that begins at b, and which of all.         *)
BeginsAt(n) ==
  \/ Begins(file.lines[n])
  \/ TellsOfOne(file.lines[n]) /\ \A m \in 1 .. n - 1 : ~Begins(file.lines[m]) /\ ~TellsOfOne(file.lines[m])
Beginnings == IF Arch.begin = <<>> THEN {0} ELSE {n \in 1 .. Len(file.lines) : BeginsAt(n)}

Keys(keys, f) == {keys[k][1] : k \in {k \in 1 .. Len(keys) : keys[k][2] = f}}
OfAll(f, n) == {m \in 1 .. n : file.lines[m].key \in Keys(Arch.rep, f)}
OfOne(b, f, n) ==
  {m \in b .. n : m > 0 /\ file.lines[m].key \in Keys(Arch.fields, f) /\ \A s \in b + 1 .. m : ~BeginsAt(s)}
LastValue(places) == IF places = {} THEN None ELSE file.lines[Max(places)].value
Said(b, f, n) == IF OfOne(b, f, n) # {} THEN LastValue(OfOne(b, f, n)) ELSE LastValue(OfAll(f, b))
Own(b, f) == Said(b, f, Len(file.lines))

(* What was left out since a later processor has the same.                   *)
Full(b) == {s \in Beginnings : b <= s /\ Own(s, Tells) # None}
LeftOut(b, f) ==
  /\ file.arch \in {"arm", "ppc"} /\ f \in Redup /\ Own(b, f) = None
  /\ b \notin Full(b) /\ Full(b) # {}
Meant(b, f) == IF LeftOut(b, f) THEN Own(Min(Full(b)), f) ELSE Own(b, f)

(* Fields whose key other lines begin with too, and which show those. *)
Misread == {<<"x86", "has_fpu">>, <<"ia64", "model">>}

(* There is a processor for each that the file has, in its order, and all   *)
(* that is shown of it is what the lines with exactly these keys say of it:  *)
(* no line is taken for another key's or another processor's, and what was   *)
(* written once for all goes to those it is missing from.                    *)
LinesGoWhereTheyBelong ==
  pc = "done" => \E at \in [1 .. Len(procs) -> Beginnings] :
    /\ \A b \in Beginnings : \E i \in 1 .. Len(procs) : at[i] = b
    /\ \A i, j \in 1 .. Len(procs) : i < j => at[i] < at[j]
    /\ \A i \in 1 .. Len(procs), f \in FieldNames :
         <<file.arch, f>> \in Misread \/ procs[i].is[f] = Meant(at[i], f)

(* Of the keys of a kernel that begin with one that is looked for, these are *)
(* looked for themselves, or the field is one of those that are misread; a   *)
(* line has a value.                                                         *)
OfKernel(f) ==
  /\ f.arch \in DOMAIN Scans /\ Len(f.lines) \in Nat
  /\ \A n \in 1 .. Len(f.lines) :
       /\ f.lines[n].value # None
       /\ \A keys \in {Scans[f.arch].rep, Scans[f.arch].fields} : \A i \in Matching(keys, f.lines[n].key) :
            f.lines[n].key \in {keys[k][1] : k \in 1 .. Len(keys)} \/ <<f.arch, keys[i][2]>> \in Misread
=============================================================================
