------------------------------ MODULE DeviceIds ------------------------------
(***************************************************************************)
(* The devices on the PCI bus and on USB (hardinfo/pci_util.c and          *)
(* usb_util.c) and the names that the databases pci.ids and usb.ids have   *)
(* for their numbers (util_ids.c).  A database is a text in which what is  *)
(* under a vendor stands indented below it, in the order of the numbers;   *)
(* it is read line by line until the answer can no longer come.            *)
(***************************************************************************)
EXTENDS Integers, Sequences, SequencesExt, FiniteSetsExt

CONSTANTS
  Machines,   \* what may be there: [sysfs, lspci, lsusb, pci, usb], see TakePci and TakeUsb
  Databases,  \* what the files may say: [pci, pci_min, usb], each its lines [tabs, id, name] or None
  Ranges,     \* the classes of PCI devices that are asked for: all, or those of displays
  None,
  MaxLists    \* bound on the lists that are made

VARIABLES
  machine, databases,
  pc, kind,                     \* the list being made, of "pci", "usb" or "lsusb"
  pci_ids_file, usb_ids_file,   \* "pci", "pci_min", "usb" or None
  todo,                         \* the devices that are still to read
  device,                       \* the device being read: [key, names]
  queries,                      \* what is to be looked up for it: [path, fields]
  at, results,                  \* of the first of these: the lines read, and the answers so far
  list, lists
ids == <<pci_ids_file, usb_ids_file>>
scan == <<at, results>>
vars == <<machine, databases, pc, kind, ids, todo, device, queries, scan, list, lists>>

Init ==
  /\ machine \in Machines /\ databases \in Databases
  /\ pc = "rest" /\ kind = None
  /\ pci_ids_file = None /\ usb_ids_file = None
  /\ todo = <<>> /\ device = None /\ queries = <<>> /\ at = 0 /\ results = <<>>
  /\ list = <<>> /\ lists = 0

-----------------------------------------------------------------------------
(* scan_ids_file(), for one line.  Where a larger number stands the program *)
(* goes by g_strcmp0() == 1, which may be so or not, to end there.          *)
Query == Head(queries)
File == IF kind = "pci" THEN databases[pci_ids_file] ELSE databases[usb_ids_file]
Line == File[at + 1]
Wanted == Query.path[Line.tabs + 1]
BelowAny == Line.tabs >= Len(Query.path)
TooDeep == Line.tabs >= Len(Query.path) \/ Line.tabs > Len(results)
Answered == Len(results) > Line.tabs

ReadLine ==
  /\ pc = "scan" /\ at < Len(File)
  /\ \/ TooDeep /\ at' = at + 1 /\ UNCHANGED <<results, pc>>
     \/ ~TooDeep /\ Answered /\ pc' = "found" /\ UNCHANGED <<at, results>>
     \/ /\ ~TooDeep /\ ~Answered /\ Line.id = Wanted
        /\ results' = Append(results, Line.name) /\ at' = at + 1 /\ UNCHANGED pc
     \/ ~TooDeep /\ ~Answered /\ Line.id > Wanted /\ pc' = "found" /\ UNCHANGED <<at, results>>
     \/ ~TooDeep /\ ~Answered /\ Line.id # Wanted /\ at' = at + 1 /\ UNCHANGED <<results, pc>>
  /\ UNCHANGED <<machine, databases, kind, ids, todo, device, queries, list, lists>>

EndOfFile ==
  /\ pc = "scan" /\ at = Len(File)
  /\ pc' = "found"
  /\ UNCHANGED <<machine, databases, kind, ids, todo, device, queries, scan, list, lists>>

(* The caller takes what it was told; of a class, the most special name.     *)
(* usb.ids may not be there at all.                                          *)
Lookup ==
  /\ pc = "lookup" /\ queries # <<>>
  /\ at' = 0 /\ results' = <<>>
  /\ pc' = IF kind = "usb" /\ usb_ids_file = None THEN "found" ELSE "scan"
  /\ UNCHANGED <<machine, databases, kind, ids, todo, device, queries, list, lists>>

Named(names, fields, answers) ==
  [f \in DOMAIN names |->
     LET of == {i \in 1 .. Len(answers) : fields[i] = f}
     IN IF of = {} THEN names[f] ELSE answers[Max(of)]]
Found ==
  /\ pc = "found"
  /\ device' = [device EXCEPT !.names = Named(@, Query.fields, results)]
  /\ queries' = Tail(queries) /\ pc' = "lookup"
  /\ UNCHANGED <<machine, databases, kind, ids, todo, scan, list, lists>>

Unnamed(key, asked) == [key |-> key, names |-> [f \in UNION {ToSet(q.fields) : q \in ToSet(asked)} |-> None]]

-----------------------------------------------------------------------------
(* find_pci_ids_file(): the short version is looked behind again when it has *)
(* been in use for two seconds.                                              *)
PciFile == IF databases.pci # None THEN "pci" ELSE IF databases.pci_min # None THEN "pci_min" ELSE None
FindPciIds ==
  \/ pci_ids_file # None /\ UNCHANGED pci_ids_file
  \/ pci_ids_file \in {None, "pci_min"} /\ pci_ids_file' = PciFile

(* pci_get_device_list(): without a device in sysfs the list is that of      *)
(* lspci.  A device is [slot, class, subclass, vendor, device, sub_vendor,   *)
(* sub_device, stays]; `stays' says that it is there still when it is read,  *)
(* right after it was listed.                                                *)
InRange(range) == SelectSeq(machine.pci, LAMBDA d : <<d.class, d.subclass>> \in range)
ListPci ==
  /\ pc = "rest" /\ lists < MaxLists /\ lists' = lists + 1
  /\ \E range \in Ranges : todo' = IF machine.sysfs \/ machine.lspci THEN InRange(range) ELSE <<>>
  /\ kind' = "pci" /\ list' = <<>> /\ pc' = "next"
  /\ UNCHANGED <<machine, databases, ids, device, queries, scan>>

ClassId(n) == 1000 + n          \* "C 03", behind all vendors
SubId(vendor, sub) == 100 * vendor + sub
PciQueries(d) == <<
  [path |-> <<d.vendor, d.device, SubId(d.sub_vendor, d.sub_device)>>, fields |-> <<<<"vendor">>, <<"device">>, <<"sub_device">>>>],
  [path |-> <<d.sub_vendor>>, fields |-> <<<<"sub_vendor">>>>],
  [path |-> <<ClassId(d.class), d.subclass>>, fields |-> <<<<"class">>, <<"class">>>>]>>

(* pci_get_device() asks lspci only when sysfs has told it already, so that  *)
(* without sysfs there is no device, and its details are written nowhere.    *)
TakePci ==
  /\ pc = "next" /\ kind = "pci" /\ todo # <<>>
  /\ LET d == Head(todo) IN
       \/ ~(machine.sysfs /\ d.stays) /\ pc' = "crash" /\ UNCHANGED <<pci_ids_file, device, queries>>
       \/ /\ machine.sysfs /\ d.stays /\ pc' = "lookup"
          /\ FindPciIds
          /\ device' = Unnamed(d.slot, PciQueries(d))
          /\ queries' = IF pci_ids_file' = None THEN <<>> ELSE PciQueries(d)
  /\ UNCHANGED <<machine, databases, kind, usb_ids_file, todo, scan, list, lists>>

-----------------------------------------------------------------------------
(* usb_get_device_list(): a device is [bus, dev, class, vendor, product,     *)
(* count, interfaces, text]; an interface is [number, class].                *)
ListUsb ==
  /\ pc = "rest" /\ lists < MaxLists /\ lists' = lists + 1
  /\ todo' = IF machine.sysfs \/ machine.lsusb THEN machine.usb ELSE <<>>
  /\ kind' = IF machine.sysfs THEN "usb" ELSE "lsusb"
  /\ list' = <<>> /\ pc' = "next"
  /\ UNCHANGED <<machine, databases, ids, device, queries, scan>>

NoInterface == -1  \* the device itself
ClassPath(class) == <<ClassId(class[1]), class[2], class[3]>>
ClassFields(of) == <<<<"class", of>>, <<"subclass", of>>, <<"protocol", of>>>>
UsbQueries(d) ==
  LET shown == SelectSeq(d.interfaces, LAMBDA i : i.number <= d.count)
  IN <<[path |-> <<d.vendor, d.product>>, fields |-> <<<<"vendor">>, <<"product">>>>],
       [path |-> ClassPath(d.class), fields |-> ClassFields(NoInterface)]>>
     \o [i \in 1 .. Len(shown) |-> [path |-> ClassPath(shown[i].class), fields |-> ClassFields(shown[i].number)]]

TakeUsb ==
  /\ pc = "next" /\ kind = "usb" /\ todo # <<>>
  /\ usb_ids_file' = IF usb_ids_file = None /\ databases.usb # None THEN "usb" ELSE usb_ids_file
  /\ device' = Unnamed(<<Head(todo).bus, Head(todo).dev>>, UsbQueries(Head(todo)))
  /\ queries' = UsbQueries(Head(todo)) /\ pc' = "lookup"
  /\ UNCHANGED <<machine, databases, kind, pci_ids_file, todo, scan, list, lists>>

(* usb_get_device_lsusb(): the lines are [is |-> "device", field, name],     *)
(* [is |-> "number", number] and [is |-> "interface", field, name].  What is *)
(* said of an interface another time is left out.                            *)
ReadLsusbLine(read, line) ==
  CASE line.is = "device" -> [read EXCEPT !.names = Append(@, <<<<line.field>>, line.name>>)]
    [] line.is = "number" ->
         [read EXCEPT !.known = @ \cup {line.number},
                      !.interface = IF line.number \in read.known THEN NoInterface ELSE line.number]
    [] line.is = "interface" ->
         IF read.interface = NoInterface THEN read
         ELSE [read EXCEPT !.names = Append(@, <<<<line.field, read.interface>>, line.name>>)]
ReadLsusb(text) == FoldLeft(ReadLsusbLine, [names |-> <<>>, known |-> {}, interface |-> NoInterface], text)

TakeLsusb ==
  /\ pc = "next" /\ kind = "lsusb" /\ todo # <<>>
  /\ LET d == Head(todo)
         names == ReadLsusb(d.text).names
     IN device' = [key |-> <<d.bus, d.dev>>,
                   names |-> [f \in {names[i][1] : i \in 1 .. Len(names)} |->
                                names[Max({i \in 1 .. Len(names) : names[i][1] = f})][2]]]
  /\ pc' = "lookup" /\ queries' = <<>>
  /\ UNCHANGED <<machine, databases, kind, ids, todo, scan, list, lists>>

(* usbd_list_append_sorted(): before the first that is behind it. *)
Behind(a, b) == a[1] > b[1] \/ (a[1] = b[1] /\ a[2] > b[2])
InsertSorted(s, d) ==
  LET behind == {i \in 1 .. Len(s) : Behind(s[i].key, d.key)}
  IN InsertAt(s, IF behind = {} THEN Len(s) + 1 ELSE Min(behind), d)

Listed ==
  /\ pc = "lookup" /\ queries = <<>>
  /\ list' = IF kind = "usb" THEN InsertSorted(list, device) ELSE Append(list, device)
  /\ todo' = Tail(todo) /\ pc' = "next"
  /\ UNCHANGED <<machine, databases, kind, ids, device, queries, scan, lists>>

EndOfList ==
  /\ pc = "next" /\ todo = <<>>
  /\ pc' = "rest"
  /\ UNCHANGED <<machine, databases, kind, ids, todo, device, queries, scan, list, lists>>

(* The network updater has installed other databases. *)
Install ==
  /\ pc = "rest" /\ databases' \in Databases
  /\ \A f \in DOMAIN databases : databases[f] # None => databases'[f] # None
  /\ UNCHANGED <<machine, pc, kind, ids, todo, device, queries, scan, list, lists>>

Next ==
  \/ ReadLine \/ EndOfFile \/ Lookup \/ Found \/ ListPci \/ TakePci
  \/ ListUsb \/ TakeUsb \/ TakeLsusb \/ Listed \/ EndOfList \/ Install

-----------------------------------------------------------------------------
(* What a database says of a path: the lines below the one that its first   *)
(* part names, up to the next that is no deeper, say the rest.              *)
Says[path \in Seq(Int), lines \in Seq([tabs : Int, id : Int, name : STRING]), depth \in Int] ==
  LET at0 == {i \in 1 .. Len(lines) : lines[i].tabs = depth /\ lines[i].id = path[1]}
      first == Min(at0)
      below == {n \in first .. Len(lines) : \A m \in first + 1 .. n : lines[m].tabs > depth}
  IN IF path = <<>> \/ at0 = {} THEN <<>>
     ELSE <<lines[first].name>> \o Says[Tail(path), SubSeq(lines, first + 1, Max(below)), depth + 1]

OfDevice == Head(todo)
Asked == IF kind = "pci" THEN PciQueries(OfDevice) ELSE IF kind = "usb" THEN UsbQueries(OfDevice) ELSE <<>>
NoFile == IF kind = "pci" THEN pci_ids_file = None ELSE usb_ids_file = None

(* What lsusb says first of an interface counts. *)
FirstTold(text, number, field) ==
  LET starts == {i \in 1 .. Len(text) : text[i].is = "number" /\ text[i].number = number}
      about == {i \in Min(starts) + 1 .. Len(text) : \A j \in Min(starts) + 1 .. i : text[j].is # "number"}
      told == {i \in about : text[i].is = "interface" /\ text[i].field = field}
  IN IF told = {} THEN None ELSE text[Min(told)].name

(* Every device is listed once, those of USB in the order of their places,   *)
(* and has the names that the database has for its numbers, each under that  *)
(* of the number before it and none from another vendor or class; and making *)
(* the list does not end the program as long as the devices stay.            *)
DevicesAreNamed ==
  /\ pc = "crash" => ~machine.sysfs \/ \E d \in ToSet(machine.pci) : ~d.stays
  /\ pc = "lookup" /\ queries = <<>> =>
       /\ \A q \in ToSet(Asked) :
            LET answer == IF NoFile THEN <<>> ELSE Says[q.path, File, 0]
            IN \A f \in ToSet(q.fields) :
                 LET of == {i \in 1 .. Len(answer) : q.fields[i] = f}
                 IN device.names[f] = IF of = {} THEN None ELSE answer[Max(of)]
       /\ kind = "lsusb" => \A f \in DOMAIN device.names :
            Len(f) = 2 => device.names[f] = FirstTold(OfDevice.text, f[2], f[1])
  /\ kind \in {"usb", "lsusb"} =>
       \A i, j \in 1 .. Len(list) : i < j => list[i].key # list[j].key /\ (kind = "usb" => Behind(list[j].key, list[i].key))
  /\ pc = "rest" /\ kind \in {"usb", "lsusb"} /\ list # <<>> =>
       {d.key : d \in ToSet(list)} = {<<d.bus, d.dev>> : d \in ToSet(machine.usb)}
=============================================================================
