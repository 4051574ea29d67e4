----------------------------- MODULE DeviceTree -----------------------------
(***************************************************************************)
(* The device tree of the firmware (hardinfo/dt_util.c): nodes in nodes,   *)
(* each a directory, with properties made of cells.  What a cell means is  *)
(* said elsewhere in the tree: a property refers to other nodes by their   *)
(* phandles and the node that it refers to says how many cells come with   *)
(* the reference.  The tree is walked once for three maps, of aliases, of  *)
(* symbols and of phandles, and then each property is made a text.         *)
(***************************************************************************)
EXTENDS Integers, Sequences, SequencesExt, FiniteSets, FiniteSetsExt, TLC

CONSTANTS
  Trees,  \* [node, props, aliases, symbols]: see Children, Show and ReadLabels
  Root,   \* its own parent
  None

VARIABLES
  tree,
  pc,                          \* "aliases", "symbols", "phandles", "ready", "crash"
  unread,                      \* the labels that the directory has still to give
  aliases, symbols, phandles,  \* the maps, in their order
  walk,                        \* the directories being walked: [node, left]
  obj, str,                    \* the property shown last, and its tuples
  opp                          \* the range of operating points asked for last
maps == <<aliases, symbols, phandles>>
vars == <<tree, pc, unread, maps, walk, obj, str, opp>>

(* A node is [parent, props], the values of its properties by their names. *)
Nodes == DOMAIN tree.node
Children(n) == {c \in Nodes : tree.node[c].parent = n /\ c # Root}
Has(n, name) == name \in DOMAIN tree.node[n].props
Prop(n, name) == IF Has(n, name) THEN tree.node[n].props[name] ELSE 0

Init ==
  /\ tree \in Trees
  /\ pc = "aliases" /\ unread = DOMAIN tree.aliases
  /\ aliases = <<>> /\ symbols = <<>> /\ phandles = <<>> /\ walk = <<>>
  /\ obj = None /\ str = <<>> /\ opp = None

-----------------------------------------------------------------------------
(* dtr_map_sort(); labels are numbers, in the order of strcmp(). *)
SortedBy(key, map) == SortSeq(map, LAMBDA a, b : a[key] < b[key])

(* A directory gives its labels in any order; one that is no path is left.   *)
ReadLabel(labels, map) ==
  \E l \in unread :
    /\ unread' = unread \ {l}
    /\ map' = IF labels[l] = None THEN map ELSE Append(map, [label |-> l, path |-> labels[l]])
ReadAliases ==
  /\ pc = "aliases"
  /\ \/ ReadLabel(tree.aliases, aliases) /\ UNCHANGED pc
     \/ unread = {} /\ aliases' = SortedBy("label", aliases) /\ pc' = "symbols" /\ unread' = DOMAIN tree.symbols
  /\ UNCHANGED <<tree, symbols, phandles, walk, obj, str, opp>>

Directory(n) == [node |-> n, left |-> Children(n)]
ReadSymbols ==
  /\ pc = "symbols"
  /\ \/ ReadLabel(tree.symbols, symbols) /\ UNCHANGED <<pc, walk>>
     \/ /\ unread = {} /\ symbols' = SortedBy("label", symbols) /\ UNCHANGED unread
        /\ pc' = "phandles" /\ walk' = <<Directory(Root)>>
  /\ UNCHANGED <<tree, aliases, phandles, obj, str, opp>>

(* _dtr_map_phandles() calls itself for a node when it has noted its phandle, *)
(* and sorts what is there at the end of every directory.                     *)
NotePhandle(n) == IF Has(n, "phandle") THEN Append(phandles, [v |-> Prop(n, "phandle"), path |-> n]) ELSE phandles
EnterNode ==
  /\ pc = "phandles"
  /\ \E n \in Last(walk).left :
       /\ phandles' = NotePhandle(n)
       /\ walk' = Append([walk EXCEPT ![Len(walk)].left = @ \ {n}], Directory(n))
  /\ UNCHANGED <<tree, pc, unread, aliases, symbols, obj, str, opp>>
LeaveNode ==
  /\ pc = "phandles" /\ Last(walk).left = {}
  /\ phandles' = SortedBy("v", phandles)
  /\ walk' = Front(walk)
  /\ pc' = IF Len(walk) = 1 THEN "ready" ELSE pc
  /\ UNCHANGED <<tree, unread, aliases, symbols, obj, str, opp>>

-----------------------------------------------------------------------------
First(map, key, value) ==
  LET at == {i \in 1 .. Len(map) : map[i][key] = value} IN IF at = {} THEN None ELSE map[Min(at)]
NoPhandles == {0, -1}
PhandleLookup(v) ==
  LET entry == First(phandles, "v", v) IN IF v \in NoPhandles \/ entry = None THEN None ELSE entry.path
SymbolOf(path) == LET entry == First(symbols, "path", path) IN IF entry = None THEN None ELSE entry.label

(* dtr_inh_find(): of the node itself and those above it, that many. *)
Default == [address |-> 2, size |-> 1]
Climb[n \in Nodes, name \in STRING, levels \in Nat] ==
  IF levels = 0 THEN IF name \in DOMAIN Default THEN Default[name] ELSE 0
  ELSE IF Has(n, name) THEN Prop(n, name)
  ELSE Climb[tree.node[n].parent, name, levels - 1]
Inherited(n, name, levels) == Climb[n, name, levels]
AllLevels == Cardinality(Nodes)  \* 1000 in the code: above the root there is the root again

(* dtr_get_phref_prop(): what has no path is no alias either. *)
PhrefProp(v, name) == LET n == PhandleLookup(v) IN IF n = None THEN 0 ELSE Prop(n, name)

(* A property is [node, name, cells, odd, text]: whole cells, the bytes after *)
(* them, and whether all looks like a text.  What is shown of it is a         *)
(* sequence of tuples of cells, each a number or, of a node that has one, a   *)
(* symbol.                                                                    *)
Hex(v) == [hex |-> v]
Symbol(l) == [symbol |-> l]
Phref(v) ==
  LET n == PhandleLookup(v)
  IN IF n = None \/ SymbolOf(n) = None THEN Hex(v) ELSE Symbol(SymbolOf(n))
ListHex(cells) == [i \in 1 .. Len(cells) |-> Hex(cells[i])]
Lesser(a, b) == IF a < b THEN a ELSE b

(* dtr_list_phref(): what comes with a reference ends with the property. *)
ListPhref(cells, name) ==
  LET tuples[i \in 0 .. Len(cells)] ==
        IF i = Len(cells) THEN <<>>
        ELSE LET n == Lesser(PhrefProp(cells[i + 1], name), Len(cells) - i - 1)
             IN <<<<Phref(cells[i + 1])>> \o ListHex(SubSeq(cells, i + 2, i + 1 + n))>> \o tuples[i + 1 + n]
  IN tuples[0]

(* The tuples of a list, all of a length but the last. *)
Tuples(cells, n) ==
  [k \in 1 .. (Len(cells) + n - 1) \div n |-> ListHex(SubSeq(cells, n * (k - 1) + 1, Lesser(n * k, Len(cells))))]

(* dtr_list_interrupts(): without a parent, or where it does not say how many *)
(* cells belong together, as many cells are shown as there are bytes.         *)
Beyond == [hex |-> None]
ListInterrupts(p) ==
  LET icells == PhrefProp(Inherited(p.node, "interrupt_parent", AllLevels), "interrupt")
  IN IF icells = 0 THEN <<ListHex(p.cells) \o [i \in 1 .. 3 * Len(p.cells) + p.odd |-> Beyond]>> ELSE Tuples(p.cells, icells)

(* dtr_list_reg(). *)
TupleLength(p) == Inherited(p.node, "address", 2) + Inherited(p.node, "size", 2)
ListReg(p) ==
  LET n == TupleLength(p)
  IN IF p.odd # 0 \/ Len(p.cells) % n # 0 THEN <<ListHex(p.cells)>> ELSE Tuples(p.cells, n)

(* dtr_guess_type(): by the name, or by how it looks.  What stands in         *)
(* /aliases and /__symbols__ is text, and /__overrides__ is not modelled.     *)
PropTypes == [reg |-> "reg", interrupts |-> "interrupts", clocks |-> "clock", gpios |-> "gpio", dmas |-> "dma",
              interrupts_extended |-> "interrupt", interrupt_parent |-> "ref", clock_frequency |-> "uint",
              operating_points_v2 |-> "opp", phandle |-> "hex"]
CellCounts == {"address", "size", "interrupt", "clock", "gpio", "dma"}
GuessType(p) ==
  IF p.cells = <<>> /\ p.odd = 0 THEN "empty"
  ELSE IF p.name \in CellCounts THEN "uint"
  ELSE IF p.name \in DOMAIN PropTypes THEN PropTypes[p.name]
  ELSE IF p.text THEN "str" ELSE IF p.odd = 0 THEN "hex" ELSE "unknown"

DtrStr(p) ==
  LET type == IF GuessType(p) = "ref" /\ ~(Len(p.cells) = 1 /\ p.odd = 0) THEN "hex" ELSE GuessType(p)
  IN CASE type \in {"empty", "str", "unknown"} \/ (type = "hex" /\ p.odd # 0) -> <<type>>
       [] type = "reg" -> ListReg(p)
       [] type = "interrupts" -> ListInterrupts(p)
       [] type \in {"interrupt", "clock", "gpio", "dma"} -> ListPhref(p.cells, type)
       [] type \in {"ref", "opp"} -> <<<<Phref(p.cells[1])>>>>
       [] type = "uint" -> <<<<Hex(p.cells[1])>>>>
       [] type = "hex" -> <<ListHex(p.cells)>>

(* A tuple of no cells is divided by. *)
Show ==
  /\ pc = "ready"
  /\ \E p \in tree.props :
       /\ obj' = p
       /\ IF GuessType(p) = "reg" /\ TupleLength(p) = 0 THEN pc' = "crash" /\ UNCHANGED str
          ELSE str' = DtrStr(p) /\ UNCHANGED pc
  /\ UNCHANGED <<tree, unread, maps, walk, opp>>

-----------------------------------------------------------------------------
(* dtr_get_opp_range(), for a processor or beside the reference to a table.   *)
(* A table gives its rows in any order; the first and one after a zero set    *)
(* the minimum.                                                               *)
Enabled(n) == ~Has(n, "disabled")
TakeRow(range, n) ==
  LET khz == Prop(n, "opp_khz")
  IN [range EXCEPT !.khz_max = IF khz > @ THEN khz ELSE @,
                   !.khz_min = IF khz < @ \/ @ = 0 THEN khz ELSE @,
                   !.clock_latency_ns = Prop(n, "latency")]
Range0(version) == [version |-> version, khz_min |-> 0, khz_max |-> 0, clock_latency_ns |-> 0]
FromTable(v) ==
  LET table == PhandleLookup(v)
  IN IF table = None THEN {None}
     ELSE IF ~Has(table, "opp_table") \/ ~Enabled(table) THEN {None}
     ELSE {FoldLeft(TakeRow, Range0(2), SelectSeq(order, Enabled)) : order \in SetToSeqs(Children(table))}

(* The pairs of version 1 are read in the order of the bytes in the file, and *)
(* four times as far as there are any: what comes out is anything.            *)
AnyKhz == {1, 9}
GetOppRange ==
  /\ pc = "ready"
  /\ \E n \in Nodes :
       IF Prop(n, "operating_points_v2") # 0 THEN opp' \in [node : {n}, range : FromTable(Prop(n, "operating_points_v2"))]
       ELSE IF Has(n, "operating_points")
         THEN \E low, high \in AnyKhz :
                /\ low <= high
                /\ opp' = [node |-> n,
                           range |-> [Range0(1) EXCEPT !.khz_min = low, !.khz_max = high,
                                                       !.clock_latency_ns = Prop(n, "latency")]]
       ELSE opp' = [node |-> n,
                    range |-> IF Prop(n, "clock_frequency") = 0 THEN None
                              ELSE [Range0(0) EXCEPT !.khz_max = Prop(n, "clock_frequency"),
                                                     !.clock_latency_ns = Prop(n, "latency")]]
  /\ UNCHANGED <<tree, pc, unread, maps, walk, obj, str>>

Next == ReadAliases \/ ReadSymbols \/ EnterNode \/ LeaveNode \/ Show \/ GetOppRange

-----------------------------------------------------------------------------
ByPhandle(v) == {n \in Nodes : n # Root /\ v \notin NoPhandles /\ Prop(n, "phandle") = v}
Named(l) == tree.symbols[l]

(* A cell of the text stands for a cell of the property: the number, or a    *)
(* symbol of the node whose phandle it is.                                   *)
StandsFor(shown, v) == IF "hex" \in DOMAIN shown THEN shown.hex = v ELSE ByPhandle(v) = {Named(shown.symbol)}

(* All cells of a property are shown, each once and in their order; left out *)
(* are interrupts that no node says the length of, shown with what lies      *)
(* beyond them.                                                              *)
ListTypes == {"interrupt", "clock", "gpio", "dma"}
CellsAreShown(p) ==
  LET flat == FlattenSeq(str)
  IN GuessType(p) \in ListTypes \cup {"reg", "interrupts", "ref", "hex"} /\ p.odd = 0 /\ Beyond \notin ToSet(flat) =>
       /\ Len(flat) = Len(p.cells)
       /\ \A i \in 1 .. Len(flat) : StandsFor(flat[i], p.cells[i])

(* A reference has the cells that the node says it refers to, and a tuple of *)
(* registers as many as the node above says of its children; left out is a   *)
(* node that says something of its own children.                             *)
TuplesAreWhole(p) ==
  /\ GuessType(p) \in ListTypes =>
       \A k \in 1 .. Len(str) - 1 :
         LET of == ByPhandle(p.cells[1 + Len(FlattenSeq(SubSeq(str, 1, k - 1)))])
         IN Len(str[k]) = 1 + (IF of = {} THEN 0 ELSE Prop(CHOOSE n \in of : TRUE, GuessType(p)))
  /\ LET up == tree.node[p.node].parent
         n == Prop(up, "address") + Prop(up, "size")
         own == Has(p.node, "address") \/ Has(p.node, "size")
     IN GuessType(p) = "reg" /\ ~own /\ Has(up, "address") /\ Has(up, "size") /\ p.odd = 0 /\ Len(p.cells) % n = 0 =>
          \A k \in 1 .. Len(str) : Len(str[k]) = n

(* The operating points of a processor lie between the lowest and the highest *)
(* of those that its table has enabled.                                       *)
RangeIsOfRows(n, range) ==
  range # None /\ range.version = 2 =>
    LET table == CHOOSE t \in ByPhandle(Prop(n, "operating_points_v2")) : TRUE
        all == {Prop(row, "opp_khz") : row \in {row \in Children(table) : Enabled(row)}}
    IN all # {} => range.khz_min = Min(all) /\ range.khz_max = Max(all)

(* In whatever order the directories give what is in them, a property and a  *)
(* range are shown as the tree has them (dt_util.c:716, 784, 1008).           *)
TreeIsShown ==
  pc = "ready" =>
    /\ obj = None \/ (CellsAreShown(obj) /\ TuplesAreWhole(obj))
    /\ opp = None \/ RangeIsOfRows(opp.node, opp.range)
=============================================================================
