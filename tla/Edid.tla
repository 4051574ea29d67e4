-------------------------------- MODULE Edid --------------------------------
(***************************************************************************)
(* edid_new() of util_edid.c: what a monitor says of itself.  A first      *)
(* block of 128 bytes with four descriptors is followed by extensions, in  *)
(* which blocks of different lengths lie one after the other; each begins  *)
(* with its length, so that one is found at the end of the one before it.  *)
(* The video modes found everywhere compete for the best mode shown.       *)
(***************************************************************************)
EXTENDS Integers, Sequences, SequencesExt, FiniteSets, FiniteSetsExt, TLC

CONSTANTS
  Edids,      \* what a monitor may say: [sum, modes, d, exts], see below
  SvdPixels,  \* the modes of the CEA standard: code -> pixels
  None

VARIABLES
  edid,
  ext,         \* the extension that is read next: the last is the first
  ext_ok,      \* per extension read: its checksum is right
  dtds, cea_blocks, svds, didts, did_strings,  \* as in the edid structure
  name, serial,
  img, img_max,
  pc
lists == <<ext_ok, dtds, cea_blocks, svds, didts, did_strings>>
names == <<name, serial>>
vars == <<edid, ext, lists, names, img, img_max, pc>>

(* enum OUTSRC_*, by rising priority. *)
OUTSRC == [INVALID |-> -1, EDID |-> 0, ETB |-> 1, STD |-> 2, DTD |-> 3, CEA_DTD |-> 4, SVD |-> 5,
           DID_TYPE_I |-> 6, DID_TYPE_VI |-> 7, DID_TYPE_VII |-> 8]
Output(src, pixels, preferred) == [src |-> OUTSRC[src], pixels |-> pixels, preferred |-> preferred]

(* The first block: edid.d has its four descriptors, a mode or a text of some *)
(* kind, edid.modes what its lists of modes say.                              *)
Texts == {"name", "serial", "text"}
Init ==
  /\ edid \in Edids
  /\ ext = Len(edid.exts) /\ pc = "extensions"
  /\ dtds = [i \in 1 .. Len(SelectSeq(edid.d, LAMBDA d : d.is = "dtd")) |->
               Output("DTD", SelectSeq(edid.d, LAMBDA d : d.is = "dtd")[i].pixels, FALSE)]
  /\ ext_ok = [n \in {} |-> None]
  /\ cea_blocks = <<>> /\ svds = <<>> /\ didts = <<>> /\ did_strings = <<>>
  /\ name = None /\ serial = None
  /\ img = Output("EDID", 0, FALSE) /\ img_max = img

-----------------------------------------------------------------------------
(* An extension [is, end, blocks, dtds]: its blocks [type, len, has] lie    *)
(* from its fourth byte on, or fifth, each behind a header; `end' is where  *)
(* it says that they end.  Detailed modes follow where a CEA extension does.*)
PlaceOf(blocks, header, from, k) ==
  from + FoldLeft(LAMBDA sum, b : sum + header + b.len, 0, SubSeq(blocks, 1, k - 1))
EndOf(blocks, header, from) == PlaceOf(blocks, header, from, Len(blocks) + 1)
At(blocks, header, from, b) == {k \in 1 .. Len(blocks) : PlaceOf(blocks, header, from, k) = b}

(* The blocks that a walk from `from' to `end' comes by, in as many steps as *)
(* there are; where none begins there is nothing but its header to pass.     *)
Step(walk, blocks, header, from, end) ==
  LET found == At(blocks, header, from, walk.b)
  IN IF walk.b >= end THEN walk
     ELSE IF found = {} THEN [walk EXCEPT !.b = @ + header]
     ELSE [b |-> walk.b + header + blocks[Min(found)].len, found |-> Append(walk.found, Min(found))]
Walk(blocks, header, from, end) ==
  FoldLeft(LAMBDA walk, block : Step(walk, blocks, header, from, end), [b |-> from, found |-> <<>>], blocks)

(* cea_block_decode(). *)
Svds(blocks, found) == FlattenSeq([i \in 1 .. Len(found) |->
  IF blocks[found[i]].type = "svds" THEN blocks[found[i]].has ELSE <<>>])

(* What begins at byte 111 or later is not all there, in the last extension. *)
DtdsOf(e) == [i \in 1 .. Len(e.dtds) |-> [at |-> EndOf(e.blocks, 1, 4) + 18 * (i - 1), pixels |-> e.dtds[i]]]
DtdsFrom(e, b) == SelectSeq(DtdsOf(e), LAMBDA d : d.at >= b /\ d.at < 127 /\ (d.at - b) % 18 = 0)
Readable(dtd) == ext < Len(edid.exts) \/ dtd.at + 18 <= 128

CeaExtension ==
  /\ pc = "extensions" /\ ext > 0 /\ edid.exts[ext].is = "cea"
  /\ LET e == edid.exts[ext]
         walk == Walk(e.blocks, 1, 4, e.end)
         modes == DtdsFrom(e, e.end)
     IN IF e.end = 0 THEN UNCHANGED <<cea_blocks, svds, dtds>>
        ELSE /\ cea_blocks' = cea_blocks \o [i \in 1 .. Len(walk.found) |-> e.blocks[walk.found[i]].type]
             /\ svds' = svds \o Svds(e.blocks, walk.found)
             /\ dtds' = dtds \o [i \in 1 .. Len(modes) |->
                  Output("CEA_DTD", IF Readable(modes[i]) THEN modes[i].pixels ELSE None, FALSE)]
  /\ ext_ok' = ext :> edid.sum @@ ext_ok  \* the sum is that of the first block, whichever is asked for
  /\ ext' = ext - 1
  /\ UNCHANGED <<edid, didts, did_strings, names, img, img_max, pc>>

(* did_block_decode(): a block of blocks is left three bytes before its end. *)
DidTypes == [I |-> "DID_TYPE_I", VI |-> "DID_TYPE_VI", VII |-> "DID_TYPE_VII"]
Embedded(block) == Walk(block.has, 1, 3, block.len)

DidBlock(is, block) ==
  IF block.type \in DOMAIN DidTypes
  THEN [is EXCEPT !.didts = Append(@, Output(DidTypes[block.type], block.has.pixels,
                                             block.type # "VI" /\ block.has.preferred))]
  ELSE IF block.type = "product" THEN [is EXCEPT !.strings = Append(@, block.has), !.name = block.has]
  ELSE IF block.type = "serial" THEN [is EXCEPT !.strings = Append(@, block.has), !.serial = block.has]
  ELSE IF block.type = "string" THEN [is EXCEPT !.strings = Append(@, block.has)]
  ELSE IF block.type = "cta"
  THEN [is EXCEPT !.svds = @ \o Svds(block.has, Embedded(block).found),
                  !.cea = @ \o [i \in 1 .. Len(Embedded(block).found) |-> block.has[Embedded(block).found[i]].type]]
  ELSE is

(* Three zeroes where a block should begin end the walk. *)
DisplayIdExtension ==
  /\ pc = "extensions" /\ ext > 0 /\ edid.exts[ext].is = "did"
  /\ LET e == edid.exts[ext]
         found == Walk(e.blocks, 3, 5, Min({e.end + 5, EndOf(e.blocks, 3, 5)})).found
         is == FoldLeft(LAMBDA r, k : DidBlock(r, e.blocks[k]),
                 [didts |-> didts, strings |-> did_strings, name |-> name, serial |-> serial,
                  svds |-> svds, cea |-> cea_blocks], found)
     IN /\ didts' = is.didts /\ did_strings' = is.strings /\ svds' = is.svds /\ cea_blocks' = is.cea
        /\ name' = is.name /\ serial' = is.serial
  /\ ext_ok' = ext :> edid.sum @@ ext_ok
  /\ ext' = ext - 1
  /\ UNCHANGED <<edid, dtds, img, img_max, pc>>

OtherExtension ==
  /\ pc = "extensions" /\ ext > 0 /\ edid.exts[ext].is = "other"
  /\ ext_ok' = ext :> edid.sum @@ ext_ok
  /\ ext' = ext - 1
  /\ UNCHANGED <<edid, dtds, cea_blocks, svds, didts, did_strings, names, img, img_max, pc>>

-----------------------------------------------------------------------------
(* The texts of the descriptors: the last name and serial count, and texts   *)
(* stand for those that are missing, the first for the name.                 *)
LastOf(kind, old) ==
  LET at == {i \in 1 .. 4 : edid.d[i].is = kind} IN IF at = {} THEN old ELSE edid.d[Max(at)].text
Spare == SelectSeq(edid.d, LAMBDA d : d.is = "text")
ut1 == IF Spare = <<>> THEN None ELSE Spare[1].text
ut2 == IF Len(Spare) < 2 THEN None ELSE Last(Spare).text
TwoPartMakers == {"LG Display", "AUO"}

Strings ==
  /\ pc = "extensions" /\ ext = 0 /\ pc' = "largest"
  /\ LET n == LastOf("name", name)
         s == LastOf("serial", serial)
     IN \/ n # None /\ name' = n /\ serial' = s
        \/ n = None /\ ut1 \in TwoPartMakers /\ ut2 # None /\ name' = ut2 /\ serial' = s
        \/ /\ n = None /\ ~(ut1 \in TwoPartMakers /\ ut2 # None)
           /\ name' = ut1 /\ serial' = IF s = None THEN ut2 ELSE s
  /\ UNCHANGED <<edid, ext, lists, img, img_max>>

(* The largest mode of the lists of the first block; then the first detailed *)
(* mode, which is the preferred one.  The program ends when one is beyond    *)
(* the data.                                                                 *)
Larger(best, mode) == IF mode.pixels > best.pixels THEN mode ELSE best
Largest ==
  /\ pc = "largest" /\ pc' = "dtds"
  /\ img' = FoldLeft(Larger, img, edid.modes)
  /\ img_max' = FoldLeft(Larger, img_max, edid.modes)
  /\ UNCHANGED <<edid, ext, lists, names>>

Dtds ==
  /\ pc = "dtds"
  /\ \/ (\E i \in 1 .. Len(dtds) : dtds[i].pixels = None) /\ pc' = "exit" /\ UNCHANGED img_max
     \/ /\ \A i \in 1 .. Len(dtds) : dtds[i].pixels # None
        /\ pc' = "svds"
        /\ img_max' = IF dtds = <<>> THEN img_max ELSE dtds[1]
  /\ UNCHANGED <<edid, ext, lists, names, img>>

(* A code from 128 to 192 is that of a native mode. The last native mode is *)
(* the best; the codes that are no modes are removed, an entry being the     *)
(* code that its mode is that of (the numbers printed beside are not moved). *)
IsNative(v) == v \in 128 .. 192
Index(v) == IF IsNative(v) THEN v % 128 ELSE v
IsMode(v) == Index(v) \in DOMAIN SvdPixels
SvdOutput(v) == Output("SVD", SvdPixels[Index(v)], FALSE)
SvdModes ==
  /\ pc = "svds" /\ pc' = "didts"
  /\ LET valid == SelectSeq(svds, IsMode)
         native == SelectSeq(valid, IsNative)
     IN /\ svds' = valid
        /\ img_max' = IF native = <<>> THEN img_max ELSE [SvdOutput(Last(native)) EXCEPT !.preferred = TRUE]
  /\ UNCHANGED <<edid, ext, ext_ok, dtds, cea_blocks, didts, did_strings, names, img>>

Better(best, mode) ==
  LET bigger == mode.pixels > best.pixels
  IN IF (bigger /\ ~best.preferred) \/ (mode.preferred /\ ~best.preferred) \/ mode.src > best.src
     THEN mode ELSE best
DidModes ==
  /\ pc = "didts" /\ pc' = "done"
  /\ img_max' = FoldLeft(Better, img_max, didts)
  /\ UNCHANGED <<edid, ext, lists, names, img>>

Next ==
  \/ CeaExtension \/ OtherExtension \/ DisplayIdExtension
  \/ Strings \/ Largest \/ Dtds \/ SvdModes \/ DidModes

-----------------------------------------------------------------------------
(* An extension that is as it should be says where its blocks end and keeps *)
(* its modes inside.                                                        *)
WellMade(e) ==
  IF e.is = "cea" THEN e.end = EndOf(e.blocks, 1, 4) /\ e.end + 18 * Len(e.dtds) <= 127
  ELSE e.end >= EndOf(e.blocks, 3, 0) /\ \A k \in 1 .. Len(e.blocks) :
         e.blocks[k].type = "cta" => e.blocks[k].len = EndOf(e.blocks[k].has, 1, 0)

Codes(blocks) == UNION {ToSet(blocks[k].has) : k \in {k \in 1 .. Len(blocks) : blocks[k].type = "svds"}}
(* Of the blocks inside a block those that begin in its last three bytes are *)
(* not read.                                                                 *)
NotLate(block) == SelectSeq(block.has, LAMBDA x : \E k \in 1 .. Len(block.has) :
                    block.has[k] = x /\ PlaceOf(block.has, 1, 0, k) < block.len - 3)
CodesOf(e) ==
  IF e.is = "cea" THEN Codes(e.blocks)
  ELSE UNION {Codes(NotLate(e.blocks[k])) : k \in {k \in 1 .. Len(e.blocks) : e.blocks[k].type = "cta"}}
BlocksOf(e, types) == {e.blocks[k].has : k \in {k \in 1 .. Len(e.blocks) : e.blocks[k].type \in types}}
Said(is) == {n \in 1 .. Len(edid.exts) : edid.exts[n].is = is}

(* Of several DisplayID modes, the first that is preferred or else the       *)
(* largest; when they are of different types it depends on their order.      *)
BestOfDid ==
  LET preferred == SelectSeq(didts, LAMBDA o : o.preferred)
  IN IF preferred # <<>> THEN preferred[1].pixels ELSE Max({o.pixels : o \in ToSet(didts)})

(* Of a monitor whose extensions are well made every mode is found, wherever *)
(* it is, and nothing else is taken for one; the best of them is the one     *)
(* that has the best claim to be: a DisplayID mode, or else a native one, or *)
(* else the first detailed one, or else the largest; and decoding it does    *)
(* not end the program.                                                      *)
ModesAreFound ==
  (\A n \in 1 .. Len(edid.exts) : WellMade(edid.exts[n])) =>
    /\ pc # "exit"
    /\ pc = "done" =>
         LET codes == UNION {CodesOf(edid.exts[n]) : n \in 1 .. Len(edid.exts)}
             detailed == UNION {ToSet(edid.exts[n].dtds) : n \in Said("cea")}
             did == UNION {BlocksOf(edid.exts[n], DOMAIN DidTypes) : n \in Said("did")}
             native == {v \in codes : IsMode(v) /\ IsNative(v)}
         IN /\ ToSet(svds) = {v \in codes : IsMode(v)}
            /\ {o.pixels : o \in ToSet(dtds)} = detailed \cup {d.pixels : d \in {d \in ToSet(edid.d) : d.is = "dtd"}}
            /\ {o.pixels : o \in ToSet(didts)} = {m.pixels : m \in did}
            /\ img_max.pixels \in
                 IF Cardinality({o.src : o \in ToSet(didts)}) = 1 THEN {BestOfDid}
                 ELSE IF didts # <<>> THEN {o.pixels : o \in ToSet(didts)}
                 ELSE IF native # {} THEN {SvdPixels[Index(v)] : v \in native}
                 ELSE IF dtds # <<>> THEN {dtds[1].pixels}
                 ELSE {Max({0} \cup {m.pixels : m \in ToSet(edid.modes)})}
=============================================================================
