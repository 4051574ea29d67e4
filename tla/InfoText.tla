------------------------------ MODULE InfoText ------------------------------
(***************************************************************************)
(* An entry's fields on their way to the window.  hardinfo/info.c makes a  *)
(* text of them, in which a key holds flags and a tag besides the name,    *)
(* and parameters refer to fields by key; it may read the text back and    *)
(* make another of it.  shell/shell.c makes rows of the text, a table of   *)
(* what to update, and timers for the fields that ask for them.  Values    *)
(* and what is set for the whole entry only pass through and are left out. *)
(***************************************************************************)
EXTENDS Integers, Sequences, SequencesExt, FiniteSetsExt, TLC

CONSTANTS
  Infos,  \* what an entry may have: a sequence of groups [sorted, fields], a
          \* field being [tag, name, flags, icon, interval]; tags are tuples,
          \* names numbers
  None

VARIABLES
  given,       \* the fields as the entry made them
  info,        \* the fields, while there is no text
  text,        \* the text: [groups, params]
  passes,      \* how often the text was read back
  rows,        \* the window: per group the rows [name, tag, flags, icon, hits]
  update_tbl,  \* tag or name -> place of the row
  timers,      \* the field names that timers ask for
  pc
vars == <<given, info, text, passes, rows, update_tbl, timers, pc>>

Init ==
  /\ given \in Infos /\ info = given
  /\ text = None /\ passes = 0
  /\ rows = <<>> /\ update_tbl = [k \in {} |-> None] /\ timers = {}
  /\ pc = "info"

Places(groups) == {p \in (1 .. Len(groups)) \X (1 .. Max({0} \cup {Len(groups[g].fields) : g \in 1 .. Len(groups)})) :
                     p[2] <= Len(groups[p[1]].fields)}
InOrder(places) == SetToSortSeq(places, LAMBDA p, q : p[1] < q[1] \/ (p[1] = q[1] /\ p[2] < q[2]))

(* A key with a tag, or one that is a name alone. *)
Key(flags, tag, name) == [flags |-> flags, tag |-> tag, name |-> name]
IsFlagged(key) == key.tag # None

-----------------------------------------------------------------------------
(* info_flatten(): a field without a tag gets one from its place, and needs  *)
(* it in its key for its flags or its icon.                                  *)
TagInGroup(f, g, i) == IF f.tag = None THEN <<"ITEM", 0, i>> ELSE f.tag
TagAt(f, g, i) == IF f.tag = None THEN <<"ITEM", g, i>> ELSE f.tag
KeyAt(f, g, i) == Key(f.flags, IF f.tag # None \/ f.flags # {} \/ f.icon # None THEN TagAt(f, g, i) ELSE None, f.name)

ByName(fields) == SortSeq(fields, LAMBDA a, b : a.name < b.name)
FlattenGroup(group) == IF group.sorted THEN ByName(group.fields) ELSE group.fields

ParamsAt(f, g, i) ==
  (IF f.interval > 0 THEN <<[of |-> "UpdateInterval", key |-> Key({}, f.tag, f.name), is |-> f.interval]>> ELSE <<>>)
  \o (IF f.icon # None THEN <<[of |-> "Icon", key |-> Key({}, TagAt(f, g, i), None), is |-> f.icon]>> ELSE <<>>)

Flatten ==
  /\ pc = "info" /\ pc' = "text"
  /\ LET groups == [g \in 1 .. Len(info) |-> FlattenGroup(info[g])]
         at == InOrder(Places(info))
     IN text' = [groups |-> [g \in 1 .. Len(groups) |->
                               [i \in 1 .. Len(groups[g]) |-> KeyAt(groups[g][i], g, i)]],
                 params |-> FlattenSeq([n \in 1 .. Len(at) |->
                               ParamsAt(groups[at[n][1]][at[n][2]], at[n][1], at[n][2])])]
  /\ UNCHANGED <<given, info, passes, rows, update_tbl, timers>>

(* info_find_field(): the first field with the tag, or else with the name,   *)
(* whichever comes first.                                                    *)
FindField(groups, tag, name) ==
  LET found == {p \in Places(groups) : LET f == groups[p[1]].fields[p[2]] IN
                  (tag # None /\ f.tag = tag) \/ (name # None /\ f.name = name)}
  IN IF found = {} THEN {} ELSE {Head(InOrder(found))}

(* info_unflatten(): the fields first, then what the parameters say of them. *)
Apply(groups, param) ==
  LET at == IF param.of = "Icon" THEN FindField(groups, param.key.tag, None)
            ELSE FindField(groups, param.key.tag, param.key.name)
      Change(f) == IF param.of = "Icon" THEN [f EXCEPT !.icon = param.is] ELSE [f EXCEPT !.interval = param.is]
  IN [g \in 1 .. Len(groups) |-> [groups[g] EXCEPT !.fields =
       [i \in 1 .. Len(@) |-> IF <<g, i>> \in at THEN Change(@[i]) ELSE @[i]]]]

Field(key) == [tag |-> key.tag, name |-> key.name, flags |-> key.flags, icon |-> None, interval |-> 0]

Unflatten ==
  /\ pc = "text" /\ passes = 0
  /\ info' = FoldLeft(Apply,
       [g \in 1 .. Len(text.groups) |->
          [sorted |-> FALSE, fields |-> [i \in 1 .. Len(text.groups[g]) |-> Field(text.groups[g][i])]]],
       text.params)
  /\ passes' = passes + 1 /\ pc' = "info"
  /\ UNCHANGED <<given, text, rows, update_tbl, timers>>

-----------------------------------------------------------------------------
(* group_handle_normal(), group_handle_special(): rows are known by their    *)
(* tag, or else by name, and the last of that name is.                       *)
TableKey(key) == IF IsFlagged(key) THEN <<"tag">> \o key.tag ELSE <<"name", key.name>>
Row(key) == [name |-> key.name, tag |-> key.tag, flags |-> key.flags, icon |-> None, hits |-> 0]
IsAt(p, key) == TableKey(text.groups[p[1]][p[2]]) = key
LastAt(places, key) == Last(InOrder({p \in places : IsAt(p, key)}))

(* What a timer asks for is a name, or all of a key that has a tag. *)
FieldName(key) == IF IsFlagged(key) THEN <<"key">> \o key.tag \o <<key.name>> ELSE <<"name", key.name>>

TextPlaces == {p \in (1 .. Len(text.groups)) \X (1 .. Max({0} \cup {Len(text.groups[g]) : g \in 1 .. Len(text.groups)})) :
                 p[2] <= Len(text.groups[p[1]])}
UpdateTable == [key \in {TableKey(text.groups[p[1]][p[2]]) : p \in TextPlaces} |-> LastAt(TextPlaces, key)]
IconsAt(p, table) == {q.is : q \in {q \in ToSet(text.params) :
  q.of = "Icon" /\ TableKey(q.key) \in DOMAIN table /\ table[TableKey(q.key)] = p}}
TimedFields == {FieldName(q.key) : q \in {q \in ToSet(text.params) : q.of = "UpdateInterval"}}

Show ==
  /\ pc = "text" /\ pc' = "shown"
  /\ LET table == UpdateTable
         IconAt(p) == IF IconsAt(p, table) = {} THEN None ELSE CHOOSE icon \in IconsAt(p, table) : TRUE
     IN /\ update_tbl' = table
        /\ rows' = [g \in 1 .. Len(text.groups) |-> [i \in 1 .. Len(text.groups[g]) |->
                      [Row(text.groups[g][i]) EXCEPT !.icon = IconAt(<<g, i>>)]]]
        /\ timers' = TimedFields
  /\ UNCHANGED <<given, info, text, passes>>

(* update_field(), of the entry that is shown: a timer that finds no row ends. *)
Update(name) ==
  /\ pc = "shown" /\ name \in timers
  /\ IF name \in DOMAIN update_tbl
     THEN /\ rows' = [rows EXCEPT ![update_tbl[name][1]][update_tbl[name][2]].hits = 1]
          /\ UNCHANGED timers
     ELSE /\ timers' = timers \ {name} /\ UNCHANGED rows
  /\ UNCHANGED <<given, info, text, passes, update_tbl, pc>>

Next == Flatten \/ Unflatten \/ Show \/ \E name \in timers : Update(name)
Spec == Init /\ [][Next]_vars

-----------------------------------------------------------------------------
(* The fields as they should be shown. *)
Wanted == [g \in 1 .. Len(given) |-> FlattenGroup(given[g])]
Alone(p) == \A q \in Places(given) : Wanted[q[1]][q[2]].name = Wanted[p[1]][p[2]].name => q = p

(* The field's timer, while it lasts, finds the field's row. *)
Timed(p) == \E name \in timers : name \in DOMAIN update_tbl /\ update_tbl[name] = p

(* Every field has its row, in its group and place, with its flags and its   *)
(* icon, its tag if it has one, and a tag that no other row has if it needs  *)
(* one; and, those whose name another field shares aside, only fields that   *)
(* ask for it are ever updated, and all that are plain names do.  All this   *)
(* also when the text was made twice.                                        *)
EachFieldShown ==
  pc = "shown" =>
    /\ Len(rows) = Len(Wanted)
    /\ \A g \in 1 .. Len(Wanted) : Len(rows[g]) = Len(Wanted[g])
    /\ \A p \in Places(given) :
         LET f == Wanted[p[1]][p[2]]
             row == rows[p[1]][p[2]]
         IN /\ row.name = f.name /\ row.flags = f.flags /\ row.icon = f.icon
            /\ f.tag # None => row.tag = f.tag
            /\ \A q \in Places(given) : row.tag # None /\ rows[q[1]][q[2]].tag = row.tag => q = p
            /\ row.hits > 0 /\ Alone(p) => f.interval > 0
            /\ f.tag = None /\ f.flags = {} /\ f.icon = None /\ f.interval > 0 /\ Alone(p) => Timed(p)

(* A field with a tag that asks to be updated has a timer that finds its     *)
(* row: "send both tag and label", says the timers' comment of it.           *)
TaggedFieldsUpdate ==
  pc = "shown" => \A p \in Places(given) :
    Wanted[p[1]][p[2]].tag # None /\ Wanted[p[1]][p[2]].interval > 0 /\ Alone(p) => Timed(p)
=============================================================================
