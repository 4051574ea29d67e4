-------------------------- MODULE ShellViewProofs --------------------------
(***************************************************************************)
(* The field updates of the main window, for any entries and any number of *)
(* fields: both update_field() and shell_clear_field_updates() free a      *)
(* ShellFieldUpdate, and neither frees one that a timeout or the list      *)
(* still points to; and the selection, for any nesting of clicks, timers   *)
(* and refreshes: what counts as selected is what the window shows.        *)
(***************************************************************************)
EXTENDS ShellView, TLAPS

(* The list and the timeouts are those of shows there have been, and the    *)
(* functions have their domains.                                            *)
Shapes ==
  /\ shows \in Nat /\ list \subseteq Fu
  /\ mem \in [Fu -> {"none", "live", "freed"}]
  /\ source \in [Fu -> BOOLEAN]
Begun == \A u \in Fu : source[u] \/ u \in list => u[1] <= shows
IInv == Shapes /\ Begun /\ NoDanglingUpdate

updates == <<mem, source, list, shows>>

LEMMA InitHolds == ASSUME Init PROVE IInv
  <1>1. Shapes BY DEF Init, Shapes
  <1>2. Begun /\ NoDanglingUpdate BY DEF Init, Begun, NoDanglingUpdate
  <1> QED BY <1>1, <1>2 DEF IInv

(* Clearing the list and adding the timers of a new show.                   *)
LEMMA ShowHolds ==
  ASSUME IInv, NEW e, NEW again, NEW timers, ShowInfo(e, again, timers)
  PROVE  IInv'
  <1> DEFINE new == FuOf(shows + 1, e)
  <1>1. /\ shows \in Nat /\ shows' = shows + 1 /\ shows + 1 \in Nat
        /\ new \subseteq Fu /\ list' = new
        /\ \A u \in new : u[1] = shows + 1
    BY DEF IInv, Shapes, ShowInfo, Timed, FuOf
  <1>2. mem' = [u \in Fu |-> IF u \in list THEN "freed" ELSE IF u \in new THEN "live" ELSE mem[u]]
    BY DEF ShowInfo
  <1>3. source' = [u \in Fu |-> (source[u] /\ u \notin list) \/ u \in new]
    BY DEF ShowInfo, Timed
  <1>4. \A u \in new : u \notin list
    <2> SUFFICES ASSUME NEW u \in new, u \in list PROVE FALSE OBVIOUS
    <2>1. u[1] <= shows BY <1>1 DEF IInv, Begun
    <2>2. u[1] = shows + 1 BY <1>1
    <2> QED BY <1>1, <2>1, <2>2
  <1>5. Shapes'
    <2> HIDE DEF new
    <2>1. mem' \in [Fu -> {"none", "live", "freed"}] BY <1>2 DEF IInv, Shapes
    <2>2. source' \in [Fu -> BOOLEAN] BY <1>3 DEF IInv, Shapes
    <2> QED BY <1>1, <2>1, <2>2 DEF Shapes
  <1>6. Begun'
    <2> SUFFICES ASSUME NEW u \in Fu, source'[u] \/ u \in list' PROVE u[1] <= shows'
      BY DEF Begun
    <2>1. CASE u \in new BY <2>1, <1>1
    <2>2. CASE u \notin new
      <3>1. source[u] BY <2>2, <1>1, <1>3
      <3>2. u[1] <= shows BY <3>1 DEF IInv, Begun
      <3>3. u[1] \in Nat BY DEF Fu, Show
      <3> QED BY <3>2, <3>3, <1>1
    <2> QED BY <2>1, <2>2
  <1>7. NoDanglingUpdate'
    <2> SUFFICES ASSUME NEW u \in Fu, source'[u] \/ u \in list' PROVE mem'[u] = "live"
      BY DEF NoDanglingUpdate
    <2>1. CASE u \in new BY <2>1, <1>2, <1>4
    <2>2. CASE u \notin new
      <3>1. source[u] /\ u \notin list BY <2>2, <1>1, <1>3
      <3>2. mem[u] = "live" BY <3>1 DEF IInv, NoDanglingUpdate
      <3> QED BY <3>1, <3>2, <2>2, <1>2
    <2> QED BY <2>1, <2>2
  <1> QED BY <1>5, <1>6, <1>7 DEF IInv

(* A timeout that fires: it keeps its update, or frees it with the list.    *)
LEMMA UpdateHolds == ASSUME IInv, NEW u \in Fu, UpdateField(u) PROVE IInv'
  <1> DEFINE e == showOf[u[1]]
  <1>0. shows' = shows BY DEF UpdateField, view_vars
  <1>1. CASE mem' = mem /\ list' = list /\ source' = source
    BY <1>0, <1>1 DEF IInv, Shapes, Begun, NoDanglingUpdate
  <1>2. CASE /\ source' = [source EXCEPT ![u] = FALSE]
             /\ mem' = mem /\ list' = list
    <2>1. \A v \in Fu : source'[v] => source[v] BY <1>2 DEF IInv, Shapes
    <2>2. source' \in [Fu -> BOOLEAN] BY <1>2 DEF IInv, Shapes
    <2>3. Shapes' BY <1>0, <1>2, <2>2 DEF IInv, Shapes
    <2>4. Begun' BY <1>0, <1>2, <2>1 DEF IInv, Begun
    <2>5. NoDanglingUpdate' BY <1>2, <2>1 DEF IInv, NoDanglingUpdate
    <2> QED BY <2>3, <2>4, <2>5 DEF IInv
  <1>3. CASE /\ source' = [source EXCEPT ![u] = FALSE]
             /\ mem' = [mem EXCEPT ![u] = "freed"] /\ list' = {}
    <2>1. \A v \in Fu : source'[v] => source[v] /\ v # u BY <1>3 DEF IInv, Shapes
    <2>2. source' \in [Fu -> BOOLEAN] BY <1>3 DEF IInv, Shapes
    <2>3. mem' \in [Fu -> {"none", "live", "freed"}] BY <1>3 DEF IInv, Shapes
    <2>4. Shapes' BY <1>0, <1>3, <2>2, <2>3 DEF IInv, Shapes
    <2>5. Begun' BY <1>0, <1>3, <2>1 DEF IInv, Begun
    <2>6. \A v \in Fu : v # u => mem'[v] = mem[v] BY <1>3 DEF IInv, Shapes
    <2>7. NoDanglingUpdate' BY <1>3, <2>1, <2>6 DEF IInv, NoDanglingUpdate
    <2> QED BY <2>4, <2>5, <2>7 DEF IInv
  <1> QED BY <1>1, <1>2, <1>3 DEF UpdateField, ListFreed

LEMMA StepHolds == ASSUME IInv, [Next]_vars PROVE IInv'
  <1>1. ASSUME UNCHANGED updates PROVE IInv'
    BY <1>1 DEF updates, IInv, Shapes, Begun, NoDanglingUpdate
  <1>2. CASE \E row \in Row : SelectRow(row)
    <2>1. UNCHANGED updates BY <1>2 DEF SelectRow, timer_vars, updates
    <2> QED BY <2>1, <1>1
  <1>3. CASE ScanSlowly \/ SelectionEnds \/ RefreshEnds
    <2>1. UNCHANGED updates
      BY <1>3 DEF ScanSlowly, SelectionEnds, RefreshEnds, view_vars, timer_vars, updates
    <2> QED BY <2>1, <1>1
  <1>4. CASE Refresh \/ RefreshScanned
    <2>1. UNCHANGED updates BY <1>4 DEF Refresh, RefreshScanned, timer_vars, updates
    <2> QED BY <2>1, <1>1
  <1>5. CASE ShowSelected
    <2>1. ShowInfo(stack[1].row, FALSE, reload) BY <1>5 DEF ShowSelected
    <2> QED BY <2>1, ShowHolds
  <1>6. CASE \E u \in Fu : UpdateField(u)
    BY <1>6, UpdateHolds
  <1>7. CASE ReloadScanned \/ \E e \in Entries : ReloadSection(e)
    <2>1. CASE ReloadScanned
      <3>1. ShowInfo(stack[1].row, TRUE, reload) BY <2>1 DEF ReloadScanned
      <3> QED BY <3>1, ShowHolds
    <2>2. ASSUME NEW e \in Entries, ReloadSection(e) PROVE IInv'
      <3>1. \/ ShowInfo(e, TRUE, [reload EXCEPT ![e] = @ - 1])
            \/ UNCHANGED updates
        BY <2>2 DEF ReloadSection, view_vars, updates
      <3> QED BY <3>1, ShowHolds, <1>1
    <2> QED BY <1>7, <2>1, <2>2
  <1>8. CASE \E e \in Entries : RescanSection(e)
    <2>1. UNCHANGED updates BY <1>8 DEF RescanSection, view_vars, updates
    <2> QED BY <2>1, <1>1
  <1>9. CASE UNCHANGED vars
    <2>1. UNCHANGED updates BY <1>9 DEF vars, view_vars, timer_vars, updates
    <2> QED BY <2>1, <1>1
  <1> QED BY <1>2, <1>3, <1>4, <1>5, <1>6, <1>7, <1>8, <1>9 DEF Next

(* No ShellFieldUpdate that a timeout or the list points to is ever freed.  *)
THEOREM UpdatesAreLive == Spec => []NoDanglingUpdate
  <1>1. Init => IInv BY InitHolds
  <1>2. IInv /\ [Next]_vars => IInv' BY StepHolds
  <1>3. IInv => NoDanglingUpdate BY DEF IInv
  <1> QED BY <1>1, <1>2, <1>3, PTL DEF Spec
-----------------------------------------------------------------------------
(* The selection.  One call of module_selected() at a time is past its      *)
(* guard, and what may count as selected depends on how far it is.          *)
Frames == [at : {"updating", "scan", "done", "summary", "reload", "refreshed", "reloading"},
           row : Row \cup {None}]
Selecting(f) == f.at \in {"updating", "scan", "done", "summary"}

Only(row) == \A e \in Entries : selected[e] => e = row

OneSelects(s) ==
  \A i, j \in 1 .. Len(s) : Selecting(s[i]) /\ Selecting(s[j]) => i = j
Stage(f) ==
  /\ f.at \in {"updating", "summary"} => \A e \in Entries : ~selected[e]
  /\ f.at = "updating" => f.row \in Entries
  /\ f.at = "scan" => f.row \in Slow /\ Only(f.row)
  /\ f.at = "done" => f.row \in Entries /\ Only(f.row)
  /\ f.at = "reload" => f.row \in Slow
  /\ f.at = "reloading" => f.row \in Overruns
Resting(s) == ~Updating(s) => Only(current)
Good(s) ==
  /\ s \in Seq(Frames) /\ OneSelects(s) /\ Resting(s)
  /\ \A i \in 1 .. Len(s) : Stage(s[i])

(* The timeouts are those of fields of what their show has shown.           *)
OfFields ==
  \A u \in Fu : source[u] => showOf[u[1]] \in Entries /\ u[2] <= Fields[showOf[u[1]]]

SelTypes ==
  /\ tree \in Row \cup {None}
  /\ selected \in [Entries -> BOOLEAN] /\ scanned \in [Entries -> BOOLEAN]
  /\ tbl \in [Entries -> Nat] /\ showOf \in [Show -> Entries \cup {None}]
  /\ shellSelected \in Entries \cup {None}
Counts ==
  /\ reload \in [Entries -> Nat] /\ rescan \in [Entries -> Nat]
  /\ \A e \in Entries : reload[e] > 0 => e \in Reloads
SelInv == IInv /\ SelTypes /\ OfFields /\ Counts /\ Good(stack)

(* What a call on top of the others, and its return, do to the stack.       *)
LEMMA Pushed ==
  ASSUME NEW s \in Seq(Frames), NEW f \in Frames
  PROVE  /\ <<f>> \o s \in Seq(Frames) /\ (<<f>> \o s)[1] = f
         /\ \A i \in 1 .. Len(<<f>> \o s) :
              i = 1 \/ (i - 1 \in 1 .. Len(s) /\ (<<f>> \o s)[i] = s[i - 1])
         /\ \A i \in 1 .. Len(s) : i + 1 \in 1 .. Len(<<f>> \o s) /\ (<<f>> \o s)[i + 1] = s[i]
OBVIOUS

LEMMA Popped ==
  ASSUME NEW s \in Seq(Frames), s # <<>>
  PROVE  /\ Tail(s) \in Seq(Frames) /\ 1 \in 1 .. Len(s) /\ s[1] \in Frames
         /\ \A i \in 1 .. Len(Tail(s)) : i + 1 \in 1 .. Len(s) /\ Tail(s)[i] = s[i + 1]
         /\ \A i \in 1 .. Len(s) : i = 1 \/ (i - 1 \in 1 .. Len(Tail(s)) /\ Tail(s)[i - 1] = s[i])
OBVIOUS

(* A call that is none of module_selected()'s comes and goes without a      *)
(* trace.                                                                   *)
LEMMA OtherCall ==
  ASSUME NEW s \in Seq(Frames), NEW f \in Frames, ~Selecting(f), Stage(f), Good(s)
  PROVE  Good(<<f>> \o s)
  <1> DEFINE t == <<f>> \o s
  <1>0. /\ t \in Seq(Frames) /\ t[1] = f
        /\ \A i \in 1 .. Len(t) : i = 1 \/ (i - 1 \in 1 .. Len(s) /\ t[i] = s[i - 1])
        /\ \A i \in 1 .. Len(s) : i + 1 \in 1 .. Len(t) /\ t[i + 1] = s[i]
    BY Pushed
  <1> HIDE DEF t
  <1>1. OneSelects(t)
    <2> SUFFICES ASSUME NEW i \in 1 .. Len(t), NEW j \in 1 .. Len(t), Selecting(t[i]), Selecting(t[j])
                 PROVE  i = j
      BY DEF OneSelects
    <2>1. /\ i - 1 \in 1 .. Len(s) /\ t[i] = s[i - 1]
          /\ j - 1 \in 1 .. Len(s) /\ t[j] = s[j - 1]
      BY <1>0
    <2>2. i - 1 = j - 1 BY <2>1 DEF Good, OneSelects
    <2> QED BY <2>2
  <1>2. Updating(s) => Updating(t)
    BY <1>0 DEF Updating
  <1>3. \A i \in 1 .. Len(t) : Stage(t[i])
    BY <1>0 DEF Good
  <1> QED BY <1>0, <1>1, <1>2, <1>3 DEF Good, Resting, t

LEMMA OtherReturn ==
  ASSUME NEW s \in Seq(Frames), s # <<>>, ~Selecting(s[1]), Good(s)
  PROVE  Good(Tail(s))
  <1> DEFINE t == Tail(s)
  <1>0. /\ t \in Seq(Frames)
        /\ \A i \in 1 .. Len(t) : i + 1 \in 1 .. Len(s) /\ t[i] = s[i + 1]
        /\ \A i \in 1 .. Len(s) : i = 1 \/ (i - 1 \in 1 .. Len(t) /\ t[i - 1] = s[i])
    BY Popped
  <1> HIDE DEF t
  <1>1. OneSelects(t)
    <2> SUFFICES ASSUME NEW i \in 1 .. Len(t), NEW j \in 1 .. Len(t), Selecting(t[i]), Selecting(t[j])
                 PROVE  i = j
      BY DEF OneSelects
    <2>1. /\ i + 1 \in 1 .. Len(s) /\ t[i] = s[i + 1]
          /\ j + 1 \in 1 .. Len(s) /\ t[j] = s[j + 1]
      BY <1>0
    <2>2. i + 1 = j + 1 BY <2>1 DEF Good, OneSelects
    <2> QED BY <2>2
  <1>2. Updating(s) => Updating(t)
    BY <1>0 DEF Updating, Selecting
  <1>3. \A i \in 1 .. Len(t) : Stage(t[i])
    BY <1>0 DEF Good
  <1> QED BY <1>0, <1>1, <1>2, <1>3 DEF Good, Resting, t

(* module_selected(), up to its first events: either there is a call past   *)
(* its guard already, or this one is the only one and nothing is selected.  *)
LEMMA Selects ==
  ASSUME NEW below \in Seq(Frames), Good(below), NEW row \in Row \cup {None}, NEW refresh,
         ModuleSelected(row, below, refresh), selected \in [Entries -> BOOLEAN],
         UNCHANGED current
  PROVE  /\ Good(stack)' /\ selected' \in [Entries -> BOOLEAN]
  <1>1. /\ selected' \in [Entries -> BOOLEAN]
        /\ \A e \in Entries : selected'[e] => selected[e] /\ e # current
    BY DEF ModuleSelected, Unselected
  <1>2. CASE Updating(below) /\ stack' = below /\ shown' = shown
    <2>1. \A i \in 1 .. Len(stack') : Stage(stack[i])'
      <3> SUFFICES ASSUME NEW i \in 1 .. Len(below) PROVE Stage(stack[i])' BY <1>2
      <3>1. Stage(below[i]) BY DEF Good
      <3> QED BY <1>1, <1>2, <3>1 DEF Stage, Only
    <2> QED BY <1>1, <1>2, <2>1 DEF Good, OneSelects, Resting, Updating
  <1>3. CASE ~Updating(below) /\ \E at \in {"updating", "summary"} :
               /\ stack' = <<[at |-> at, row |-> row]>> \o below
               /\ at = "updating" => row \in Entries
    <2>0. PICK at \in {"updating", "summary"} :
               /\ stack' = <<[at |-> at, row |-> row]>> \o below
               /\ at = "updating" => row \in Entries
      BY <1>3
    <2> DEFINE f == [at |-> at, row |-> row]
    <2>1. f \in Frames /\ f.at = at /\ f.row = row BY DEF Frames
    <2> HIDE DEF f
    <2>2. /\ stack' \in Seq(Frames) /\ stack'[1] = f
          /\ \A i \in 1 .. Len(stack') :
               i = 1 \/ (i - 1 \in 1 .. Len(below) /\ stack'[i] = below[i - 1])
          /\ 1 \in 1 .. Len(stack')
      BY <2>0, <2>1, Pushed DEF f
    <2>3. \A i \in 1 .. Len(below) : ~Selecting(below[i])
      BY <1>3 DEF Updating, Selecting
    <2>4. \A e \in Entries : ~selected'[e]
      BY <1>1, <1>3 DEF Good, Resting, Only
    <2>5. OneSelects(stack)'
      BY <2>2, <2>3 DEF OneSelects, Selecting
    <2>6. Updating(stack)'
      BY <2>1, <2>2 DEF Updating
    <2>7. \A i \in 1 .. Len(stack') : Stage(stack[i])'
      <3> SUFFICES ASSUME NEW i \in 1 .. Len(stack') PROVE Stage(stack[i])' OBVIOUS
      <3>1. CASE i = 1
        BY <2>0, <2>1, <2>2, <2>4, <3>1 DEF Stage
      <3>2. CASE i # 1
        <4>1. i - 1 \in 1 .. Len(below) /\ stack'[i] = below[i - 1] BY <2>2, <3>2
        <4>2. Stage(below[i - 1]) /\ ~Selecting(below[i - 1]) BY <2>3, <4>1 DEF Good
        <4> QED BY <4>1, <4>2 DEF Stage, Selecting
      <3> QED BY <3>1, <3>2
    <2> QED BY <1>1, <2>2, <2>5, <2>6, <2>7 DEF Good, Resting
  <1> QED BY <1>1, <1>2, <1>3 DEF ModuleSelected

LEMMA SameSelection ==
  ASSUME NEW s, Good(s), stack' = s, UNCHANGED <<current, selected>>
  PROVE  Good(stack)'
  BY DEF Good, OneSelects, Resting, Updating, Stage, Only

(* module_selected() on top goes on: the others select nothing.             *)
LEMMA TopSelects ==
  ASSUME Good(stack), stack # <<>>, Selecting(stack[1])
  PROVE  /\ stack \in Seq(Frames) /\ 1 \in 1 .. Len(stack) /\ stack[1] \in Frames
         /\ Stage(stack[1])
         /\ \A i \in 1 .. Len(stack) : i # 1 => ~Selecting(stack[i])
  <1>1. stack \in Seq(Frames) /\ 1 \in 1 .. Len(stack) /\ stack[1] \in Frames
    BY Popped DEF Good
  <1> QED BY <1>1 DEF Good, OneSelects

LEMMA TopGoesOn ==
  ASSUME Good(stack), stack # <<>>, Selecting(stack[1]), NEW a \in {"scan", "done"},
         stack' = [stack EXCEPT ![1].at = a],
         \A e \in Entries : selected'[e] => e = stack[1].row,
         a = "scan" => stack[1].row \in Slow,
         a = "done" => stack[1].row \in Entries
  PROVE  Good(stack)'
  <1>1. /\ stack \in Seq(Frames) /\ 1 \in 1 .. Len(stack)
        /\ \A i \in 1 .. Len(stack) : i # 1 => ~Selecting(stack[i])
    BY TopSelects
  <1>2. /\ stack' \in Seq(Frames) /\ Len(stack') = Len(stack)
        /\ stack'[1].at = a /\ stack'[1].row = stack[1].row
        /\ \A i \in 1 .. Len(stack) : i # 1 => stack'[i] = stack[i]
    <2> DEFINE f == [stack[1] EXCEPT !.at = a]
    <2>1. f \in Frames /\ f.at = a /\ f.row = stack[1].row BY TopSelects DEF Frames
    <2>2. stack' = [stack EXCEPT ![1] = f] OBVIOUS
    <2> HIDE DEF f
    <2> QED BY <1>1, <2>1, <2>2
  <1>3. OneSelects(stack)' BY <1>1, <1>2 DEF OneSelects, Selecting
  <1>4. Updating(stack)' BY <1>1, <1>2 DEF Updating
  <1>5. \A i \in 1 .. Len(stack') : Stage(stack[i])'
    <2> SUFFICES ASSUME NEW i \in 1 .. Len(stack') PROVE Stage(stack[i])' OBVIOUS
    <2>1. CASE i = 1 BY <1>2, <2>1 DEF Stage, Only
    <2>2. CASE i # 1
      <3>1. stack'[i] = stack[i] /\ Stage(stack[i]) /\ ~Selecting(stack[i])
        BY <1>1, <1>2, <2>2 DEF Good
      <3> QED BY <3>1 DEF Stage, Selecting
    <2> QED BY <2>1, <2>2
  <1> QED BY <1>2, <1>3, <1>4, <1>5 DEF Good, Resting

(* What module_selected_show_info() leaves.                                 *)
LEMMA Shows ==
  ASSUME IInv, SelTypes, OfFields,
         NEW e \in Entries, NEW again \in BOOLEAN, NEW timers, ShowInfo(e, again, timers)
  PROVE  /\ OfFields' /\ shown' = [row |-> e, show |-> tbl'[e]]
         /\ tbl' \in [Entries -> Nat] /\ showOf' \in [Show -> Entries \cup {None}]
  <1>1. /\ shows \in Nat /\ shows + 1 \in Show /\ shows + 1 \in Nat
    BY ViewAssumption DEF IInv, Shapes, ShowInfo, Show
  <1>2. /\ tbl' \in [Entries -> Nat] /\ tbl'[e] = shows + 1
    BY <1>1 DEF ShowInfo, SelTypes
  <1>3. /\ showOf' \in [Show -> Entries \cup {None}] /\ showOf'[shows + 1] = e
        /\ \A k \in Show : k # shows + 1 => showOf'[k] = showOf[k]
    BY <1>1 DEF ShowInfo, SelTypes
  <1>5. OfFields'
    <2> SUFFICES ASSUME NEW u \in Fu, source'[u]
                 PROVE  showOf'[u[1]] \in Entries /\ u[2] <= Fields[showOf'[u[1]]]
      BY DEF OfFields
    <2>1. source[u] \/ u \in FuOf(shows + 1, e) BY DEF ShowInfo, Timed
    <2>2. CASE u \in FuOf(shows + 1, e) BY <1>3, <2>2 DEF FuOf
    <2>3. CASE source[u]
      <3>1. u[1] \in Show /\ u[1] \in Nat BY DEF Fu, Show
      <3>2. u[1] <= shows BY <2>3 DEF IInv, Begun
      <3>3. showOf'[u[1]] = showOf[u[1]] BY <1>1, <1>3, <3>1, <3>2
      <3> QED BY <2>3, <3>3 DEF OfFields
    <2> QED BY <2>1, <2>2, <2>3
  <1>6. shown' = [row |-> e, show |-> tbl'[e]] BY <1>2 DEF ShowInfo
  <1> QED BY <1>2, <1>3, <1>5, <1>6

LEMMA SelInit == ASSUME Init PROVE SelInv
  <1>1. IInv BY InitHolds
  <1>2. SelTypes /\ OfFields
    <2>1. selected \in [Entries -> BOOLEAN] /\ scanned \in [Entries -> BOOLEAN] /\ tbl \in [Entries -> Nat]
      BY DEF Init
    <2> QED BY <2>1 DEF Init, SelTypes, OfFields
  <1>3. Good(stack)
    BY DEF Init, Good, OneSelects, Resting, Only
  <1>4. Counts BY DEF Init, Counts
  <1> QED BY <1>1, <1>2, <1>3, <1>4 DEF SelInv

(* What the calls do to the selection, one by one.                          *)
LEMMA SelectRowHolds ==
  ASSUME SelInv, NEW row \in Row, SelectRow(row) PROVE SelTypes' /\ Good(stack)'
  <1>1. Good(stack)' /\ selected' \in [Entries -> BOOLEAN]
    BY Selects DEF SelectRow, SelInv, SelTypes, Good
  <1> QED BY <1>1 DEF SelectRow, SelInv, SelTypes

LEMMA ScanHolds == ASSUME SelInv, ScanSlowly PROVE SelTypes' /\ Good(stack)'
  <1> DEFINE e == stack[1].row
  <1>1. /\ stack # <<>> /\ Good(stack) /\ Selecting(stack[1]) /\ e \in Slow /\ e \in Entries
        /\ \A x \in Entries : ~selected[x]
    <2>1. stack # <<>> /\ stack[1].at = "updating" /\ e \in Slow BY DEF ScanSlowly, ScansSlowly
    <2>2. Stage(stack[1]) BY <2>1, TopSelects DEF SelInv, Selecting
    <2> QED BY <2>1, <2>2 DEF SelInv, Stage, Selecting
  <1>2. selected' = [selected EXCEPT ![e] = TRUE] /\ shellSelected' = e
    BY DEF ScanSlowly
  <1>3. stack' = [stack EXCEPT ![1].at = "scan"] BY DEF ScanSlowly
  <1> HIDE DEF e
  <1>4. selected' \in [Entries -> BOOLEAN] /\ \A x \in Entries : selected'[x] => x = e
    BY <1>1, <1>2 DEF SelInv, SelTypes
  <1>5. SelTypes' BY <1>1, <1>2, <1>4 DEF SelInv, SelTypes, ScanSlowly, view_vars
  <1>6. Good(stack)' BY <1>1, <1>3, <1>4, TopGoesOn DEF e
  <1> QED BY <1>5, <1>6

LEMMA EndHolds == ASSUME SelInv, SelectionEnds PROVE SelTypes' /\ Good(stack)'
  <1>1. stack # <<>> /\ Selecting(stack[1]) /\ stack[1].at \in {"done", "summary"}
    BY DEF SelectionEnds, Selecting
  <1>2. /\ stack \in Seq(Frames) /\ Stage(stack[1])
        /\ \A i \in 1 .. Len(stack) : i # 1 => ~Selecting(stack[i])
    BY <1>1, TopSelects DEF SelInv
  <1>3. stack' = Tail(stack) /\ UNCHANGED <<tree, selected, scanned, tbl, showOf, shellSelected>>
    BY DEF SelectionEnds, view_vars
  <1>4. /\ stack' \in Seq(Frames)
        /\ \A i \in 1 .. Len(stack') : i + 1 \in 1 .. Len(stack) /\ stack'[i] = stack[i + 1]
    BY <1>1, <1>2, <1>3, Popped
  <1>5. \A i \in 1 .. Len(stack') : ~Selecting(stack'[i])
    <2> SUFFICES ASSUME NEW i \in 1 .. Len(stack') PROVE ~Selecting(stack'[i]) OBVIOUS
    <2>1. i + 1 # 1 /\ i + 1 \in 1 .. Len(stack) /\ stack'[i] = stack[i + 1] BY <1>4
    <2> QED BY <1>2, <2>1
  <1>6. OneSelects(stack)' BY <1>5 DEF OneSelects
  <1>7. \A i \in 1 .. Len(stack') : Stage(stack[i])'
    <2> SUFFICES ASSUME NEW i \in 1 .. Len(stack') PROVE Stage(stack[i])' OBVIOUS
    <2>1. i + 1 \in 1 .. Len(stack) /\ stack'[i] = stack[i + 1] BY <1>4
    <2>2. Stage(stack[i + 1]) BY <2>1 DEF SelInv, Good
    <2> QED BY <1>3, <2>1, <2>2 DEF Stage, Only
  <1>8. Only(current)'
    <2>1. CASE stack[1].at = "done"
      <3>1. current' = stack[1].row BY <2>1 DEF SelectionEnds, EntryOrNull
      <3> QED BY <1>2, <1>3, <2>1, <3>1 DEF Stage, Only
    <2>2. CASE stack[1].at = "summary"
      BY <1>2, <1>3, <2>2 DEF Stage, Only
    <2> QED BY <1>1, <2>1, <2>2
  <1>9. Good(stack)' BY <1>4, <1>6, <1>7, <1>8 DEF Good, Resting
  <1> QED BY <1>3, <1>9 DEF SelInv, SelTypes

LEMMA RefreshHolds == ASSUME SelInv, Refresh PROVE SelTypes' /\ Good(stack)'
  <1>1. UNCHANGED <<tree, current, tbl, showOf, shellSelected>> BY DEF Refresh
  <1>2. stack \in Seq(Frames) /\ Good(stack) BY DEF SelInv, Good
  <1>3. Good(stack)' /\ selected' \in [Entries -> BOOLEAN] /\ scanned' \in [Entries -> BOOLEAN]
    <2>1. CASE /\ shellSelected \in Slow
               /\ stack' = <<[at |-> "reload", row |-> shellSelected]>> \o stack
               /\ scanned' = [scanned EXCEPT ![shellSelected] = FALSE]
               /\ UNCHANGED selected
      <3> DEFINE f == [at |-> "reload", row |-> shellSelected]
      <3>1. f \in Frames /\ ~Selecting(f) /\ Stage(f)
        BY <2>1 DEF SelInv, SelTypes, Frames, Selecting, Row, Stage
      <3>2. Good(<<f>> \o stack) BY <1>2, <3>1, OtherCall
      <3>3. Good(stack)' BY <1>1, <2>1, <3>2, SameSelection
      <3> QED BY <2>1, <3>3 DEF SelInv, SelTypes
    <2>2. CASE /\ ModuleSelected(tree, <<[at |-> "refreshed", row |-> tree]>> \o stack, FALSE)
               /\ UNCHANGED scanned
      <3> DEFINE f == [at |-> "refreshed", row |-> tree]
      <3>1. f \in Frames /\ ~Selecting(f) /\ Stage(f)
        BY DEF SelInv, SelTypes, Frames, Selecting, Stage
      <3>2. <<f>> \o stack \in Seq(Frames) /\ Good(<<f>> \o stack)
        BY <1>2, <3>1, OtherCall, Pushed
      <3> QED BY <1>1, <2>2, <3>2, Selects DEF SelInv, SelTypes
    <2> QED BY <2>1, <2>2 DEF Refresh
  <1> QED BY <1>1, <1>3 DEF SelInv, SelTypes

LEMMA RefreshScannedHolds == ASSUME SelInv, RefreshScanned PROVE SelTypes' /\ Good(stack)'
  <1> DEFINE f == [at |-> "refreshed", row |-> tree]
             below == <<f>> \o Tail(stack)
  <1>1. /\ UNCHANGED <<tree, current, tbl, showOf, shellSelected>>
        /\ scanned' = [scanned EXCEPT ![stack[1].row] = TRUE]
    BY DEF RefreshScanned
  <1>2. stack # <<>> /\ stack \in Seq(Frames) /\ Good(stack) /\ ~Selecting(stack[1])
    BY DEF SelInv, Good, RefreshScanned, Selecting
  <1>3. Tail(stack) \in Seq(Frames) /\ Good(Tail(stack)) BY <1>2, OtherReturn, Popped
  <1>4. f \in Frames /\ ~Selecting(f) /\ Stage(f)
    BY DEF SelInv, SelTypes, Frames, Selecting, Stage
  <1>5. below \in Seq(Frames) /\ Good(below) BY <1>3, <1>4, OtherCall, Pushed
  <1>6. ModuleSelected(tree, below, refreshOn) BY DEF RefreshScanned
  <1>7. Good(stack)' /\ selected' \in [Entries -> BOOLEAN]
    BY <1>1, <1>5, <1>6, Selects DEF SelInv, SelTypes
  <1>8. scanned' \in [Entries -> BOOLEAN] BY <1>1 DEF SelInv, SelTypes
  <1> QED BY <1>1, <1>7, <1>8 DEF SelInv, SelTypes

LEMMA RefreshEndsHolds == ASSUME SelInv, RefreshEnds PROVE SelTypes' /\ Good(stack)'
  <1>1. stack # <<>> /\ stack \in Seq(Frames) /\ Good(stack) /\ ~Selecting(stack[1])
    BY DEF SelInv, Good, RefreshEnds, Selecting
  <1>2. Good(Tail(stack)) BY <1>1, OtherReturn
  <1>3. /\ stack' = Tail(stack)
        /\ UNCHANGED <<tree, current, selected, scanned, shellSelected, tbl, showOf>>
    BY DEF RefreshEnds, view_vars
  <1>4. Good(stack)' BY <1>2, <1>3, SameSelection
  <1> QED BY <1>3, <1>4 DEF SelInv, SelTypes

LEMMA ShownHolds ==
  ASSUME SelInv, ShowSelected
  PROVE  /\ SelTypes' /\ Good(stack)' /\ OfFields'
         /\ stack[1].row \in Entries /\ \A x \in Entries : selected'[x] => x = stack[1].row
  <1> DEFINE e == stack[1].row
  <1>1. /\ stack # <<>> /\ stack[1].at \in {"updating", "scan"} /\ Good(stack)
        /\ ShowInfo(e, FALSE, reload) /\ stack' = [stack EXCEPT ![1].at = "done"]
        /\ scanned' = [scanned EXCEPT ![e] = TRUE] /\ UNCHANGED <<tree, current>>
    BY DEF ShowSelected, SelInv
  <1>2. Selecting(stack[1]) /\ Stage(stack[1]) BY <1>1, TopSelects DEF Selecting
  <1>3. e \in Entries BY <1>1, <1>2, ViewAssumption DEF Stage
  <1>4. /\ selected' \in [Entries -> BOOLEAN] /\ shellSelected' \in Entries \cup {None}
        /\ \A x \in Entries : selected'[x] => x = e
    <2>1. CASE stack[1].at = "scan" /\ UNCHANGED <<selected, shellSelected>>
      BY <1>2, <2>1 DEF Stage, Only, SelInv, SelTypes
    <2>2. CASE /\ stack[1].at = "updating"
               /\ selected' = [selected EXCEPT ![e] = TRUE] /\ shellSelected' = e
      <3> HIDE DEF e
      <3>1. \A x \in Entries : ~selected[x] BY <1>2, <2>2 DEF Stage
      <3> QED BY <1>3, <2>2, <3>1 DEF SelInv, SelTypes
    <2> QED BY <2>1, <2>2 DEF ShowSelected
  <1>5. OfFields' /\ tbl' \in [Entries -> Nat] /\ showOf' \in [Show -> Entries \cup {None}]
    BY <1>1, <1>3, Shows DEF SelInv
  <1>6. Good(stack)' BY <1>1, <1>2, <1>3, <1>4, TopGoesOn
  <1>7. scanned' \in [Entries -> BOOLEAN] BY <1>1 DEF SelInv, SelTypes
  <1> QED BY <1>1, <1>3, <1>4, <1>5, <1>6, <1>7 DEF SelInv, SelTypes

LEMMA ReloadHolds ==
  ASSUME SelInv, NEW e \in Entries, ReloadSection(e)
  PROVE  SelTypes' /\ Good(stack)' /\ OfFields'
  <1> DEFINE fewer == [reload EXCEPT ![e] = @ - 1]
  <1>1. UNCHANGED <<tree, current, selected, shellSelected>> /\ e \in Reloads
    BY DEF ReloadSection, SelInv, Counts
  <1>2. CASE ShowInfo(e, TRUE, fewer) /\ UNCHANGED <<stack, scanned>>
    <2>1. OfFields' /\ tbl' \in [Entries -> Nat] /\ showOf' \in [Show -> Entries \cup {None}]
      BY <1>2, Shows DEF SelInv
    <2>2. Good(stack)' BY <1>1, <1>2, SameSelection DEF SelInv
    <2> QED BY <1>1, <1>2, <2>1, <2>2 DEF SelInv, SelTypes
  <1>3. CASE /\ e \in Slow /\ stack' = <<[at |-> "reloading", row |-> e]>> \o stack
             /\ scanned' = [scanned EXCEPT ![e] = FALSE] /\ UNCHANGED <<view_vars, source>>
    <2> DEFINE f == [at |-> "reloading", row |-> e]
    <2>1. f \in Frames /\ ~Selecting(f) /\ Stage(f)
      BY <1>1, <1>3 DEF Frames, Selecting, Row, Stage, Overruns
    <2>2. Good(<<f>> \o stack) BY <2>1, OtherCall DEF SelInv, Good
    <2>3. Good(stack)' BY <1>1, <1>3, <2>2, SameSelection
    <2>4. scanned' \in [Entries -> BOOLEAN] BY <1>3 DEF SelInv, SelTypes
    <2> QED BY <1>1, <1>3, <2>3, <2>4 DEF SelInv, SelTypes, OfFields, view_vars
  <1>4. CASE UNCHANGED <<stack, scanned, view_vars, source>>
    <2>1. Good(stack)' BY <1>1, <1>4, SameSelection DEF SelInv
    <2> QED BY <1>1, <1>4, <2>1 DEF SelInv, SelTypes, OfFields, view_vars
  <1> QED BY <1>2, <1>3, <1>4 DEF ReloadSection

LEMMA ReloadScannedHolds ==
  ASSUME SelInv, ReloadScanned
  PROVE  /\ SelTypes' /\ Good(stack)' /\ OfFields'
         /\ stack[1].row \in Overruns /\ stack[1].row \in Entries
  <1> DEFINE e == stack[1].row
  <1>1. /\ stack # <<>> /\ stack \in Seq(Frames) /\ Good(stack) /\ ~Selecting(stack[1])
        /\ stack[1].at = "reloading" /\ ShowInfo(e, TRUE, reload) /\ stack' = Tail(stack)
        /\ scanned' = [scanned EXCEPT ![e] = TRUE]
        /\ UNCHANGED <<tree, current, selected, shellSelected>>
    BY DEF SelInv, Good, ReloadScanned, Selecting
  <1>2. 1 \in 1 .. Len(stack) BY <1>1, Popped
  <1>3. e \in Overruns BY <1>1, <1>2 DEF SelInv, Good, Stage
  <1>4. e \in Entries BY <1>3, ViewAssumption DEF Overruns
  <1>5. OfFields' /\ tbl' \in [Entries -> Nat] /\ showOf' \in [Show -> Entries \cup {None}]
    BY <1>1, <1>4, Shows DEF SelInv
  <1>6. Good(Tail(stack)) BY <1>1, OtherReturn
  <1>7. Good(stack)' BY <1>1, <1>6, SameSelection
  <1>8. scanned' \in [Entries -> BOOLEAN] BY <1>1 DEF SelInv, SelTypes
  <1> QED BY <1>1, <1>3, <1>4, <1>5, <1>7, <1>8 DEF SelInv, SelTypes

LEMMA FieldHolds ==
  ASSUME SelInv, NEW u \in Fu, UpdateField(u)
  PROVE  SelTypes' /\ Good(stack)' /\ OfFields'
  <1>1. UNCHANGED <<stack, tree_vars, view_vars>> BY DEF UpdateField
  <1>2. Good(stack)' BY <1>1, SameSelection DEF SelInv, tree_vars
  <1>3. \A v \in Fu : source'[v] => source[v]
    BY DEF UpdateField, SelInv, IInv, Shapes
  <1>4. OfFields' BY <1>1, <1>3 DEF SelInv, OfFields, view_vars
  <1> QED BY <1>1, <1>2, <1>4 DEF SelInv, SelTypes, tree_vars, view_vars

(* The timeouts of entries: a show may add one, a timeout may end.          *)
LEMMA ShowCounts ==
  ASSUME Counts, NEW e \in Entries, NEW again, NEW timers \in [Entries -> Nat],
         ShowInfo(e, again, timers), \A x \in Entries : timers[x] > 0 => x \in Reloads
  PROVE  Counts'
  <1>1. reload' \in [Entries -> Nat] /\ \A x \in Entries : reload'[x] > 0 => x \in Reloads
    <2>1. reload' = IF e \in Reloads THEN [timers EXCEPT ![e] = @ + 1] ELSE timers
      BY DEF ShowInfo, Again
    <2> QED BY <2>1
  <1>2. rescan' \in [Entries -> Nat]
    <2>1. rescan' = IF e \in Rescans THEN [rescan EXCEPT ![e] = @ + 1] ELSE rescan
      BY DEF ShowInfo
    <2> QED BY <2>1 DEF Counts
  <1> QED BY <1>1, <1>2 DEF Counts

LEMMA Fewer ==
  ASSUME Counts, NEW e \in Entries, reload[e] > 0
  PROVE  /\ [reload EXCEPT ![e] = @ - 1] \in [Entries -> Nat]
         /\ \A x \in Entries : [reload EXCEPT ![e] = @ - 1][x] > 0 => x \in Reloads
         /\ \A x \in Entries : x # e => [reload EXCEPT ![e] = @ - 1][x] = reload[x]
  BY DEF Counts

LEMMA CountsNext == ASSUME SelInv, [Next]_vars PROVE Counts'
  <1>1. CASE UNCHANGED <<reload, rescan>> BY <1>1 DEF SelInv, Counts
  <1>2. CASE ShowSelected
    BY <1>2, ShownHolds, ShowCounts DEF SelInv, Counts, ShowSelected
  <1>3. CASE ReloadScanned
    BY <1>3, ReloadScannedHolds, ShowCounts DEF SelInv, Counts, ReloadScanned
  <1>4. ASSUME NEW e \in Entries, ReloadSection(e) PROVE Counts'
    <2> DEFINE fewer == [reload EXCEPT ![e] = @ - 1]
    <2>1. /\ reload[e] > 0
          /\ ShowInfo(e, TRUE, fewer) \/ (reload' = fewer /\ UNCHANGED rescan)
      BY <1>4 DEF ReloadSection
    <2>2. fewer \in [Entries -> Nat] /\ \A x \in Entries : fewer[x] > 0 => x \in Reloads
      BY <2>1, Fewer DEF SelInv
    <2> HIDE DEF fewer
    <2> QED BY <2>1, <2>2, ShowCounts DEF SelInv, Counts
  <1>5. ASSUME NEW e \in Entries, RescanSection(e) PROVE Counts'
    BY <1>5 DEF RescanSection, SelInv, Counts
  <1>6. CASE \/ \E row \in Row : SelectRow(row)
             \/ ScanSlowly \/ SelectionEnds \/ Refresh \/ RefreshScanned \/ RefreshEnds
             \/ \E u \in Fu : UpdateField(u)
             \/ UNCHANGED vars
    <2>1. UNCHANGED <<reload, rescan>>
      BY <1>6 DEF SelectRow, ScanSlowly, SelectionEnds, Refresh, RefreshScanned, RefreshEnds,
                  UpdateField, vars, timer_vars
    <2> QED BY <1>1, <2>1
  <1> QED BY <1>2, <1>3, <1>4, <1>5, <1>6 DEF Next

LEMMA SelNext == ASSUME SelInv, [Next]_vars PROVE SelInv'
  <1>0. IInv' /\ Counts' BY StepHolds, CountsNext DEF SelInv
  <1>1. ASSUME UNCHANGED <<source, showOf>> PROVE OfFields'
    BY <1>1 DEF SelInv, OfFields
  <1>2. CASE \/ \E row \in Row : SelectRow(row)
             \/ ScanSlowly \/ SelectionEnds \/ Refresh \/ RefreshScanned \/ RefreshEnds
    <2>1. SelTypes' /\ Good(stack)'
      BY <1>2, SelectRowHolds, ScanHolds, EndHolds, RefreshHolds, RefreshScannedHolds, RefreshEndsHolds
    <2>2. UNCHANGED <<source, showOf>>
      BY <1>2 DEF SelectRow, ScanSlowly, SelectionEnds, Refresh, RefreshScanned, RefreshEnds,
                  view_vars, timer_vars
    <2> QED BY <1>0, <1>1, <2>1, <2>2 DEF SelInv
  <1>3. CASE ShowSelected
    BY <1>0, <1>3, ShownHolds DEF SelInv
  <1>4. CASE ReloadScanned
    BY <1>0, <1>4, ReloadScannedHolds DEF SelInv
  <1>5. CASE \E u \in Fu : UpdateField(u)
    BY <1>0, <1>5, FieldHolds DEF SelInv
  <1>6. CASE \E e \in Entries : ReloadSection(e)
    BY <1>0, <1>6, ReloadHolds DEF SelInv
  <1>7. CASE UNCHANGED vars \/ \E e \in Entries : RescanSection(e)
    <2>1. UNCHANGED <<stack, tree_vars, view_vars, source>>
      BY <1>7 DEF RescanSection, vars, timer_vars
    <2>2. Good(stack)' BY <2>1, SameSelection DEF SelInv, tree_vars
    <2>3. SelTypes' BY <2>1 DEF SelInv, SelTypes, tree_vars, view_vars
    <2>4. OfFields' BY <1>1, <2>1 DEF view_vars
    <2> QED BY <1>0, <2>2, <2>3, <2>4 DEF SelInv
  <1> QED BY <1>2, <1>3, <1>4, <1>5, <1>6, <1>7 DEF Next

(* No two entries count as selected.                                        *)
LEMMA OnlyOne ==
  ASSUME SelInv, NEW e \in Entries, selected[e], NEW x \in Entries, selected[x]
  PROVE  x = e
  <1>1. CASE ~Updating(stack) BY <1>1 DEF SelInv, Good, Resting, Only
  <1>2. CASE Updating(stack)
    <2>1. PICK i \in 1 .. Len(stack) : Selecting(stack[i]) BY <1>2 DEF Updating, Selecting
    <2>2. Stage(stack[i]) BY DEF SelInv, Good
    <2> QED BY <2>1, <2>2 DEF Stage, Only, Selecting
  <1> QED BY <1>1, <1>2
-----------------------------------------------------------------------------
(* The view.  Calls that wait on the stack, by the entry they are about.    *)
Waits(s, a, e) == \E i \in 1 .. Len(s) : s[i].at \in a /\ s[i].row = e
InScan(s, e)   == Waits(s, {"scan"}, e)
InReload(s, e) == Waits(s, {"reload", "reloading"}, e)
Nested(s, e)   ==
  \E i, j \in 1 .. Len(s) :
    /\ i < j /\ s[i].at = "scan" /\ s[j].at \in {"reload", "reloading"}
    /\ s[i].row = e /\ s[j].row = e

HasTimers(e) ==
  /\ \A f \in 1 .. Fields[e] : \E k \in Show : showOf[k] = e /\ source[<<k, f>>]
  /\ e \in Reloads => reload[e] > 0 \/ Waits(stack, {"reloading"}, e)
  /\ e \in Rescans => rescan[e] > 0

(* The view of an entry has its items; a selected entry that has no view is *)
(* being scanned, or was shown over; an entry that has items is scanned     *)
(* slowly only in its reload; and the timers of the entry that is shown are *)
(* there once it was shown.                                                 *)
HasItems(e)  == shown.row = e => shown.show > 0 /\ tbl[e] = shown.show
HasView(e)   == selected[e] => shown.row = e \/ shown.row \in Overruns \/ InScan(stack, e)
NoOldView(e) ==
  selected[e] /\ tbl[e] # 0 => shown.row = e \/ shown.row \in Overruns \/ Nested(stack, e)
Scanned(e)   == e \in Slow /\ tbl[e] # 0 /\ ~scanned[e] => InReload(stack, e)
Timely(e)    == selected[e] /\ shown.row = e => InScan(stack, e) \/ HasTimers(e)

View ==
  /\ shown \in [row : Row \cup {None}, show : Nat]
  /\ \A e \in Entries :
       HasItems(e) /\ HasView(e) /\ NoOldView(e) /\ Scanned(e) /\ Timely(e)

(* What a call on top, and a return, leave of those that wait.              *)
LEMMA PushWaits ==
  ASSUME NEW s \in Seq(Frames), NEW f \in Frames, NEW e
  PROVE  /\ \A a : Waits(s, a, e) => Waits(<<f>> \o s, a, e)
         /\ Nested(s, e) => Nested(<<f>> \o s, e)
  <1> DEFINE t == <<f>> \o s
  <1>1. \A i \in 1 .. Len(s) : i + 1 \in 1 .. Len(t) /\ t[i + 1] = s[i] BY Pushed
  <1> HIDE DEF t
  <1>2. ASSUME NEW a, Waits(s, a, e) PROVE Waits(t, a, e) BY <1>1, <1>2 DEF Waits
  <1>3. ASSUME Nested(s, e) PROVE Nested(t, e)
    <2>1. PICK i \in 1 .. Len(s), j \in 1 .. Len(s) :
            /\ i < j /\ s[i].at = "scan" /\ s[j].at \in {"reload", "reloading"}
            /\ s[i].row = e /\ s[j].row = e
      BY <1>3 DEF Nested
    <2>2. i + 1 < j + 1 BY <2>1
    <2> QED BY <1>1, <2>1, <2>2 DEF Nested
  <1> QED BY <1>2, <1>3 DEF t

LEMMA PopWaits ==
  ASSUME NEW s \in Seq(Frames), s # <<>>, NEW e
  PROVE  /\ \A a : Waits(s, a, e) /\ ~(s[1].at \in a /\ s[1].row = e) => Waits(Tail(s), a, e)
         /\ Nested(s, e) /\ s[1].at # "scan" => Nested(Tail(s), e)
  <1> DEFINE t == Tail(s)
  <1>1. \A i \in 1 .. Len(s) : i = 1 \/ (i - 1 \in 1 .. Len(t) /\ t[i - 1] = s[i]) BY Popped
  <1> HIDE DEF t
  <1>2. ASSUME NEW a, Waits(s, a, e), ~(s[1].at \in a /\ s[1].row = e) PROVE Waits(t, a, e)
    <2>1. PICK i \in 1 .. Len(s) : s[i].at \in a /\ s[i].row = e BY <1>2 DEF Waits
    <2>2. i # 1 BY <1>2, <2>1
    <2> QED BY <1>1, <2>1, <2>2 DEF Waits
  <1>3. ASSUME Nested(s, e), s[1].at # "scan" PROVE Nested(t, e)
    <2>1. PICK i \in 1 .. Len(s), j \in 1 .. Len(s) :
            /\ i < j /\ s[i].at = "scan" /\ s[j].at \in {"reload", "reloading"}
            /\ s[i].row = e /\ s[j].row = e
      BY <1>3 DEF Nested
    <2>2. i # 1 /\ j # 1 /\ i - 1 < j - 1 BY <1>3, <2>1
    <2> QED BY <1>1, <2>1, <2>2 DEF Nested
  <1> QED BY <1>2, <1>3 DEF t

(* module_selected() leaves an entry selected only when it gives way to     *)
(* another call of it, and then changes nothing else.                       *)
LEMMA GivesWay ==
  ASSUME NEW below, Good(below), NEW row, NEW refresh, ModuleSelected(row, below, refresh),
         NEW e \in Entries, selected'[e]
  PROVE  selected[e] /\ stack' = below /\ shown' = shown
  <1>1. selected[e] /\ e # current BY DEF ModuleSelected, Unselected
  <1>2. Updating(below) BY <1>1 DEF Good, Resting, Only
  <1> QED BY <1>1, <1>2 DEF ModuleSelected

LEMMA SelectKeeps ==
  ASSUME SelInv, View, NEW below \in Seq(Frames), Good(below),
         NEW row \in Row \cup {None}, NEW refresh,
         ModuleSelected(row, below, refresh), UNCHANGED <<showOf, tbl, source, reload, rescan>>,
         \A e \in Entries :
           /\ Nested(stack, e) => Nested(below, e)
           /\ \A a \in {{"scan"}, {"reloading"}} : Waits(stack, a, e) => Waits(below, a, e)
           /\ e \in Slow /\ tbl[e] # 0 /\ ~scanned'[e] => InReload(below, e)
  PROVE  View'
  <1>1. shown' = shown \/ shown' = [row |-> Summary, show |-> 0] BY DEF ModuleSelected
  <1>2. shown' \in [row : Row \cup {None}, show : Nat] BY <1>1 DEF View, Row
  <1>3. ASSUME NEW e \in Entries
        PROVE  HasItems(e)' /\ HasView(e)' /\ NoOldView(e)' /\ Scanned(e)' /\ Timely(e)'
    <2>1. HasItems(e)' BY <1>1, ViewAssumption DEF View, HasItems
    <2>2. ASSUME selected'[e] PROVE selected[e] /\ stack' = below /\ shown' = shown
      BY <2>2, GivesWay
    <2>3. HasView(e)' BY <2>2 DEF View, HasView, InScan
    <2>4. NoOldView(e)' BY <2>2 DEF View, NoOldView
    <2>5. Timely(e)'
      <3> SUFFICES ASSUME selected'[e], shown'.row = e PROVE InScan(stack', e) \/ HasTimers(e)'
        BY DEF Timely
      <3>1. selected[e] /\ stack' = below /\ shown.row = e BY <2>2
      <3>2. CASE InScan(stack, e) BY <3>1, <3>2 DEF InScan
      <3>3. CASE HasTimers(e) BY <3>1, <3>3 DEF HasTimers
      <3> QED BY <3>1, <3>2, <3>3 DEF View, Timely
    <2>6. Scanned(e)'
      <3> SUFFICES ASSUME e \in Slow, tbl[e] # 0, ~scanned'[e] PROVE InReload(stack', e)
        BY DEF Scanned, InReload
      <3>1. InReload(below, e) OBVIOUS
      <3>2. CASE stack' = below BY <3>1, <3>2
      <3>3. ASSUME NEW at \in {"updating", "summary"},
                   stack' = <<[at |-> at, row |-> row]>> \o below
            PROVE  InReload(stack', e)
        <4> DEFINE f == [at |-> at, row |-> row]
        <4>1. f \in Frames BY DEF Frames
        <4> HIDE DEF f
        <4> QED BY <3>1, <3>3, <4>1, PushWaits DEF InReload, f
      <3> QED BY <3>2, <3>3 DEF ModuleSelected
    <2> QED BY <2>1, <2>3, <2>4, <2>5, <2>6
  <1> QED BY <1>2, <1>3 DEF View

(* The stack changes and the view does not: calls come and go.              *)
LEMMA StackKeeps ==
  ASSUME SelInv, View, UNCHANGED <<selected, shown, showOf, tbl, source, rescan>>,
         \A e \in Entries :
           /\ Nested(stack, e) => Nested(stack', e)
           /\ InScan(stack, e) => InScan(stack', e)
           /\ Waits(stack, {"reloading"}, e) => Waits(stack', {"reloading"}, e)
           /\ reload'[e] = reload[e] \/ Waits(stack', {"reloading"}, e)
           /\ Scanned(e)'
  PROVE  View'
  <1>1. ASSUME NEW e \in Entries
        PROVE  HasItems(e)' /\ HasView(e)' /\ NoOldView(e)' /\ Timely(e)'
    <2>1. HasItems(e)' BY DEF View, HasItems
    <2>2. HasView(e)' BY DEF View, HasView
    <2>3. NoOldView(e)' BY DEF View, NoOldView
    <2>4. HasTimers(e) => HasTimers(e)' BY DEF HasTimers
    <2>5. Timely(e)' BY <2>4 DEF View, Timely
    <2> QED BY <2>1, <2>2, <2>3, <2>5
  <1> QED BY <1>1 DEF View

LEMMA ScanKeeps == ASSUME SelInv, View, ScanSlowly PROVE View'
  <1> DEFINE e == stack[1].row
  <1>1. /\ stack # <<>> /\ stack[1].at = "updating" /\ e \in Slow /\ ~scanned[e]
        /\ selected' = [selected EXCEPT ![e] = TRUE]
        /\ stack' = [stack EXCEPT ![1].at = "scan"]
        /\ UNCHANGED <<scanned, shown, showOf, tbl, source, reload, rescan>>
    BY DEF ScanSlowly, ScansSlowly, view_vars, timer_vars
  <1>2. /\ stack \in Seq(Frames) /\ 1 \in 1 .. Len(stack) /\ stack[1] \in Frames
        /\ \A x \in Entries : ~selected[x]
        /\ \A i \in 1 .. Len(stack) : i # 1 => ~Selecting(stack[i])
    BY <1>1, TopSelects DEF SelInv, Selecting, Stage
  <1>3. /\ 1 \in 1 .. Len(stack') /\ Len(stack') = Len(stack)
        /\ stack'[1].at = "scan" /\ stack'[1].row = e
        /\ \A i \in 1 .. Len(stack) : i # 1 => stack'[i] = stack[i]
    <2> DEFINE f == [stack[1] EXCEPT !.at = "scan"]
    <2>1. f.at = "scan" /\ f.row = e BY <1>2 DEF Frames
    <2>2. stack' = [stack EXCEPT ![1] = f] BY <1>1
    <2> HIDE DEF f, e
    <2> QED BY <1>2, <2>1, <2>2
  <1> HIDE DEF e
  <1>4. ASSUME NEW x \in Entries, selected'[x] PROVE x = e
    BY <1>1, <1>2, <1>4 DEF SelInv, SelTypes
  <1>5. InScan(stack', e) BY <1>3 DEF InScan, Waits
  <1>6. ASSUME NEW x \in Entries, InReload(stack, x)
        PROVE  \E j \in 1 .. Len(stack') :
                 j > 1 /\ stack'[j].at \in {"reload", "reloading"} /\ stack'[j].row = x
    <2>1. PICK j \in 1 .. Len(stack) : stack[j].at \in {"reload", "reloading"} /\ stack[j].row = x
      BY <1>6 DEF InReload, Waits
    <2>2. j # 1 BY <1>1, <2>1
    <2> QED BY <1>3, <2>1, <2>2
  <1>7. tbl[e] # 0 => Nested(stack', e)
    <2> SUFFICES ASSUME tbl[e] # 0 PROVE Nested(stack', e) OBVIOUS
    <2>1. e \in Entries BY <1>1, ViewAssumption
    <2>2. InReload(stack, e) BY <1>1, <2>1 DEF View, Scanned
    <2>3. PICK j \in 1 .. Len(stack') :
            j > 1 /\ stack'[j].at \in {"reload", "reloading"} /\ stack'[j].row = e
      BY <1>6, <2>1, <2>2
    <2> QED BY <1>3, <2>3 DEF Nested
  <1>8. ASSUME NEW x \in Entries
        PROVE  HasItems(x)' /\ HasView(x)' /\ NoOldView(x)' /\ Scanned(x)' /\ Timely(x)'
    <2>1. HasItems(x)' BY <1>1 DEF View, HasItems
    <2>2. HasView(x)' BY <1>4, <1>5 DEF HasView
    <2>3. NoOldView(x)' BY <1>1, <1>4, <1>7 DEF NoOldView
    <2>4. Scanned(x)' BY <1>1, <1>6 DEF View, Scanned, InReload, Waits
    <2>5. Timely(x)' BY <1>4, <1>5 DEF Timely
    <2> QED BY <2>1, <2>2, <2>3, <2>4, <2>5
  <1> QED BY <1>1, <1>8 DEF View

(* The show of an entry: it starts the timers the entry asks for, and       *)
(* either only the entry is selected or the entry is one that may be shown  *)
(* over another.                                                            *)
LEMMA ShowStarts ==
  ASSUME SelInv, View, Counts', NEW e \in Entries, NEW again \in BOOLEAN, NEW timers \in [Entries -> Nat],
         ShowInfo(e, again, timers),
         e \in Overruns \/ \A x \in Entries : selected'[x] => x = e,
         \A x \in Entries : Scanned(x)'
  PROVE  View'
  <1>1. shows \in Nat /\ shows + 1 \in Show /\ shows + 1 > 0 /\ shows + 1 \in Nat
    BY ViewAssumption DEF SelInv, IInv, Shapes, ShowInfo, Show
  <1>2. showOf'[shows + 1] = e BY <1>1 DEF ShowInfo, SelInv, SelTypes
  <1>3. \A f \in 1 .. Fields[e] : source'[<<shows + 1, f>>]
    <2> SUFFICES ASSUME NEW f \in 1 .. Fields[e] PROVE source'[<<shows + 1, f>>] OBVIOUS
    <2> DEFINE u == <<shows + 1, f>>
    <2>1. Fields[e] \in Nat BY ViewAssumption
    <2>2. f \in Field BY DEF Field
    <2>3. u \in Fu /\ u[1] = shows + 1 /\ u[2] = f BY <1>1, <2>2 DEF Fu
    <2>4. u \in FuOf(shows + 1, e) BY <2>1, <2>3 DEF FuOf
    <2> HIDE DEF u
    <2>5. source' = [v \in Fu |-> (source[v] /\ v \notin list) \/ v \in FuOf(shows + 1, e)]
      BY DEF ShowInfo, Timed
    <2>6. source'[u] BY <2>3, <2>4, <2>5, Zenon
    <2> QED BY <2>6 DEF u
  <1>4. e \in Reloads => reload'[e] > 0
    <2>1. reload' = IF e \in Reloads THEN [timers EXCEPT ![e] = @ + 1] ELSE timers
      BY DEF ShowInfo, Again
    <2> QED BY <2>1
  <1>5. e \in Rescans => rescan'[e] > 0
    <2>1. rescan' = IF e \in Rescans THEN [rescan EXCEPT ![e] = @ + 1] ELSE rescan
      BY DEF ShowInfo
    <2> QED BY <2>1 DEF SelInv, Counts
  <1>6. HasTimers(e)' BY <1>1, <1>2, <1>3, <1>4, <1>5 DEF HasTimers
  <1>7. shown' = [row |-> e, show |-> shows + 1] /\ tbl'[e] = shows + 1
    BY <1>1 DEF ShowInfo, SelInv, SelTypes
  <1>8. ASSUME NEW x \in Entries
        PROVE  HasItems(x)' /\ HasView(x)' /\ NoOldView(x)' /\ Timely(x)'
    <2>1. HasItems(x)' BY <1>1, <1>7 DEF HasItems
    <2>2. HasView(x)' BY <1>7 DEF HasView
    <2>3. NoOldView(x)' BY <1>7 DEF NoOldView
    <2>4. Timely(x)' BY <1>6, <1>7 DEF Timely
    <2> QED BY <2>1, <2>2, <2>3, <2>4
  <1>9. shown' \in [row : Row \cup {None}, show : Nat] BY <1>1, <1>7 DEF Row
  <1> QED BY <1>8, <1>9 DEF View

(* A show gives items to its entry only; the others keep theirs or lose     *)
(* them.                                                                    *)
LEMMA ShowItems ==
  ASSUME SelInv, NEW e \in Entries, NEW again, NEW timers, ShowInfo(e, again, timers),
         NEW x \in Entries, x # e
  PROVE  tbl'[x] # 0 => tbl[x] # 0
  BY DEF ShowInfo, SelInv, SelTypes

LEMMA ShownKeeps == ASSUME SelInv, View, Counts', ShowSelected PROVE View'
  <1> DEFINE e == stack[1].row
  <1>1. /\ stack # <<>> /\ stack[1].at \in {"updating", "scan"} /\ ShowInfo(e, FALSE, reload)
        /\ scanned' = [scanned EXCEPT ![e] = TRUE] /\ stack' = [stack EXCEPT ![1].at = "done"]
    BY DEF ShowSelected
  <1>2. e \in Entries /\ \A x \in Entries : selected'[x] => x = e BY ShownHolds
  <1>3. /\ stack \in Seq(Frames) /\ 1 \in 1 .. Len(stack) /\ Len(stack') = Len(stack)
        /\ \A i \in 1 .. Len(stack) : i # 1 => stack'[i] = stack[i]
    <2>1. stack \in Seq(Frames) /\ 1 \in 1 .. Len(stack) BY <1>1, Popped DEF SelInv, Good
    <2>2. stack' = [stack EXCEPT ![1] = [stack[1] EXCEPT !.at = "done"]] BY <1>1
    <2> HIDE DEF e
    <2> QED BY <2>1, <2>2
  <1> HIDE DEF e
  <1>4. ASSUME NEW x \in Entries PROVE Scanned(x)'
    <2> SUFFICES ASSUME x \in Slow, tbl'[x] # 0, ~scanned'[x] PROVE InReload(stack', x)
      BY DEF Scanned
    <2>1. x # e BY <1>1, <1>2 DEF SelInv, SelTypes
    <2>2. tbl[x] # 0 BY <1>1, <1>2, <2>1, ShowItems
    <2>3. ~scanned[x] BY <1>1, <2>1 DEF SelInv, SelTypes
    <2>4. PICK j \in 1 .. Len(stack) : stack[j].at \in {"reload", "reloading"} /\ stack[j].row = x
      BY <2>2, <2>3 DEF View, Scanned, InReload, Waits
    <2>5. j # 1 BY <1>1, <2>4
    <2> QED BY <1>3, <2>4, <2>5 DEF InReload, Waits
  <1> QED BY <1>1, <1>2, <1>4, ShowStarts DEF SelInv, Counts

LEMMA ReturnKeeps == ASSUME SelInv, View, SelectionEnds \/ RefreshEnds PROVE View'
  <1>1. /\ stack # <<>> /\ stack[1].at \in {"done", "summary", "refreshed"} /\ stack' = Tail(stack)
        /\ UNCHANGED <<selected, scanned, shown, showOf, tbl, source, reload, rescan>>
    BY DEF SelectionEnds, RefreshEnds, view_vars, timer_vars
  <1>2. stack \in Seq(Frames) BY DEF SelInv, Good
  <1>3. ASSUME NEW e \in Entries
        PROVE  /\ Nested(stack, e) => Nested(stack', e)
               /\ InScan(stack, e) => InScan(stack', e)
               /\ InReload(stack, e) => InReload(stack', e)
               /\ Waits(stack, {"reloading"}, e) => Waits(stack', {"reloading"}, e)
    BY <1>1, <1>2, PopWaits DEF InScan, InReload
  <1>4. \A e \in Entries : Scanned(e)' BY <1>1, <1>3 DEF View, Scanned
  <1> QED BY <1>1, <1>3, <1>4, StackKeeps

LEMMA RowKeeps == ASSUME SelInv, View, NEW row \in Row, SelectRow(row) PROVE View'
  <1>1. /\ ModuleSelected(row, stack, refreshOn) /\ stack \in Seq(Frames) /\ Good(stack)
        /\ UNCHANGED <<scanned, showOf, tbl, source, reload, rescan>>
    BY DEF SelectRow, timer_vars, SelInv, Good
  <1>2. \A e \in Entries : e \in Slow /\ tbl[e] # 0 /\ ~scanned'[e] => InReload(stack, e)
    BY <1>1 DEF View, Scanned
  <1> QED BY <1>1, <1>2, SelectKeeps

LEMMA RefreshKeeps == ASSUME SelInv, View, Refresh PROVE View'
  <1>1. /\ stack \in Seq(Frames) /\ Good(stack)
        /\ UNCHANGED <<showOf, tbl, source, reload, rescan>>
    BY DEF Refresh, timer_vars, SelInv, Good
  <1>2. CASE /\ shellSelected \in Slow
             /\ stack' = <<[at |-> "reload", row |-> shellSelected]>> \o stack
             /\ scanned' = [scanned EXCEPT ![shellSelected] = FALSE]
             /\ UNCHANGED <<selected, shown>>
    <2> DEFINE f == [at |-> "reload", row |-> shellSelected]
    <2>1. f \in Frames /\ f.at = "reload" /\ f.row = shellSelected
      BY DEF SelInv, SelTypes, Frames, Row
    <2>2. stack' = <<f>> \o stack BY <1>2
    <2> HIDE DEF f
    <2>3. ASSUME NEW e \in Entries
          PROVE  /\ Nested(stack, e) => Nested(stack', e)
                 /\ \A a : Waits(stack, a, e) => Waits(stack', a, e)
      BY <1>1, <2>1, <2>2, PushWaits
    <2>4. InReload(stack', shellSelected)
      <3>1. 1 \in 1 .. Len(stack') /\ stack'[1] = f BY <1>1, <2>1, <2>2, Pushed
      <3> QED BY <2>1, <3>1 DEF InReload, Waits
    <2>5. ASSUME NEW e \in Entries PROVE Scanned(e)'
      <3>1. CASE e = shellSelected BY <2>4, <3>1 DEF Scanned
      <3>2. CASE e # shellSelected
        <4>1. scanned'[e] = scanned[e] BY <1>2, <3>2 DEF SelInv, SelTypes
        <4> QED BY <1>1, <2>3, <4>1 DEF View, Scanned, InReload
      <3> QED BY <3>1, <3>2
    <2> QED BY <1>1, <1>2, <2>3, <2>5, StackKeeps DEF InScan
  <1>3. CASE /\ ModuleSelected(tree, <<[at |-> "refreshed", row |-> tree]>> \o stack, FALSE)
             /\ UNCHANGED scanned
    <2> DEFINE f == [at |-> "refreshed", row |-> tree]
               below == <<f>> \o stack
    <2>1. f \in Frames /\ ~Selecting(f) /\ Stage(f) /\ tree \in Row \cup {None}
      BY DEF SelInv, SelTypes, Frames, Selecting, Stage
    <2>2. below \in Seq(Frames) /\ Good(below) BY <1>1, <2>1, OtherCall, Pushed
    <2>3. ASSUME NEW e \in Entries
          PROVE  /\ Nested(stack, e) => Nested(below, e)
                 /\ \A a : Waits(stack, a, e) => Waits(below, a, e)
      BY <1>1, <2>1, PushWaits
    <2>4. ModuleSelected(tree, below, FALSE) BY <1>3
    <2> HIDE DEF below
    <2>5. \A e \in Entries : e \in Slow /\ tbl[e] # 0 /\ ~scanned'[e] => InReload(below, e)
      BY <1>3, <2>3 DEF View, Scanned, InReload
    <2> QED BY <1>1, <2>1, <2>2, <2>3, <2>4, <2>5, SelectKeeps
  <1> QED BY <1>2, <1>3 DEF Refresh

LEMMA RefreshScannedKeeps == ASSUME SelInv, View, RefreshScanned PROVE View'
  <1> DEFINE f == [at |-> "refreshed", row |-> tree]
             below == <<f>> \o Tail(stack)
  <1>1. /\ stack # <<>> /\ stack[1].at = "reload" /\ ~Selecting(stack[1])
        /\ stack \in Seq(Frames) /\ Good(stack)
        /\ ModuleSelected(tree, below, refreshOn)
        /\ scanned' = [scanned EXCEPT ![stack[1].row] = TRUE]
        /\ UNCHANGED <<showOf, tbl, source, reload, rescan>>
    BY DEF RefreshScanned, timer_vars, SelInv, Good, Selecting
  <1>2. Tail(stack) \in Seq(Frames) /\ Good(Tail(stack)) BY <1>1, OtherReturn, Popped
  <1>3. f \in Frames /\ ~Selecting(f) /\ Stage(f) /\ tree \in Row \cup {None}
    BY DEF SelInv, SelTypes, Frames, Selecting, Stage
  <1>4. below \in Seq(Frames) /\ Good(below) BY <1>2, <1>3, OtherCall, Pushed
  <1>5. ASSUME NEW e \in Entries
        PROVE  /\ Nested(Tail(stack), e) => Nested(below, e)
               /\ \A a : Waits(Tail(stack), a, e) => Waits(below, a, e)
    BY <1>2, <1>3, PushWaits
  <1> HIDE DEF below
  <1>6. ASSUME NEW e \in Entries
        PROVE  /\ Nested(stack, e) => Nested(below, e)
               /\ \A a \in {{"scan"}, {"reloading"}} : Waits(stack, a, e) => Waits(below, a, e)
               /\ e # stack[1].row /\ InReload(stack, e) => InReload(below, e)
    BY <1>1, <1>5, PopWaits DEF InReload
  <1>7. ASSUME NEW e \in Entries, e \in Slow, tbl[e] # 0, ~scanned'[e] PROVE InReload(below, e)
    <2>1. e # stack[1].row /\ ~scanned[e] BY <1>1, <1>7 DEF SelInv, SelTypes
    <2>2. InReload(stack, e) BY <1>7, <2>1 DEF View, Scanned
    <2> QED BY <1>6, <2>1, <2>2
  <1> QED BY <1>1, <1>3, <1>4, <1>6, <1>7, SelectKeeps

LEMMA ReloadKeeps ==
  ASSUME SelInv, View, Counts', NEW e \in Entries, ReloadSection(e) PROVE View'
  <1> DEFINE fewer == [reload EXCEPT ![e] = @ - 1]
  <1>1. reload[e] > 0 /\ UNCHANGED selected /\ e \in Reloads
    BY DEF ReloadSection, SelInv, Counts
  <1>2. /\ fewer \in [Entries -> Nat]
        /\ \A x \in Entries : x # e => fewer[x] = reload[x]
    BY <1>1, Fewer DEF SelInv
  <1> HIDE DEF fewer
  <1>3. CASE selected[e] /\ e \notin Slow /\ ShowInfo(e, TRUE, fewer) /\ UNCHANGED <<stack, scanned>>
    <2>1. \A x \in Entries : selected'[x] => x = e BY <1>1, <1>3, OnlyOne
    <2>2. ASSUME NEW x \in Entries PROVE Scanned(x)'
      <3>1. x \in Slow /\ tbl'[x] # 0 => tbl[x] # 0 BY <1>3, ShowItems
      <3> QED BY <1>3, <3>1 DEF View, Scanned
    <2> QED BY <1>2, <1>3, <2>1, <2>2, ShowStarts
  <1>4. CASE /\ stack' = <<[at |-> "reloading", row |-> e]>> \o stack
             /\ scanned' = [scanned EXCEPT ![e] = FALSE]
             /\ reload' = fewer /\ UNCHANGED <<shown, showOf, tbl, source, rescan>>
    <2> DEFINE f == [at |-> "reloading", row |-> e]
    <2>1. f \in Frames /\ f.at = "reloading" /\ f.row = e BY DEF Frames, Row
    <2>2. stack' = <<f>> \o stack BY <1>4
    <2>3. stack \in Seq(Frames) BY DEF SelInv, Good
    <2> HIDE DEF f
    <2>4. ASSUME NEW x \in Entries
          PROVE  /\ Nested(stack, x) => Nested(stack', x)
                 /\ \A a : Waits(stack, a, x) => Waits(stack', a, x)
      BY <2>1, <2>2, <2>3, PushWaits
    <2>5. 1 \in 1 .. Len(stack') /\ stack'[1] = f BY <2>1, <2>2, <2>3, Pushed
    <2>6. InReload(stack', e) /\ Waits(stack', {"reloading"}, e)
      BY <2>1, <2>5 DEF InReload, Waits
    <2>7. ASSUME NEW x \in Entries PROVE Scanned(x)'
      <3>1. CASE x = e BY <2>6, <3>1 DEF Scanned
      <3>2. CASE x # e
        <4>1. scanned'[x] = scanned[x] BY <1>4, <3>2 DEF SelInv, SelTypes
        <4> QED BY <1>4, <2>4, <4>1 DEF View, Scanned, InReload
      <3> QED BY <3>1, <3>2
    <2>8. \A x \in Entries : reload'[x] = reload[x] \/ Waits(stack', {"reloading"}, x)
      BY <1>2, <1>4, <2>6
    <2> QED BY <1>1, <1>4, <2>4, <2>7, <2>8, StackKeeps DEF InScan
  <1>5. CASE ~selected[e] /\ reload' = fewer /\ UNCHANGED <<stack, scanned, shown, showOf, tbl, source, rescan>>
    <2>1. ASSUME NEW x \in Entries
          PROVE  HasItems(x)' /\ HasView(x)' /\ NoOldView(x)' /\ Scanned(x)' /\ Timely(x)'
      <3>1. HasItems(x)' /\ HasView(x)' /\ NoOldView(x)' /\ Scanned(x)'
        BY <1>1, <1>5 DEF View, HasItems, HasView, NoOldView, Scanned
      <3>2. x # e /\ HasTimers(x) => HasTimers(x)' BY <1>2, <1>5 DEF HasTimers
      <3>3. Timely(x)' BY <1>1, <1>5, <3>2 DEF View, Timely
      <3> QED BY <3>1, <3>3
    <2> QED BY <1>5, <2>1 DEF View
  <1> QED BY <1>3, <1>4, <1>5 DEF ReloadSection, view_vars, fewer

LEMMA ReloadScannedKeeps == ASSUME SelInv, View, Counts', ReloadScanned PROVE View'
  <1> DEFINE e == stack[1].row
  <1>1. /\ stack # <<>> /\ stack[1].at = "reloading" /\ ShowInfo(e, TRUE, reload)
        /\ scanned' = [scanned EXCEPT ![e] = TRUE] /\ stack' = Tail(stack)
        /\ stack \in Seq(Frames)
    BY DEF ReloadScanned, SelInv, Good
  <1>2. e \in Entries /\ e \in Overruns BY ReloadScannedHolds
  <1>3. ASSUME NEW x \in Entries PROVE Scanned(x)'
    <2> SUFFICES ASSUME x \in Slow, tbl'[x] # 0, ~scanned'[x] PROVE InReload(stack', x)
      BY DEF Scanned
    <2>1. x # e BY <1>1, <1>2 DEF SelInv, SelTypes
    <2>2. tbl[x] # 0 BY <1>1, <1>2, <2>1, ShowItems
    <2>3. ~scanned[x] BY <1>1, <2>1 DEF SelInv, SelTypes
    <2>4. InReload(stack, x) BY <2>2, <2>3 DEF View, Scanned
    <2> QED BY <1>1, <2>1, <2>4, PopWaits DEF InReload
  <1> QED BY <1>1, <1>2, <1>3, ShowStarts DEF SelInv, Counts

LEMMA RescanKeeps == ASSUME SelInv, View, NEW e \in Entries, RescanSection(e) PROVE View'
  <1>1. /\ rescan[e] > 0 /\ ~selected[e] /\ rescan' = [rescan EXCEPT ![e] = @ - 1]
        /\ UNCHANGED <<stack, selected, scanned, shown, showOf, tbl, source, reload>>
    BY DEF RescanSection, StopsRescan, tree_vars, view_vars
  <1>2. \A x \in Entries : x # e => rescan'[x] = rescan[x] BY <1>1 DEF SelInv, Counts
  <1>3. ASSUME NEW x \in Entries
        PROVE  HasItems(x)' /\ HasView(x)' /\ NoOldView(x)' /\ Scanned(x)' /\ Timely(x)'
    <2>1. HasItems(x)' /\ HasView(x)' /\ NoOldView(x)' /\ Scanned(x)'
      BY <1>1 DEF View, HasItems, HasView, NoOldView, Scanned
    <2>2. x # e /\ HasTimers(x) => HasTimers(x)' BY <1>1, <1>2 DEF HasTimers
    <2>3. Timely(x)' BY <1>1, <2>2 DEF View, Timely
    <2> QED BY <2>1, <2>3
  <1> QED BY <1>1, <1>3 DEF View

(* update_field() lets go of the timeouts of other entries only: the one    *)
(* that is selected and shown has its items.                                *)
LEMMA FieldKeeps == ASSUME SelInv, View, NEW u \in Fu, UpdateField(u) PROVE View'
  <1> DEFINE e == showOf[u[1]]
  <1>1. /\ source[u] /\ UNCHANGED <<stack, selected, scanned, shown, showOf, tbl, reload, rescan>>
        /\ source' = source \/ (source' = [source EXCEPT ![u] = FALSE] /\ (tbl[e] = 0 \/ ~selected[e]))
    BY DEF UpdateField, StillShown, tree_vars, view_vars
  <1>2. e \in Entries BY <1>1 DEF SelInv, OfFields
  <1> HIDE DEF e
  <1>3. ASSUME NEW x \in Entries, selected[x], shown.row = x, HasTimers(x) PROVE HasTimers(x)'
    <2> SUFFICES ASSUME NEW f \in 1 .. Fields[x]
                 PROVE  \E k \in Show : showOf[k] = x /\ source'[<<k, f>>]
      BY <1>1, <1>3 DEF HasTimers
    <2>1. PICK k \in Show : showOf[k] = x /\ source[<<k, f>>] BY <1>3 DEF HasTimers
    <2>2. f \in Field BY DEF Field
    <2>3. <<k, f>> \in Fu BY <2>2 DEF Fu
    <2>4. CASE source' = source BY <2>1, <2>4
    <2>5. CASE source' = [source EXCEPT ![u] = FALSE] /\ (tbl[e] = 0 \/ ~selected[e])
      <3>1. tbl[x] # 0 BY <1>3 DEF View, HasItems
      <3>2. x # e BY <1>3, <2>5, <3>1
      <3>3. <<k, f>> # u BY <2>1, <3>2 DEF e
      <3>4. source'[<<k, f>>] = source[<<k, f>>]
        BY <2>3, <2>5, <3>3 DEF SelInv, IInv, Shapes
      <3> QED BY <2>1, <3>4
    <2> QED BY <1>1, <2>4, <2>5
  <1>4. ASSUME NEW x \in Entries
        PROVE  HasItems(x)' /\ HasView(x)' /\ NoOldView(x)' /\ Scanned(x)' /\ Timely(x)'
    <2>1. HasItems(x)' /\ HasView(x)' /\ NoOldView(x)' /\ Scanned(x)'
      BY <1>1 DEF View, HasItems, HasView, NoOldView, Scanned
    <2>2. Timely(x)' BY <1>1, <1>3 DEF View, Timely
    <2> QED BY <2>1, <2>2
  <1> QED BY <1>1, <1>4 DEF View

LEMMA ViewInit == ASSUME Init PROVE View
  <1>1. ASSUME NEW e \in Entries
        PROVE  HasItems(e) /\ HasView(e) /\ NoOldView(e) /\ Scanned(e) /\ Timely(e)
    BY ViewAssumption DEF Init, HasItems, HasView, NoOldView, Scanned, Timely
  <1> QED BY <1>1 DEF Init, View

LEMMA ViewNext == ASSUME SelInv, View, [Next]_vars PROVE View'
  <1>0. Counts' BY CountsNext
  <1>1. CASE \E row \in Row : SelectRow(row) BY <1>1, RowKeeps
  <1>2. CASE ScanSlowly \/ SelectionEnds \/ RefreshEnds BY <1>2, ScanKeeps, ReturnKeeps
  <1>3. CASE ShowSelected BY <1>0, <1>3, ShownKeeps
  <1>4. CASE Refresh \/ RefreshScanned BY <1>4, RefreshKeeps, RefreshScannedKeeps
  <1>5. CASE \E u \in Fu : UpdateField(u) BY <1>5, FieldKeeps
  <1>6. CASE ReloadScanned BY <1>0, <1>6, ReloadScannedKeeps
  <1>7. CASE \E e \in Entries : ReloadSection(e) \/ RescanSection(e)
    BY <1>0, <1>7, ReloadKeeps, RescanKeeps
  <1>8. CASE UNCHANGED vars
    <2>1. UNCHANGED <<stack, selected, scanned, shown, showOf, tbl, source, reload, rescan>>
      BY <1>8 DEF vars, tree_vars, view_vars, timer_vars
    <2>2. \A e \in Entries : Scanned(e)' BY <2>1 DEF View, Scanned
    <2> QED BY <2>1, <2>2, StackKeeps
  <1> QED BY <1>1, <1>2, <1>3, <1>4, <1>5, <1>6, <1>7, <1>8 DEF Next

LEMMA Selection == Spec => [](SelInv /\ View)
  <1>1. Init => SelInv /\ View BY SelInit, ViewInit
  <1>2. SelInv /\ View /\ [Next]_vars => (SelInv /\ View)' BY SelNext, ViewNext
  <1> QED BY <1>1, <1>2, PTL DEF Spec

(* A timer that fires writes to a view that is shown, whatever clicks,      *)
(* scans and refreshes nest in one another, but for an entry selected       *)
(* inside its own reload and what a slow reload shows over another entry.   *)
THEOREM NoStrayWrite == Spec => []NothingStray
  <1>1. ASSUME SelInv, View PROVE NothingStray
    <2> SUFFICES ASSUME NEW u \in Fu, source[u], Updates(showOf[u[1]])
                 PROVE  LET e == showOf[u[1]] IN
                          \/ shown = [row |-> e, show |-> tbl[e]]
                          \/ SelectedInItsReload(e)
                          \/ shown.row \in Overruns
      BY DEF NothingStray
    <2> DEFINE e == showOf[u[1]]
    <2>1. e \in Entries BY <1>1 DEF SelInv, OfFields
    <2>2. selected[e] /\ tbl[e] # 0 BY DEF Updates, StillShown
    <2> HIDE DEF e
    <2>3. shown.row = e \/ shown.row \in Overruns \/ Nested(stack, e)
      BY <1>1, <2>1, <2>2 DEF View, NoOldView
    <2>4. CASE shown.row = e
      <3>1. tbl[e] = shown.show BY <1>1, <2>1, <2>4 DEF View, HasItems
      <3>2. shown = [row |-> e, show |-> tbl[e]] BY <1>1, <2>4, <3>1 DEF View
      <3> QED BY <3>2 DEF e
    <2>5. CASE Nested(stack, e) BY <2>5 DEF Nested, SelectedInItsReload, e
    <2> QED BY <2>3, <2>4, <2>5 DEF e
  <1> QED BY <1>1, Selection, PTL

(* At rest only the current entry counts as selected, and the window shows  *)
(* it, but for what a slow reload shows over it.                            *)
THEOREM CurrentIsShown == Spec => []SelectedIsShown
  <1>1. ASSUME SelInv, View, AtRest PROVE \A e \in Entries : selected[e] =>
                                            e = current /\ shown.row \in {e} \cup Overruns
    <2>1. stack = <<>> /\ Only(current)
      BY <1>1 DEF AtRest, SelInv, Good, Resting, Updating
    <2> QED BY <1>1, <2>1 DEF Only, View, HasView, InScan, Waits
  <1>2. SelInv /\ View => SelectedIsShown BY <1>1 DEF SelectedIsShown
  <1> QED BY <1>2, Selection, PTL

(* The entry that is selected and shown keeps the timers of its fields and  *)
(* its own, whatever an earlier selection of it, or of another entry, has   *)
(* left behind, and whatever was dispatched while it was scanned.           *)
THEOREM SelectedIsTimed == Spec => []TimersKeepOn
  <1>1. ASSUME View, AtRest, NEW e \in Entries, selected[e], shown.row = e
        PROVE  /\ \A f \in 1 .. Fields[e] : \E k \in Show : showOf[k] = e /\ source[<<k, f>>]
               /\ e \in Reloads => reload[e] > 0
               /\ e \in Rescans => rescan[e] > 0
    <2>1. HasTimers(e) BY <1>1 DEF View, Timely, AtRest, InScan, Waits
    <2> QED BY <1>1, <2>1 DEF HasTimers, AtRest, Waits
  <1>2. View => TimersKeepOn BY <1>1 DEF TimersKeepOn
  <1> QED BY <1>2, Selection, PTL
=============================================================================
