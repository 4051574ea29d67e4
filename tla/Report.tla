------------------------------- MODULE Report -------------------------------
(***************************************************************************)
(* Reports (shell/report.c): the dialog in which modules and entries are   *)
(* ticked, and the report of what is ticked, entry by entry and row by     *)
(* row, in the columns of the entry; a row's details follow it, in two     *)
(* columns.  While it is made, texts are formatted for it.                 *)
(***************************************************************************)
EXTENDS Integers, Sequences, FiniteSets

CONSTANTS
  Tree,     \* the modules: sequences of entries [hidden, columns, rows], a row being
            \* [parts |-> how many '|' make of it, details |-> None or a number of rows, wants]
  Forced,   \* what params.force_all_details may be
  None

VARIABLES
  force_all_details,
  sel,        \* what is ticked: <<m, 0>> is module m, <<m, e>> its entry e
  fmt_opts,   \* params.fmt_opts
  format,     \* ctx->format
  todo,       \* the entries that are still to come, <<m, e>>, in the order of the tree
  row,        \* how many rows of the first of these were printed
  columns, parent_columns, in_details,  \* as in ctx; columns is a set of extra columns
  output,     \* what was printed: [at, row, detail, cells]
  pc
vars == <<force_all_details, sel, fmt_opts, format, todo, row, columns, parent_columns, in_details, output, pc>>
context == <<format, todo, row, columns, parent_columns, in_details, output>>

ModulesIn == 1 .. Len(Tree)
EntriesOf(m) == {<<m, e>> : e \in 1 .. Len(Tree[m])}
Entry(at) == Tree[at[1]][at[2]]
AllEntries == UNION {EntriesOf(m) : m \in ModulesIn}
RowsOfTree == {<<m, 0>> : m \in ModulesIn} \cup AllEntries
Before(a, b) == a[1] < b[1] \/ (a[1] = b[1] /\ a[2] < b[2])

(* report_dialog_new() ends by ticking all there is. *)
WithChildren(m, on, ticks) ==
  IF EntriesOf(m) = {} THEN ticks
  ELSE [at \in DOMAIN ticks |-> IF at[1] = m THEN on ELSE ticks[at]]
AllActive(on, ticks) == [at \in DOMAIN ticks |-> IF EntriesOf(at[1]) = {} THEN ticks[at] ELSE on]

Init ==
  /\ force_all_details \in Forced
  /\ sel = AllActive(TRUE, [at \in RowsOfTree |-> FALSE])
  /\ fmt_opts = "pango" /\ format = None
  /\ todo = {} /\ row = 0 /\ columns = {} /\ parent_columns = {} /\ in_details = FALSE
  /\ output = <<>> /\ pc = "dialog"

SelectAll(on) ==
  /\ pc = "dialog"
  /\ sel' = AllActive(on, sel)
  /\ UNCHANGED <<force_all_details, fmt_opts, context, pc>>

(* report_dialog_sel_toggle(): what is below follows, and so does what is    *)
(* above when it is ticked.                                                  *)
Toggle(at) ==
  /\ pc = "dialog"
  /\ LET on == ~sel[at]
         ticked == [sel EXCEPT ![at] = on]
         below == IF at[2] = 0 THEN WithChildren(at[1], on, ticked) ELSE ticked
     IN sel' = IF on THEN [below EXCEPT ![<<at[1], 0>>] = TRUE] ELSE below
  /\ UNCHANGED <<force_all_details, fmt_opts, context, pc>>

-----------------------------------------------------------------------------
(* report_generate(): no file is chosen, or it cannot be opened; or else the *)
(* list of what is ticked is made.  Entries that are hidden are skipped.     *)
NoFile ==
  /\ pc = "dialog" /\ pc' = "failed"
  /\ fmt_opts' = "none"
  /\ UNCHANGED <<force_all_details, sel, context>>

Listed(m) == IF sel[<<m, 0>>] THEN {at \in EntriesOf(m) : sel[at] /\ ~Entry(at).hidden} ELSE {}
Generate(f) ==
  /\ pc = "dialog" /\ pc' = "subtitle"
  /\ format' = f
  /\ fmt_opts' = IF f = "html" THEN "html" ELSE "none"
  /\ todo' = UNION {Listed(m) : m \in ModulesIn}
  /\ UNCHANGED <<force_all_details, sel, row, columns, parent_columns, in_details, output>>

First == CHOOSE at \in todo : \A other \in todo : other # at => Before(at, other)

(* report_table(), report_context_configure(). *)
StartEntry ==
  /\ pc = "subtitle" /\ todo # {}
  /\ columns' = IF format = "shell" THEN columns ELSE Entry(First).columns
  /\ row' = 0 /\ pc' = "rows"
  /\ UNCHANGED <<force_all_details, sel, fmt_opts, format, todo, parent_columns, in_details, output>>

(* report_html_key_value(), report_text_key_value(): the text of a row is    *)
(* cut up when there are more columns than two.                              *)
VisibleColumns == 2 + Cardinality(columns)
Cells(parts) ==
  IF VisibleColumns = 2 \/ (format = "text" /\ in_details) \/ format = "shell" THEN 1
  ELSE IF parts < VisibleColumns THEN parts ELSE VisibleColumns
KeyValue(parts) == <<[at |-> First, row |-> row + 1, detail |-> 0, cells |-> Cells(parts)]>>

Current == Entry(First).rows[row + 1]
WithDetails == Current.details # None /\ (Current.wants \/ force_all_details)

Row ==
  /\ pc = "rows" /\ row < Len(Entry(First).rows)
  /\ output' = output \o KeyValue(Current.parts)
  /\ IF WithDetails
     THEN /\ in_details' = TRUE /\ pc' = "details"
          /\ IF format = "html" THEN parent_columns' = columns /\ columns' = {} ELSE UNCHANGED <<columns, parent_columns>>
          /\ UNCHANGED row
     ELSE row' = row + 1 /\ UNCHANGED <<in_details, columns, parent_columns, pc>>
  /\ UNCHANGED <<force_all_details, sel, fmt_opts, format, todo>>

(* report_html_details_end() *)
KeptColumns == parent_columns' = {} /\ UNCHANGED columns
Restored == columns' = parent_columns /\ parent_columns' = {}

(* report_details(): its rows have text for as many columns as they like.    *)
Details ==
  /\ pc = "details" /\ pc' = "rows"
  /\ output' = output \o [n \in 1 .. Current.details |-> [at |-> First, row |-> row + 1, detail |-> n, cells |-> Cells(3)]]
  /\ in_details' = FALSE
  /\ IF format = "html" THEN Restored ELSE UNCHANGED <<columns, parent_columns>>
  /\ row' = row + 1
  /\ UNCHANGED <<force_all_details, sel, fmt_opts, format, todo>>

EndEntry ==
  /\ pc = "rows" /\ row = Len(Entry(First).rows)
  /\ todo' = todo \ {First} /\ pc' = "subtitle"
  /\ UNCHANGED <<force_all_details, sel, fmt_opts, format, row, columns, parent_columns, in_details, output>>

(* The file is written, and params.fmt_opts put back. *)
Save ==
  /\ pc = "subtitle" /\ todo = {} /\ pc' = "saved"
  /\ fmt_opts' = "pango"
  /\ UNCHANGED <<force_all_details, sel, context>>

Next ==
  \/ \E on \in BOOLEAN : SelectAll(on)
  \/ \E at \in RowsOfTree : Toggle(at)
  \/ NoFile
  \/ \E f \in {"html", "text", "shell"} : Generate(f)
  \/ StartEntry \/ Row \/ Details \/ EndEntry \/ Save

-----------------------------------------------------------------------------
(* The lines of the report as the ticks in the dialog ask for them. *)
Line(at, i, detail, cells) == [at |-> at, row |-> i, detail |-> detail, cells |-> cells]
LinesOf(at, i) ==
  LET r == Entry(at).rows[i]
      cols == 2 + Cardinality(Entry(at).columns)
  IN {Line(at, i, 0, IF format = "shell" \/ cols = 2 THEN 1 ELSE IF r.parts < cols THEN r.parts ELSE cols)}
     \cup (IF r.details # None /\ (r.wants \/ force_all_details)
           THEN {Line(at, i, n, 1) : n \in 1 .. r.details} ELSE {})
Ticked == {at \in AllEntries : sel[at] /\ ~Entry(at).hidden}
Expected == UNION {UNION {LinesOf(at, i) : i \in 1 .. Len(Entry(at).rows)} : at \in Ticked}

Earlier(x, y) ==
  \/ Before(x.at, y.at)
  \/ x.at = y.at /\ (x.row < y.row \/ (x.row = y.row /\ x.detail < y.detail))

(* A report has the entries that are ticked, however they came to be, and no *)
(* others; each row once and in its own columns, with its details next when  *)
(* they are wanted, in the order of the tree; and the window's texts are its *)
(* own again afterwards.                                                     *)
ReportIsAsTicked ==
  pc = "saved" =>
    /\ {output[i] : i \in DOMAIN output} = Expected
    /\ \A i, j \in DOMAIN output : i < j => Earlier(output[i], output[j])
    /\ fmt_opts = "pango"
=============================================================================
