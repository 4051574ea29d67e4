------------------------------- MODULE Vendors -------------------------------
(***************************************************************************)
(* The list of vendors (hardinfo/vendor.c) and how they are found in the   *)
(* text that a device says about itself: the vendors are tried with the    *)
(* longest match string first, and what one of them matched is cleared, so *)
(* that it does not match again.  A text is a sequence of characters.      *)
(***************************************************************************)
EXTENDS Integers, Sequences, SequencesExt, FiniteSets, FiniteSetsExt

CONSTANTS
  Files,    \* what file there is: [kind |-> "ids", "conf" or "none", entries]
  Builtin,  \* the internal list: rows <<match_string, rule, name, address>>
  Texts,
  Letters, Digits,  \* of the texts; beside them are " ", "(" and ")"
  Lower,    \* of each letter
  None

VARIABLES
  file, text, limit,   \* limit: one vendor is asked for, or (-1) all
  pc,
  read, current,       \* the lines read, and what was said of the vendor so far
  vendors,
  passes, pass, next,  \* the text of each pass: characters c with the place n they come from
  found,               \* [vendor, places]
  answer
input == <<file, text, limit>>
vars == <<input, pc, read, current, vendors, passes, pass, next, found, answer>>

Nobody == [name |-> <<>>, name_short |-> <<>>, url |-> <<>>]
Init ==
  /\ file \in Files /\ text \in Texts /\ limit \in {1, -1}
  /\ pc = "init" /\ read = 0 /\ current = Nobody /\ vendors = <<>>
  /\ passes = <<>> /\ pass = 0 /\ next = 1 /\ found = <<>> /\ answer = None

-----------------------------------------------------------------------------
(* A vendor of which nothing but this is known: its strings have no length   *)
(* yet.  A row of the internal list is meant to end with the address of the  *)
(* vendor; what stands fourth in a Vendor is its short name.                 *)
Unmeasured(s, rule, about) ==
  [match_string |-> s, rule |-> rule, about |-> about, ms_length |-> 0, weight |-> 0, has_parens |-> FALSE]
Internal ==
  [i \in DOMAIN Builtin |->
     Unmeasured(Builtin[i][1], Builtin[i][2], [Nobody EXCEPT !.name = Builtin[i][3], !.name_short = Builtin[i][4]])]

(* vendor_init(): with no file at all the path that is looked at was never   *)
(* set; if nothing comes of that, the internal list is used.                 *)
FindFile ==
  /\ pc = "init"
  /\ \/ file.kind # "none" /\ pc' = "read" /\ UNCHANGED vendors
     \/ file.kind = "none" /\ pc' = "undefined" /\ UNCHANGED vendors
     \/ file.kind = "none" /\ pc' = "sort" /\ vendors' = Internal
  /\ UNCHANGED <<input, read, current, passes, pass, next, found, answer>>

(* read_from_vendor_ids(): a line is [is |-> "name", to], [is |-> field, to] *)
(* or [is |-> "match", rule, to].  The suffix rules are read as those for    *)
(* prefixes.                                                                 *)
RuleOf(word) == CASE word = "suffix" -> "prefix" [] word = "suffix_case" -> "prefix_case" [] OTHER -> word
IdsVendor(line) ==
  LET rule == RuleOf(line.rule)
  IN [match_string |-> line.to, rule |-> rule, about |-> current, ms_length |-> Len(line.to),
      weight |-> Len(line.to) + (IF rule \in {"num_prefix", "num_prefix_case"} THEN 1 ELSE 0),
      has_parens |-> "(" \in ToSet(line.to)]

ReadIdsLine ==
  /\ pc = "read" /\ file.kind = "ids" /\ read < Len(file.entries)
  /\ LET line == file.entries[read + 1] IN
       \/ line.is = "name" /\ current' = [Nobody EXCEPT !.name = line.to] /\ UNCHANGED vendors
       \/ line.is \in {"name_short", "url"} /\ current' = [current EXCEPT ![line.is] = line.to] /\ UNCHANGED vendors
       \/ line.is = "match" /\ vendors' = <<IdsVendor(line)>> \o vendors /\ UNCHANGED current
  /\ read' = read + 1
  /\ UNCHANGED <<input, pc, passes, pass, next, found, answer>>

(* read_from_vendor_conf(): an entry is [match_string, rule, name,           *)
(* name_short, url], and they are taken from the last to the first.          *)
ConfVendor(e) ==
  Unmeasured(e.match_string, e.rule, [name |-> e.name, name_short |-> e.name_short, url |-> e.url])
ReadConf ==
  /\ pc = "read" /\ file.kind = "conf" /\ read = 0
  /\ LET known == SelectSeq(file.entries, LAMBDA e : e.match_string # <<>>)
     IN vendors' = [i \in 1 .. Len(known) |-> ConfVendor(known[i])]
  /\ read' = Len(file.entries)
  /\ UNCHANGED <<input, pc, current, passes, pass, next, found, answer>>

AllRead ==
  /\ pc = "read" /\ read = Len(file.entries)
  /\ vendors' = IF vendors = <<>> THEN Internal ELSE vendors
  /\ pc' = "sort"
  /\ UNCHANGED <<input, read, current, passes, pass, next, found, answer>>

(* vendor_sort(): the longest first, others as they were. *)
Sorted(list) ==
  FoldLeft(LAMBDA s, v : InsertAt(s, 1 + Cardinality({i \in 1 .. Len(s) : s[i].weight >= v.weight}), v), <<>>, list)

-----------------------------------------------------------------------------
(* strstr_word.c: the first place of a string where a word begins and ends,  *)
(* only begins, or only ends.                                                *)
IsAlnum(t, i) == i \in 1 .. Len(t) /\ t[i].c \in Letters \cup Digits
Same(a, b, anycase) == a = b \/ (anycase /\ a \in Letters /\ b \in Letters /\ Lower[a] = Lower[b])
Occurs(t, i, s, anycase) ==
  i + Len(s) - 1 <= Len(t) /\ \A k \in 1 .. Len(s) : Same(t[i + k - 1].c, s[k], anycase)
StrstrWord(t, s, anycase, prefix_ok, suffix_ok) ==
  LET ends(i) == ~IsAlnum(t, i + Len(s))
      begins(i) == ~IsAlnum(t, i - 1)
      places == {i \in 1 .. Len(t) : /\ Occurs(t, i, s, anycase)
                                     /\ ends(i) \/ prefix_ok
                                     /\ begins(i) \/ suffix_ok
                                     /\ ends(i) \/ begins(i)}
  IN IF places = {} THEN 0 ELSE Min(places)

(* Where a vendor matches: 0 if not.  The numbered prefix considers the case *)
(* of letters when it need not, and does not when it should.                 *)
Place(t, v) ==
  LET s == v.match_string
      numbered(i) == IF i # 0 /\ i + v.ms_length <= Len(t) /\ t[i + v.ms_length].c \in Digits THEN i ELSE 0
  IN CASE v.rule = "exact" -> IF [i \in 1 .. Len(t) |-> t[i].c] = s THEN 1 ELSE 0
       [] v.rule = "word" -> StrstrWord(t, s, TRUE, FALSE, FALSE)
       [] v.rule = "word_case" -> StrstrWord(t, s, FALSE, FALSE, FALSE)
       [] v.rule = "prefix" -> StrstrWord(t, s, TRUE, TRUE, FALSE)
       [] v.rule = "prefix_case" -> StrstrWord(t, s, FALSE, TRUE, FALSE)
       [] v.rule = "num_prefix" -> numbered(StrstrWord(t, s, FALSE, TRUE, FALSE))
       [] v.rule = "num_prefix_case" -> numbered(StrstrWord(t, s, TRUE, TRUE, FALSE))

(* vendors_match_core(): the passes are over the full text, the text without *)
(* what is in parentheses, and the full text again; the first two only when  *)
(* there are any.                                                            *)
Original == [n \in 1 .. Len(text) |-> [c |-> text[n], n |-> n]]
InParens(n) == \E m \in 1 .. n - 1 : text[m] = "(" /\ \A k \in m + 1 .. n : text[k] # ")"
Outside == [n \in 1 .. Len(text) |-> [c |-> IF InParens(n) THEN " " ELSE text[n], n |-> n]]

Sort ==
  /\ pc = "sort"
  /\ vendors' = Sorted(vendors)
  /\ pc' = "match"
  /\ passes' = <<Original, Outside, Original>>
  /\ pass' = IF "(" \in ToSet(text) THEN 3 ELSE 1
  /\ UNCHANGED <<input, read, current, next, found, answer>>

Strip(t) ==
  LET solid == {i \in 1 .. Len(t) : t[i].c # " "}
  IN IF solid = {} THEN <<>> ELSE SubSeq(t, Min(solid), Max(solid))
Cleared(t, at, length) ==
  Strip([i \in 1 .. Len(t) |-> IF i \in at .. at + length - 1 THEN [t[i] EXCEPT !.c = " "] ELSE t[i]])

Examine ==
  /\ pc = "match" /\ pass > 0 /\ next <= Len(vendors)
  /\ LET v == vendors[next]
         at == IF v.has_parens /\ pass # 3 THEN 0 ELSE Place(passes[pass], v)
         places == {passes[pass][i].n : i \in at .. at + Len(v.match_string) - 1}
     IN \/ at = 0 /\ UNCHANGED <<pc, passes, found>>
        \/ /\ at # 0
           /\ found' = Append(found, [vendor |-> v, places |-> places])
           /\ passes' = IF v.rule = "exact" THEN passes
                        ELSE [p \in 1 .. 3 |-> IF p <= pass THEN Cleared(passes[p], at, v.ms_length) ELSE passes[p]]
           /\ pc' = IF v.rule = "exact" \/ passes'[1] = <<>> \/ (limit > 0 /\ Len(found') >= limit)
                    THEN "found" ELSE pc
  /\ next' = next + 1
  /\ UNCHANGED <<input, read, current, vendors, pass, answer>>

NextPass ==
  /\ pc = "match" /\ next > Len(vendors)
  /\ pass' = pass - 1 /\ next' = 1
  /\ pc' = IF pass = 1 THEN "found" ELSE pc
  /\ UNCHANGED <<input, read, current, vendors, passes, found, answer>>

(* vendor_get_shortest_name(): of what was asked about when nothing is       *)
(* shorter.                                                                  *)
Size(s) == IF s = <<>> THEN 9999 ELSE Len(s)
Shortest(about) ==
  IF Size(about.name) < Size(about.name_short)
  THEN IF Len(text) < Size(about.name) THEN text ELSE about.name
  ELSE IF Len(text) < Size(about.name_short) THEN text ELSE about.name_short
GetName ==
  /\ pc = "found" /\ limit = 1
  /\ answer' = IF found = <<>> THEN text ELSE Shortest(found[1].vendor.about)
  /\ pc' = "done"
  /\ UNCHANGED <<input, read, current, vendors, passes, pass, next, found>>

(* vendor_list_remove_duplicates_deep(). *)
RemoveDuplicates ==
  /\ pc = "found" /\ limit = -1
  /\ found' = FoldLeft(LAMBDA s, f : IF \E i \in 1 .. Len(s) : s[i].vendor.about = f.vendor.about
                                     THEN s ELSE Append(s, f), <<>>, found)
  /\ pc' = "done"
  /\ UNCHANGED <<input, read, current, vendors, passes, pass, next, answer>>

Next ==
  \/ FindFile \/ ReadIdsLine \/ ReadConf \/ AllRead \/ Sort
  \/ Examine \/ NextPass \/ GetName \/ RemoveDuplicates

-----------------------------------------------------------------------------
(* With a vendor.ids: the vendor found first has a match string as long as any *)
(* that the text has; no two vendors are found by the same place of it, and  *)
(* each by the text itself; and nothing is found only when nothing matches.  *)
FromIds == file.kind = "ids" /\ \E line \in ToSet(file.entries) : line.is = "match"
FoundApart ==
  /\ found # <<>> =>
       \A v \in ToSet(vendors) : Place(Original, v) # 0 => v.weight <= found[1].vendor.weight
  /\ \A i, j \in 1 .. Len(found) : i # j => found[i].places \cap found[j].places = {}
  /\ \A f \in ToSet(found) :
       LET first == Min(f.places)
       IN f.places = first .. first + Len(f.vendor.match_string) - 1
          /\ Occurs(Original, first, f.vendor.match_string, TRUE)
  /\ pc \in {"found", "done"} /\ found = <<>> => \A v \in ToSet(vendors) : Place(Original, v) = 0

(* Whatever the list, what is given is the text that was asked about or what *)
(* the source of the list calls the vendors of the string that was found,    *)
(* and no name of the one that is meant is shorter.  A file does not have a  *)
(* vendor called by its address; the internal list does, when that is short. *)
Called(s) ==
  CASE FromIds -> {line.to : line \in {l \in ToSet(file.entries) : l.is \in {"name", "name_short"}}}
    [] file.kind = "conf" /\ \E e \in ToSet(file.entries) : e.match_string # <<>> ->
         UNION {{e.name, e.name_short} : e \in {e \in ToSet(file.entries) : e.match_string = s}}
    [] OTHER -> UNION {{row[3], row[4]} : row \in {row \in ToSet(Builtin) : row[1] = s}}
NamedByList ==
  LET of == found[1].vendor
      names == {text} \cup (IF found = <<>> THEN {} ELSE {of.about.name, of.about.name_short})
  IN /\ answer \in {text} \cup (IF found = <<>> THEN {} ELSE Called(of.match_string))
     /\ \A s \in names \ {<<>>} : Len(answer) <= Len(s)

VendorsAreApart ==
  /\ FromIds /\ pc \in {"match", "found", "done"} => FoundApart
  /\ pc = "done" /\ answer # None => NamedByList
=============================================================================
