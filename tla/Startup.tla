------------------------------ MODULE Startup ------------------------------
(***************************************************************************)
(* main() of hardinfo/hardinfo.c, the parameters it goes by, and the       *)
(* modules it loads (hardinfo/util.c): those asked for, in the order of    *)
(* the directory, and those they depend on, one at a time:                 *)
(* modules_check_deps() loads the first that is missing and calls itself.  *)
(* When the inner call finds nothing missing, neither do the outer ones.   *)
(***************************************************************************)
EXTENDS Integers, Sequences, SequencesExt, FiniteSets

CONSTANTS
  Files,     \* the files of the directory of modules
  Deps,      \* per file: the names it depends on, in order
  Weight,    \* per file: where it wants to be in the tree
  Requests,  \* the command lines: [r, b, l, a : BOOLEAN, f : a format, m : None or names,
             \* broken : the files that cannot be loaded]
  None,
  MaxDepth   \* bound on the calls of modules_check_deps() inside one another: more than the files

VARIABLES
  params,    \* the command line
  pc,        \* where main() is
  gui_running, create_report, markup_ok,
  unread,    \* the files the directory has not given yet
  modules,   \* the list
  depth,     \* how deep modules_check_deps() is
  moreinfo   \* the table of details exists
mode == <<gui_running, create_report, markup_ok>>
vars == <<params, pc, mode, unread, modules, depth, moreinfo>>

(* parameters_init(): html is text with markup, and so is the window's.    *)
Init ==
  /\ params \in Requests
  /\ gui_running = FALSE
  /\ create_report = params.r
  /\ markup_ok = (params.r => params.f = "html")
  /\ pc = IF params.l THEN "load" ELSE "ui"
  /\ unread = Files /\ modules = <<>> /\ depth = 0 /\ moreinfo = FALSE

(* The window is not opened for a report or a benchmark; when it cannot be,*)
(* there is a report.                                                      *)
UiInit ==
  /\ pc = "ui" /\ pc' = "load"
  /\ \/ (create_report \/ params.b) /\ UNCHANGED mode
     \/ ~create_report /\ ~params.b /\ gui_running' = TRUE /\ UNCHANGED <<create_report, markup_ok>>
     \/ /\ ~create_report /\ ~params.b
        /\ create_report' = TRUE /\ UNCHANGED gui_running
        /\ markup_ok' = (markup_ok /\ params.f = "html")
  /\ UNCHANGED <<params, unread, modules, depth, moreinfo>>

-----------------------------------------------------------------------------
(* modules_load(): what is read goes to the front of the list.             *)
Asked(f) == params.m = None \/ params.l \/ f \in params.m
Loadable(f) == f \in Files \ params.broken

ReadFile(f) ==
  /\ pc = "load" /\ f \in unread
  /\ unread' = unread \ {f}
  /\ modules' = IF Asked(f) /\ Loadable(f) THEN <<f>> \o modules ELSE modules
  /\ UNCHANGED <<params, pc, mode, depth, moreinfo>>

ReadAll ==
  /\ pc = "load" /\ unread = {} /\ pc' = "check"
  /\ UNCHANGED <<params, mode, unread, modules, depth, moreinfo>>

(* modules_check_deps(). *)
Found(name) == name \in ToSet(modules)
Missing == {m \in (DOMAIN modules) \X (UNION {DOMAIN Deps[f] : f \in Files}) :
              m[2] \in DOMAIN Deps[modules[m[1]]] /\ ~Found(Deps[modules[m[1]]][m[2]])}
First == CHOOSE m \in Missing : \A n \in Missing : m[1] < n[1] \/ (m[1] = n[1] /\ m[2] <= n[2])
Dependency == Deps[modules[First[1]]][First[2]]

Recheck == IF depth = MaxDepth THEN pc' = "overflow" /\ UNCHANGED depth ELSE depth' = depth + 1 /\ UNCHANGED pc
NotKept    == modules
Autoloaded == IF Loadable(Dependency) THEN Append(modules, Dependency) ELSE modules
Accepted   == IF Loadable(Dependency) THEN <<Dependency>> \o modules ELSE modules

CheckDeps ==
  /\ pc = "check" /\ Missing # {}
  /\ \/ params.a /\ modules' = Autoloaded /\ Recheck
     \/ ~params.a /\ gui_running /\ modules' = Accepted /\ Recheck
     \/ ~params.a /\ pc' = "g_error" /\ UNCHANGED <<modules, depth>>
  /\ UNCHANGED <<params, mode, unread, moreinfo>>

(* module_cmp(); modules of the same weight keep their order. *)
Before(list, i, j) ==
  \/ Weight[list[i]] < Weight[list[j]]
  \/ Weight[list[i]] = Weight[list[j]] /\ i < j
Rank(list, i) == Cardinality({j \in DOMAIN list : Before(list, j, i)}) + 1
Sorted(list) == [n \in DOMAIN list |-> list[CHOOSE i \in DOMAIN list : Rank(list, i) = n]]

Checked ==
  /\ pc = "check" /\ Missing = {}
  /\ modules' = Sorted(modules)
  /\ depth' = 0
  /\ pc' = IF modules = <<>> THEN "g_error" ELSE IF params.l THEN "end" ELSE "run"
  /\ UNCHANGED <<params, mode, unread, moreinfo>>

-----------------------------------------------------------------------------
(* The details are known from here on: no module's hi_module_init() has any. *)
MoreinfoInit ==
  /\ pc = "run"
  /\ moreinfo' = TRUE
  /\ pc' = IF params.b THEN "benchmark" ELSE IF gui_running THEN "window" ELSE "report"
  /\ UNCHANGED <<params, mode, unread, modules, depth>>

Shutdown ==
  /\ pc \in {"benchmark", "window", "report"}
  /\ moreinfo' = FALSE /\ pc' = "end"
  /\ UNCHANGED <<params, mode, unread, modules, depth>>

Next ==
  \/ UiInit \/ ReadAll \/ CheckDeps \/ Checked \/ MoreinfoInit \/ Shutdown
  \/ \E f \in Files : ReadFile(f)

-----------------------------------------------------------------------------
(* What depends on what, however far.                                      *)
Closed(names) == \A f \in names : ToSet(Deps[f]) \subseteq names

(* The program runs with every module asked for that can be loaded, with   *)
(* all they depend on and none that nobody asked for, each once, by weight.*)
ListIsClosed ==
  pc \in {"benchmark", "window", "report"} =>
    LET names == ToSet(modules)
        asked == {f \in Files : Asked(f) /\ Loadable(f)}
    IN /\ Cardinality(names) = Len(modules)
       /\ asked \subseteq names /\ Closed(names)
       /\ \A rest \in SUBSET names : asked \subseteq rest /\ Closed(rest) => rest = names
       /\ \A i, j \in 1 .. Len(modules) : i < j => Weight[modules[i]] <= Weight[modules[j]]

(* The calls inside one another end, and with as many of them as there are *)
(* modules, when what a module depends on can be loaded.                   *)
ChecksEnd ==
  (\A f \in Files : \A d \in ToSet(Deps[f]) : Loadable(d)) /\ depth > 0 => depth < Cardinality(Files)
=============================================================================
