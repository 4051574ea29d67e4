------------------------- MODULE SyncManagerProofs -------------------------
(***************************************************************************)
(* A synchronisation dialog stops where it should, for any number of       *)
(* entries and dialogs, opened inside one another or not: it goes through  *)
(* its actions in their order, leaves those after the first that did not   *)
(* end well untouched, and begins nothing once the user has cancelled      *)
(* (IInv).  While nobody cancels and no dialog starts inside something     *)
(* else, every response is the current request's, what the calls use is    *)
(* there, and the loop outlives its users (Steady).                        *)
(***************************************************************************)
EXTENDS SyncManager, WellFoundedInduction, FiniteSetTheorems, TLAPS

Frames == [at : {"pulse", "request", "choose", "prepare", "generate", "wait"},
           rec : Loop \X (0 .. NEntries), on : Loop]
Labels == {"none", "waiting", "current", "done", "failed", "canceled"}
States == {"none", "sent", "aborted", "ok", "error"}

Types ==
  /\ idle \in Seq(Entry) /\ loop \in Loop /\ dlg \in 0 .. MaxSyncs
  /\ todo \in [Dialog -> SUBSET Entry] /\ mark \in [Rec -> Labels]
  /\ cancelled \in [Dialog -> BOOLEAN] /\ answer \in [Rec -> States]

(* The calls of a dialog; each dialog has one at most.                      *)
OfDialog(f) ==
  f.at \in {"choose", "prepare", "generate", "wait"} \/ (f.at = "request" /\ f.rec[1] > 0)

(* What its dialog shows while such a call waits.  A request is for the     *)
(* first action that is left; the ones before it that were chosen are done. *)
Stage(f) ==
  LET d == f.rec[1]
  IN  /\ ~OfDialog(f) => f.rec \in Rec /\ d = 0
      /\ f.at = "choose" => \A e \in Entry : mark[<<d, e>>] = "none"
      /\ f.at = "prepare" =>
           \A e \in Entry : mark[<<d, e>>] = IF e \in todo[d] THEN "waiting" ELSE "none"
      /\ f.at \in {"generate", "request"} /\ OfDialog(f) =>
           /\ f.rec = <<d, f.rec[2]>> /\ f.rec[2] \in todo[d] /\ mark[f.rec] = "current"
           /\ \A e \in todo[d] : e = f.rec[2] \/ (f.rec[2] < e /\ mark[<<d, e>>] = "waiting")
           /\ \A e \in Entry \ todo[d] :
                mark[<<d, e>>] = "none" \/ (mark[<<d, e>>] = "done" /\ e < f.rec[2])

Calls(s) ==
  /\ s \in Seq(Frames)
  /\ \A i, j \in 1 .. Len(s) :
       OfDialog(s[i]) /\ OfDialog(s[j]) /\ s[i].rec[1] = s[j].rec[1] => i = j
  /\ \A i \in 1 .. Len(s) : OfDialog(s[i]) => s[i].rec[1] \in 1 .. dlg
  /\ \A i \in 1 .. Len(s) : Stage(s[i])

(* A dialog that was not opened has no labels.                              *)
Fresh == \A l \in Dialog, e \in Entry : dlg < l => mark[<<l, e>>] = "none"

(* A Cancel is not forgotten.                                               *)
Remembered == pressed \subseteq Dialog /\ \A d \in pressed : cancelled[d] = TRUE

IInv == Types /\ Calls(stack) /\ Fresh /\ MarksInOrder /\ Remembered
-----------------------------------------------------------------------------
LEMMA Sizes ==
  /\ NEntries \in Nat /\ MaxSyncs \in Nat
  /\ Entry \subseteq Nat /\ Dialog \subseteq Nat /\ 0 \notin Dialog /\ 0 \in Loop
  /\ \A e \in Entry : e \in 0 .. NEntries
  /\ \A l \in Loop : l = 0 \/ l \in Dialog
  /\ \A l \in Dialog : l > 0 /\ l \in Loop
  /\ \A l \in Loop, e \in Entry : <<l, e>> \in Rec
  BY SyncAssumption DEF Entry, Dialog, Loop, Rec

LEMMA Opened == ASSUME Types PROVE 1 .. dlg \subseteq Dialog /\ dlg \in Nat
  BY SyncAssumption DEF Types, Dialog

(* The first of the actions that are left.                                  *)
LEMMA First ==
  ASSUME NEW T, T \subseteq Entry, T # {}
  PROVE  Min(T) \in T /\ \A y \in T : Min(T) <= y
  <1> DEFINE R == {ss \in Nat \X Nat : ss[1] < ss[2]}
  <1>1. T \subseteq Nat BY Sizes
  <1>2. IsWellFoundedOn(R, Nat) BY NatLessThanWellFounded, Zenon DEF OpToRel
  <1> HIDE DEF R
  <1>3. PICK x \in T : \A y \in T : ~ (<<y, x>> \in R) BY <1>1, <1>2, WFMin
  <1>4. \A y \in T : x <= y
    <2> SUFFICES ASSUME NEW y \in T PROVE x <= y OBVIOUS
    <2>1. <<y, x>> \in Nat \X Nat BY <1>1
    <2> QED BY <1>1, <1>3, <2>1 DEF R
  <1> QED BY <1>4, Zenon DEF Min

LEMMA Pushed ==
  ASSUME NEW s \in Seq(Frames), NEW f \in Frames
  PROVE  /\ <<f>> \o s \in Seq(Frames) /\ (<<f>> \o s)[1] = f
         /\ Len(<<f>> \o s) = Len(s) + 1 /\ <<f>> \o s # <<>>
         /\ \A i \in 1 .. Len(<<f>> \o s) :
              i = 1 \/ (i - 1 \in 1 .. Len(s) /\ (<<f>> \o s)[i] = s[i - 1])
         /\ \A i \in 1 .. Len(s) : i + 1 \in 1 .. Len(<<f>> \o s) /\ (<<f>> \o s)[i + 1] = s[i]
OBVIOUS

LEMMA Popped ==
  ASSUME NEW s \in Seq(Frames), s # <<>>
  PROVE  /\ Tail(s) \in Seq(Frames) /\ 1 \in 1 .. Len(s) /\ s[1] \in Frames
         /\ \A i \in 1 .. Len(Tail(s)) : i + 1 \in 1 .. Len(s) /\ Tail(s)[i] = s[i + 1]
         /\ \A i \in 1 .. Len(s) :
              i = 1 \/ (i - 1 \in 1 .. Len(Tail(s)) /\ Tail(s)[i - 1] = s[i])
OBVIOUS

(* A step that is about one dialog leaves the others as they are.           *)
Apart(d) ==
  /\ dlg' \in {dlg, dlg + 1}
  /\ \A l \in Dialog : l # d =>
       todo'[l] = todo[l] /\ \A e \in Entry : mark'[<<l, e>>] = mark[<<l, e>>]

(* The calls below that of the dialog d.                                    *)
Below(s, d) ==
  /\ s \in Seq(Frames)
  /\ \A i, j \in 1 .. Len(s) :
       OfDialog(s[i]) /\ OfDialog(s[j]) /\ s[i].rec[1] = s[j].rec[1] => i = j
  /\ \A i \in 1 .. Len(s) :
       Stage(s[i]) /\ (OfDialog(s[i]) => s[i].rec[1] \in 1 .. dlg /\ s[i].rec[1] # d)

LEMMA BelowIt ==
  ASSUME Calls(stack), stack # <<>>, OfDialog(stack[1]), NEW d, d = stack[1].rec[1]
  PROVE  /\ Below(Tail(stack), d) /\ stack[1] \in Frames /\ Stage(stack[1]) /\ d \in 1 .. dlg
  <1> DEFINE s == Tail(stack)
  <1>1. /\ s \in Seq(Frames) /\ 1 \in 1 .. Len(stack) /\ stack[1] \in Frames
        /\ \A i \in 1 .. Len(s) : i + 1 \in 1 .. Len(stack) /\ s[i] = stack[i + 1]
    BY Popped DEF Calls
  <1> HIDE DEF s
  <1>2. ASSUME NEW i \in 1 .. Len(s), OfDialog(s[i])
        PROVE  s[i].rec[1] \in 1 .. dlg /\ s[i].rec[1] # d
    <2>1. i + 1 \in 1 .. Len(stack) /\ s[i] = stack[i + 1] /\ i + 1 # 1 BY <1>1
    <2> QED BY <1>1, <1>2, <2>1 DEF Calls
  <1>3. ASSUME NEW i \in 1 .. Len(s), NEW j \in 1 .. Len(s), OfDialog(s[i]), OfDialog(s[j]),
               s[i].rec[1] = s[j].rec[1]
        PROVE  i = j
    <2>1. i + 1 = j + 1 BY <1>1, <1>3 DEF Calls
    <2> QED BY <2>1
  <1>4. \A i \in 1 .. Len(s) : Stage(s[i]) BY <1>1 DEF Calls
  <1>5. Stage(stack[1]) /\ d \in 1 .. dlg BY <1>1 DEF Calls
  <1> QED BY <1>1, <1>2, <1>3, <1>4, <1>5 DEF Below, s

LEMMA StageHolds ==
  ASSUME Types, NEW f \in Frames, Stage(f), NEW d, Apart(d),
         OfDialog(f) => f.rec[1] \in 1 .. dlg /\ f.rec[1] # d
  PROVE  Stage(f)' /\ (OfDialog(f) => f.rec[1] \in 1 .. dlg')
  <1>1. CASE ~OfDialog(f) BY <1>1 DEF Stage, OfDialog
  <1>2. CASE OfDialog(f)
    <2> DEFINE l == f.rec[1]
    <2>1. /\ l \in Dialog /\ l # d /\ todo'[l] = todo[l]
          /\ \A e \in Entry : mark'[<<l, e>>] = mark[<<l, e>>]
      BY <1>2, Opened DEF Apart
    <2>a. l \in 1 .. dlg' BY <1>2, Opened DEF Apart
    <2>2. CASE f.at \in {"choose", "prepare", "wait"}
      <3>1. f.at \notin {"generate", "request"} /\ todo[l] \subseteq Entry BY <2>1, <2>2 DEF Types
      <3> HIDE DEF l
      <3>2. /\ f.at = "choose" => \A e \in Entry : mark[<<l, e>>] = "none"
            /\ f.at = "prepare" =>
                 \A e \in Entry : mark[<<l, e>>] = IF e \in todo[l] THEN "waiting" ELSE "none"
        BY <1>2 DEF Stage, l
      <3>3. /\ f.at = "choose" => \A e \in Entry : mark'[<<l, e>>] = "none"
            /\ f.at = "prepare" =>
                 \A e \in Entry : mark'[<<l, e>>] = IF e \in todo'[l] THEN "waiting" ELSE "none"
        BY <2>1, <3>2
      <3> QED BY <1>2, <2>a, <3>1, <3>3 DEF Stage, OfDialog, l
    <2>3. CASE f.at \in {"generate", "request"}
      <3>1. f.rec = <<l, f.rec[2]>> /\ f.rec[2] \in todo[l]
        BY <1>2, <2>3 DEF Stage
      <3>2. f.rec[2] \in Entry BY <2>1, <3>1 DEF Types
      <3>3. mark'[f.rec] = mark[f.rec] BY <2>1, <3>1, <3>2
      <3>4. todo[l] \subseteq Entry BY <2>1 DEF Types
      <3>5. f.at \notin {"choose", "prepare"} BY <2>3
      <3> HIDE DEF l
      <3>6. /\ f.rec = <<l, f.rec[2]>> /\ f.rec[2] \in todo[l] /\ mark[f.rec] = "current"
            /\ \A e \in todo[l] : e = f.rec[2] \/ (f.rec[2] < e /\ mark[<<l, e>>] = "waiting")
            /\ \A e \in Entry \ todo[l] :
                 mark[<<l, e>>] = "none" \/ (mark[<<l, e>>] = "done" /\ e < f.rec[2])
        BY <1>2, <2>3 DEF Stage, l
      <3>7. /\ f.rec = <<l, f.rec[2]>> /\ f.rec[2] \in todo'[l] /\ mark'[f.rec] = "current"
            /\ \A e \in todo'[l] : e = f.rec[2] \/ (f.rec[2] < e /\ mark'[<<l, e>>] = "waiting")
            /\ \A e \in Entry \ todo'[l] :
                 mark'[<<l, e>>] = "none" \/ (mark'[<<l, e>>] = "done" /\ e < f.rec[2])
        BY <2>1, <3>3, <3>4, <3>6
      <3> QED BY <1>2, <2>a, <3>5, <3>7 DEF Stage, OfDialog, l
    <2> QED BY <1>2, <2>2, <2>3 DEF OfDialog
  <1> QED BY <1>1, <1>2

LEMMA BelowStays ==
  ASSUME Types, NEW s, NEW d, Below(s, d), Apart(d), stack' = s
  PROVE  Calls(stack)'
  <1>1. \A i \in 1 .. Len(s) : Stage(s[i])' /\ (OfDialog(s[i]) => s[i].rec[1] \in 1 .. dlg')
    <2> SUFFICES ASSUME NEW i \in 1 .. Len(s)
                 PROVE  Stage(s[i])' /\ (OfDialog(s[i]) => s[i].rec[1] \in 1 .. dlg')
      OBVIOUS
    <2>1. s[i] \in Frames BY DEF Below
    <2> QED BY <2>1, StageHolds DEF Below
  <1> HIDE DEF Apart
  <1> QED BY <1>1 DEF Below, Calls, OfDialog

LEMMA NewTop ==
  ASSUME Types, NEW s, NEW d, Below(s, d), Apart(d), NEW f \in Frames, stack' = <<f>> \o s,
         f.rec[1] = d, d \in 1 .. dlg', Stage(stack[1])'
  PROVE  Calls(stack)'
  <1>1. /\ stack' \in Seq(Frames) /\ stack'[1] = f
        /\ \A i \in 1 .. Len(stack') : i = 1 \/ (i - 1 \in 1 .. Len(s) /\ stack'[i] = s[i - 1])
    BY Pushed DEF Below
  <1>2. ASSUME NEW i \in 1 .. Len(stack'), i # 1
        PROVE  Stage(stack[i])' /\ (OfDialog(stack'[i]) => stack'[i].rec[1] \in 1 .. dlg' /\ stack'[i].rec[1] # d)
    <2>1. i - 1 \in 1 .. Len(s) /\ stack'[i] = s[i - 1] BY <1>1, <1>2
    <2>2. PICK t : t = s[i - 1] OBVIOUS
    <2>3. t \in Frames /\ Stage(t) /\ (OfDialog(t) => t.rec[1] \in 1 .. dlg /\ t.rec[1] # d)
      BY <2>1, <2>2 DEF Below
    <2>4. Stage(t)' /\ (OfDialog(t) => t.rec[1] \in 1 .. dlg') BY <2>3, StageHolds
    <2> QED BY <2>1, <2>2, <2>3, <2>4 DEF Stage, OfDialog
  <1>3. ASSUME NEW i \in 1 .. Len(stack'), NEW j \in 1 .. Len(stack'),
               OfDialog(stack'[i]), OfDialog(stack'[j]), stack'[i].rec[1] = stack'[j].rec[1]
        PROVE  i = j
    <2>1. CASE i = 1 \/ j = 1 BY <1>1, <1>2, <1>3, <2>1
    <2>2. CASE i # 1 /\ j # 1
      <3>1. /\ i - 1 \in 1 .. Len(s) /\ stack'[i] = s[i - 1]
            /\ j - 1 \in 1 .. Len(s) /\ stack'[j] = s[j - 1]
        BY <1>1, <2>2
      <3>2. i - 1 = j - 1 BY <1>3, <3>1 DEF Below
      <3> QED BY <3>2
    <2> QED BY <2>1, <2>2
  <1>4. \A i \in 1 .. Len(stack') :
          Stage(stack[i])' /\ (OfDialog(stack'[i]) => stack'[i].rec[1] \in 1 .. dlg')
    BY <1>1, <1>2
  <1> QED BY <1>1, <1>3, <1>4 DEF Calls, OfDialog

(* A call of the start-up comes and goes without a trace.                   *)
LEMMA OtherCall ==
  ASSUME NEW s, NEW f \in Frames, Calls(s), ~OfDialog(f), f.rec \in Rec, f.rec[1] = 0
  PROVE  Calls(<<f>> \o s)
  <1> DEFINE t == <<f>> \o s
  <1>1. /\ t \in Seq(Frames) /\ t[1] = f
        /\ \A i \in 1 .. Len(t) : i = 1 \/ (i - 1 \in 1 .. Len(s) /\ t[i] = s[i - 1])
    BY Pushed DEF Calls
  <1> HIDE DEF t
  <1>2. ASSUME NEW i \in 1 .. Len(t), NEW j \in 1 .. Len(t), OfDialog(t[i]), OfDialog(t[j]),
               t[i].rec[1] = t[j].rec[1]
        PROVE  i = j
    <2>1. /\ i - 1 \in 1 .. Len(s) /\ t[i] = s[i - 1]
          /\ j - 1 \in 1 .. Len(s) /\ t[j] = s[j - 1]
      BY <1>1, <1>2
    <2>2. i - 1 = j - 1 BY <1>2, <2>1 DEF Calls
    <2> QED BY <2>2
  <1>3. ASSUME NEW i \in 1 .. Len(t) PROVE Stage(t[i]) /\ (OfDialog(t[i]) => t[i].rec[1] \in 1 .. dlg)
    <2>1. CASE i = 1
      <3>1. t[i] = f BY <1>1, <2>1
      <3>2. f.at \notin {"choose", "prepare"} BY DEF OfDialog
      <3> QED BY <3>1, <3>2 DEF Stage
    <2>2. CASE i # 1
      <3>1. i - 1 \in 1 .. Len(s) /\ t[i] = s[i - 1] BY <1>1, <2>2
      <3> QED BY <3>1 DEF Calls
    <2> QED BY <2>1, <2>2
  <1> QED BY <1>1, <1>2, <1>3 DEF Calls, t

LEMMA Returned ==
  ASSUME NEW s, Calls(s), s # <<>>
  PROVE  Calls(Tail(s))
  <1> DEFINE t == Tail(s)
  <1>1. /\ t \in Seq(Frames)
        /\ \A i \in 1 .. Len(t) : i + 1 \in 1 .. Len(s) /\ t[i] = s[i + 1]
    BY Popped DEF Calls
  <1> HIDE DEF t
  <1>2. ASSUME NEW i \in 1 .. Len(t), NEW j \in 1 .. Len(t), OfDialog(t[i]), OfDialog(t[j]),
               t[i].rec[1] = t[j].rec[1]
        PROVE  i = j
    <2>1. i + 1 = j + 1 BY <1>1, <1>2 DEF Calls
    <2> QED BY <2>1
  <1> QED BY <1>1, <1>2 DEF Calls, t

LEMMA SameCalls ==
  ASSUME NEW s, Calls(s), stack' = s, UNCHANGED <<dlg, todo, mark>>
  PROVE  Calls(stack)'
  BY DEF Calls, Stage, OfDialog
-----------------------------------------------------------------------------
LEMMA IInvInit == ASSUME Init PROVE IInv
  <1>1. idle \in Seq(Entry)
    <2>1. [i \in Entry |-> i] \in Seq(Entry) BY SyncAssumption DEF Entry
    <2> QED BY <2>1 DEF Init
  <1>2. dlg \in 0 .. MaxSyncs BY Sizes DEF Init
  <1>3. Types BY <1>1, <1>2, Sizes DEF Init, Types, Labels, States
  <1>4. Fresh /\ MarksInOrder BY Sizes DEF Init, Fresh, MarksInOrder
  <1>5. Calls(stack) /\ Remembered BY DEF Init, Calls, Remembered
  <1> QED BY <1>3, <1>4, <1>5 DEF IInv

(* What every step of a dialog leaves alone.                                *)
Unmarked == UNCHANGED <<idle, dlg, pressed>>

LEMMA Ends ==
  ASSUME Types, NEW d, Below(Tail(stack), d), d \in 1 .. dlg, Unmarked, Apart(d),
         NEW c \in BOOLEAN, EndActions(d, c)
  PROVE  /\ Calls(stack)' /\ loop' = loop /\ answer' = answer
         /\ cancelled' = [cancelled EXCEPT ![d] = c]
  <1>1. /\ loop' = loop /\ answer' = answer /\ dlg' = dlg
        /\ cancelled' = [cancelled EXCEPT ![d] = c]
    BY DEF EndActions, EndDialog, Unmarked
  <1>2. CASE stack' = Tail(stack)
    BY <1>1, <1>2, BelowStays
  <1>3. CASE stack' = <<Frame("wait", <<d, 0>>, loop)>> \o Tail(stack)
    <2> DEFINE f == Frame("wait", <<d, 0>>, loop)
    <2>0. d \in Loop /\ loop \in Loop /\ d > 0 BY Opened, Sizes DEF Types
    <2>1. f \in Frames /\ f.at = "wait" /\ f.rec[1] = d BY <2>0, Sizes DEF Frame, Frames
    <2> HIDE DEF f
    <2>2. PICK g : g = f OBVIOUS
    <2>3. g \in Frames /\ g.at = "wait" /\ g.rec[1] = d /\ stack' = <<g>> \o Tail(stack)
      BY <1>3, <2>1, <2>2 DEF f
    <2>4. stack'[1] = g BY <2>3, Pushed DEF Below
    <2>5. Stage(stack[1])' BY <2>3, <2>4 DEF Stage, OfDialog
    <2> QED BY <1>1, <2>3, <2>5, NewTop
  <1> QED BY <1>1, <1>2, <1>3 DEF EndActions, EndDialog

(* The labels of the other dialogs stay, and those of this one are in order.*)
LEMMA LabelsHold ==
  ASSUME Fresh, MarksInOrder, Types, NEW d, d \in 1 .. dlg, Unmarked, Apart(d),
         \A c, e \in Entry :
           c < e /\ mark'[<<d, c>>] # "none" /\ mark'[<<d, e>>] # "none" =>
             mark'[<<d, c>>] = "done" \/ mark'[<<d, e>>] = "waiting"
  PROVE  Fresh' /\ MarksInOrder'
  <1>1. dlg' = dlg /\ d \in Dialog /\ dlg \in Nat /\ d \in Nat /\ d <= dlg
    BY Opened, Sizes DEF Unmarked
  <1>2. Fresh'
    <2> SUFFICES ASSUME NEW l \in Dialog, NEW e \in Entry, dlg < l PROVE mark'[<<l, e>>] = "none"
      BY <1>1 DEF Fresh
    <2>1. l # d BY <1>1, Sizes
    <2> QED BY <2>1 DEF Apart, Fresh
  <1>3. MarksInOrder'
    <2> SUFFICES ASSUME NEW l \in Dialog, NEW c \in Entry, NEW e \in Entry, c < e,
                        mark'[<<l, c>>] # "none", mark'[<<l, e>>] # "none"
                 PROVE  mark'[<<l, c>>] = "done" \/ mark'[<<l, e>>] = "waiting"
      BY DEF MarksInOrder
    <2> QED BY DEF Apart, MarksInOrder
  <1> QED BY <1>2, <1>3

(* One round of the loop over the actions, when those before it are done    *)
(* and the ones left are waiting.                                           *)
LEMMA Round ==
  ASSUME Types, Fresh, MarksInOrder, Remembered, NEW d, Below(Tail(stack), d), d \in 1 .. dlg,
         Unmarked,
         NEW left, left \subseteq Entry, NEW marks \in [Rec -> Labels], NextAction(d, left, marks),
         \A l \in Dialog, e \in Entry : l # d => marks[<<l, e>>] = mark[<<l, e>>],
         \A e \in left : marks[<<d, e>>] = "waiting",
         \A e \in Entry \ left :
           marks[<<d, e>>] = "none" \/ (marks[<<d, e>>] = "done" /\ \A x \in left : e < x)
  PROVE  IInv'
  <1> DEFINE m == Min(left)
             r == <<d, m>>
  <1>0. /\ dlg' = dlg /\ pressed' = pressed /\ idle' = idle /\ todo' = [todo EXCEPT ![d] = left]
        /\ d \in Dialog /\ d \in Loop /\ d > 0 /\ loop \in Loop
        /\ \A e \in Entry : e \in Int /\ <<d, e>> \in Rec
    BY Opened, Sizes DEF Unmarked, NextAction, Types
  <1>a. /\ todo' \in [Dialog -> SUBSET Entry] /\ todo'[d] = left
        /\ \A l \in Dialog : l # d => todo'[l] = todo[l]
    BY <1>0 DEF Types
  <1>b. cancelled \in [Dialog -> BOOLEAN] /\ cancelled[d] \in BOOLEAN
    BY <1>0, Zenon DEF Types
  <1>c. ASSUME NEW c \in BOOLEAN, cancelled' = [cancelled EXCEPT ![d] = c],
               c = TRUE \/ c = cancelled[d]
        PROVE  cancelled' \in [Dialog -> BOOLEAN] /\ Remembered'
    <2>1. cancelled' \in [Dialog -> BOOLEAN] /\ cancelled'[d] = c
      BY <1>0, <1>b, <1>c, Zenon
    <2>2. \A l \in Dialog : l # d => cancelled'[l] = cancelled[l] BY <1>0, <1>b, <1>c, Zenon
    <2>3. \A l \in pressed : cancelled'[l] = TRUE BY <1>c, <2>1, <2>2, Zenon DEF Remembered
    <2> QED BY <1>0, <2>1, <2>3, Zenon DEF Remembered
  <1>1. CASE left = {} /\ mark' = marks /\ EndActions(d, cancelled[d])
    <2>1. Apart(d) BY <1>0, <1>1, <1>a DEF Apart
    <2>2. /\ Calls(stack)' /\ loop' = loop /\ answer' = answer
          /\ cancelled' = [cancelled EXCEPT ![d] = cancelled[d]]
      BY <1>1, <1>b, <2>1, Ends
    <2>3. Fresh' /\ MarksInOrder' BY <1>1, <2>1, LabelsHold
    <2>4. cancelled' \in [Dialog -> BOOLEAN] /\ Remembered' BY <1>b, <1>c, <2>2
    <2>5. Types' BY <1>0, <1>1, <1>a, <2>2, <2>4 DEF Types
    <2> QED BY <2>2, <2>3, <2>4, <2>5 DEF IInv
  <1>2. ASSUME NEW a \in {"canceled", "current"}, left # {}, mark' = [marks EXCEPT ![r] = a]
        PROVE  /\ m \in left /\ m \in Entry /\ \A e \in left : m <= e
               /\ mark' \in [Rec -> Labels] /\ mark'[r] = a
               /\ \A e \in Entry : mark'[<<d, e>>] = IF e = m THEN a ELSE marks[<<d, e>>]
               /\ Apart(d) /\ Fresh' /\ MarksInOrder'
    <2>1. m \in left /\ m \in Entry /\ \A e \in left : m <= e BY <1>2, First
    <2>2. r \in Rec BY <1>0, <2>1
    <2> HIDE DEF r, m
    <2>3. /\ mark' \in [Rec -> Labels] /\ mark'[r] = a
          /\ \A x \in Rec : x # r => mark'[x] = marks[x]
      BY <1>2, <2>2 DEF Labels
    <2>4. \A l \in Dialog, e \in Entry : l # d => mark'[<<l, e>>] = mark[<<l, e>>]
      BY <2>3, Sizes DEF r
    <2>5. \A e \in Entry : mark'[<<d, e>>] = IF e = m THEN a ELSE marks[<<d, e>>]
      BY <1>0, <2>3 DEF r
    <2>6. \A c, e \in Entry :
            c < e /\ mark'[<<d, c>>] # "none" /\ mark'[<<d, e>>] # "none" =>
              mark'[<<d, c>>] = "done" \/ mark'[<<d, e>>] = "waiting"
      <3> SUFFICES ASSUME NEW c \in Entry, NEW e \in Entry, c < e,
                          mark'[<<d, c>>] # "none", mark'[<<d, e>>] # "none",
                          mark'[<<d, e>>] # "waiting"
                   PROVE  mark'[<<d, c>>] = "done"
        OBVIOUS
      <3>1. c \in Int /\ e \in Int /\ m \in Int BY <1>0, <2>1
      <3>2. e = m \/ e \notin left BY <2>5
      <3>3. e <= m BY <2>1, <2>5, <3>1, <3>2
      <3>4. c # m /\ c \notin left BY <2>1, <3>1, <3>3
      <3> QED BY <2>5, <3>4
    <2>7. Apart(d) BY <1>0, <1>a, <2>4 DEF Apart
    <2>8. Fresh' /\ MarksInOrder' BY <2>6, <2>7, LabelsHold
    <2> QED BY <2>1, <2>3, <2>5, <2>7, <2>8
  <1>3. CASE left # {} /\ mark' = [marks EXCEPT ![r] = "canceled"] /\ EndActions(d, TRUE)
    <2>1. mark' \in [Rec -> Labels] /\ Apart(d) /\ Fresh' /\ MarksInOrder' BY <1>2, <1>3
    <2>2. /\ Calls(stack)' /\ loop' = loop /\ answer' = answer
          /\ cancelled' = [cancelled EXCEPT ![d] = TRUE]
      BY <1>3, <2>1, Ends
    <2>3. cancelled' \in [Dialog -> BOOLEAN] /\ Remembered' BY <1>c, <2>2
    <2>4. Types' BY <1>0, <1>a, <2>1, <2>2, <2>3 DEF Types
    <2> QED BY <2>1, <2>2, <2>3, <2>4 DEF IInv
  <1>4. CASE /\ left # {} /\ mark' = [marks EXCEPT ![r] = "current"]
             /\ SendRequest(r) /\ UNCHANGED <<dialog, cancelled>>
    <2>1. /\ m \in left /\ m \in Entry /\ \A e \in left : m <= e
          /\ mark' \in [Rec -> Labels] /\ mark'[r] = "current"
          /\ \A e \in Entry : mark'[<<d, e>>] = IF e = m THEN "current" ELSE marks[<<d, e>>]
          /\ Apart(d) /\ Fresh' /\ MarksInOrder'
      BY <1>2, <1>4
    <2>2. r \in Rec /\ r = <<d, m>> /\ r[1] = d /\ r[2] = m BY <1>0, <2>1
    <2> HIDE DEF r, m
    <2>3. /\ loop' = loop /\ answer' \in [Rec -> States]
          /\ \E f \in Frames : /\ stack' = <<f>> \o Tail(stack) /\ f.rec = r
                               /\ f.at \in {"generate", "request"}
      <3>1. ASSUME NEW at \in {"generate", "request"}, NEW l \in Loop
            PROVE  /\ Frame(at, r, l) \in Frames /\ Frame(at, r, l).rec = r
                   /\ Frame(at, r, l).at = at
        BY <1>0, <2>1, <2>2, Sizes DEF Frame, Frames
      <3>2. CASE Send(r) BY <1>0, <2>2, <3>1, <3>2 DEF Send, Types, States
      <3>3. CASE stack' = <<Frame("generate", r, 0)>> \o Tail(stack) /\ UNCHANGED <<answer, loops>>
        BY <3>1, <3>3, Sizes DEF loops, Types
      <3> QED BY <1>4, <3>2, <3>3 DEF SendRequest
    <2>4. PICK f \in Frames : /\ stack' = <<f>> \o Tail(stack) /\ f.rec = r
                              /\ f.at \in {"generate", "request"}
      BY <2>3
    <2>5. stack'[1] = f BY <2>4, Pushed DEF Below
    <2>6. Stage(stack[1])'
      <3>1. \A e \in left : e = m \/ (m < e /\ mark'[<<d, e>>] = "waiting")
        <4> SUFFICES ASSUME NEW e \in left, e # m PROVE m < e /\ mark'[<<d, e>>] = "waiting"
          OBVIOUS
        <4>1. e \in Int /\ m \in Int /\ m <= e BY <1>0, <2>1
        <4>2. mark'[<<d, e>>] = marks[<<d, e>>] BY <2>1
        <4> QED BY <4>1, <4>2
      <3>2. \A e \in Entry \ left :
              mark'[<<d, e>>] = "none" \/ (mark'[<<d, e>>] = "done" /\ e < m)
        BY <2>1
      <3>3. /\ f.rec = <<f.rec[1], f.rec[2]>> /\ f.rec[1] = d /\ f.rec[2] = m
            /\ mark'[f.rec] = "current" /\ todo'[d] = left /\ m \in left
        BY <1>a, <2>1, <2>2, <2>4
      <3>4. OfDialog(f) /\ f.at \notin {"choose", "prepare"} BY <1>0, <2>4, <3>3 DEF OfDialog
      <3> QED BY <2>5, <3>1, <3>2, <3>3, <3>4 DEF Stage, OfDialog
    <2>7. d \in 1 .. dlg' BY <1>0
    <2>8. f.rec[1] = d BY <2>2, <2>4
    <2>9. Calls(stack)' BY <2>1, <2>4, <2>6, <2>7, <2>8, NewTop
    <2>10. Remembered' BY <1>0, <1>4 DEF Remembered
    <2>11. Types' BY <1>0, <1>4, <1>a, <1>b, <2>1, <2>3 DEF Types
    <2> QED BY <2>1, <2>9, <2>10, <2>11 DEF IInv
  <1> QED BY <1>1, <1>3, <1>4 DEF NextAction

LEMMA PreparedHolds == ASSUME IInv, Prepared PROVE IInv'
  <1>1. PICK d : d = stack[1].rec[1] OBVIOUS
  <1>2. PICK left : left = todo[d] OBVIOUS
  <1>3. PICK marks : marks = mark OBVIOUS
  <1>4. stack # <<>> /\ stack[1].at = "prepare" /\ NextAction(d, left, marks) /\ Unmarked
    BY <1>1, <1>2, <1>3 DEF Prepared, Top, Unmarked
  <1>5. Below(Tail(stack), d) /\ Stage(stack[1]) /\ d \in 1 .. dlg
    BY <1>1, <1>4, BelowIt DEF IInv, OfDialog
  <1>6. \A e \in Entry : mark[<<d, e>>] = IF e \in left THEN "waiting" ELSE "none"
    BY <1>1, <1>2, <1>4, <1>5 DEF Stage
  <1>7. left \subseteq Entry /\ marks \in [Rec -> Labels]
    BY <1>2, <1>3, <1>5, Opened DEF IInv, Types
  <1> QED BY <1>3, <1>4, <1>5, <1>6, <1>7, Round DEF IInv

Relabelled(d, m, label) == [mark EXCEPT ![<<d, m>>] = label]

LEMMA Relabel ==
  ASSUME Types, NEW d \in Dialog, NEW m \in Entry, NEW a \in {"failed", "done"}
  PROVE  /\ Relabelled(d, m, a) \in [Rec -> Labels]
         /\ \A l \in Dialog, e \in Entry : l # d => Relabelled(d, m, a)[<<l, e>>] = mark[<<l, e>>]
         /\ \A e \in Entry : Relabelled(d, m, a)[<<d, e>>] = IF e = m THEN a ELSE mark[<<d, e>>]
  <1> PICK marks : marks = Relabelled(d, m, a) OBVIOUS
  <1>1. <<d, m>> \in Rec /\ \A l \in Dialog, e \in Entry : <<l, e>> \in Rec BY Sizes
  <1>2. marks \in [Rec -> Labels] /\ \A x \in Rec : marks[x] = IF x = <<d, m>> THEN a ELSE mark[x]
    BY <1>1 DEF Labels, Types, Relabelled
  <1> QED BY <1>1, <1>2

LEMMA RequestHolds == ASSUME IInv, RequestReturns PROVE IInv'
  <1>1. PICK d : d = stack[1].rec[1] OBVIOUS
  <1>2. PICK m : m = stack[1].rec[2] OBVIOUS
  <1>3. PICK left : left = todo[d] \ {m} OBVIOUS
  <1> DEFINE r == <<d, m>>
  <1>4. /\ stack # <<>> /\ stack[1].at = "request" /\ stack[1].rec[1] > 0 /\ Unmarked
        /\ OfDialog(stack[1])
    BY DEF RequestReturns, Top, Unmarked, OfDialog
  <1>5. Below(Tail(stack), d) /\ Stage(stack[1]) /\ d \in 1 .. dlg
    BY <1>1, <1>4, BelowIt DEF IInv
  <1>6. /\ stack[1].rec = r /\ m \in todo[d] /\ mark[r] = "current"
        /\ \A e \in todo[d] : e = m \/ (m < e /\ mark[<<d, e>>] = "waiting")
        /\ \A e \in Entry \ todo[d] :
             mark[<<d, e>>] = "none" \/ (mark[<<d, e>>] = "done" /\ e < m)
    BY <1>1, <1>2, <1>4, <1>5 DEF Stage
  <1>7. /\ d \in Dialog /\ d \in Loop /\ todo[d] \subseteq Entry /\ m \in Entry
        /\ left \subseteq Entry /\ mark \in [Rec -> Labels] /\ loop \in Loop
        /\ \A e \in Entry : e \in Int /\ <<d, e>> \in Rec
    <2>1. d \in Dialog /\ mark \in [Rec -> Labels] BY <1>5, Opened DEF IInv, Types
    <2>2. todo[d] \subseteq Entry /\ loop \in Loop BY <2>1 DEF IInv, Types
    <2> QED BY <1>3, <1>6, <2>1, <2>2, Sizes
  <1>8. \/ /\ mark' = Relabelled(d, m, "failed") /\ todo' = [todo EXCEPT ![d] = left]
           /\ EndActions(d, TRUE)
        \/ NextAction(d, left, Relabelled(d, m, "done"))
    BY <1>1, <1>2, <1>3, <1>6 DEF RequestReturns, Top, Others, Relabelled
  <1>9. Types /\ Fresh /\ MarksInOrder /\ Remembered BY DEF IInv
  <1>10. ASSUME NEW marks \in [Rec -> Labels], NextAction(d, left, marks),
                \A l \in Dialog, e \in Entry : l # d => marks[<<l, e>>] = mark[<<l, e>>],
                \A e \in Entry : marks[<<d, e>>] = IF e = m THEN "done" ELSE mark[<<d, e>>]
         PROVE  IInv'
    <2>1. \A e \in Entry : marks[<<d, e>>] = IF e = m THEN "done" ELSE mark[<<d, e>>] BY <1>10
    <2>2. \A e \in left : marks[<<d, e>>] = "waiting" BY <1>3, <1>6, <1>7, <2>1
    <2>3. \A e \in Entry \ left :
            marks[<<d, e>>] = "none" \/ (marks[<<d, e>>] = "done" /\ \A x \in left : e < x)
      <3> SUFFICES ASSUME NEW e \in Entry \ left, marks[<<d, e>>] # "none"
                   PROVE  marks[<<d, e>>] = "done" /\ \A x \in left : e < x
        OBVIOUS
      <3>1. \A x \in left : x \in Int /\ m < x BY <1>3, <1>6, <1>7
      <3>2. CASE e = m BY <2>1, <3>1, <3>2
      <3>3. CASE e # m
        <4>1. e \in Entry \ todo[d] /\ marks[<<d, e>>] = mark[<<d, e>>] BY <1>3, <2>1, <3>3
        <4>2. mark[<<d, e>>] = "done" /\ e < m BY <1>6, <4>1
        <4>3. e \in Int /\ m \in Int BY <1>7
        <4> QED BY <3>1, <4>1, <4>2, <4>3
      <3> QED BY <3>2, <3>3
    <2>4. left \subseteq Entry /\ Below(Tail(stack), d) /\ d \in 1 .. dlg /\ Unmarked
      BY <1>4, <1>5, <1>7
    <2> QED BY <1>9, <1>10, <2>2, <2>3, <2>4, Round
  <1>11. CASE /\ mark' = Relabelled(d, m, "failed") /\ todo' = [todo EXCEPT ![d] = left]
              /\ EndActions(d, TRUE)
    <2>1. /\ mark' \in [Rec -> Labels]
          /\ \A l \in Dialog, e \in Entry : l # d => mark'[<<l, e>>] = mark[<<l, e>>]
          /\ \A e \in Entry : mark'[<<d, e>>] = IF e = m THEN "failed" ELSE mark[<<d, e>>]
      BY <1>7, <1>9, <1>11, Relabel
    <2>2. \A c, e \in Entry :
            c < e /\ mark'[<<d, c>>] # "none" /\ mark'[<<d, e>>] # "none" =>
              mark'[<<d, c>>] = "done" \/ mark'[<<d, e>>] = "waiting"
      <3> SUFFICES ASSUME NEW c \in Entry, NEW e \in Entry, c < e,
                          mark'[<<d, c>>] # "none", mark'[<<d, e>>] # "none",
                          mark'[<<d, e>>] # "waiting"
                   PROVE  mark'[<<d, c>>] = "done"
        OBVIOUS
      <3>1. c \in Int /\ e \in Int /\ m \in Int BY <1>7
      <3>2. e <= m BY <1>6, <2>1, <3>1
      <3>3. c # m /\ c \notin todo[d] BY <1>6, <3>1, <3>2
      <3> QED BY <1>6, <2>1, <3>3
    <2>3. dlg' = dlg /\ pressed' = pressed /\ idle' = idle BY <1>4 DEF Unmarked
    <2>4. todo' \in [Dialog -> SUBSET Entry] /\ Apart(d)
      BY <1>7, <1>11, <2>1, <2>3 DEF IInv, Types, Apart
    <2>5. Fresh' /\ MarksInOrder' BY <1>4, <1>5, <2>2, <2>4, LabelsHold DEF IInv
    <2>6. /\ Calls(stack)' /\ loop' = loop /\ answer' = answer
          /\ cancelled' = [cancelled EXCEPT ![d] = TRUE]
      BY <1>4, <1>5, <1>11, <2>4, Ends DEF IInv
    <2>7. cancelled' \in [Dialog -> BOOLEAN] /\ \A l \in pressed : cancelled'[l] = TRUE
      BY <1>7, <2>6, Zenon DEF IInv, Types, Remembered
    <2>8. Types' BY <1>7, <2>1, <2>3, <2>4, <2>6, <2>7 DEF IInv, Types
    <2>9. Remembered' BY <2>3, <2>7 DEF IInv, Remembered
    <2> QED BY <2>5, <2>6, <2>8, <2>9 DEF IInv
  <1>12. CASE NextAction(d, left, Relabelled(d, m, "done"))
    <2>1. PICK marks : marks = Relabelled(d, m, "done") OBVIOUS
    <2>2. /\ marks \in [Rec -> Labels]
          /\ \A l \in Dialog, e \in Entry : l # d => marks[<<l, e>>] = mark[<<l, e>>]
          /\ \A e \in Entry : marks[<<d, e>>] = IF e = m THEN "done" ELSE mark[<<d, e>>]
      BY <1>7, <1>9, <2>1, Relabel
    <2>3. NextAction(d, left, marks) BY <1>12, <2>1
    <2> QED BY <1>10, <2>2, <2>3
  <1> QED BY <1>8, <1>11, <1>12

(* The upload's contents are there: its request follows, and nothing else   *)
(* of the dialog changes.                                                   *)
LEMMA GeneratedHolds == ASSUME IInv, Generated PROVE IInv'
  <1>1. PICK d : d = stack[1].rec[1] OBVIOUS
  <1>2. PICK f : f = Frame("request", stack[1].rec, loop) OBVIOUS
  <1>3. /\ stack # <<>> /\ stack[1].at = "generate" /\ stack' = <<f>> \o Tail(stack)
        /\ answer' = [answer EXCEPT ![stack[1].rec] = "sent"]
        /\ UNCHANGED <<idle, loop, dlg, mark, todo, cancelled, pressed>>
    BY <1>2 DEF Generated, Send, Top, ui
  <1>4. Below(Tail(stack), d) /\ Stage(stack[1]) /\ d \in 1 .. dlg /\ stack[1] \in Frames
    BY <1>1, <1>3, BelowIt DEF IInv, OfDialog
  <1>5. /\ d \in Loop /\ d > 0 /\ loop \in Loop BY <1>4, Opened, Sizes DEF IInv, Types
  <1>6. f \in Frames /\ f.at = "request" /\ f.rec = stack[1].rec /\ f.rec[1] = d
    BY <1>1, <1>2, <1>4, <1>5 DEF Frame, Frames
  <1>7. stack'[1] = f BY <1>3, <1>4, <1>6, Pushed DEF Below
  <1>8. Stage(stack[1])' BY <1>1, <1>3, <1>4, <1>5, <1>6, <1>7 DEF Stage, OfDialog
  <1>9. Apart(d) BY <1>3 DEF Apart
  <1>10. Calls(stack)' BY <1>3, <1>4, <1>6, <1>8, <1>9, NewTop DEF IInv
  <1>11. answer' \in [Rec -> States] BY <1>3 DEF IInv, Types, States
  <1> QED BY <1>3, <1>10, <1>11 DEF IInv, Types, Fresh, MarksInOrder, Remembered

LEMMA StartSyncHolds == ASSUME IInv, NEW chosen \in Selections, StartSync(chosen) PROVE IInv'
  <1>0. chosen \subseteq Entry BY SyncAssumption
  <1>1. PICK d : d = stack[1].rec[1] OBVIOUS
  <1>2. /\ stack # <<>> /\ stack[1].at = "choose" /\ todo' = [todo EXCEPT ![d] = chosen]
        /\ loop' = d /\ UNCHANGED <<idle, answer, dlg, cancelled, pressed>>
        /\ stack' = <<Frame("prepare", <<d, 0>>, d)>> \o Tail(stack)
        /\ mark' = [r \in Rec |-> IF r[1] = d /\ r[2] \in chosen THEN "waiting" ELSE mark[r]]
    BY <1>1 DEF StartSync, Top
  <1>3. Below(Tail(stack), d) /\ Stage(stack[1]) /\ d \in 1 .. dlg
    BY <1>1, <1>2, BelowIt DEF IInv, OfDialog
  <1>4. /\ d \in Dialog /\ d \in Loop /\ d > 0 /\ \A e \in Entry : mark[<<d, e>>] = "none"
    BY <1>1, <1>2, <1>3, Opened, Sizes DEF Stage, IInv
  <1>5. /\ mark' \in [Rec -> Labels]
        /\ \A l \in Dialog, e \in Entry : l # d => mark'[<<l, e>>] = mark[<<l, e>>]
        /\ \A e \in Entry : mark'[<<d, e>>] = IF e \in chosen THEN "waiting" ELSE "none"
    <2>1. mark' \in [Rec -> Labels]
      <3>1. mark \in [Rec -> Labels] BY DEF IInv, Types
      <3> QED BY <1>2, <3>1 DEF Labels
    <2> QED BY <1>2, <1>4, <2>1, Sizes
  <1>6. todo' \in [Dialog -> SUBSET Entry] /\ todo'[d] = chosen /\ Apart(d) /\ Unmarked
    BY <1>0, <1>2, <1>4, <1>5 DEF IInv, Types, Apart, Unmarked
  <1>7. Fresh' /\ MarksInOrder' BY <1>3, <1>5, <1>6, LabelsHold DEF IInv
  <1>8. Calls(stack)'
    <2>1. PICK f : f = Frame("prepare", <<d, 0>>, d) OBVIOUS
    <2>2. f \in Frames /\ f.at = "prepare" /\ f.rec[1] = d
      BY <1>4, <2>1, Sizes DEF Frame, Frames
    <2>3. stack' = <<f>> \o Tail(stack) /\ stack'[1] = f BY <1>2, <1>3, <2>1, <2>2, Pushed DEF Below
    <2>4. Stage(stack[1])' BY <1>5, <1>6, <2>2, <2>3 DEF Stage, OfDialog
    <2>5. d \in 1 .. dlg' BY <1>2, <1>3
    <2> QED BY <1>3, <1>6, <2>2, <2>3, <2>4, <2>5, NewTop DEF IInv
  <1>9. Types' BY <1>2, <1>4, <1>5, <1>6 DEF IInv, Types
  <1>10. Remembered' BY <1>2 DEF IInv, Remembered
  <1> QED BY <1>7, <1>8, <1>9, <1>10 DEF IInv

(* The labels of a new dialog have not been written.                        *)
LEMMA OpenHolds == ASSUME IInv, OpenDialog PROVE IInv'
  <1>1. PICK d : d = dlg + 1 OBVIOUS
  <1>2. /\ Syncs < MaxSyncs /\ dlg' = d
        /\ UNCHANGED <<idle, loop, answer, mark, todo, cancelled, pressed>>
        /\ stack' = <<Frame("choose", <<d, 0>>, 0)>> \o stack
    BY <1>1 DEF OpenDialog, loops, work
  <1>3. dlg \in Nat /\ d \in Dialog /\ d \in Loop /\ d \in 0 .. MaxSyncs /\ d \in 1 .. dlg'
    BY <1>1, <1>2, Sizes DEF IInv, Types, Dialog, Syncs
  <1>4. Below(stack, d) BY <1>1, <1>3 DEF IInv, Calls, Below
  <1>5. \A e \in Entry : mark'[<<d, e>>] = "none" BY <1>1, <1>2, <1>3 DEF IInv, Fresh
  <1>6. Apart(d) BY <1>1, <1>2 DEF Apart
  <1>7. Calls(stack)'
    <2>1. PICK f : f = Frame("choose", <<d, 0>>, 0) OBVIOUS
    <2>2. f \in Frames /\ f.at = "choose" /\ f.rec[1] = d
      BY <1>3, <2>1, Sizes DEF Frame, Frames
    <2>3. stack' = <<f>> \o stack /\ stack'[1] = f BY <1>2, <1>4, <2>1, <2>2, Pushed DEF Below
    <2>4. Stage(stack[1])' BY <1>5, <2>2, <2>3 DEF Stage, OfDialog
    <2> QED BY <1>3, <1>4, <1>6, <2>2, <2>3, <2>4, NewTop DEF IInv
  <1>8. Types' BY <1>2, <1>3 DEF IInv, Types
  <1>9. Fresh' BY <1>1, <1>2, <1>3, Sizes DEF IInv, Fresh
  <1> QED BY <1>2, <1>7, <1>8, <1>9 DEF IInv, MarksInOrder, Remembered

(* The start-up, the answers and the user's other actions.                  *)
LEMMA SameLabels ==
  ASSUME IInv, Calls(stack)', UNCHANGED <<loop, mark, todo, dlg, pressed, cancelled>>,
         idle' \in Seq(Entry), answer' \in [Rec -> States]
  PROVE  IInv'
  BY DEF IInv, Types, Fresh, MarksInOrder, Remembered

LEMMA CloseHolds == ASSUME IInv, DialogRefused \/ WaitReturns PROVE IInv'
  <1>1. /\ stack # <<>> /\ stack' = Tail(stack)
        /\ UNCHANGED <<idle, loop, answer, mark, todo, dlg, cancelled, pressed>>
    BY DEF DialogRefused, WaitReturns, EndDialog, loops, work
  <1>2. Calls(stack)' BY <1>1, Returned, SameCalls DEF IInv
  <1> QED BY <1>1, <1>2, SameLabels DEF IInv, Types

LEMMA StartupHolds == ASSUME IInv, SyncOne \/ PulseEnds \/ SyncOneReturns PROVE IInv'
  <1>0. /\ stack \in Seq(Frames) /\ Calls(stack) /\ idle \in Seq(Entry)
        /\ loop \in Loop /\ answer \in [Rec -> States]
    BY DEF IInv, Calls, Types
  <1>1. CASE SyncOne
    <2>1. /\ idle # <<>> /\ idle' = Tail(idle)
          /\ UNCHANGED <<loop, answer, mark, todo, dlg, pressed, cancelled>>
      BY <1>1 DEF SyncOne, ui
    <2>2. Head(idle) \in Entry /\ idle' \in Seq(Entry) BY <1>0, <2>1
    <2>3. CASE stack' = stack
      <3>1. Calls(stack)' BY <1>0, <2>1, <2>3, SameCalls
      <3> QED BY <1>0, <2>1, <2>2, <3>1, SameLabels
    <2>4. CASE stack' = <<Frame("pulse", <<0, Head(idle)>>, 0)>> \o stack
      <3> DEFINE f == Frame("pulse", <<0, Head(idle)>>, 0)
      <3>1. f \in Frames /\ ~OfDialog(f) /\ f.rec \in Rec /\ f.rec[1] = 0
        BY <2>2, Sizes DEF Frame, Frames, OfDialog
      <3> HIDE DEF f
      <3>2. Calls(<<f>> \o stack) BY <1>0, <3>1, OtherCall
      <3>3. stack' = <<f>> \o stack BY <2>4 DEF f
      <3>4. Calls(stack)' BY <2>1, <3>2, <3>3, SameCalls
      <3> QED BY <1>0, <2>1, <2>2, <3>4, SameLabels
    <2> QED BY <1>1, <2>3, <2>4 DEF SyncOne
  <1>2. CASE PulseEnds
    <2>1. /\ stack # <<>> /\ stack[1].at = "pulse" /\ Send(stack[1].rec)
          /\ UNCHANGED <<idle, loop, mark, todo, dlg, pressed, cancelled>>
      BY <1>2 DEF PulseEnds, Send, Top, ui
    <2>2. stack[1] \in Frames /\ Stage(stack[1]) /\ Calls(Tail(stack))
      BY <1>0, <2>1, Popped, Returned DEF Calls
    <2> DEFINE f == Frame("request", stack[1].rec, loop)
    <2>3. stack[1].rec \in Rec /\ stack[1].rec[1] = 0 BY <2>1, <2>2 DEF Stage, OfDialog
    <2>4. f \in Frames /\ ~OfDialog(f) /\ f.at = "request" /\ f.rec \in Rec /\ f.rec[1] = 0
      BY <1>0, <2>2, <2>3 DEF Frame, Frames, OfDialog
    <2>5. stack' = <<f>> \o Tail(stack) BY <2>1 DEF Send
    <2> HIDE DEF f
    <2>6. Calls(<<f>> \o Tail(stack)) BY <2>2, <2>4, OtherCall
    <2>7. Calls(stack)' BY <2>1, <2>5, <2>6, SameCalls
    <2>8. answer' \in [Rec -> States] BY <1>0, <2>1 DEF Send, States
    <2> QED BY <1>0, <2>1, <2>7, <2>8, SameLabels
  <1>3. CASE SyncOneReturns
    <2>1. /\ stack # <<>> /\ stack' = Tail(stack)
          /\ UNCHANGED <<idle, loop, answer, mark, todo, dlg, pressed, cancelled>>
      BY <1>3 DEF SyncOneReturns, ui
    <2>2. Calls(stack)' BY <1>0, <2>1, Returned, SameCalls
    <2> QED BY <1>0, <2>1, <2>2, SameLabels
  <1> QED BY <1>1, <1>2, <1>3

LEMMA AnswerHolds == ASSUME IInv, NEW r \in Rec, GotResponse(r) PROVE IInv'
  <1>1. PICK a \in {"ok", "error"} :
          /\ answer' = [answer EXCEPT ![r] = a]
          /\ UNCHANGED <<idle, stack, loop, mark, todo, dlg, pressed, cancelled>>
    BY SyncAssumption DEF GotResponse, ui
  <1>2. answer' \in [Rec -> States] BY <1>1 DEF IInv, Types, States
  <1>3. Calls(stack)' BY <1>1, SameCalls DEF IInv
  <1> QED BY <1>1, <1>2, <1>3, SameLabels DEF IInv, Types

LEMMA CancelHolds == ASSUME IInv, NEW d \in Dialog, CancelSync(d) PROVE IInv'
  <1>1. /\ answer' = [r \in Rec |-> IF answer[r] = "sent" THEN "aborted" ELSE answer[r]]
        /\ cancelled' = [cancelled EXCEPT ![d] = TRUE] /\ pressed' = pressed \cup {d}
        /\ UNCHANGED <<idle, stack, loop, mark, todo, dlg>>
    BY DEF CancelSync
  <1>2. answer' \in [Rec -> States] BY <1>1 DEF IInv, Types, States
  <1>3. Calls(stack)' BY <1>1, SameCalls DEF IInv
  <1>4. cancelled' \in [Dialog -> BOOLEAN] /\ cancelled'[d] = TRUE
        /\ \A l \in pressed : cancelled'[l] = TRUE
    BY <1>1, Zenon DEF IInv, Types, Remembered
  <1>5. Remembered' BY <1>1, <1>4 DEF IInv, Remembered
  <1>6. Types' BY <1>1, <1>2, <1>4 DEF IInv, Types
  <1> QED BY <1>1, <1>3, <1>5, <1>6 DEF IInv, Fresh, MarksInOrder

LEMMA OthersHold ==
  ASSUME IInv, \/ InitReturns \/ Benchmark \/ UNCHANGED vars
               \/ \E d \in Dialog : CloseClicked(d) \/ DeleteWindow(d)
  PROVE  IInv'
  <1>1. UNCHANGED <<idle, stack, loop, answer, mark, todo, dlg, pressed, cancelled>>
    BY DEF InitReturns, Benchmark, CloseClicked, DeleteWindow, vars, loops, work, ui
  <1>2. Calls(stack)' BY <1>1, SameCalls DEF IInv
  <1> QED BY <1>1, <1>2, SameLabels DEF IInv, Types

LEMMA IInvNext == ASSUME IInv, [Next]_vars PROVE IInv'
  <1>1. ASSUME NEW chosen \in Selections, StartSync(chosen) PROVE IInv'
    BY <1>1, StartSyncHolds
  <1>2. CASE SyncOne \/ PulseEnds \/ SyncOneReturns BY <1>2, StartupHolds
  <1>3. CASE Prepared \/ RequestReturns \/ Generated
    BY <1>3, PreparedHolds, RequestHolds, GeneratedHolds
  <1>4. CASE OpenDialog \/ DialogRefused \/ WaitReturns BY <1>4, OpenHolds, CloseHolds
  <1>5. CASE \E r \in Rec : GotResponse(r) BY <1>5, AnswerHolds
  <1>6. CASE \E d \in Dialog : CancelSync(d) BY <1>6, CancelHolds
  <1>7. CASE \/ InitReturns \/ Benchmark \/ UNCHANGED vars
             \/ \E d \in Dialog : CloseClicked(d) \/ DeleteWindow(d)
    BY <1>7, OthersHold
  <1> QED BY <1>1, <1>2, <1>3, <1>4, <1>5, <1>6, <1>7 DEF Next

LEMMA Invariant == Spec => []IInv
  <1>1. Init => IInv BY IInvInit
  <1>2. IInv /\ [Next]_vars => IInv' BY IInvNext
  <1> QED BY <1>1, <1>2, PTL DEF Spec

(* A dialog stops at its first action that did not end well, and shows it,  *)
(* whatever is answered, and when, and to whichever loop.                   *)
THEOREM InOrder == Spec => []MarksInOrder
  <1>1. IInv => MarksInOrder BY DEF IInv
  <1> QED BY <1>1, Invariant, PTL
-----------------------------------------------------------------------------
(* What a Cancel in the dialog d leaves to its action r.                    *)
Begins(r) ==
  mark[r] # "current" =>
    /\ mark'[r] # "current"
    /\ answer'[r] = "sent" => answer[r] = "sent"

LEMMA SentElsewhere ==
  ASSUME Types, NEW r \in Rec, NEW x, x # r, Send(x)
  PROVE  answer'[r] = answer[r]
  BY DEF Send, Types

LEMMA NextBegins ==
  ASSUME IInv, NEW d \in pressed, NEW e \in Entry, NEW c, NEW left, NEW marks \in [Rec -> Labels],
         NextAction(c, left, marks), marks[<<d, e>>] # "current"
  PROVE  mark'[<<d, e>>] # "current" /\ answer'[<<d, e>>] = answer[<<d, e>>]
  <1> DEFINE r == <<d, e>>
             x == <<c, Min(left)>>
  <1>1. r \in Rec /\ cancelled[d] = TRUE /\ answer \in [Rec -> States]
    BY Sizes DEF IInv, Remembered, Types
  <1>a. x = r => c = d OBVIOUS
  <1> HIDE DEF r, x
  <1>2. CASE mark' = marks /\ EndActions(c, cancelled[c])
    BY <1>2 DEF EndActions, r
  <1>3. CASE mark' = [marks EXCEPT ![x] = "canceled"] /\ EndActions(c, TRUE)
    <2>1. mark'[r] \in {marks[r], "canceled"} BY <1>1, <1>3
    <2>2. answer' = answer BY <1>3 DEF EndActions
    <2> QED BY <2>1, <2>2 DEF r
  <1>4. CASE ~cancelled[c] /\ mark' = [marks EXCEPT ![x] = "current"] /\ SendRequest(x)
    <2>1. x # r BY <1>1, <1>4, <1>a
    <2>2. mark'[r] = marks[r] BY <1>1, <1>4, <2>1
    <2>3. answer'[r] = answer[r] BY <1>1, <1>4, <2>1, SentElsewhere DEF SendRequest, IInv
    <2> QED BY <2>2, <2>3 DEF r
  <1> QED BY <1>2, <1>3, <1>4 DEF NextAction, IsCancelled, x

LEMMA RequestBegins ==
  ASSUME IInv, NEW d \in pressed, NEW e \in Entry, RequestReturns
  PROVE  Begins(<<d, e>>)
  <1>1. PICK l : l = stack[1].rec[1] OBVIOUS
  <1>2. PICK x : x = stack[1].rec OBVIOUS
  <1>3. PICK left : left = Others OBVIOUS
  <1>4. \/ mark' = [mark EXCEPT ![x] = "failed"] /\ EndActions(l, TRUE)
        \/ NextAction(l, left, [mark EXCEPT ![x] = "done"])
    BY <1>1, <1>2, <1>3 DEF RequestReturns, Top
  <1>5. PICK marks : marks = [mark EXCEPT ![x] = "done"] OBVIOUS
  <1>6. <<d, e>> \in Rec /\ mark \in [Rec -> Labels] BY Sizes DEF IInv, Types, Remembered
  <1>7. marks \in [Rec -> Labels] /\ marks[<<d, e>>] \in {mark[<<d, e>>], "done"}
    BY <1>5, <1>6 DEF Labels
  <1>8. CASE NextAction(l, left, marks) BY <1>7, <1>8, NextBegins DEF Begins
  <1>9. CASE mark' = [mark EXCEPT ![x] = "failed"] /\ EndActions(l, TRUE)
    <2>1. mark'[<<d, e>>] \in {mark[<<d, e>>], "failed"} BY <1>6, <1>9
    <2>2. answer' = answer BY <1>9 DEF EndActions
    <2> QED BY <2>1, <2>2 DEF Begins
  <1> QED BY <1>4, <1>5, <1>8, <1>9

LEMMA PreparedBegins ==
  ASSUME IInv, NEW d \in pressed, NEW e \in Entry, Prepared
  PROVE  Begins(<<d, e>>)
  <1>1. PICK l : l = stack[1].rec[1] OBVIOUS
  <1>2. PICK left : left = todo[l] OBVIOUS
  <1>3. PICK marks : marks = mark OBVIOUS
  <1>4. NextAction(l, left, marks) BY <1>1, <1>2, <1>3 DEF Prepared, Top
  <1>5. marks \in [Rec -> Labels] BY <1>3 DEF IInv, Types
  <1> QED BY <1>3, <1>4, <1>5, NextBegins DEF Begins

LEMMA OthersBegin ==
  ASSUME IInv, NEW d \in pressed, NEW e \in Entry, [Next]_vars, ~Prepared, ~RequestReturns
  PROVE  Begins(<<d, e>>)
  <1> DEFINE r == <<d, e>>
  <1>1. r \in Rec /\ d > 0 /\ r[1] = d BY Sizes DEF IInv, Remembered
  <1>2. Types /\ answer \in [Rec -> States] BY DEF IInv, Types
  <1> HIDE DEF r
  <1>3. CASE UNCHANGED <<mark, answer>> BY <1>3 DEF Begins, r
  <1>4. CASE PulseEnds \/ Generated
    <2>1. PICK x : x = stack[1].rec OBVIOUS
    <2>2. /\ stack # <<>> /\ stack[1].at \in {"pulse", "generate"} /\ Send(x) /\ mark' = mark
      BY <1>4, <2>1 DEF PulseEnds, Generated, Top
    <2>3. Stage(stack[1]) BY <2>2, Popped DEF IInv, Calls
    <2>4. x[1] = 0 \/ mark[x] = "current" BY <2>1, <2>2, <2>3 DEF Stage, OfDialog
    <2>5. CASE mark[x] = "current" /\ x = r BY <2>5 DEF Begins, r
    <2>6. CASE x # r
      <3>1. answer'[r] = answer[r] BY <1>1, <1>2, <2>2, <2>6, SentElsewhere
      <3> QED BY <2>2, <3>1 DEF Begins, r
    <2> QED BY <1>1, <2>4, <2>5, <2>6
  <1>5. CASE \E x \in Rec : GotResponse(x)
    <2>1. PICK x \in Rec, a \in {"ok", "error"} : answer' = [answer EXCEPT ![x] = a] /\ mark' = mark
      BY <1>5, SyncAssumption DEF GotResponse
    <2>2. answer'[r] \in {answer[r], "ok", "error"} BY <1>1, <1>2, <2>1
    <2> QED BY <2>1, <2>2 DEF Begins, r
  <1>6. CASE \E c \in Dialog : CancelSync(c)
    <2>1. mark' = mark /\ answer'[r] \in {answer[r], "aborted"} BY <1>1, <1>6 DEF CancelSync
    <2> QED BY <2>1 DEF Begins, r
  <1>7. CASE \E chosen \in Selections : StartSync(chosen)
    <2>1. answer' = answer /\ mark'[r] \in {mark[r], "waiting"} BY <1>1, <1>7 DEF StartSync
    <2> QED BY <2>1 DEF Begins, r
  <1> QED BY <1>3, <1>4, <1>5, <1>6, <1>7
       DEF Next, vars, work, SyncOne, InitReturns, SyncOneReturns, WaitReturns, Benchmark,
           OpenDialog, DialogRefused, CloseClicked, DeleteWindow

(* Once the user has pressed Cancel, a dialog asks the network for nothing  *)
(* more but for the upload it was generating, however late the answers and  *)
(* whatever the dialogs started inside it or around it do.                  *)
THEOREM CancelSendsNothing == Spec => CancelStops
  <1>1. ASSUME IInv, [Next]_vars, NEW d \in pressed, NEW e \in Entry PROVE Begins(<<d, e>>)
    BY <1>1, PreparedBegins, RequestBegins, OthersBegin
  <1>2. IInv /\ [Next]_vars => [\A d \in pressed, e \in Entry : mark[<<d, e>>] # "current" =>
          /\ mark'[<<d, e>>] # "current"
          /\ answer'[<<d, e>>] = "sent" => answer[<<d, e>>] = "sent"]_vars
    BY <1>1 DEF Begins
  <1> QED BY <1>2, Invariant, PTL DEF Spec, CancelStops
-----------------------------------------------------------------------------
(* A call that keeps others from going on: above it there can be nothing    *)
(* but questions.                                                           *)
Busy(f) == f.at \in {"request", "prepare", "generate", "wait"}

(* What a waiting call relies on, while nobody is disturbed: the start-up's *)
(* calls on the loop of the start-up and on their actions; those of the     *)
(* dialog at work on its loop, which nobody else replaces or releases, and  *)
(* on the memory of the actions that are left.                              *)
Held(f) ==
  /\ ~OfDialog(f) =>
       /\ starting = TRUE /\ atStartup = TRUE /\ mem[f.rec] = "live"
       /\ f.at = "request" => f.on = 0 /\ idle = <<>>
  /\ OfDialog(f) /\ f.at # "choose" =>
       /\ starting = FALSE /\ loop = f.rec[1] /\ refs[loop] = 1
       /\ f.at # "generate" => f.on = loop
       /\ f.at # "wait" => \A e \in todo[loop] : mem[<<loop, e>>] = "live"
  /\ f.at = "request" => answer[f.rec] # "none"

Nested(s) == \A i, j \in 1 .. Len(s) : j < i /\ Busy(s[i]) => s[j].at = "choose"

Distinct(s) ==
  \A i, j \in 1 .. Len(s) : ~OfDialog(s[i]) /\ ~OfDialog(s[j]) /\ s[i].rec = s[j].rec => i = j

Shape(s) == s \in Seq(Frames) /\ Nested(s) /\ Distinct(s)

AllHeld == \A i \in 1 .. Len(stack) : Held(stack[i])

Has(s, at, rec) == \E i \in 1 .. Len(s) : s[i].at = at /\ s[i].rec = rec

Sent ==
  \A r \in Rec :
    /\ answer[r] # "aborted"
    /\ answer[r] = "sent" => Has(stack, "request", r) /\ running[loop] = TRUE

Closing == \A d \in Dialog : dialog[d] = "close" => Has(stack, "wait", <<d, 0>>)

Queued(i) ==
  /\ mem[<<0, idle[i]>>] = "live"
  /\ \A j \in 1 .. Len(idle) : idle[i] = idle[j] => i = j
  /\ \A j \in 1 .. Len(stack) : ~OfDialog(stack[j]) => stack[j].rec # <<0, idle[i]>>

Waiting ==
  /\ idle # <<>> => starting = TRUE /\ atStartup = TRUE
  /\ \A i \in 1 .. Len(idle) : Queued(i)

(* The start-up's loop has a reference for each action it has not released. *)
Live    == {e \in Entry : mem[<<0, e>>] = "live"}
Counted == atStartup = TRUE => refs[0] = 1 + Cardinality(Live)

Marked ==
  /\ \A e \in Entry : mark[<<0, e>>] = "none"
  /\ \A r \in Rec : mark[r] = "done" => answer[r] = "ok"

Memory == {"none", "live", "condemned", "freed"}
Shown  == {"none", "choose", "sync", "close", "closed"}
Stores ==
  /\ dialog \in [Dialog -> Shown]
  /\ running \in [Loop -> BOOLEAN] /\ refs \in [Loop -> Nat] /\ mem \in [Rec -> Memory]
  /\ starting \in BOOLEAN /\ stray = FALSE /\ (starting = TRUE => loop = 0)

Steady ==
  /\ Shape(stack) /\ AllHeld /\ Sent /\ Closing /\ Waiting /\ Counted /\ Marked /\ Stores
-----------------------------------------------------------------------------
LEMMA Alone ==
  ASSUME NEW s, Shape(s), NEW i \in 1 .. Len(s), NEW j \in 1 .. Len(s), Busy(s[i]), Busy(s[j])
  PROVE  i = j
  <1>1. i < j \/ j < i \/ i = j BY DEF Shape
  <1> QED BY <1>1 DEF Shape, Nested, Busy

LEMMA ShapePush ==
  ASSUME NEW s, NEW f \in Frames, Shape(s),
         f.at = "choose" \/ \A i \in 1 .. Len(s) : ~Busy(s[i]),
         ~OfDialog(f) => \A i \in 1 .. Len(s) : ~OfDialog(s[i]) => s[i].rec # f.rec
  PROVE  Shape(<<f>> \o s)
  <1> DEFINE t == <<f>> \o s
  <1>1. /\ t \in Seq(Frames) /\ t[1] = f
        /\ \A i \in 1 .. Len(t) : i = 1 \/ (i - 1 \in 1 .. Len(s) /\ t[i] = s[i - 1])
    BY Pushed DEF Shape
  <1> HIDE DEF t
  <1>2. ASSUME NEW i \in 1 .. Len(t), NEW j \in 1 .. Len(t), j < i, Busy(t[i])
        PROVE  t[j].at = "choose"
    <2>1. i - 1 \in 1 .. Len(s) /\ t[i] = s[i - 1] BY <1>1, <1>2
    <2>2. CASE j = 1 BY <1>1, <1>2, <2>1, <2>2
    <2>3. CASE j # 1
      <3>1. j - 1 \in 1 .. Len(s) /\ t[j] = s[j - 1] /\ j - 1 < i - 1 BY <1>1, <1>2, <2>3
      <3> QED BY <1>2, <2>1, <3>1 DEF Shape, Nested
    <2> QED BY <2>2, <2>3
  <1>3. ASSUME NEW i \in 1 .. Len(t), NEW j \in 1 .. Len(t), ~OfDialog(t[i]), ~OfDialog(t[j]),
               t[i].rec = t[j].rec
        PROVE  i = j
    <2>1. CASE i = 1 \/ j = 1 BY <1>1, <1>3, <2>1
    <2>2. CASE i # 1 /\ j # 1
      <3>1. /\ i - 1 \in 1 .. Len(s) /\ t[i] = s[i - 1]
            /\ j - 1 \in 1 .. Len(s) /\ t[j] = s[j - 1]
        BY <1>1, <2>2
      <3>2. i - 1 = j - 1 BY <1>3, <3>1 DEF Shape, Distinct
      <3> QED BY <3>2
    <2> QED BY <2>1, <2>2
  <1> QED BY <1>1, <1>2, <1>3 DEF Shape, Nested, Distinct, t

LEMMA ShapeTail ==
  ASSUME NEW s, Shape(s), s # <<>>
  PROVE  Shape(Tail(s)) /\ Tail(s) \in Seq(Frames)
  <1> DEFINE t == Tail(s)
  <1>1. /\ t \in Seq(Frames)
        /\ \A i \in 1 .. Len(t) : i + 1 \in 1 .. Len(s) /\ t[i] = s[i + 1]
    BY Popped DEF Shape
  <1> HIDE DEF t
  <1>2. ASSUME NEW i \in 1 .. Len(t), NEW j \in 1 .. Len(t), j < i, Busy(t[i])
        PROVE  t[j].at = "choose"
    <2>1. j + 1 < i + 1 BY <1>1, <1>2
    <2> QED BY <1>1, <1>2, <2>1 DEF Shape, Nested
  <1>3. ASSUME NEW i \in 1 .. Len(t), NEW j \in 1 .. Len(t), ~OfDialog(t[i]), ~OfDialog(t[j]),
               t[i].rec = t[j].rec
        PROVE  i = j
    <2>1. i + 1 = j + 1 BY <1>1, <1>3 DEF Shape, Distinct
    <2> QED BY <2>1
  <1> QED BY <1>1, <1>2, <1>3 DEF Shape, Nested, Distinct, t

LEMMA HasPush ==
  ASSUME NEW s \in Seq(Frames), NEW f \in Frames, NEW at, NEW rec
  PROVE  /\ Has(s, at, rec) => Has(<<f>> \o s, at, rec)
         /\ f.at = at /\ f.rec = rec => Has(<<f>> \o s, at, rec)
  <1> DEFINE t == <<f>> \o s
  <1>1. /\ t[1] = f /\ 1 \in 1 .. Len(t)
        /\ \A i \in 1 .. Len(s) : i + 1 \in 1 .. Len(t) /\ t[i + 1] = s[i]
    <2>1. Len(s) \in Nat /\ Len(t) = Len(s) + 1 BY Pushed
    <2>2. t[1] = f /\ \A i \in 1 .. Len(s) : i + 1 \in 1 .. Len(t) /\ t[i + 1] = s[i] BY Pushed
    <2> HIDE DEF t
    <2> QED BY <2>1, <2>2
  <1> HIDE DEF t
  <1> QED BY <1>1 DEF Has, t

LEMMA HasTail ==
  ASSUME NEW s \in Seq(Frames), s # <<>>, NEW at, NEW rec, Has(s, at, rec), s[1].at # at
  PROVE  Has(Tail(s), at, rec)
  <1>1. PICK i \in 1 .. Len(s) : s[i].at = at /\ s[i].rec = rec BY DEF Has
  <1>2. i - 1 \in 1 .. Len(Tail(s)) /\ Tail(s)[i - 1] = s[i] BY <1>1, Popped
  <1> QED BY <1>1, <1>2 DEF Has

(* Below a busy call there are only questions and pulses.                   *)
LEMMA NotBusy ==
  ASSUME NEW s, Shape(s), s # <<>>, s[1].at # "choose"
  PROVE  \A i \in 1 .. Len(Tail(s)) : ~Busy(Tail(s)[i])
  <1> SUFFICES ASSUME NEW i \in 1 .. Len(Tail(s)) PROVE ~Busy(Tail(s)[i]) OBVIOUS
  <1>1. /\ i + 1 \in 1 .. Len(s) /\ Tail(s)[i] = s[i + 1] /\ 1 \in 1 .. Len(s)
        /\ s \in Seq(Frames)
    BY Popped DEF Shape
  <1>2. 1 < i + 1 OBVIOUS
  <1> QED BY <1>1, <1>2 DEF Shape, Nested

LEMMA HeldSame ==
  ASSUME NEW f, Held(f), UNCHANGED <<starting, atStartup, mem, idle, loop, refs, todo, answer>>
  PROVE  Held(f)'
  BY DEF Held, OfDialog

LEMMA HeldChoose == ASSUME NEW f, f.at = "choose" PROVE Held(f) /\ Held(f)'
  BY DEF Held, OfDialog

LEMMA HeldPush ==
  ASSUME NEW s \in Seq(Frames), NEW f \in Frames, stack' = <<f>> \o s, Held(f)',
         \A i \in 1 .. Len(s) : Held(s[i])'
  PROVE  AllHeld'
  <1>1. /\ stack'[1] = f
        /\ \A i \in 1 .. Len(stack') : i = 1 \/ (i - 1 \in 1 .. Len(s) /\ stack'[i] = s[i - 1])
    BY Pushed
  <1> SUFFICES ASSUME NEW i \in 1 .. Len(stack') PROVE Held(stack[i])' BY DEF AllHeld
  <1>2. PICK g : g = stack'[i] OBVIOUS
  <1>3. g = f \/ \E k \in 1 .. Len(s) : g = s[k] BY <1>1, <1>2
  <1>4. Held(g)' BY <1>3
  <1> QED BY <1>2, <1>4 DEF Held, OfDialog

LEMMA HeldPop ==
  ASSUME NEW s, stack' = s, \A i \in 1 .. Len(s) : Held(s[i])'
  PROVE  AllHeld'
  BY DEF AllHeld, Held, OfDialog
-----------------------------------------------------------------------------
LEMMA Counting ==
  ASSUME Steady, atStartup = TRUE
  PROVE  refs[0] \in Nat /\ refs[0] > 0 /\ IsFiniteSet(Live) /\ Cardinality(Live) \in Nat
  <1>1. IsFiniteSet(Entry) BY Sizes, FS_Interval DEF Entry
  <1>2. Live \subseteq Entry BY DEF Live
  <1>3. IsFiniteSet(Live) BY <1>1, <1>2, FS_Subset
  <1>4. Cardinality(Live) \in Nat BY <1>3, FS_CardinalityType
  <1> HIDE DEF Live
  <1> QED BY <1>3, <1>4 DEF Steady, Counted

LEMMA NotStray ==
  ASSUME stray = FALSE, refs[loop] > 0, stray' = (stray \/ refs[loop] = 0)
  PROVE  stray' = FALSE
  <1>1. refs[loop] # 0 OBVIOUS
  <1> QED BY <1>1, Zenon

(* An action of the start-up is released, and its reference with it.        *)
LEMMA Release ==
  ASSUME Steady, atStartup = TRUE, starting = TRUE, NEW e \in Entry, mem[<<0, e>>] = "live",
         mem' = [mem EXCEPT ![<<0, e>>] = "condemned"], Unref(loop),
         stray' = (stray \/ refs[loop] = 0)
  PROVE  /\ Counted' /\ stray' = FALSE /\ refs' \in [Loop -> Nat] /\ mem' \in [Rec -> Memory]
         /\ \A r \in Rec : r # <<0, e>> => mem'[r] = mem[r]
  <1>1. /\ loop = 0 /\ stray = FALSE /\ refs \in [Loop -> Nat] /\ mem \in [Rec -> Memory]
        /\ 0 \in Loop /\ <<0, e>> \in Rec /\ \A c \in Entry : <<0, c>> \in Rec
    BY Sizes DEF Steady, Stores
  <1>2. refs[0] \in Nat /\ refs[0] > 0 /\ IsFiniteSet(Live) /\ Cardinality(Live) \in Nat
    BY Counting
  <1>3. refs' \in [Loop -> Nat] /\ refs'[0] = refs[0] - 1 BY <1>1, <1>2 DEF Unref
  <1>4. /\ mem' \in [Rec -> Memory] /\ mem'[<<0, e>>] = "condemned"
        /\ \A r \in Rec : r # <<0, e>> => mem'[r] = mem[r]
    BY <1>1 DEF Memory
  <1>5. Live' = Live \ {e} /\ e \in Live BY <1>1, <1>4 DEF Live
  <1>6. Cardinality(Live \ {e}) = Cardinality(Live) - 1 BY <1>2, <1>5, FS_RemoveElement
  <1>7. refs[0] = 1 + Cardinality(Live) BY DEF Steady, Counted
  <1>8. Counted'
    <2>1. refs'[0] = 1 + Cardinality(Live') BY <1>2, <1>3, <1>5, <1>6, <1>7
    <2> QED BY <2>1 DEF Counted
  <1>9. stray' = FALSE BY <1>1, <1>2, NotStray
  <1> QED BY <1>3, <1>4, <1>8, <1>9

LEMMA LoopHeld ==
  ASSUME IInv, Steady, NEW r \in Rec, answer[r] = "sent"
  PROVE  refs[loop] > 0
  <1>1. PICK i \in 1 .. Len(stack) : stack[i].at = "request" /\ stack[i].rec = r
    BY DEF Steady, Sent, Has
  <1>2. Held(stack[i]) BY <1>1 DEF Steady, AllHeld
  <1>3. CASE OfDialog(stack[i]) BY <1>1, <1>2, <1>3 DEF Held
  <1>4. CASE ~OfDialog(stack[i])
    <2>1. starting = TRUE /\ atStartup = TRUE BY <1>2, <1>4 DEF Held
    <2>2. loop = 0 BY <2>1 DEF Steady, Stores
    <2> QED BY <2>1, <2>2, Counting
  <1> QED BY <1>3, <1>4

(* Nobody else's request is under way when a call is about to go on.        *)
LEMMA NoneSent ==
  ASSUME IInv, Steady, stack # <<>>, stack[1].at # "choose",
         stack[1].at = "request" => running[stack[1].on] # TRUE
  PROVE  \A r \in Rec : answer[r] # "sent"
  <1> SUFFICES ASSUME NEW r \in Rec, answer[r] = "sent" PROVE FALSE OBVIOUS
  <1>1. PICK i \in 1 .. Len(stack) : stack[i].at = "request" /\ stack[i].rec = r
    BY DEF Steady, Sent, Has
  <1>2. running[loop] = TRUE BY DEF Steady, Sent
  <1>3. 1 \in 1 .. Len(stack) BY Popped DEF Steady, Shape
  <1>4. i = 1
    <2> SUFFICES ASSUME i # 1 PROVE FALSE OBVIOUS
    <2>1. 1 < i BY <1>1
    <2> QED BY <1>1, <1>3, <2>1 DEF Steady, Shape, Nested, Busy
  <1>5. Held(stack[1]) BY <1>3 DEF Steady, AllHeld
  <1>6. stack[1].on = loop
    <2>1. CASE OfDialog(stack[1]) BY <1>1, <1>4, <1>5, <2>1 DEF Held
    <2>2. CASE ~OfDialog(stack[1])
      <3>1. starting = TRUE /\ stack[1].on = 0 BY <1>1, <1>4, <1>5, <2>2 DEF Held
      <3> QED BY <3>1 DEF Steady, Stores
    <2> QED BY <2>1, <2>2
  <1> QED BY <1>1, <1>2, <1>4, <1>6

(* While a dialog is at work, nothing of the start-up is left, and the      *)
(* calls below it are questions.                                            *)
LEMMA AtWork ==
  ASSUME IInv, Steady, stack # <<>>, OfDialog(stack[1]), stack[1].at # "choose",
         NEW d, d = stack[1].rec[1]
  PROVE  /\ starting = FALSE /\ idle = <<>> /\ loop = d /\ d \in Dialog /\ d > 0 /\ refs[d] = 1
         /\ stack[1].at # "generate" => stack[1].on = d
         /\ stack[1].at # "wait" => \A e \in todo[d] : mem[<<d, e>>] = "live"
         /\ \A i \in 1 .. Len(Tail(stack)) : Tail(stack)[i].at = "choose"
  <1>1. 1 \in 1 .. Len(stack) /\ stack[1] \in Frames BY Popped DEF Steady, Shape
  <1>2. Held(stack[1]) BY <1>1 DEF Steady, AllHeld
  <1>3. /\ starting = FALSE /\ loop = d /\ refs[d] = 1
        /\ stack[1].at # "generate" => stack[1].on = d
        /\ stack[1].at # "wait" => \A e \in todo[d] : mem[<<d, e>>] = "live"
    BY <1>2 DEF Held
  <1>4. d \in 1 .. dlg BY <1>1 DEF IInv, Calls
  <1>5. d \in Dialog /\ d > 0 BY <1>4, Opened, Sizes DEF IInv
  <1>6. idle = <<>> BY <1>3 DEF Steady, Waiting
  <1>7. ASSUME NEW i \in 1 .. Len(Tail(stack)) PROVE Tail(stack)[i].at = "choose"
    <2>1. i + 1 \in 1 .. Len(stack) /\ Tail(stack)[i] = stack[i + 1] BY Popped DEF Steady, Shape
    <2>2. Held(stack[i + 1]) /\ stack[i + 1] \in Frames BY <2>1 DEF Steady, AllHeld, Shape
    <2>3. OfDialog(stack[i + 1]) BY <1>3, <2>2 DEF Held
    <2>4. ~Busy(stack[i + 1]) BY <2>1, NotBusy DEF Steady
    <2> QED BY <2>1, <2>3, <2>4 DEF OfDialog, Busy
  <1> QED BY <1>3, <1>5, <1>6, <1>7

LEMMA Runs ==
  ASSUME Stores, NEW l \in Loop, refs[l] > 0, RunLoop(l)
  PROVE  running' \in [Loop -> BOOLEAN] /\ running'[l] = TRUE
  <1>1. running' = [running EXCEPT ![l] = TRUE] BY DEF RunLoop
  <1> QED BY <1>1, Zenon DEF Stores

LEMMA Quits ==
  ASSUME Stores, NEW l \in Loop, QuitLoop(l)
  PROVE  running' \in [Loop -> BOOLEAN]
  <1>1. PICK b \in BOOLEAN : running' = [running EXCEPT ![l] = b] BY DEF QuitLoop
  <1> QED BY <1>1, Zenon DEF Stores
-----------------------------------------------------------------------------
LEMMA SteadyInit == ASSUME Init PROVE Steady
  <1>1. Shape(stack) /\ AllHeld BY DEF Init, Shape, Nested, Distinct, AllHeld
  <1>2. Sent /\ Closing /\ Marked BY Sizes DEF Init, Sent, Closing, Marked
  <1>3. Waiting
    <2>1. \A i \in 1 .. Len(idle) : idle[i] \in Entry /\ idle[i] = i /\ atStartup = TRUE
      <3>1. CASE atStartup = TRUE
        <4>1. idle = [i \in 1 .. NEntries |-> i] BY <3>1 DEF Init, Entry
        <4> QED BY <3>1, <4>1, Sizes DEF Entry
      <3>2. CASE atStartup # TRUE BY <3>2 DEF Init
      <3> QED BY <3>1, <3>2
    <2>2. stack = <<>> /\ mem = [r \in Rec |-> IF r[1] = 0 /\ atStartup THEN "live" ELSE "none"]
      BY DEF Init
    <2>3. ASSUME NEW i \in 1 .. Len(idle) PROVE Queued(i)
      <3>1. mem[<<0, idle[i]>>] = "live" BY <2>1, <2>2, Sizes
      <3> QED BY <2>1, <2>2, <3>1 DEF Queued
    <2>4. idle # <<>> => starting = TRUE /\ atStartup = TRUE BY SyncAssumption DEF Init
    <2> QED BY <2>3, <2>4 DEF Waiting
  <1>4. Counted
    <2> SUFFICES ASSUME atStartup = TRUE PROVE refs[0] = 1 + Cardinality(Live) BY DEF Counted
    <2>1. Live = 1 .. NEntries BY Sizes DEF Init, Live, Entry
    <2>2. Cardinality(1 .. NEntries) = NEntries BY Sizes, FS_Interval
    <2>3. refs[0] = 1 + NEntries BY Sizes DEF Init, StartRefs
    <2> QED BY <2>1, <2>2, <2>3
  <1>5. Stores
    <2>1. refs \in [Loop -> Nat] BY Sizes DEF Init, StartRefs
    <2>2. mem \in [Rec -> Memory] BY DEF Init, Memory
    <2>3. running \in [Loop -> BOOLEAN] /\ starting \in BOOLEAN BY Zenon DEF Init
    <2>4. stray = FALSE /\ loop = 0 BY Zenon DEF Init
    <2>5. dialog \in [Dialog -> Shown] BY DEF Init, Shown
    <2> QED BY <2>1, <2>2, <2>3, <2>4, <2>5 DEF Stores
  <1> QED BY <1>1, <1>2, <1>3, <1>4, <1>5 DEF Steady

(* What the user does without effect on the calls.                          *)
LEMMA SteadySame ==
  ASSUME Steady, UNCHANGED <<idle, stack, loop, running, refs, answer, mem, mark, todo, dialog,
                             starting, atStartup, stray>>
  PROVE  Steady'
  <1>1. Shape(stack)' BY DEF Steady, Shape, Nested, Distinct, OfDialog, Busy
  <1>2. AllHeld' BY DEF Steady, AllHeld, Held, OfDialog
  <1>3. Waiting' BY DEF Steady, Waiting, Queued, OfDialog
  <1>4. Sent' /\ Closing' BY DEF Steady, Sent, Has, Closing
  <1>5. Counted' /\ Marked' BY DEF Steady, Counted, Live, Marked
  <1>6. Stores' BY DEF Steady, Stores
  <1> QED BY <1>1, <1>2, <1>3, <1>4, <1>5, <1>6 DEF Steady

LEMMA InitReturnsSteady == ASSUME Steady, InitReturns PROVE Steady'
  <1>1. /\ stack = <<>> /\ idle = <<>> /\ starting' = FALSE
        /\ UNCHANGED <<idle, stack, loop, running, refs, answer, mem, mark, todo, dialog,
                       atStartup, stray>>
    BY DEF InitReturns, loops, work, ui
  <1>2. Shape(stack)' /\ AllHeld' /\ Waiting'
    BY <1>1 DEF Steady, Shape, Nested, Distinct, OfDialog, Busy, AllHeld, Waiting
  <1>3. Sent' /\ Closing' BY <1>1 DEF Steady, Sent, Has, Closing
  <1>4. Counted' /\ Marked' BY <1>1 DEF Steady, Counted, Live, Marked
  <1>5. Stores' BY <1>1 DEF Steady, Stores
  <1> QED BY <1>2, <1>3, <1>4, <1>5 DEF Steady

LEMMA OpenSteady == ASSUME IInv, Steady, OpenDialog PROVE Steady'
  <1>1. PICK d : d = dlg + 1 OBVIOUS
  <1>2. PICK f : f = Frame("choose", <<d, 0>>, 0) OBVIOUS
  <1>3. PICK s : s = stack OBVIOUS
  <1>4. /\ stack' = <<f>> \o s /\ dialog' = [dialog EXCEPT ![d] = "choose"] /\ Syncs < MaxSyncs
        /\ UNCHANGED <<idle, loop, running, refs, answer, mem, mark, todo, starting, atStartup, stray>>
    BY <1>1, <1>2, <1>3 DEF OpenDialog, loops, work, shell
  <1>5. d \in Dialog /\ d \in Loop BY <1>1, <1>4, Sizes DEF IInv, Types, Dialog, Syncs
  <1>6. f \in Frames /\ f.at = "choose" /\ OfDialog(f)
    BY <1>2, <1>5, Sizes DEF Frame, Frames, OfDialog
  <1>7. Shape(s) /\ s \in Seq(Frames) BY <1>3 DEF Steady, Shape
  <1>8. Shape(stack)'
    <2>1. Shape(<<f>> \o s) BY <1>6, <1>7, ShapePush
    <2> QED BY <1>4, <2>1 DEF Shape, Nested, Distinct, OfDialog, Busy
  <1>9. AllHeld'
    <2>1. ASSUME NEW i \in 1 .. Len(s) PROVE Held(s[i])'
      <3>1. PICK g : g = s[i] OBVIOUS
      <3>2. Held(g) BY <1>3, <3>1 DEF Steady, AllHeld
      <3>3. Held(g)' BY <1>4, <3>2, HeldSame
      <3> QED BY <3>1, <3>3
    <2>2. Held(f)' BY <1>6, HeldChoose
    <2> QED BY <1>4, <1>6, <1>7, <2>1, <2>2, HeldPush
  <1>10. Sent' BY <1>3, <1>4, <1>6, <1>7, HasPush DEF Steady, Sent
  <1>11. Closing'
    <2> SUFFICES ASSUME NEW l \in Dialog, dialog'[l] = "close" PROVE Has(stack', "wait", <<l, 0>>)
      BY DEF Closing, Has
    <2>1. dialog[l] = "close" BY <1>4 DEF Steady, Stores
    <2>2. Has(s, "wait", <<l, 0>>) BY <1>3, <2>1 DEF Steady, Closing
    <2> QED BY <1>4, <1>6, <1>7, <2>2, HasPush
  <1>12. Waiting'
    <2>1. ASSUME NEW i \in 1 .. Len(idle) PROVE Queued(i)'
      <3>1. ASSUME NEW j \in 1 .. Len(stack'), ~OfDialog(stack'[j]) PROVE stack'[j].rec # <<0, idle[i]>>
        <4>1. stack'[j] = f \/ \E k \in 1 .. Len(s) : stack'[j] = s[k]
          BY <1>4, <1>6, <1>7, Pushed
        <4> QED BY <1>3, <1>6, <3>1, <4>1 DEF Steady, Waiting, Queued
      <3>2. Queued(i) BY DEF Steady, Waiting
      <3> QED BY <1>4, <3>1, <3>2 DEF Queued, OfDialog
    <2> QED BY <1>4, <2>1 DEF Steady, Waiting
  <1>13. Counted' /\ Marked' BY <1>4 DEF Steady, Counted, Live, Marked
  <1>14. dialog' \in [Dialog -> Shown] BY <1>4 DEF Steady, Stores, Shown
  <1>15. Stores' BY <1>4, <1>14 DEF Steady, Stores
  <1> QED BY <1>8, <1>9, <1>10, <1>11, <1>12, <1>13, <1>15 DEF Steady

LEMMA RefusedSteady == ASSUME IInv, Steady, DialogRefused PROVE Steady'
  <1>1. PICK s : s = Tail(stack) OBVIOUS
  <1>2. /\ stack # <<>> /\ stack[1].at = "choose" /\ stack' = s
        /\ dialog' = [dialog EXCEPT ![stack[1].rec[1]] = "none"]
        /\ UNCHANGED <<idle, loop, running, refs, answer, mem, mark, todo, starting, atStartup, stray>>
    BY <1>1 DEF DialogRefused, loops, work, shell, Top
  <1>3. Shape(stack) /\ stack \in Seq(Frames) BY DEF Steady, Shape
  <1>4. \A i \in 1 .. Len(s) : i + 1 \in 1 .. Len(stack) /\ s[i] = stack[i + 1]
    BY <1>1, <1>2, <1>3, Popped
  <1>5. Shape(stack)'
    <2>1. Shape(s) BY <1>1, <1>2, <1>3, ShapeTail
    <2> QED BY <1>2, <2>1 DEF Shape, Nested, Distinct, OfDialog, Busy
  <1>6. AllHeld'
    <2>1. ASSUME NEW i \in 1 .. Len(s) PROVE Held(s[i])'
      <3>1. PICK g : g = s[i] OBVIOUS
      <3>2. Held(g) BY <1>4, <3>1 DEF Steady, AllHeld
      <3>3. Held(g)' BY <1>2, <3>2, HeldSame
      <3> QED BY <3>1, <3>3
    <2> QED BY <1>2, <2>1, HeldPop
  <1>7. Sent' BY <1>1, <1>2, <1>3, HasTail DEF Steady, Sent
  <1>8. Closing'
    <2> SUFFICES ASSUME NEW l \in Dialog, dialog'[l] = "close" PROVE Has(stack', "wait", <<l, 0>>)
      BY DEF Closing, Has
    <2>1. dialog[l] = "close" BY <1>2 DEF Steady, Stores
    <2>2. Has(stack, "wait", <<l, 0>>) BY <2>1 DEF Steady, Closing
    <2> QED BY <1>1, <1>2, <1>3, <2>2, HasTail
  <1>9. Waiting'
    <2>1. ASSUME NEW i \in 1 .. Len(idle) PROVE Queued(i)'
      <3>1. Queued(i) BY DEF Steady, Waiting
      <3> QED BY <1>2, <1>4, <3>1 DEF Queued, OfDialog
    <2> QED BY <1>2, <2>1 DEF Steady, Waiting
  <1>10. Counted' /\ Marked' BY <1>2 DEF Steady, Counted, Live, Marked
  <1>11. dialog' \in [Dialog -> Shown] BY <1>2 DEF Steady, Stores, Shown
  <1>12. Stores' BY <1>2, <1>11 DEF Steady, Stores
  <1> QED BY <1>5, <1>6, <1>7, <1>8, <1>9, <1>10, <1>12 DEF Steady

(* Close is offered while its dialog waits on the loop, and nobody else.    *)
LEMMA ClickSteady == ASSUME IInv, Steady, NEW d \in Dialog, CloseClicked(d) PROVE Steady'
  <1>1. /\ dialog[d] = "close" /\ dialog' = [dialog EXCEPT ![d] = "closed"] /\ QuitLoop(loop)
        /\ stray' = (stray \/ refs[loop] = 0)
        /\ UNCHANGED <<idle, stack, loop, refs, answer, mem, mark, todo, starting, atStartup>>
    BY DEF CloseClicked, work, shell
  <1>2. PICK i \in 1 .. Len(stack) : stack[i].at = "wait" /\ stack[i].rec = <<d, 0>>
    BY <1>1 DEF Steady, Closing, Has
  <1>3. Held(stack[i]) /\ OfDialog(stack[i]) BY <1>2 DEF Steady, AllHeld, OfDialog
  <1>4. refs[loop] = 1 BY <1>2, <1>3 DEF Held
  <1>5. \A r \in Rec : answer[r] # "sent"
    <2> SUFFICES ASSUME NEW r \in Rec, answer[r] = "sent" PROVE FALSE OBVIOUS
    <2>1. PICK j \in 1 .. Len(stack) : stack[j].at = "request" BY DEF Steady, Sent, Has
    <2>2. i = j BY <1>2, <2>1, Alone DEF Steady, Busy
    <2> QED BY <1>2, <2>1, <2>2
  <1>6. Stores'
    <2>1. loop \in Loop /\ stray = FALSE BY DEF IInv, Types, Steady, Stores
    <2>2. running' \in [Loop -> BOOLEAN] BY <1>1, <2>1, Quits DEF Steady
    <2>3. refs[loop] > 0 BY <1>4
    <2>4. stray' = FALSE BY <1>1, <2>1, <2>3, NotStray
    <2>5. dialog' \in [Dialog -> Shown] BY <1>1 DEF Steady, Stores, Shown
    <2> QED BY <1>1, <2>2, <2>4, <2>5 DEF Steady, Stores
  <1>7. Sent' BY <1>1, <1>5 DEF Steady, Sent
  <1>8. Closing'
    <2>1. \A l \in Dialog : dialog'[l] = "close" => dialog[l] = "close"
      BY <1>1 DEF Steady, Stores
    <2> QED BY <1>1, <2>1 DEF Steady, Closing, Has
  <1>9. Shape(stack)' /\ Counted' /\ Marked'
    BY <1>1 DEF Steady, Shape, Nested, Distinct, OfDialog, Busy, Counted, Live, Marked
  <1>10. AllHeld' /\ Waiting'
    BY <1>1 DEF Steady, AllHeld, Held, OfDialog, Waiting, Queued
  <1> QED BY <1>6, <1>7, <1>8, <1>9, <1>10 DEF Steady

(* The only request under way is that of the call on the loop.              *)
LEMMA AnswerSteady == ASSUME IInv, Steady, NEW r \in Rec, GotResponse(r) PROVE Steady'
  <1>1. answer[r] = "sent" BY DEF GotResponse, Steady, Sent
  <1>2. PICK a \in {"ok", "error"} : answer' = [answer EXCEPT ![r] = a]
    BY SyncAssumption, <1>1 DEF GotResponse
  <1>3. /\ QuitLoop(loop) /\ stray' = (stray \/ mem[r] = "freed" \/ refs[loop] = 0)
        /\ UNCHANGED <<idle, stack, loop, refs, mem, mark, todo, dialog, starting, atStartup>>
    BY DEF GotResponse, ui, shell
  <1>4. PICK i \in 1 .. Len(stack) : stack[i].at = "request" /\ stack[i].rec = r
    BY <1>1 DEF Steady, Sent, Has
  <1>5. answer \in [Rec -> States] BY DEF IInv, Types
  <1>6. mem[r] = "live"
    <2>1. Held(stack[i]) /\ Stage(stack[i]) BY DEF Steady, AllHeld, IInv, Calls
    <2>2. CASE ~OfDialog(stack[i]) BY <1>4, <2>1, <2>2 DEF Held
    <2>3. CASE OfDialog(stack[i])
      <3>1. loop = stack[i].rec[1] /\ \A e \in todo[loop] : mem[<<loop, e>>] = "live"
        BY <1>4, <2>1, <2>3 DEF Held
      <3>2. stack[i].rec = <<loop, stack[i].rec[2]>> /\ stack[i].rec[2] \in todo[loop]
        BY <1>4, <2>1, <2>3, <3>1 DEF Stage
      <3> QED BY <1>4, <3>1, <3>2
    <2> QED BY <2>2, <2>3
  <1>7. Stores'
    <2>1. loop \in Loop /\ stray = FALSE BY DEF IInv, Types, Steady, Stores
    <2>2. running' \in [Loop -> BOOLEAN] BY <1>3, <2>1, Quits DEF Steady
    <2>3. refs[loop] > 0 BY <1>1, LoopHeld
    <2>4. (mem[r] = "freed") = FALSE BY <1>6
    <2>5. stray' = (stray \/ refs[loop] = 0) BY <1>3, <2>4, Zenon
    <2>6. stray' = FALSE BY <2>1, <2>3, <2>5, NotStray
    <2> QED BY <1>3, <2>2, <2>6 DEF Steady, Stores
  <1>8. Sent'
    <2> SUFFICES ASSUME NEW x \in Rec PROVE answer'[x] # "aborted" /\ answer'[x] # "sent"
      BY DEF Sent
    <2>1. CASE x = r BY <1>2, <1>5, <2>1
    <2>2. CASE x # r
      <3>1. answer'[x] = answer[x] BY <1>2, <1>5, <2>2
      <3>2. SUFFICES ASSUME answer[x] = "sent" PROVE FALSE BY <3>1 DEF Steady, Sent
      <3>3. PICK j \in 1 .. Len(stack) : stack[j].at = "request" /\ stack[j].rec = x
        BY <3>2 DEF Steady, Sent, Has
      <3>4. i = j BY <1>4, <3>3, Alone DEF Steady, Busy
      <3> QED BY <1>4, <2>2, <3>3, <3>4
    <2> QED BY <2>1, <2>2
  <1>9. Marked'
    <2> SUFFICES ASSUME NEW x \in Rec, mark'[x] = "done" PROVE answer'[x] = "ok"
      BY <1>3 DEF Steady, Marked
    <2>1. answer[x] = "ok" BY <1>3 DEF Steady, Marked
    <2> QED BY <1>1, <1>2, <1>5, <2>1
  <1>10. AllHeld'
    <2> SUFFICES ASSUME NEW k \in 1 .. Len(stack) PROVE Held(stack[k])'
      BY <1>3 DEF AllHeld, Held, OfDialog
    <2>1. Held(stack[k]) BY DEF Steady, AllHeld
    <2>2. stack[k].at = "request" => answer'[stack[k].rec] # "none"
      BY <1>2, <1>5, <2>1 DEF Held
    <2> QED BY <1>3, <2>1, <2>2 DEF Held, OfDialog
  <1>11. Shape(stack)' /\ Closing' /\ Counted' /\ Waiting'
    BY <1>3 DEF Steady, Shape, Nested, Distinct, OfDialog, Busy, Closing, Has, Counted, Live,
                Waiting, Queued
  <1> QED BY <1>7, <1>8, <1>9, <1>10, <1>11 DEF Steady
-----------------------------------------------------------------------------
(* The innermost call becomes another one; the pulses below it go on        *)
(* waiting for theirs.                                                      *)
LEMMA Replaced ==
  ASSUME IInv, Steady, stack # <<>>, stack[1].at # "choose" \/ Tail(stack) = <<>>,
         NEW f \in Frames, stack' = <<f>> \o Tail(stack), Held(f)',
         UNCHANGED <<idle, starting, atStartup>>, refs'[0] = refs[0],
         \A e \in Entry : mem'[<<0, e>>] = mem[<<0, e>>],
         ~OfDialog(f) => stack[1].at = "pulse" /\ stack[1].rec = f.rec /\ idle = <<>>
  PROVE  Shape(stack)' /\ AllHeld' /\ Waiting' /\ Counted'
  <1>1. PICK s : s = Tail(stack) OBVIOUS
  <1>2. /\ Shape(stack) /\ stack \in Seq(Frames) /\ 1 \in 1 .. Len(stack)
        /\ s \in Seq(Frames) /\ Shape(s)
        /\ \A i \in 1 .. Len(s) : i + 1 \in 1 .. Len(stack) /\ s[i] = stack[i + 1]
    BY <1>1, Popped, ShapeTail DEF Steady, Shape
  <1>3. \A i \in 1 .. Len(s) : ~Busy(s[i])
    <2>1. CASE stack[1].at # "choose" BY <1>1, <1>2, <2>1, NotBusy
    <2>2. CASE Tail(stack) = <<>> BY <1>1, <2>2
    <2> QED BY <2>1, <2>2
  <1>4. Shape(stack)'
    <2>1. ASSUME ~OfDialog(f), NEW i \in 1 .. Len(s), ~OfDialog(s[i]) PROVE s[i].rec # f.rec
      <3>1. /\ i + 1 \in 1 .. Len(stack) /\ s[i] = stack[i + 1] /\ i + 1 # 1
            /\ ~OfDialog(stack[1])
        BY <1>2, <2>1 DEF OfDialog
      <3> QED BY <1>2, <2>1, <3>1 DEF Shape, Distinct
    <2>2. Shape(<<f>> \o s) BY <1>2, <1>3, <2>1, ShapePush
    <2> QED BY <1>1, <2>2 DEF Shape, Nested, Distinct, OfDialog, Busy
  <1>5. ASSUME NEW i \in 1 .. Len(s) PROVE Held(s[i])'
    <2>1. PICK g : g = s[i] OBVIOUS
    <2>2. g \in Frames /\ Held(g) /\ Stage(g) /\ ~Busy(g)
      BY <1>2, <1>3, <2>1 DEF Steady, AllHeld, IInv, Calls, Shape
    <2>3. CASE g.at = "choose" BY <2>1, <2>3, HeldChoose
    <2>4. CASE g.at # "choose"
      <3>1. g.at = "pulse" /\ ~OfDialog(g) BY <2>2, <2>4 DEF Busy, Frames, OfDialog
      <3>2. g.rec \in Rec /\ g.rec[1] = 0 BY <2>2, <3>1 DEF Stage
      <3>3. \E e \in Entry : g.rec = <<0, e>> BY <3>2 DEF Rec
      <3>4. mem'[g.rec] = mem[g.rec] BY <3>3
      <3>5. starting' = TRUE /\ atStartup' = TRUE /\ mem'[g.rec] = "live"
        BY <2>2, <3>1, <3>4 DEF Held
      <3> QED BY <2>1, <3>1, <3>5 DEF Held, OfDialog
    <2> QED BY <2>3, <2>4
  <1>6. AllHeld' BY <1>1, <1>2, <1>5, HeldPush
  <1>7. Waiting'
    <2>1. ASSUME NEW i \in 1 .. Len(idle) PROVE Queued(i)'
      <3>0. Queued(i) /\ idle[i] \in Entry BY DEF Steady, Waiting, IInv, Types
      <3>1. ASSUME NEW j \in 1 .. Len(stack'), ~OfDialog(stack'[j]) PROVE stack'[j].rec # <<0, idle[i]>>
        <4>0. stack' = <<f>> \o s BY <1>1
        <4>1. stack'[j] = f \/ \E k \in 1 .. Len(s) : stack'[j] = s[k] BY <1>2, <4>0, Pushed
        <4> QED BY <1>2, <3>0, <3>1, <4>1 DEF Queued
      <3> QED BY <3>0, <3>1 DEF Queued, OfDialog
    <2> QED BY <2>1 DEF Steady, Waiting
  <1>8. Live' = Live BY DEF Live
  <1>9. Counted' BY <1>8 DEF Steady, Counted
  <1> QED BY <1>4, <1>6, <1>7, <1>9

LEMMA StillClosing ==
  ASSUME Steady, stack # <<>>, stack[1].at # "wait", NEW f \in Frames,
         stack' = <<f>> \o Tail(stack), \A d \in Dialog : dialog'[d] = "close" => dialog[d] = "close"
  PROVE  Closing'
  <1>1. stack \in Seq(Frames) /\ Tail(stack) \in Seq(Frames) BY Popped DEF Steady, Shape
  <1> SUFFICES ASSUME NEW d \in Dialog, dialog'[d] = "close" PROVE Has(stack', "wait", <<d, 0>>)
    BY DEF Closing, Has
  <1>2. Has(stack, "wait", <<d, 0>>) BY DEF Steady, Closing
  <1>3. Has(Tail(stack), "wait", <<d, 0>>) BY <1>1, <1>2, HasTail
  <1> QED BY <1>1, <1>3, HasPush

LEMMA SendSteady ==
  ASSUME IInv, Steady, stack # <<>>, stack[1].at \in {"pulse", "generate", "prepare", "request"},
         NEW x \in Rec, Send(x), refs[loop] > 0, \A r \in Rec : answer[r] # "sent",
         UNCHANGED <<idle, mem, dialog, starting, atStartup>>, Marked',
         x[1] = 0 => /\ starting = TRUE /\ atStartup = TRUE /\ mem[x] = "live" /\ idle = <<>>
                     /\ stack[1].at = "pulse" /\ stack[1].rec = x,
         x[1] # 0 => /\ starting = FALSE /\ loop = x[1] /\ refs[loop] = 1
                     /\ \A e \in todo'[loop] : mem[<<loop, e>>] = "live"
  PROVE  Steady'
  <1>1. PICK f : f = Frame("request", x, loop) OBVIOUS
  <1>2. /\ answer' = [answer EXCEPT ![x] = "sent"] /\ stack' = <<f>> \o Tail(stack)
        /\ RunLoop(loop) /\ stray' = (stray \/ refs[loop] = 0) /\ loop' = loop /\ refs' = refs
    BY <1>1 DEF Send
  <1>3. /\ loop \in Loop /\ x[1] \in Loop /\ answer \in [Rec -> States] /\ stray = FALSE
        /\ x \in Loop \X (0 .. NEntries)
    BY Sizes DEF IInv, Types, Steady, Stores, Rec
  <1>4. /\ f \in Frames /\ f.at = "request" /\ f.rec = x /\ f.on = loop
        /\ OfDialog(f) <=> x[1] # 0
    <2>1. f \in Frames /\ f.at = "request" /\ f.rec = x /\ f.on = loop
      BY <1>1, <1>3 DEF Frame, Frames
    <2>2. \A l \in Loop : l > 0 <=> l # 0 BY SyncAssumption DEF Loop, Dialog
    <2>3. x[1] > 0 <=> x[1] # 0 BY <1>3, <2>2
    <2> QED BY <2>1, <2>3 DEF OfDialog
  <1>5. answer'[x] = "sent" /\ \A r \in Rec : r # x => answer'[r] = answer[r] BY <1>2, <1>3
  <1>6. Held(f)'
    <2>1. CASE x[1] = 0
      <3>1. loop = 0 BY <2>1 DEF Steady, Stores
      <3> QED BY <1>4, <1>5, <2>1, <3>1 DEF Held, OfDialog
    <2>2. CASE x[1] # 0 BY <1>2, <1>4, <1>5, <2>2 DEF Held, OfDialog
    <2> QED BY <2>1, <2>2
  <1>7. Shape(stack)' /\ AllHeld' /\ Waiting' /\ Counted' BY <1>2, <1>4, <1>6, Replaced
  <1>8. Closing' BY <1>2, <1>4, StillClosing
  <1>9. Stores'
    <2>1. running' \in [Loop -> BOOLEAN] BY <1>2, <1>3, Runs DEF Steady
    <2>2. stray' = FALSE BY <1>2, <1>3, NotStray
    <2> QED BY <1>2, <2>1, <2>2 DEF Steady, Stores
  <1>10. Sent'
    <2>1. running'[loop'] = TRUE BY <1>2, <1>3, Runs DEF Steady
    <2>2. Tail(stack) \in Seq(Frames) BY Popped DEF Steady, Shape
    <2>3. Has(stack', "request", x) BY <1>2, <1>4, <2>2, HasPush
    <2> SUFFICES ASSUME NEW r \in Rec
                 PROVE  /\ answer'[r] # "aborted"
                        /\ answer'[r] = "sent" => Has(stack', "request", r) /\ running'[loop'] = TRUE
      BY DEF Sent, Has
    <2> QED BY <1>5, <2>1, <2>3 DEF Steady, Sent
  <1> QED BY <1>7, <1>8, <1>9, <1>10 DEF Steady

LEMMA GenerateSteady ==
  ASSUME IInv, Steady, stack # <<>>, stack[1].at \in {"prepare", "request"}, NEW x \in Rec, x[1] > 0,
         stack' = <<Frame("generate", x, 0)>> \o Tail(stack), \A r \in Rec : answer[r] # "sent",
         UNCHANGED <<answer, loop, running, refs, stray, idle, mem, dialog, starting, atStartup>>,
         Marked', starting = FALSE, loop = x[1], refs[loop] = 1,
         \A e \in todo'[loop] : mem[<<loop, e>>] = "live"
  PROVE  Steady'
  <1>1. PICK f : f = Frame("generate", x, 0) OBVIOUS
  <1>2. x \in Loop \X (0 .. NEntries) BY Sizes DEF Rec
  <1>3. f \in Frames /\ f.at = "generate" /\ f.rec = x /\ OfDialog(f)
    BY <1>1, <1>2, Sizes DEF Frame, Frames, OfDialog
  <1>4. Held(f)' BY <1>3 DEF Held, OfDialog
  <1>5. stack' = <<f>> \o Tail(stack) BY <1>1
  <1>6. Shape(stack)' /\ AllHeld' /\ Waiting' /\ Counted' BY <1>3, <1>4, <1>5, Replaced
  <1>7. Closing' BY <1>3, <1>5, StillClosing
  <1>8. Sent' /\ Stores' BY DEF Steady, Sent, Stores
  <1> QED BY <1>6, <1>7, <1>8 DEF Steady

(* The end of sync_manager_show(): its loop is released, and nobody below   *)
(* it uses one.                                                             *)
LEMMA EndDialogSteady ==
  ASSUME IInv, Steady, stack # <<>>, OfDialog(stack[1]), stack[1].at # "choose",
         NEW d, d = stack[1].rec[1], EndDialog(d), \A r \in Rec : answer[r] # "sent",
         UNCHANGED <<idle, answer, starting, atStartup>>, Marked', mem' \in [Rec -> Memory],
         \A e \in Entry : mem'[<<0, e>>] = mem[<<0, e>>]
  PROVE  Steady'
  <1>1. /\ stack' = Tail(stack) /\ Unref(loop) /\ stray' = (stray \/ refs[loop] = 0)
        /\ dialog' = [dialog EXCEPT ![d] = "none"] /\ UNCHANGED <<loop, running>>
    BY DEF EndDialog
  <1>2. /\ starting = FALSE /\ idle = <<>> /\ loop = d /\ d \in Dialog /\ d > 0 /\ refs[d] = 1
        /\ \A i \in 1 .. Len(Tail(stack)) : Tail(stack)[i].at = "choose"
    BY AtWork
  <1>3. stray = FALSE /\ refs \in [Loop -> Nat] /\ d \in Loop /\ 0 \in Loop
    BY <1>2, Sizes DEF Steady, Stores
  <1>4. refs' \in [Loop -> Nat] /\ refs'[0] = refs[0] BY <1>1, <1>2, <1>3 DEF Unref
  <1>5. stray' = FALSE
    <2>1. refs[loop] > 0 BY <1>2
    <2> QED BY <1>1, <1>3, <2>1, NotStray
  <1>6. Stores'
    <2>1. dialog' \in [Dialog -> Shown] BY <1>1 DEF Steady, Stores, Shown
    <2> QED BY <1>1, <1>4, <1>5, <2>1 DEF Steady, Stores
  <1>7. Shape(stack)'
    <2>1. Shape(Tail(stack)) BY ShapeTail DEF Steady
    <2> QED BY <1>1, <2>1 DEF Shape, Nested, Distinct, OfDialog, Busy
  <1>8. AllHeld'
    <2>1. PICK s : s = Tail(stack) OBVIOUS
    <2>2. \A i \in 1 .. Len(s) : Held(s[i])' BY <1>2, <2>1, HeldChoose
    <2> QED BY <1>1, <2>1, <2>2, HeldPop
  <1>9. Sent' BY DEF Steady, Sent
  <1>10. Closing'
    <2>1. stack \in Seq(Frames) BY DEF Steady, Shape
    <2> SUFFICES ASSUME NEW l \in Dialog, dialog'[l] = "close" PROVE Has(stack', "wait", <<l, 0>>)
      BY DEF Closing, Has
    <2>2. l # d /\ dialog[l] = "close" BY <1>1, <1>2 DEF Steady, Stores
    <2>3. PICK i \in 1 .. Len(stack) : stack[i].at = "wait" /\ stack[i].rec = <<l, 0>>
      BY <2>2 DEF Steady, Closing, Has
    <2>4. i # 1 BY <2>2, <2>3
    <2>5. i - 1 \in 1 .. Len(Tail(stack)) /\ Tail(stack)[i - 1] = stack[i] BY <2>1, <2>3, <2>4, Popped
    <2>6. stack[i].at = "choose" BY <1>2, <2>5
    <2> QED BY <2>3, <2>6
  <1>11. Waiting' BY <1>2 DEF Waiting
  <1>12. Live' = Live BY DEF Live
  <1>13. Counted' BY <1>4, <1>12 DEF Steady, Counted
  <1> QED BY <1>6, <1>7, <1>8, <1>9, <1>10, <1>11, <1>13 DEF Steady

LEMMA EndSteady ==
  ASSUME IInv, Steady, stack # <<>>, stack[1].at \in {"prepare", "request"}, OfDialog(stack[1]),
         NEW d, d = stack[1].rec[1], NEW c \in BOOLEAN, EndActions(d, c),
         \A r \in Rec : answer[r] # "sent", UNCHANGED <<idle, starting, atStartup>>, Marked'
  PROVE  Steady'
  <1>1. /\ starting = FALSE /\ idle = <<>> /\ loop = d /\ d \in Dialog /\ d > 0 /\ refs[d] = 1
        /\ stack[1].at # "choose"
    BY AtWork
  <1>2. /\ mem' = [r \in Rec |-> IF r[1] = d /\ mem[r] = "live" THEN "freed" ELSE mem[r]]
        /\ answer' = answer
    BY DEF EndActions
  <1>3. mem' \in [Rec -> Memory] /\ \A e \in Entry : mem'[<<0, e>>] = mem[<<0, e>>]
    <2>1. mem' \in [Rec -> Memory] BY <1>2 DEF Steady, Stores, Memory
    <2> QED BY <1>1, <1>2, <2>1, Sizes
  <1>4. CASE EndDialog(d) BY <1>1, <1>2, <1>3, <1>4, EndDialogSteady
  <1>5. CASE /\ dialog' = [dialog EXCEPT ![d] = "close"]
             /\ stack' = <<Frame("wait", <<d, 0>>, loop)>> \o Tail(stack)
             /\ RunLoop(loop) /\ stray' = (stray \/ refs[loop] = 0) /\ UNCHANGED <<loop, refs>>
    <2>1. PICK f : f = Frame("wait", <<d, 0>>, loop) OBVIOUS
    <2>2. d \in Loop /\ loop \in Loop /\ stray = FALSE BY <1>1, Sizes DEF Steady, Stores
    <2>3. f \in Frames /\ f.at = "wait" /\ f.rec = <<d, 0>> /\ f.on = loop /\ OfDialog(f)
      BY <2>1, <2>2, Sizes DEF Frame, Frames, OfDialog
    <2>4. stack' = <<f>> \o Tail(stack) BY <1>5, <2>1
    <2>5. Held(f)' BY <1>1, <1>5, <2>3 DEF Held, OfDialog
    <2>6. Shape(stack)' /\ AllHeld' /\ Waiting' /\ Counted'
      BY <1>1, <1>3, <1>5, <2>3, <2>4, <2>5, Replaced
    <2>7. Sent' BY <1>2 DEF Steady, Sent
    <2>8. Closing'
      <3>1. stack \in Seq(Frames) /\ Tail(stack) \in Seq(Frames) BY Popped DEF Steady, Shape
      <3> SUFFICES ASSUME NEW l \in Dialog, dialog'[l] = "close" PROVE Has(stack', "wait", <<l, 0>>)
        BY DEF Closing, Has
      <3>2. CASE l = d BY <2>3, <2>4, <3>1, <3>2, HasPush
      <3>3. CASE l # d
        <4>1. dialog[l] = "close" BY <1>5, <3>3 DEF Steady, Stores
        <4>2. Has(stack, "wait", <<l, 0>>) BY <4>1 DEF Steady, Closing
        <4>3. Has(Tail(stack), "wait", <<l, 0>>) BY <3>1, <4>2, HasTail
        <4> QED BY <2>3, <2>4, <3>1, <4>3, HasPush
      <3> QED BY <3>2, <3>3
    <2>9. Stores'
      <3>1. refs[loop] > 0 BY <1>1
      <3>2. running' \in [Loop -> BOOLEAN] BY <1>5, <2>2, <3>1, Runs DEF Steady
      <3>3. stray' = FALSE BY <1>5, <2>2, <3>1, NotStray
      <3>4. dialog' \in [Dialog -> Shown] BY <1>5 DEF Steady, Stores, Shown
      <3> QED BY <1>3, <1>5, <3>2, <3>3, <3>4 DEF Steady, Stores
    <2> QED BY <2>6, <2>7, <2>8, <2>9 DEF Steady
  <1> QED BY <1>4, <1>5 DEF EndActions
-----------------------------------------------------------------------------
LEMMA StartOneSteady == ASSUME IInv, Steady, SyncOne PROVE Steady'
  <1>1. PICK e : e = Head(idle) OBVIOUS
  <1>2. PICK s : s = stack OBVIOUS
  <1>3. /\ idle # <<>> /\ idle' = Tail(idle) /\ idle \in Seq(Entry) /\ stack \in Seq(Frames)
        /\ UNCHANGED <<loop, running, answer, mark, todo, dialog, starting, atStartup>>
    BY DEF SyncOne, ui, IInv, Types, Steady, Shape
  <1>4. /\ e \in Entry /\ <<0, e>> \in Rec /\ <<0, e>> \in Loop \X (0 .. NEntries)
        /\ e = idle[1] /\ 1 \in 1 .. Len(idle) /\ 0 \in Loop
        /\ \A i \in 1 .. Len(Tail(idle)) : i + 1 \in 1 .. Len(idle) /\ Tail(idle)[i] = idle[i + 1]
    <2>1. /\ e \in Entry /\ e = idle[1] /\ 1 \in 1 .. Len(idle)
          /\ \A i \in 1 .. Len(Tail(idle)) : i + 1 \in 1 .. Len(idle) /\ Tail(idle)[i] = idle[i + 1]
      BY <1>1, <1>3
    <2>2. <<0, e>> \in Rec /\ 0 \in Loop /\ e \in 0 .. NEntries BY <2>1, Sizes
    <2> QED BY <2>1, <2>2
  <1>5. starting = TRUE /\ atStartup = TRUE BY <1>3 DEF Steady, Waiting
  <1>6. Queued(1) BY <1>4 DEF Steady, Waiting
  <1>7. /\ mem[<<0, e>>] = "live"
        /\ \A j \in 1 .. Len(stack) : ~OfDialog(stack[j]) => stack[j].rec # <<0, e>>
        /\ \A i \in 1 .. Len(Tail(idle)) : Tail(idle)[i] # e
    <2>1. ASSUME NEW i \in 1 .. Len(Tail(idle)) PROVE Tail(idle)[i] # e
      <3>1. i + 1 \in 1 .. Len(idle) /\ Tail(idle)[i] = idle[i + 1] /\ i + 1 # 1 BY <1>4
      <3> QED BY <1>4, <1>6, <3>1 DEF Queued
    <2> QED BY <1>4, <1>6, <2>1 DEF Queued
  <1>8. \A i \in 1 .. Len(stack) : ~Busy(stack[i])
    <2> SUFFICES ASSUME NEW i \in 1 .. Len(stack), Busy(stack[i]) PROVE FALSE OBVIOUS
    <2>1. Held(stack[i]) BY DEF Steady, AllHeld
    <2> QED BY <1>3, <1>5, <2>1 DEF Held, Busy, OfDialog
  <1>9. CASE /\ Unref(loop) /\ mem' = [mem EXCEPT ![<<0, e>>] = "condemned"]
             /\ stray' = (stray \/ refs[loop] = 0) /\ stack' = stack
    <2>1. /\ Counted' /\ stray' = FALSE /\ refs' \in [Loop -> Nat] /\ mem' \in [Rec -> Memory]
          /\ \A r \in Rec : r # <<0, e>> => mem'[r] = mem[r]
      BY <1>4, <1>5, <1>7, <1>9, <1>3, Release
    <2>a. Shape(stack)' BY <1>9 DEF Steady, Shape, Nested, Distinct, OfDialog, Busy
    <2>2. Sent' /\ Closing' /\ Marked' BY <1>3, <1>9 DEF Steady, Sent, Has, Closing, Marked
    <2>3. Stores' BY <1>3, <2>1 DEF Steady, Stores
    <2>4. AllHeld'
      <3>1. ASSUME NEW i \in 1 .. Len(s) PROVE Held(s[i])'
        <4>1. PICK g : g = s[i] OBVIOUS
        <4>2. g \in Frames /\ Held(g) /\ Stage(g) /\ ~Busy(g)
          BY <1>2, <1>3, <1>8, <4>1 DEF Steady, AllHeld, IInv, Calls
        <4>3. CASE g.at = "choose" BY <4>1, <4>3, HeldChoose
        <4>4. CASE g.at # "choose"
          <5>1. g.at = "pulse" /\ ~OfDialog(g) BY <4>2, <4>4 DEF Busy, Frames, OfDialog
          <5>2. g.rec \in Rec /\ g.rec # <<0, e>> BY <1>2, <1>7, <4>1, <4>2, <5>1 DEF Stage
          <5>3. mem'[g.rec] = mem[g.rec] BY <2>1, <5>2
          <5>4. starting' = TRUE /\ atStartup' = TRUE /\ mem'[g.rec] = "live"
            BY <1>3, <1>5, <4>2, <5>1, <5>3 DEF Held
          <5> QED BY <4>1, <5>1, <5>4 DEF Held, OfDialog
        <4> QED BY <4>3, <4>4
      <3> QED BY <1>2, <1>9, <3>1, HeldPop
    <2>5. Waiting'
      <3>1. ASSUME NEW i \in 1 .. Len(idle') PROVE Queued(i)'
        <4>1. /\ i + 1 \in 1 .. Len(idle) /\ idle'[i] = idle[i + 1] /\ idle'[i] # e
              /\ idle'[i] \in Entry
          BY <1>3, <1>4, <1>7
        <4>2. Queued(i + 1) BY <4>1 DEF Steady, Waiting
        <4>3. mem'[<<0, idle'[i]>>] = "live" BY <2>1, <4>1, <4>2, Sizes DEF Queued
        <4>4. \A j \in 1 .. Len(idle') : idle'[i] = idle'[j] => i = j
          <5> SUFFICES ASSUME NEW j \in 1 .. Len(idle'), idle'[i] = idle'[j] PROVE i = j OBVIOUS
          <5>1. j + 1 \in 1 .. Len(idle) /\ idle'[j] = idle[j + 1] BY <1>3, <1>4
          <5>2. i + 1 = j + 1 BY <4>1, <4>2, <5>1 DEF Queued
          <5> QED BY <5>2
        <4> QED BY <1>9, <4>1, <4>2, <4>3, <4>4 DEF Queued, OfDialog
      <3> QED BY <1>3, <1>5, <3>1 DEF Waiting
    <2> QED BY <2>1, <2>a, <2>2, <2>3, <2>4, <2>5 DEF Steady
  <1>10. CASE /\ stack' = <<Frame("pulse", <<0, e>>, 0)>> \o stack
              /\ UNCHANGED <<refs, mem, stray>>
    <2>1. PICK f : f = Frame("pulse", <<0, e>>, 0) OBVIOUS
    <2>2. f \in Frames /\ f.at = "pulse" /\ f.rec = <<0, e>> /\ ~OfDialog(f) /\ stack' = <<f>> \o s
      BY <1>2, <1>4, <1>10, <2>1 DEF Frame, Frames, OfDialog
    <2>3. Shape(s) /\ s \in Seq(Frames) BY <1>2 DEF Steady, Shape
    <2>4. Shape(stack)'
      <3>1. Shape(<<f>> \o s) BY <1>2, <1>7, <1>8, <2>2, <2>3, ShapePush
      <3> QED BY <2>2, <3>1 DEF Shape, Nested, Distinct, OfDialog, Busy
    <2>5. AllHeld'
      <3>1. Held(f)' BY <1>3, <1>5, <1>7, <1>10, <2>2 DEF Held, OfDialog
      <3>2. ASSUME NEW i \in 1 .. Len(s) PROVE Held(s[i])'
        <4>1. PICK g : g = s[i] OBVIOUS
        <4>2. Held(g) /\ ~Busy(g) BY <1>2, <1>8, <4>1 DEF Steady, AllHeld
        <4>3. Held(g)' BY <1>3, <1>10, <4>2 DEF Held, OfDialog, Busy
        <4> QED BY <4>1, <4>3
      <3> QED BY <2>2, <2>3, <3>1, <3>2, HeldPush
    <2>6. Sent'
      <3> SUFFICES ASSUME NEW r \in Rec
                   PROVE  /\ answer'[r] # "aborted"
                          /\ answer'[r] = "sent" => Has(stack', "request", r) /\ running'[loop'] = TRUE
        BY DEF Sent, Has
      <3> QED BY <1>2, <1>3, <2>2, <2>3, HasPush DEF Steady, Sent
    <2>7. Closing'
      <3> SUFFICES ASSUME NEW l \in Dialog, dialog'[l] = "close" PROVE Has(stack', "wait", <<l, 0>>)
        BY DEF Closing, Has
      <3> QED BY <1>2, <1>3, <2>2, <2>3, HasPush DEF Steady, Closing
    <2>8. Waiting'
      <3>1. ASSUME NEW i \in 1 .. Len(idle') PROVE Queued(i)'
        <4>1. /\ i + 1 \in 1 .. Len(idle) /\ idle'[i] = idle[i + 1] /\ idle'[i] # e
              /\ idle'[i] \in Entry
          BY <1>3, <1>4, <1>7
        <4>2. Queued(i + 1) BY <4>1 DEF Steady, Waiting
        <4>3. mem'[<<0, idle'[i]>>] = "live" BY <1>10, <4>1, <4>2 DEF Queued
        <4>4. \A j \in 1 .. Len(idle') : idle'[i] = idle'[j] => i = j
          <5> SUFFICES ASSUME NEW j \in 1 .. Len(idle'), idle'[i] = idle'[j] PROVE i = j OBVIOUS
          <5>1. j + 1 \in 1 .. Len(idle) /\ idle'[j] = idle[j + 1] BY <1>3, <1>4
          <5>2. i + 1 = j + 1 BY <4>1, <4>2, <5>1 DEF Queued
          <5> QED BY <5>2
        <4>5. ASSUME NEW j \in 1 .. Len(stack'), ~OfDialog(stack'[j])
              PROVE  stack'[j].rec # <<0, idle'[i]>>
          <5>1. stack'[j] = f \/ \E k \in 1 .. Len(s) : stack'[j] = s[k] BY <2>2, <2>3, Pushed
          <5>2. CASE stack'[j] = f BY <2>2, <4>1, <5>2
          <5>3. CASE \E k \in 1 .. Len(s) : stack'[j] = s[k]
            BY <1>2, <4>1, <4>2, <4>5, <5>3 DEF Queued
          <5> QED BY <5>1, <5>2, <5>3
        <4> QED BY <4>3, <4>4, <4>5 DEF Queued, OfDialog
      <3> QED BY <1>3, <1>5, <3>1 DEF Waiting
    <2>9. Counted' /\ Marked' /\ Stores' BY <1>3, <1>10 DEF Steady, Counted, Live, Marked, Stores
    <2> QED BY <2>4, <2>5, <2>6, <2>7, <2>8, <2>9 DEF Steady
  <1> QED BY <1>1, <1>9, <1>10 DEF SyncOne

LEMMA PulseSteady == ASSUME IInv, Steady, PulseEnds PROVE Steady'
  <1>1. PICK x : x = stack[1].rec OBVIOUS
  <1>2. /\ stack # <<>> /\ stack[1].at = "pulse" /\ Send(x) /\ idle = <<>>
        /\ UNCHANGED <<idle, mem, mark, dialog, starting, atStartup>>
    BY <1>1 DEF PulseEnds, Top, Drained, ui, shell
  <1>3. 1 \in 1 .. Len(stack) BY <1>2, Popped DEF Steady, Shape
  <1>4. Held(stack[1]) /\ Stage(stack[1]) BY <1>3 DEF Steady, AllHeld, IInv, Calls
  <1>5. /\ x \in Rec /\ x[1] = 0 /\ starting = TRUE /\ atStartup = TRUE /\ mem[x] = "live"
    BY <1>1, <1>2, <1>4 DEF Held, Stage, OfDialog
  <1>6. refs[loop] > 0
    <2>1. loop = 0 BY <1>5 DEF Steady, Stores
    <2> QED BY <1>5, <2>1, Counting
  <1>7. \A r \in Rec : answer[r] # "sent" BY <1>2, NoneSent
  <1>8. Marked'
    <2>1. \E e \in Entry : x = <<0, e>> BY <1>5 DEF Rec
    <2>2. mark[x] = "none" BY <2>1 DEF Steady, Marked
    <2>3. \A r \in Rec : r # x => answer'[r] = answer[r]
      BY <1>2, <1>5, SentElsewhere DEF IInv
    <2> QED BY <1>2, <2>2, <2>3 DEF Steady, Marked
  <1> QED BY <1>1, <1>2, <1>5, <1>6, <1>7, <1>8, SendSteady

LEMMA GeneratedSteady == ASSUME IInv, Steady, Generated PROVE Steady'
  <1>1. PICK x : x = stack[1].rec OBVIOUS
  <1>2. PICK d : d = x[1] OBVIOUS
  <1>3. /\ stack # <<>> /\ stack[1].at = "generate" /\ Send(x) /\ OfDialog(stack[1])
        /\ UNCHANGED <<idle, mem, mark, todo, dialog, starting, atStartup>>
    BY <1>1 DEF Generated, Top, ui, shell, OfDialog
  <1>4. /\ starting = FALSE /\ loop = d /\ d \in Dialog /\ d > 0 /\ refs[d] = 1
        /\ \A e \in todo[d] : mem[<<d, e>>] = "live"
    BY <1>1, <1>2, <1>3, AtWork
  <1>5. 1 \in 1 .. Len(stack) BY <1>3, Popped DEF Steady, Shape
  <1>6. Stage(stack[1]) BY <1>5 DEF IInv, Calls
  <1>7. x = <<d, x[2]>> /\ x[2] \in todo[d] /\ mark[x] = "current"
    BY <1>1, <1>2, <1>3, <1>6 DEF Stage
  <1>8. x \in Rec
    <2>1. todo[d] \subseteq Entry BY <1>4 DEF IInv, Types
    <2> QED BY <1>4, <1>7, <2>1, Sizes
  <1>9. \A r \in Rec : answer[r] # "sent" BY <1>3, NoneSent
  <1>10. Marked'
    <2>1. \A r \in Rec : r # x => answer'[r] = answer[r]
      BY <1>3, <1>8, SentElsewhere DEF IInv
    <2> QED BY <1>3, <1>7, <2>1 DEF Steady, Marked
  <1>11. refs[loop] > 0 BY <1>4
  <1>12. /\ x[1] # 0 /\ loop = x[1] /\ refs[loop] = 1
         /\ \A e \in todo'[loop] : mem[<<loop, e>>] = "live"
    BY <1>2, <1>3, <1>4
  <1>13. stack[1].at \in {"pulse", "generate", "prepare", "request"} BY <1>3
  <1> QED BY <1>3, <1>4, <1>8, <1>9, <1>10, <1>11, <1>12, <1>13, SendSteady

LEMMA OneReturnsSteady == ASSUME IInv, Steady, SyncOneReturns PROVE Steady'
  <1>1. PICK s : s = Tail(stack) OBVIOUS
  <1>2. PICK x : x = stack[1].rec OBVIOUS
  <1>3. /\ stack # <<>> /\ stack[1].at = "request" /\ x[1] = 0 /\ ~running[stack[1].on]
        /\ stack' = s /\ Unref(loop) /\ stray' = (stray \/ refs[loop] = 0)
        /\ mem' = [mem EXCEPT ![x] = "condemned"]
        /\ UNCHANGED <<idle, loop, running, answer, mark, todo, dialog, starting, atStartup>>
    BY <1>1, <1>2 DEF SyncOneReturns, Top, ui, shell
  <1>4. /\ 1 \in 1 .. Len(stack) /\ s \in Seq(Frames) /\ Shape(s) /\ ~OfDialog(stack[1])
        /\ \A i \in 1 .. Len(s) : i + 1 \in 1 .. Len(stack) /\ s[i] = stack[i + 1]
    BY <1>1, <1>2, <1>3, Popped, ShapeTail, Sizes DEF Steady, Shape, OfDialog
  <1>5. Held(stack[1]) /\ Stage(stack[1]) BY <1>4 DEF Steady, AllHeld, IInv, Calls
  <1>6. /\ x \in Rec /\ starting = TRUE /\ atStartup = TRUE /\ mem[x] = "live" /\ idle = <<>>
    BY <1>2, <1>3, <1>4, <1>5 DEF Held, Stage
  <1>7. PICK e \in Entry : x = <<0, e>> BY <1>3, <1>6 DEF Rec
  <1>8. /\ Counted' /\ stray' = FALSE /\ refs' \in [Loop -> Nat] /\ mem' \in [Rec -> Memory]
        /\ \A r \in Rec : r # x => mem'[r] = mem[r]
    BY <1>3, <1>6, <1>7, Release
  <1>9. \A r \in Rec : answer[r] # "sent"
    <2>1. running[stack[1].on] # TRUE BY <1>3, Zenon
    <2> QED BY <1>3, <2>1, NoneSent
  <1>10. AllHeld'
    <2>1. ASSUME NEW i \in 1 .. Len(s) PROVE Held(s[i])'
      <3>1. PICK g : g = s[i] OBVIOUS
      <3>2. g \in Frames /\ Held(g) /\ Stage(g) /\ ~Busy(g)
        BY <1>1, <1>3, <1>4, <3>1, NotBusy DEF Steady, AllHeld, IInv, Calls
      <3>3. CASE g.at = "choose" BY <3>1, <3>3, HeldChoose
      <3>4. CASE g.at # "choose"
        <4>1. g.at = "pulse" /\ ~OfDialog(g) BY <3>2, <3>4 DEF Busy, Frames, OfDialog
        <4>2. g.rec # x
          <5>1. i + 1 \in 1 .. Len(stack) /\ g = stack[i + 1] /\ i + 1 # 1 BY <1>4, <3>1
          <5> QED BY <1>2, <1>4, <4>1, <5>1 DEF Steady, Shape, Distinct
        <4>3. g.rec \in Rec BY <3>2, <4>1 DEF Stage
        <4>4. starting' = TRUE /\ atStartup' = TRUE /\ mem'[g.rec] = "live"
          BY <1>3, <1>6, <1>8, <3>2, <4>1, <4>2, <4>3 DEF Held
        <4> QED BY <3>1, <4>1, <4>4 DEF Held, OfDialog
      <3> QED BY <3>3, <3>4
    <2> QED BY <1>3, <2>1, HeldPop
  <1>11. Shape(stack)' BY <1>3, <1>4 DEF Shape, Nested, Distinct, OfDialog, Busy
  <1>12. Sent' BY <1>3, <1>9 DEF Steady, Sent
  <1>13. Closing'
    <2>1. stack \in Seq(Frames) BY DEF Steady, Shape
    <2> SUFFICES ASSUME NEW l \in Dialog, dialog'[l] = "close" PROVE Has(stack', "wait", <<l, 0>>)
      BY DEF Closing, Has
    <2>2. Has(stack, "wait", <<l, 0>>) BY <1>3 DEF Steady, Closing
    <2> QED BY <1>1, <1>3, <2>1, <2>2, HasTail
  <1>14. Waiting' BY <1>3, <1>6 DEF Waiting
  <1>15. Marked' /\ Stores' BY <1>3, <1>8 DEF Steady, Marked, Stores
  <1> QED BY <1>8, <1>10, <1>11, <1>12, <1>13, <1>14, <1>15 DEF Steady
-----------------------------------------------------------------------------
LEMMA NextSteady ==
  ASSUME IInv, Steady, stack # <<>>, stack[1].at \in {"prepare", "request"}, OfDialog(stack[1]),
         NEW d, d = stack[1].rec[1], NEW left, left \subseteq todo[d],
         NEW marks \in [Rec -> Labels], NextAction(d, left, marks),
         \A r \in Rec : answer[r] # "sent", UNCHANGED <<idle, starting, atStartup>>,
         \A e \in Entry : marks[<<0, e>>] = "none",
         \A r \in Rec : marks[r] = "done" => answer[r] = "ok"
  PROVE  Steady'
  <1> DEFINE m == Min(left)
             x == <<d, m>>
  <1>1. /\ starting = FALSE /\ idle = <<>> /\ loop = d /\ d \in Dialog /\ d > 0 /\ refs[d] = 1
        /\ \A e \in todo[d] : mem[<<d, e>>] = "live"
    BY AtWork
  <1>2. /\ todo' = [todo EXCEPT ![d] = left] /\ todo[d] \subseteq Entry /\ left \subseteq Entry
        /\ todo'[d] = left /\ d \in Loop /\ cancelled[d] \in BOOLEAN /\ answer \in [Rec -> States]
    <2>1. cancelled[d] \in BOOLEAN BY <1>1, Zenon DEF IInv, Types
    <2>2. todo \in [Dialog -> SUBSET Entry] /\ answer \in [Rec -> States] BY DEF IInv, Types
    <2>3. todo' = [todo EXCEPT ![d] = left] BY DEF NextAction
    <2> QED BY <1>1, <2>1, <2>2, <2>3, Sizes
  <1>3. CASE mark' = marks /\ EndActions(d, cancelled[d])
    <2>1. answer' = answer BY <1>3 DEF EndActions
    <2>2. Marked' BY <1>3, <2>1 DEF Marked
    <2> QED BY <1>2, <1>3, <2>2, EndSteady
  <1>4. ASSUME left # {}, NEW a \in {"canceled", "current"}, mark' = [marks EXCEPT ![x] = a]
        PROVE  /\ x \in Rec /\ x[1] = d /\ x[1] # 0 /\ \A e \in Entry : mark'[<<0, e>>] = "none"
               /\ \A r \in Rec : mark'[r] = "done" => marks[r] = "done" /\ r # x
    <2>1. m \in Entry BY <1>2, <1>4, First
    <2>2. x \in Rec BY <1>2, <2>1, Sizes
    <2> HIDE DEF m
    <2>3. \A r \in Rec : mark'[r] = IF r = x THEN a ELSE marks[r] BY <1>4, <2>2
    <2>4. \A e \in Entry : <<0, e>> \in Rec /\ <<0, e>> # x BY <1>1, Sizes
    <2> HIDE DEF x
    <2>5. \A e \in Entry : mark'[<<0, e>>] = "none" BY <2>3, <2>4
    <2>6. \A r \in Rec : mark'[r] = "done" => marks[r] = "done" /\ r # x BY <2>3
    <2>7. x[1] = d /\ x[1] # 0 BY <1>1 DEF x
    <2> QED BY <2>2, <2>5, <2>6, <2>7
  <1> HIDE DEF x, m
  <1>5. CASE left # {} /\ mark' = [marks EXCEPT ![x] = "canceled"] /\ EndActions(d, TRUE)
    <2>1. answer' = answer BY <1>5 DEF EndActions
    <2>2. Marked' BY <1>4, <1>5, <2>1 DEF Marked
    <2> QED BY <1>5, <2>2, EndSteady
  <1>6. CASE /\ left # {} /\ mark' = [marks EXCEPT ![x] = "current"] /\ SendRequest(x)
             /\ UNCHANGED <<mem, dialog>>
    <2>1. /\ x \in Rec /\ x[1] = d /\ x[1] # 0 /\ \A e \in Entry : mark'[<<0, e>>] = "none"
          /\ \A r \in Rec : mark'[r] = "done" => marks[r] = "done" /\ r # x
      BY <1>4, <1>6
    <2>2. /\ loop = x[1] /\ refs[loop] = 1 /\ refs[loop] > 0 /\ x[1] > 0
          /\ \A e \in todo'[loop] : mem[<<loop, e>>] = "live"
      BY <1>1, <1>2, <2>1
    <2>3. ASSUME \A r \in Rec : r # x => answer'[r] = answer[r] PROVE Marked'
      BY <2>1, <2>3 DEF Marked
    <2>4. CASE Send(x)
      <3>1. \A r \in Rec : r # x => answer'[r] = answer[r] BY <2>1, <2>4, SentElsewhere DEF IInv
      <3>2. Marked' BY <2>3, <3>1
      <3>3. stack[1].at \in {"pulse", "generate", "prepare", "request"} OBVIOUS
      <3> QED BY <1>1, <1>6, <2>1, <2>2, <2>4, <3>2, <3>3, SendSteady
    <2>5. CASE /\ stack' = <<Frame("generate", x, 0)>> \o Tail(stack)
               /\ UNCHANGED <<answer, loop, running, refs, stray>>
      <3>1. Marked' BY <2>3, <2>5
      <3> QED BY <1>1, <1>6, <2>1, <2>2, <2>5, <3>1, GenerateSteady
    <2> QED BY <1>6, <2>4, <2>5 DEF SendRequest, loops
  <1> QED BY <1>3, <1>5, <1>6 DEF NextAction, x, m

LEMMA PreparedSteady == ASSUME IInv, Steady, Prepared PROVE Steady'
  <1>1. PICK d : d = stack[1].rec[1] OBVIOUS
  <1>2. PICK left : left = todo[d] OBVIOUS
  <1>3. PICK marks : marks = mark OBVIOUS
  <1>4. /\ stack # <<>> /\ stack[1].at = "prepare" /\ NextAction(d, left, marks)
        /\ OfDialog(stack[1]) /\ UNCHANGED <<idle, starting, atStartup>>
    BY <1>1, <1>2, <1>3 DEF Prepared, Top, OfDialog
  <1>5. \A r \in Rec : answer[r] # "sent" BY <1>4, NoneSent
  <1>6. marks \in [Rec -> Labels] BY <1>3 DEF IInv, Types
  <1>7. /\ \A e \in Entry : marks[<<0, e>>] = "none"
        /\ \A r \in Rec : marks[r] = "done" => answer[r] = "ok"
    BY <1>3 DEF Steady, Marked
  <1>8. stack[1].at \in {"prepare", "request"} /\ left \subseteq todo[d] BY <1>2, <1>4
  <1> QED BY <1>1, <1>4, <1>5, <1>6, <1>7, <1>8, NextSteady

(* The response that wakes up the dialog is that of its own request.        *)
LEMMA RequestSteady == ASSUME IInv, Steady, RequestReturns PROVE Steady'
  <1>1. PICK d : d = stack[1].rec[1] OBVIOUS
  <1>2. PICK m : m = stack[1].rec[2] OBVIOUS
  <1>3. PICK left : left = todo[d] \ {m} OBVIOUS
  <1>4. /\ stack # <<>> /\ stack[1].at = "request" /\ stack[1].rec[1] > 0
        /\ OfDialog(stack[1]) /\ UNCHANGED <<idle, starting, atStartup>>
        /\ ~running[stack[1].on]
    BY DEF RequestReturns, Top, OfDialog
  <1>5. running[stack[1].on] # TRUE BY <1>4, Zenon
  <1>6. \A r \in Rec : answer[r] # "sent" BY <1>4, <1>5, NoneSent
  <1>7. /\ d \in Dialog /\ d > 0 BY <1>1, <1>4, AtWork
  <1>8. 1 \in 1 .. Len(stack) BY <1>4, Popped DEF Steady, Shape
  <1>9. Stage(stack[1]) /\ Held(stack[1]) BY <1>8 DEF Steady, AllHeld, IInv, Calls
  <1>10. /\ stack[1].rec = <<d, m>> /\ m \in todo[d] /\ answer[<<d, m>>] # "none"
    BY <1>1, <1>2, <1>4, <1>9 DEF Stage, Held
  <1>11. /\ m \in Entry /\ <<d, m>> \in Rec /\ Types
    <2>1. todo[d] \subseteq Entry /\ Types BY <1>7 DEF IInv, Types
    <2> QED BY <1>7, <1>10, <2>1, Sizes
  <1>12. answer[<<d, m>>] \in {"ok", "error"}
    <2>1. answer[<<d, m>>] \in States /\ answer[<<d, m>>] # "aborted"
      BY <1>11 DEF Types, Steady, Sent
    <2> QED BY <1>6, <1>10, <1>11, <2>1 DEF States
  <1>13. \/ /\ answer[<<d, m>>] = "error" /\ mark' = Relabelled(d, m, "failed")
            /\ EndActions(d, TRUE)
         \/ /\ answer[<<d, m>>] # "error" /\ NextAction(d, left, Relabelled(d, m, "done"))
    BY <1>1, <1>2, <1>3, <1>10 DEF RequestReturns, Top, Others, Relabelled, Failed
  <1>14. ASSUME NEW a \in {"failed", "done"}, NEW marks, marks = Relabelled(d, m, a),
                a = "done" => answer[<<d, m>>] = "ok"
         PROVE  /\ marks \in [Rec -> Labels] /\ \A e \in Entry : marks[<<0, e>>] = "none"
                /\ \A r \in Rec : marks[r] = "done" => answer[r] = "ok"
    <2>1. marks \in [Rec -> Labels] BY <1>7, <1>11, <1>14, Relabel
    <2>2. \A r \in Rec : marks[r] = IF r = <<d, m>> THEN a ELSE mark[r]
      BY <1>11, <1>14 DEF Relabelled, Types
    <2>3. \A e \in Entry : <<0, e>> \in Rec /\ <<0, e>> # <<d, m>> BY <1>7, Sizes
    <2>4. \A e \in Entry : marks[<<0, e>>] = "none" BY <2>2, <2>3 DEF Steady, Marked
    <2>5. \A r \in Rec : marks[r] = "done" => answer[r] = "ok"
      BY <1>14, <2>2 DEF Steady, Marked
    <2> QED BY <2>1, <2>4, <2>5
  <1>15. CASE answer[<<d, m>>] = "error" /\ mark' = Relabelled(d, m, "failed") /\ EndActions(d, TRUE)
    <2>1. PICK marks : marks = Relabelled(d, m, "failed") OBVIOUS
    <2>2. PICK a : a = "failed" OBVIOUS
    <2>3. a \in {"failed", "done"} /\ marks = Relabelled(d, m, a) /\ a # "done" BY <2>1, <2>2
    <2>4. /\ \A e \in Entry : marks[<<0, e>>] = "none"
          /\ \A r \in Rec : marks[r] = "done" => answer[r] = "ok"
      BY <1>14, <2>3
    <2>5. mark' = marks /\ answer' = answer BY <1>15, <2>1 DEF EndActions
    <2>6. Marked' BY <2>4, <2>5 DEF Marked
    <2> QED BY <1>1, <1>4, <1>6, <1>15, <2>6, EndSteady
  <1>16. CASE answer[<<d, m>>] # "error" /\ NextAction(d, left, Relabelled(d, m, "done"))
    <2>1. PICK marks : marks = Relabelled(d, m, "done") OBVIOUS
    <2>2. PICK a : a = "done" OBVIOUS
    <2>3. a \in {"failed", "done"} /\ marks = Relabelled(d, m, a) /\ answer[<<d, m>>] = "ok"
      BY <1>12, <1>16, <2>1, <2>2
    <2>4. /\ marks \in [Rec -> Labels] /\ \A e \in Entry : marks[<<0, e>>] = "none"
          /\ \A r \in Rec : marks[r] = "done" => answer[r] = "ok"
      BY <1>14, <2>3
    <2>5. NextAction(d, left, marks) BY <1>16, <2>1
    <2>6. left \subseteq todo[d] /\ stack[1].at \in {"prepare", "request"} BY <1>3, <1>4
    <2> QED BY <1>1, <1>4, <1>6, <2>4, <2>5, <2>6, NextSteady
  <1> QED BY <1>13, <1>15, <1>16

LEMMA WaitSteady == ASSUME IInv, Steady, WaitReturns PROVE Steady'
  <1>1. PICK d : d = stack[1].rec[1] OBVIOUS
  <1>2. /\ stack # <<>> /\ stack[1].at = "wait" /\ OfDialog(stack[1]) /\ EndDialog(d)
        /\ UNCHANGED <<idle, answer, mem, mark, starting, atStartup>>
    BY <1>1 DEF WaitReturns, Top, OfDialog, work
  <1>3. \A r \in Rec : answer[r] # "sent" BY <1>2, NoneSent
  <1>4. Marked' /\ mem' \in [Rec -> Memory] BY <1>2 DEF Steady, Marked, Stores
  <1> QED BY <1>1, <1>2, <1>3, <1>4, EndDialogSteady

LEMMA Single ==
  ASSUME NEW s \in Seq(Frames), s # <<>>, Tail(s) = <<>>
  PROVE  \A i \in 1 .. Len(s) : i = 1
  <1>1. Len(s) \in Nat /\ Len(s) # 0 /\ Len(Tail(s)) = Len(s) - 1 OBVIOUS
  <1>2. Len(<<>>) = 0 OBVIOUS
  <1>3. Len(Tail(s)) = 0 BY <1>2, Zenon
  <1> QED BY <1>1, <1>3

(* Undisturbed, a dialog starts when nothing else waits.                    *)
LEMMA StartSteady ==
  ASSUME IInv, Steady, NEW chosen \in Selections, StartSync(chosen), Undisturbed'
  PROVE  Steady'
  <1>1. PICK d : d = stack[1].rec[1] OBVIOUS
  <1>2. PICK f : f = Frame("prepare", <<d, 0>>, d) OBVIOUS
  <1>3. /\ stack # <<>> /\ stack[1].at = "choose" /\ loop' = d /\ refs' = [refs EXCEPT ![d] = 1]
        /\ dialog' = [dialog EXCEPT ![d] = "sync"] /\ todo' = [todo EXCEPT ![d] = chosen]
        /\ mem' = [r \in Rec |-> IF r[1] = d /\ r[2] \in chosen THEN "live" ELSE mem[r]]
        /\ mark' = [r \in Rec |-> IF r[1] = d /\ r[2] \in chosen THEN "waiting" ELSE mark[r]]
        /\ stack' = <<f>> \o Tail(stack)
        /\ UNCHANGED <<idle, running, answer, starting, atStartup, stray>>
    BY <1>1, <1>2 DEF StartSync, Top
  <1>4. starting = FALSE /\ Tail(stack) = <<>>
    <2>1. ~(overlaps \/ starting \/ Tail(stack) # <<>>) BY DEF StartSync, Undisturbed
    <2>2. starting \in BOOLEAN BY DEF Steady, Stores
    <2> QED BY <2>1, <2>2
  <1>5. /\ 1 \in 1 .. Len(stack) /\ stack \in Seq(Frames) /\ OfDialog(stack[1])
        /\ \A i \in 1 .. Len(stack) : i = 1
    <2>1. stack \in Seq(Frames) BY DEF Steady, Shape
    <2>2. \A i \in 1 .. Len(stack) : i = 1 BY <1>3, <1>4, <2>1, Single
    <2> QED BY <1>3, <2>1, <2>2, Popped DEF OfDialog
  <1>6. d \in Dialog /\ d > 0 /\ d \in Loop /\ 0 \in Loop
    <2>1. d \in 1 .. dlg BY <1>1, <1>5 DEF IInv, Calls
    <2> QED BY <2>1, Opened, Sizes DEF IInv
  <1>7. f \in Frames /\ f.at = "prepare" /\ f.rec = <<d, 0>> /\ f.on = d /\ OfDialog(f)
    BY <1>2, <1>6, Sizes DEF Frame, Frames, OfDialog
  <1>8. chosen \subseteq Entry BY SyncAssumption
  <1>9. /\ mem' \in [Rec -> Memory] /\ \A e \in Entry : mem'[<<0, e>>] = mem[<<0, e>>]
        /\ \A e \in chosen : mem'[<<d, e>>] = "live"
    <2>1. mem' \in [Rec -> Memory] BY <1>3 DEF Steady, Stores, Memory
    <2> QED BY <1>3, <1>6, <1>8, <2>1, Sizes
  <1>10. refs' \in [Loop -> Nat] /\ refs'[0] = refs[0] /\ refs'[d] = 1
    <2>1. refs \in [Loop -> Nat] BY DEF Steady, Stores
    <2> QED BY <1>3, <1>6, <2>1
  <1>11. todo'[d] = chosen BY <1>3, <1>6 DEF IInv, Types
  <1>12. Held(f)' BY <1>3, <1>4, <1>7, <1>9, <1>10, <1>11 DEF Held, OfDialog
  <1>13. Shape(stack)' /\ AllHeld' /\ Waiting' /\ Counted'
    BY <1>3, <1>4, <1>7, <1>9, <1>10, <1>12, Replaced
  <1>14. Sent'
    <2> SUFFICES ASSUME NEW r \in Rec PROVE answer[r] # "aborted" /\ answer[r] # "sent"
      BY <1>3 DEF Sent
    <2> QED BY <1>3, <1>5 DEF Steady, Sent, Has
  <1>15. Closing'
    <2> SUFFICES ASSUME NEW l \in Dialog, dialog'[l] = "close" PROVE FALSE BY DEF Closing
    <2>1. dialog[l] = "close" BY <1>3 DEF Steady, Stores
    <2> QED BY <1>3, <1>5, <2>1 DEF Steady, Closing, Has
  <1>16. Marked'
    <2>1. \A r \in Rec : mark'[r] = "done" => mark[r] = "done" BY <1>3
    <2>2. \A e \in Entry : mark'[<<0, e>>] = mark[<<0, e>>] BY <1>3, <1>6, Sizes
    <2> QED BY <1>3, <2>1, <2>2 DEF Steady, Marked
  <1>17. Stores'
    <2>1. dialog' \in [Dialog -> Shown] BY <1>3 DEF Steady, Stores, Shown
    <2> QED BY <1>3, <1>4, <1>9, <1>10, <2>1 DEF Steady, Stores
  <1> QED BY <1>13, <1>14, <1>15, <1>16, <1>17 DEF Steady

LEMMA StillUndisturbed == ASSUME [Next]_vars, Undisturbed' PROVE Undisturbed
  <1>1. pressed \subseteq pressed'
    BY DEF Next, vars, ui, SyncOne, InitReturns, PulseEnds, SyncOneReturns, Prepared, RequestReturns,
           WaitReturns, Benchmark, Generated, GotResponse, OpenDialog, DialogRefused, StartSync,
           CancelSync, CloseClicked, DeleteWindow
  <1>2. overlaps' = overlaps \/ \E chosen \in Selections : StartSync(chosen)
    BY DEF Next, vars, ui, SyncOne, InitReturns, PulseEnds, SyncOneReturns, Prepared, RequestReturns,
           WaitReturns, Benchmark, Generated, GotResponse, OpenDialog, DialogRefused,
           CancelSync, CloseClicked, DeleteWindow
  <1>3. (\E chosen \in Selections : StartSync(chosen)) => (overlaps => overlaps')
    BY Zenon DEF StartSync
  <1>4. pressed' = {} /\ overlaps' # TRUE BY Zenon DEF Undisturbed
  <1>5. pressed = {} BY <1>1, <1>4
  <1>6. ~overlaps BY <1>2, <1>3, <1>4, Zenon
  <1> QED BY <1>5, <1>6, Zenon DEF Undisturbed

LEMMA SteadyNext == ASSUME IInv, Steady, [Next]_vars, Undisturbed' PROVE Steady'
  <1>1. ASSUME NEW chosen \in Selections, StartSync(chosen) PROVE Steady'
    BY <1>1, StartSteady
  <1>2. CASE SyncOne \/ PulseEnds \/ SyncOneReturns
    BY <1>2, StartOneSteady, PulseSteady, OneReturnsSteady
  <1>3. CASE Prepared \/ RequestReturns \/ Generated
    BY <1>3, PreparedSteady, RequestSteady, GeneratedSteady
  <1>4. CASE OpenDialog \/ DialogRefused \/ WaitReturns BY <1>4, OpenSteady, RefusedSteady, WaitSteady
  <1>5. CASE \E r \in Rec : GotResponse(r) BY <1>5, AnswerSteady
  <1>6. CASE \E d \in Dialog : CancelSync(d) BY <1>6 DEF CancelSync, Undisturbed
  <1>7. CASE \E d \in Dialog : CloseClicked(d) BY <1>7, ClickSteady
  <1>8. CASE InitReturns BY <1>8, InitReturnsSteady
  <1>9. CASE Benchmark \/ UNCHANGED vars \/ \E d \in Dialog : DeleteWindow(d)
    <2>1. UNCHANGED <<idle, stack, loop, running, refs, answer, mem, mark, todo, dialog,
                      starting, atStartup, stray>>
      BY <1>9 DEF Benchmark, DeleteWindow, vars, loops, work, ui, shell
    <2> QED BY <2>1, SteadySame
  <1> QED BY <1>1, <1>2, <1>3, <1>4, <1>5, <1>6, <1>7, <1>8, <1>9 DEF Next

LEMMA SteadyAlways == Spec => [](Undisturbed => Steady)
  <1>1. Init => (Undisturbed => Steady) BY SteadyInit
  <1>2. IInv /\ (Undisturbed => Steady) /\ [Next]_vars => (Undisturbed => Steady)'
    BY SteadyNext, StillUndisturbed
  <1> QED BY <1>1, <1>2, Invariant, PTL DEF Spec

(* While nobody cancels and no dialog starts inside something else, an      *)
(* action is shown as done only when its own request was answered well.     *)
THEOREM DoneWhenAnswered == Spec => []DoneIsAnswered
  <1>1. (Undisturbed => Steady) => DoneIsAnswered BY DEF Steady, Marked, DoneIsAnswered
  <1> QED BY <1>1, SteadyAlways, PTL

(* While nobody cancels and no dialog starts inside something else, the     *)
(* memory of an action outlasts its request.                                *)
THEOREM RecordsOutlive == Spec => []RecordsOutliveRequests
  <1>1. ASSUME IInv, Undisturbed => Steady PROVE RecordsOutliveRequests
    <2> SUFFICES ASSUME Steady, NEW r \in Rec, answer[r] = "sent" PROVE mem[r] = "live"
      BY <1>1 DEF RecordsOutliveRequests
    <2>1. PICK i \in 1 .. Len(stack) : stack[i].at = "request" /\ stack[i].rec = r
      BY DEF Steady, Sent, Has
    <2>2. Held(stack[i]) /\ Stage(stack[i]) BY <1>1 DEF Steady, AllHeld, IInv, Calls
    <2>3. CASE ~OfDialog(stack[i]) BY <2>1, <2>2, <2>3 DEF Held
    <2>4. CASE OfDialog(stack[i])
      <3>1. loop = stack[i].rec[1] /\ \A e \in todo[loop] : mem[<<loop, e>>] = "live"
        BY <2>1, <2>2, <2>4 DEF Held
      <3>2. stack[i].rec = <<loop, stack[i].rec[2]>> /\ stack[i].rec[2] \in todo[loop]
        BY <2>1, <2>2, <2>4, <3>1 DEF Stage
      <3> QED BY <2>1, <3>1, <3>2
    <2> QED BY <2>3, <2>4
  <1> QED BY <1>1, Invariant, SteadyAlways, PTL

(* While nobody cancels and no dialog starts inside something else, nobody  *)
(* touches a loop or an action that has been freed.                         *)
THEOREM NoStrayUse == Spec => []NothingStray
  <1>1. (Undisturbed => Steady) => NothingStray BY DEF Steady, Stores, NothingStray
  <1> QED BY <1>1, SteadyAlways, PTL
=============================================================================
