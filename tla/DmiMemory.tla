----------------------------- MODULE DmiMemory -----------------------------
(***************************************************************************)
(* modules/devices/dmi_memory.c: the sockets that the DMI tables name are  *)
(* matched with the modules whose SPD was read, so that each module is     *)
(* shown once, in the socket it most likely sits in. A socket takes the    *)
(* module it agrees with best among those that agree less with the socket  *)
(* they are in now; the socket that loses its module queues up again.      *)
(***************************************************************************)
EXTENDS Integers, Sequences

CONSTANTS
  NSockets,   \* dmi_mem.sockets, in the order of the tables
  NSpd,       \* dmi_mem.spd, in the order of the scan
  Inventory,  \* the tables and modules there may be: what each socket and SPD says
  None        \* no string, no vendor, no partner

ASSUME SizesAssumption == NSockets \in Nat /\ NSpd \in Nat /\ None \notin Int

Sockets == 1 .. NSockets
Spds == 1 .. NSpd

VARIABLES
  says,        \* what was read: [socket |-> ..., spd |-> ...]
  pc,          \* "match", "done"
  sock_queue,  \* the sockets that still look for their module
  loops,       \* the turns left before the search is given up
  spd,         \* per socket: the module matched to it
  dmi_socket,  \* per module: the socket it is matched to
  match_score  \* per module: how well it agrees with that socket

vars == <<says, pc, sock_queue, loops, spd, dmi_socket, match_score>>

(* An empty part number of a socket is none and equals no text; two unknown *)
(* vendors are the same vendor.                                             *)
Score(s, e) ==
  LET a == says.socket[s]
      b == says.spd[e]
  IN (IF a.partno # None /\ a.partno = b.partno THEN 20 ELSE 0)
     + (IF a.size = b.size THEN 10 ELSE 0)
     + (IF a.vendor = b.vendor THEN 5 ELSE 0)

Turns == NSockets * 4

Init ==
  /\ says \in Inventory
  /\ pc = "match"
  /\ sock_queue = [i \in Sockets |-> i]
  /\ loops = Turns
  /\ spd = [s \in Sockets |-> None]
  /\ dmi_socket = [e \in Spds |-> None]
  /\ match_score = [e \in Spds |-> 0]

(* The modules that would rather be in s, and of these the first of the ones *)
(* s agrees with best.                                                       *)
WithoutModule(s) == {e \in Spds : Score(s, e) > 0 /\ dmi_socket[e] = None}
Candidates(s) == {e \in Spds : Score(s, e) > match_score[e]}
Best(s) == CHOOSE e \in Candidates(s) : \A f \in Candidates(s) :
             Score(s, f) < Score(s, e) \/ (Score(s, f) = Score(s, e) /\ e <= f)

Searching == pc = "match" /\ sock_queue # <<>> /\ loops > 0

(* An empty socket, or one that no module agrees with better, is left alone. *)
PassBy(s) ==
  /\ ~says.socket[s].populated \/ Candidates(s) = {}
  /\ sock_queue' = Tail(sock_queue)
  /\ UNCHANGED <<spd, dmi_socket, match_score>>

(* The socket that was displaced, if any, has no module now and queues up. *)
NotTakenAway(s, e) == [spd EXCEPT ![s] = e]
Paired(s, e) == [t \in Sockets |-> IF t = s THEN e ELSE IF t = dmi_socket[e] THEN None ELSE spd[t]]
Requeued(e) == IF dmi_socket[e] = None THEN Tail(sock_queue) ELSE Append(Tail(sock_queue), dmi_socket[e])

Take(s) ==
  /\ says.socket[s].populated /\ Candidates(s) # {}
  /\ LET best == Best(s) IN
       /\ spd' = Paired(s, best)
       /\ dmi_socket' = [dmi_socket EXCEPT ![best] = s]
       /\ match_score' = [match_score EXCEPT ![best] = Score(s, best)]
       /\ sock_queue' = Requeued(best)

Turn ==
  /\ Searching
  /\ loops' = loops - 1
  /\ PassBy(Head(sock_queue)) \/ Take(Head(sock_queue))
  /\ UNCHANGED <<says, pc>>

(* Nobody is left, or it is time to give up. *)
EndMatch ==
  /\ pc = "match" /\ ~Searching
  /\ pc' = "done"
  /\ UNCHANGED <<says, sock_queue, loops, spd, dmi_socket, match_score>>

Next == Turn \/ EndMatch
Spec == Init /\ [][Next]_vars

(* What memory_devices_get_info() lists: a row for every socket, with the   *)
(* SPD of its module in its details when it is populated, and a row for     *)
(* every module that no socket claims.                                      *)
SpdShownIn == [s \in Sockets |-> IF says.socket[s].populated THEN spd[s] ELSE None]
Unmatched == {e \in Spds : dmi_socket[e] = None}

-----------------------------------------------------------------------------

(* Every module is listed once: in the details of one socket, or in a row of *)
(* its own, never in both and never in two sockets.                          *)
ShownOnce ==
  pc = "done" => \A e \in Spds :
    IF e \in Unmatched THEN \A s \in Sockets : SpdShownIn[s] # e
    ELSE \E s \in Sockets : \A t \in Sockets : SpdShownIn[t] = e <=> t = s

(* How well a socket agrees with the module it has. *)
Has(s) == IF spd[s] = None THEN 0 ELSE Score(s, spd[s])

(* No populated socket and module agree better with one another than each    *)
(* does with what it was given, whatever the order of the tables: the        *)
(* displacing in the loop has undone every worse match.                      *)
Stable ==
  (pc = "done" /\ sock_queue = <<>>) =>
    \A s \in Sockets, e \in Spds :
      says.socket[s].populated => Score(s, e) <= Has(s) \/ Score(s, e) <= match_score[e]
=============================================================================
