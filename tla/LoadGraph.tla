------------------------------ MODULE LoadGraph ------------------------------
(***************************************************************************)
(* The graph of a value that is updated (shell/loadgraph.c): the last      *)
(* samples, drawn to the scale of a maximum that is only looked for anew   *)
(* now and then.                                                           *)
(***************************************************************************)
EXTENDS Integers, Sequences, SequencesExt, FiniteSetsExt

CONSTANTS
  Values,    \* what may be measured, of any sign
  Size,      \* the samples that are kept
  Period,    \* 20: the updates that go by the old maximum, and two more
  Height     \* of the drawing

VARIABLES
  data, max_value, remax_count,
  points     \* the heights drawn, as fractions [num, den]
vars == <<data, max_value, remax_count, points>>

(* _draw(): the first and the last two points close the polygon. The scale   *)
(* is 90% of the height over the maximum; with none every height is not a    *)
(* number.                                                                   *)
Undrawable == <<>>
Drawn(samples, max) ==
  IF max = 0 THEN Undrawable
  ELSE [i \in 2 .. Len(samples) |-> [num |-> samples[i] * 9 * Height, den |-> 10 * max]]
Flat == [i \in 2 .. Size |-> [num |-> 0, den |-> 1]]

Zeroes == [i \in 1 .. Size |-> 0]
Init ==
  /\ data = Zeroes /\ max_value = 1 /\ remax_count = 0
  /\ points = Flat

(* load_graph_update(). *)
Shifted(value) == Append(Tail(data), value)
Newest(samples) == samples[Size]
Largest(samples) == Max(ToSet(samples))
Remax == remax_count > Period
load_graph_update ==
  \E value \in {v \in Values : v >= 0} :
    /\ data' = Shifted(value)
    /\ \/ Remax /\ max_value' = Largest(data') /\ remax_count' = 0
       \/ ~Remax /\ max_value' = Max({value, max_value}) /\ remax_count' = remax_count + 1
    /\ points' = Drawn(data', max_value')

(* load_graph_clear(). *)
load_graph_clear ==
  /\ data' = Zeroes /\ max_value' = 1 /\ remax_count' = 0
  /\ points' = Flat

Next == load_graph_update \/ load_graph_clear

-----------------------------------------------------------------------------
(* The curve stays inside of the drawing and below its last tenth, whatever  *)
(* peaks come and go between two looks for the maximum, and after one of     *)
(* these reaches up to there; except that no scale is left when all samples  *)
(* are zero at such a look, until something is measured again.               *)
CurveStaysInside ==
  LET heights == {points[i] : i \in DOMAIN points}
  IN IF points = Undrawable THEN ToSet(data) = {0}
     ELSE /\ \A h \in heights : 10 * h.num <= 9 * Height * h.den
          /\ remax_count = 0 /\ max_value \in ToSet(Tail(data)) => \E h \in heights : 10 * h.num = 9 * Height * h.den
=============================================================================
