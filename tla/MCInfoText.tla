----------------------------- MODULE MCInfoText -----------------------------
(* InfoText for TLC, on its own: an entry of one group, with a field that    *)
(* asks to be updated, as modules/computer.c has "Available entropy in       *)
(* /dev/random", and one that does not.                                      *)
EXTENDS InfoText
FieldOf(t, n, iv) == [tag |-> t, name |-> n, flags |-> {}, icon |-> None, interval |-> iv]
Tags == {None, <<"entropy">>}
OneGroup ==
  {<<[sorted |-> s, fields |-> <<FieldOf(t, 2, iv), FieldOf(None, 1, 0)>>]>> :
     s \in BOOLEAN, t \in Tags, iv \in {0, 1}}
=============================================================================
