---------------------------- MODULE MCCrunchFor ----------------------------
(* CrunchFor for TLC: no thread (topology unknown), one, and two.          *)
EXTENDS CrunchFor
UsedThreads == {-1, 1, 2}
=============================================================================
