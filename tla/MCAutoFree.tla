----------------------------- MODULE MCAutoFree -----------------------------
(* AutoFree for TLC: the main thread and another, two items; 10 and 11      *)
(* seconds become 1 and 2.                                                  *)
EXTENDS AutoFree
CONSTANTS worker, a, b
=============================================================================
