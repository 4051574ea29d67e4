----------------------------- MODULE MCBenchRun -----------------------------
(* BenchRun for TLC: two benchmarks.                                        *)
EXTENDS BenchRun
CONSTANTS fib, zlib
=============================================================================
