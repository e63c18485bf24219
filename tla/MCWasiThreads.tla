---------------------------- MODULE MCWasiThreads ----------------------------
(* WasiThreads for TLC: the threads but the main one are interchangeable. *)
EXTENDS WasiThreads, TLC

Symmetry == Permutations(Threads \ {Main})
=============================================================================
