---------------------------- MODULE MCSharedMemory ----------------------------
(* SharedMemory for TLC. *)
EXTENDS SharedMemory
=============================================================================
