----------------------------- MODULE MCWasiFdTable -----------------------------
(* WasiFdTable for TLC. *)
EXTENDS WasiFdTable
=============================================================================
