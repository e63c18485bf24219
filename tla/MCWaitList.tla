------------------------------ MODULE MCWaitList ------------------------------
(* WaitList for TLC. *)
EXTENDS WaitList
=============================================================================
