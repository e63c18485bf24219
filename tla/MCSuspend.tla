------------------------------ MODULE MCSuspend ------------------------------
(* Suspend for TLC. *)
EXTENDS Suspend
=============================================================================
