---------------------------- MODULE MCIdleLadder ----------------------------
(* IdleLadder for TLC. *)
EXTENDS IdleLadder
=============================================================================
