------------------------------- MODULE MCSpsc -------------------------------
(* Small instances of Spsc for TLC; the cfg files give the bounds. *)
EXTENDS SpscInv
=============================================================================
