------------------------------- MODULE MCMpsc -------------------------------
(* Small instances of Mpsc for TLC; the cfg files give the bounds. *)
EXTENDS MpscInv
=============================================================================
