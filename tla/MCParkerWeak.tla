---------------------------- MODULE MCParkerWeak ----------------------------
(* The instances of ParkerWeak that TLC checks.                              *)
EXTENDS ParkerWeak
=============================================================================
