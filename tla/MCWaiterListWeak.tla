-------------------------- MODULE MCWaiterListWeak --------------------------
(* The instances of WaiterListWeak that TLC checks.                          *)
EXTENDS WaiterListWeak
=============================================================================
