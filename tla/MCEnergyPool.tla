---------------------------- MODULE MCEnergyPool ----------------------------
(* Bounded instance of EnergyPool for TLC.                                 *)
EXTENDS EnergyPool, TLC

CONSTANTS d1, d2, o1, o2

\* Two owners with one device each.
MCOwner == (d1 :> o1) @@ (d2 :> o2)
=============================================================================
