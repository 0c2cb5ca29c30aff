--------------------------- MODULE MCTokenLedger ---------------------------
(* Bounded instance of TokenLedger for TLC.                                *)
EXTENDS TokenLedger

CONSTANT TheOwner

MCOwner == [d \in Devices |-> TheOwner]
=============================================================================
