--------------------------- MODULE MCOracleServer ---------------------------
(* Bounded instances of OracleServer for TLC.                              *)
EXTENDS OracleServer
=============================================================================
