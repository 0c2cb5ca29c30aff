--------------------------- MODULE MCOracleQuorum ---------------------------
(* Bounded instance of OracleQuorum for TLC.                               *)
EXTENDS OracleQuorum, TLC

\* Oracles and hashes are told apart by nothing in the program.
Symmetry == Permutations(Oracles) \cup Permutations(Hashes)
=============================================================================
