---------------------------- MODULE MCGovernance ----------------------------
(* A bounded instance of Governance for TLC.                               *)
EXTENDS Governance, TLC

\* Every wallet owns the token account of its name.
OwnAccount == [w \in Wallets |-> w]

\* The wallets are interchangeable, the deployer excepted.
Symmetry == Permutations(Wallets \ {EXPECTED_DEPLOYER})
=============================================================================
