-------------------------- MODULE MCEvmAttestation --------------------------
(* Bounded instance of EvmAttestation for TLC.                             *)
EXTENDS EvmAttestation, TLC

\* No definition names an oracle or a payload.
Symmetry == Permutations(Oracles) \cup Permutations(Payloads)

\* Bound: changes that are scheduled and wait to be executed.
MaxWaiting == 3
Waiting == {c \in Oracles \X BOOLEAN : pendingTrust[c[1]][c[2]] # 0}
FewWaiting ==
  Cardinality(Waiting) + Cardinality({t \in Thresholds : pendingThreshold[t] # 0}) <= MaxWaiting
=============================================================================
