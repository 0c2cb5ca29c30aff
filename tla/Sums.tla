-------------------------------- MODULE Sums --------------------------------
(***************************************************************************)
(* What the program adds up in a loop: payouts, contributions, energies.   *)
(***************************************************************************)
EXTENDS Integers, FiniteSetsExt

\* The sum of the values of f over S.
Total(f, S) == MapThenSumSet(LAMBDA x : f[x], S)
=============================================================================
