------------------------- MODULE AttestationPromise -------------------------
(***************************************************************************)
(* What the oracle quorum promises to the rest of the protocol: for each   *)
(* (device, nonce) at most one proof hash is ever accepted, acceptance is  *)
(* final, and an accepted hash was signed by at least two distinct oracles,*)
(* each of which signs one hash only.  OracleQuorum implements it.         *)
(***************************************************************************)
CONSTANTS Oracles, Attestations, Hashes, Undecided

VARIABLES
  signed,   \* signed[a][o]: the hash o signed for a, Undecided before
  accepted  \* accepted[a]: the hash accepted for a, Undecided before

promiseVars == <<signed, accepted>>

PromiseInit ==
  /\ signed = [a \in Attestations |-> [o \in Oracles |-> Undecided]]
  /\ accepted = [a \in Attestations |-> Undecided]

\* One oracle signs; the signature may complete a quorum, for whichever hash it is.
Sign(a, o, h) ==
  /\ signed[a][o] = Undecided
  /\ h \in Hashes
  /\ signed' = [signed EXCEPT ![a][o] = h]
  /\ \/ UNCHANGED accepted
     \/ \E winner \in Hashes :
          /\ accepted[a] = Undecided
          /\ \E p, q \in Oracles :
               p # q /\ signed'[a][p] = winner /\ signed'[a][q] = winner
          /\ accepted' = [accepted EXCEPT ![a] = winner]

PromiseNext ==
  \E a \in Attestations, o \in Oracles, h \in Hashes : Sign(a, o, h)

PromiseSpec == PromiseInit /\ [][PromiseNext]_promiseVars
=============================================================================
