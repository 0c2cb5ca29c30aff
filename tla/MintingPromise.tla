--------------------------- MODULE MintingPromise ---------------------------
(***************************************************************************)
(* What the oracle server and the chain behind it promise to the owner of  *)
(* a device: a proof that the server stores stays stored; only a stored    *)
(* proof is ever minted, and those of a device in the order of their       *)
(* nonces; and the server says minted only of what is.  It may take that   *)
(* back, and it may never say it.  OracleServer implements it.             *)
(***************************************************************************)
EXTENDS Integers

CONSTANT Proofs  \* pairs of a device and a nonce

VARIABLES
  recorded,  \* proofs that the server has stored
  minted,    \* proofs that the chain has minted
  claimed    \* proofs that the server says are minted

promiseVars == <<recorded, minted, claimed>>

PromiseInit == recorded = {} /\ minted = {} /\ claimed = {}

Store(p) ==
  /\ recorded' = recorded \cup {p}
  /\ UNCHANGED <<minted, claimed>>

Mint(p) ==
  /\ p \in recorded
  /\ \A q \in minted : q[1] = p[1] => q[2] < p[2]
  /\ minted' = minted \cup {p}
  /\ UNCHANGED <<recorded, claimed>>

Claim(p) ==
  /\ p \in minted
  /\ claimed' = claimed \cup {p}
  /\ UNCHANGED <<recorded, minted>>

Withdraw(p) ==
  /\ claimed' = claimed \ {p}
  /\ UNCHANGED <<recorded, minted>>

PromiseNext == \E p \in Proofs : Store(p) \/ Mint(p) \/ Claim(p) \/ Withdraw(p)

PromiseSpec == PromiseInit /\ [][PromiseNext]_promiseVars
=============================================================================
