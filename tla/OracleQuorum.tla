---------------------------- MODULE OracleQuorum ----------------------------
(***************************************************************************)
(* The oracle registry, the oracle deposits, the k-of-n attestation quorum *)
(* and the gate it puts before a mint, of programs/enrg-mvp                *)
(* (instructions/oracle_registry.rs, instructions/oracle_quorum.rs,        *)
(* instructions/mint.rs, state/oracle_attestation.rs).                     *)
(*                                                                         *)
(* One action per instruction.  An instruction is one Solana transaction:  *)
(* it is atomic, and an instruction whose checks fail changes nothing, so  *)
(* a failed check is a disabled action.  Signers and optional accounts are *)
(* chosen by whoever submits the transaction, hence parameters.            *)
(***************************************************************************)
EXTENDS Naturals, FiniteSets

CONSTANTS
  Keys,                 \* admin public keys that may hold a role
  DefaultKey,           \* Pubkey::default(), the all-zero key
  Deployer,             \* constants::EXPECTED_DEPLOYER
  GovernanceAuthority,  \* governance.authority, who may slash
  Oracles,              \* oracle public keys that may ever be registered
  Attestations,         \* the (device_id, nonce) pairs that get attested
  Hashes,               \* proof hashes an oracle may sign
  ZeroHash,             \* [0u8; 32]: an unset hash, refused as a vote
  Thresholds,           \* the thresholds an administrator tries to configure
  Rewards,              \* the reward_per_vote values an administrator tries
  Deposits,             \* the lamports an oracle tries to deposit at once
  MinStake,             \* 1_000_000 lamports
  MaxLamports,          \* bound on one deposit account (model bound)
  MaxOracles,           \* OracleRegistry::MAX_ORACLES
  U8Max,                \* u8::MAX, where OracleAttestation.votes saturates
  InitialFund,          \* SRC in the staking fund at the start
  DataAccountMayPay     \* does the system program debit an account with data?

ASSUME KeysAssumption ==
  /\ DefaultKey \notin Keys
  /\ Deployer \in Keys
  /\ GovernanceAuthority \in Keys

ASSUME QuorumAssumption ==
  /\ IsFiniteSet(Oracles)
  /\ ZeroHash \notin Hashes
  /\ Thresholds \subseteq Nat /\ Rewards \subseteq Nat /\ Deposits \subseteq Nat
  /\ MinStake \in Nat \ {0} /\ MaxLamports \in Nat
  /\ MaxOracles \in Nat /\ U8Max \in Nat /\ 2 <= MaxOracles /\ MaxOracles <= U8Max
  /\ InitialFund \in Nat
  /\ DataAccountMayPay \in BOOLEAN

VARIABLES
  registry,      \* the OracleRegistry account
  config,        \* the OracleQuorumConfig account
  stake,         \* OracleStake account of each oracle
  attestation,   \* OracleAttestation account of each (device, nonce)
  vote,          \* vote[a][o]: proof_hash of the OracleVote account, ZeroHash if none
  claimed,       \* claimed[a]: oracles whose OracleVote has reward_claimed
  fund,          \* SRC left in the staking fund
  minted,        \* the report minted for each (device, nonce), if any
  paid,          \* history: paid[a][o], reward transfers made for one vote
  slashRejected, \* history: oracles whose slashing transaction was reverted
  highest        \* history: the highest threshold that has been in force

vars == <<registry, config, stake, attestation, vote, claimed, fund, minted, paid,
          slashRejected, highest>>

quorumVars == <<attestation, vote>>
rewardVars == <<claimed, fund, paid>>
otherVars == <<minted, slashRejected, highest>>
-----------------------------------------------------------------------------
(* The accounts, and what a freshly created (zero-filled) one holds.       *)

ORACLE_ATTESTATION_THRESHOLD == 2
MinThreshold == 2

OracleRegistry ==
  [exists : BOOLEAN, authority : Keys \cup {DefaultKey},
   oracle_admin : Keys \cup {DefaultKey}, oracles : SUBSET Oracles]

OracleQuorumConfig ==
  [exists : BOOLEAN, authority : Keys \cup {DefaultKey}, required : BOOLEAN,
   threshold : Nat, reward_per_vote : Nat]

OracleStake == [exists : BOOLEAN, lamports : Nat, slashed : BOOLEAN]

OracleAttestation ==
  [proof_hash : Hashes \cup {ZeroHash}, votes : Nat, finalized : BOOLEAN,
   conflict : BOOLEAN]

NewAttestation ==
  [proof_hash |-> ZeroHash, votes |-> 0, finalized |-> FALSE, conflict |-> FALSE]

\* What is remembered of a mint: the hash of its report, and whether it was gated.
Minted == [proof_hash : Hashes \cup {ZeroHash}, gated : BOOLEAN]

NotMinted == [proof_hash |-> ZeroHash, gated |-> FALSE]

Init ==
  /\ registry = [exists |-> FALSE, authority |-> DefaultKey,
                 oracle_admin |-> DefaultKey, oracles |-> {}]
  /\ config = [exists |-> FALSE, authority |-> DefaultKey, required |-> FALSE,
               threshold |-> 0, reward_per_vote |-> 0]
  /\ stake = [o \in Oracles |->
                [exists |-> FALSE, lamports |-> 0, slashed |-> FALSE]]
  /\ attestation = [a \in Attestations |-> NewAttestation]
  /\ vote = [a \in Attestations |-> [o \in Oracles |-> ZeroHash]]
  /\ claimed = [a \in Attestations |-> {}]
  /\ fund = InitialFund
  /\ minted = [a \in Attestations |-> NotMinted]
  /\ paid = [a \in Attestations |-> [o \in Oracles |-> 0]]
  /\ slashRejected = {}
  /\ highest = ORACLE_ATTESTATION_THRESHOLD
-----------------------------------------------------------------------------
(* Oracle registry and its two roles.                                      *)

InitializeOracleRegistry(k) ==
  /\ ~registry.exists
  /\ k = Deployer
  /\ registry' = [exists |-> TRUE, authority |-> k, oracle_admin |-> k,
                  oracles |-> {}]
  /\ UNCHANGED <<config, stake, quorumVars, rewardVars, otherVars>>

AddOracle(k, o) ==
  /\ registry.exists /\ k = registry.oracle_admin
  /\ o \notin registry.oracles
  /\ Cardinality(registry.oracles) < MaxOracles
  /\ registry' = [registry EXCEPT !.oracles = @ \cup {o}]
  /\ UNCHANGED <<config, stake, quorumVars, rewardVars, otherVars>>

RemoveOracle(k, o) ==
  /\ registry.exists /\ k = registry.oracle_admin
  /\ o \in registry.oracles
  /\ registry' = [registry EXCEPT !.oracles = @ \ {o}]
  /\ UNCHANGED <<config, stake, quorumVars, rewardVars, otherVars>>

SetOracleAdmin(k, new) ==
  /\ registry.exists /\ k = registry.authority
  /\ new # DefaultKey
  /\ registry' = [registry EXCEPT !.oracle_admin = new]
  /\ UNCHANGED <<config, stake, quorumVars, rewardVars, otherVars>>

SetOracleRegistryAuthority(k, new) ==
  /\ registry.exists /\ k = registry.authority
  /\ new # DefaultKey
  /\ registry' = [registry EXCEPT !.authority = new]
  /\ UNCHANGED <<config, stake, quorumVars, rewardVars, otherVars>>
-----------------------------------------------------------------------------
(* Quorum configuration.                                                   *)

ValidThreshold(t) == MinThreshold <= t /\ t <= MaxOracles

Larger(m, n) == IF m < n THEN n ELSE m

InitOracleQuorum(k, required, t, reward) ==
  /\ ~config.exists
  /\ registry.exists /\ k = registry.authority
  /\ ValidThreshold(t)
  /\ config' = [exists |-> TRUE, authority |-> k, required |-> required,
                threshold |-> t, reward_per_vote |-> reward]
  /\ highest' = Larger(highest, t)
  /\ UNCHANGED <<registry, stake, quorumVars, rewardVars, minted, slashRejected>>

SetOracleQuorum(k, required, t, reward) ==
  /\ config.exists /\ k = config.authority
  /\ ValidThreshold(t)
  /\ config' = [config EXCEPT !.required = required, !.threshold = t,
                              !.reward_per_vote = reward]
  /\ highest' = Larger(highest, t)
  /\ UNCHANGED <<registry, stake, quorumVars, rewardVars, minted, slashRejected>>

SetQuorumAuthority(k, new) ==
  /\ config.exists /\ k = config.authority
  /\ new # DefaultKey
  /\ config' = [config EXCEPT !.authority = new]
  /\ UNCHANGED <<registry, stake, quorumVars, rewardVars, otherVars>>
-----------------------------------------------------------------------------
(* Deposits.                                                               *)

StakeOracle(o, lamports) ==
  /\ o \in registry.oracles
  /\ lamports >= MinStake
  /\ stake[o].lamports + lamports <= MaxLamports
  /\ stake' = [stake EXCEPT ![o].exists = TRUE, ![o].lamports = @ + lamports]
  /\ UNCHANGED <<registry, config, quorumVars, rewardVars, otherVars>>

\* The system-program CPI that moves the deposit has the OracleStake account as
\* its source, an account that carries data.
SlashOracle(k, o) ==
  /\ k = GovernanceAuthority
  /\ stake[o].exists /\ ~stake[o].slashed
  /\ stake[o].lamports > 0
  /\ IF DataAccountMayPay
     THEN /\ stake' = [stake EXCEPT ![o].lamports = 0, ![o].slashed = TRUE]
          /\ UNCHANGED slashRejected
     ELSE /\ slashRejected' = slashRejected \cup {o}
          /\ UNCHANGED stake
  /\ UNCHANGED <<registry, config, quorumVars, rewardVars, minted, highest>>
-----------------------------------------------------------------------------
(* Votes.                                                                  *)

SaturatingInc(n) == IF n < U8Max THEN n + 1 ELSE n

\* Defect: votes for other hashes are counted too.
ApplyVoteCountingConflicts(att, h) ==
  IF att.votes = 0
  THEN [att EXCEPT !.proof_hash = h, !.votes = 1]
  ELSE [att EXCEPT !.votes = SaturatingInc(@), !.conflict = @ \/ att.proof_hash # h]

\* apply_vote: only a vote for the canonical hash is counted.
ApplyVote(att, h) ==
  IF att.votes = 0 THEN [att EXCEPT !.proof_hash = h, !.votes = 1]
  ELSE IF att.proof_hash = h THEN [att EXCEPT !.votes = SaturatingInc(@)]
  ELSE [att EXCEPT !.conflict = TRUE]

\* Defect: the comparison with the threshold is off by one.
OneVoteLate(att, threshold) == att.votes > threshold

IsFinalized(att, threshold) == att.votes >= threshold

\* The account oracle_quorum_config is optional in SubmitOracleAttestation.
EffectiveThreshold(withConfig) ==
  IF withConfig THEN config.threshold ELSE ORACLE_ATTESTATION_THRESHOLD

\* Defect: the vote account is created with init_if_needed, so an oracle may vote again.
RevotingSubmit(a, o, h, withConfig) ==
  /\ o \in registry.oracles
  /\ stake[o].exists /\ ~stake[o].slashed
  /\ withConfig => config.exists
  /\ h # ZeroHash
  /\ vote' = [vote EXCEPT ![a][o] = h]
  /\ LET att == ApplyVote(attestation[a], h)
     IN  attestation' = [attestation EXCEPT ![a] =
           [att EXCEPT !.finalized = @ \/ IsFinalized(att, EffectiveThreshold(withConfig))]]
  /\ UNCHANGED <<registry, config, stake, rewardVars, otherVars>>

\* Defect: the deposit is not required.
StakelessSubmit(a, o, h, withConfig) ==
  /\ o \in registry.oracles
  /\ withConfig => config.exists
  /\ vote[a][o] = ZeroHash
  /\ h # ZeroHash
  /\ vote' = [vote EXCEPT ![a][o] = h]
  /\ LET att == ApplyVote(attestation[a], h)
     IN  attestation' = [attestation EXCEPT ![a] =
           [att EXCEPT !.finalized = @ \/ IsFinalized(att, EffectiveThreshold(withConfig))]]
  /\ UNCHANGED <<registry, config, stake, rewardVars, otherVars>>

SubmitOracleAttestation(a, o, h, withConfig) ==
  /\ o \in registry.oracles
  /\ stake[o].exists /\ ~stake[o].slashed
  /\ withConfig => config.exists
  /\ vote[a][o] = ZeroHash            \* the OracleVote PDA is created by `init`
  /\ h # ZeroHash
  /\ vote' = [vote EXCEPT ![a][o] = h]
  /\ LET att == ApplyVote(attestation[a], h)
     IN  attestation' = [attestation EXCEPT ![a] =
           [att EXCEPT !.finalized = @ \/ IsFinalized(att, EffectiveThreshold(withConfig))]]
  /\ UNCHANGED <<registry, config, stake, rewardVars, otherVars>>

\* Defect: reward_claimed is not looked at.
RepeatableClaim(a, o) ==
  /\ vote[a][o] # ZeroHash
  /\ config.exists
  /\ attestation[a].finalized
  /\ config.reward_per_vote > 0
  /\ fund >= config.reward_per_vote
  /\ fund' = fund - config.reward_per_vote
  /\ claimed' = [claimed EXCEPT ![a] = @ \cup {o}]
  /\ paid' = [paid EXCEPT ![a][o] = @ + 1]
  /\ UNCHANGED <<registry, config, stake, quorumVars, otherVars>>

ClaimOracleReward(a, o) ==
  /\ vote[a][o] # ZeroHash
  /\ config.exists
  /\ attestation[a].finalized
  /\ o \notin claimed[a]
  /\ config.reward_per_vote > 0
  /\ fund >= config.reward_per_vote
  /\ fund' = fund - config.reward_per_vote
  /\ claimed' = [claimed EXCEPT ![a] = @ \cup {o}]
  /\ paid' = [paid EXCEPT ![a][o] = @ + 1]
  /\ UNCHANGED <<registry, config, stake, quorumVars, otherVars>>
-----------------------------------------------------------------------------
(* The gate of mint_energy.  Which reports get that far is EnergyMint's.   *)

\* Defect: any finalized attestation of the device and nonce opens the gate.
HashlessGate(a, h, presented) ==
  config.required => presented /\ attestation[a].finalized

\* The attestation account is optional in MintEnergy; the configuration is not.
QuorumGate(a, h, presented) ==
  config.required =>
    /\ presented
    /\ attestation[a].finalized
    /\ attestation[a].proof_hash = h

\* A report that hashes to h is minted for a: verify_nonce lets no second one pass.
MintEnergy(a, h, presented) ==
  /\ config.exists
  /\ minted[a] = NotMinted
  /\ QuorumGate(a, h, presented)
  /\ minted' = [minted EXCEPT ![a] = [proof_hash |-> h, gated |-> config.required]]
  /\ UNCHANGED <<registry, config, stake, quorumVars, rewardVars, slashRejected, highest>>
-----------------------------------------------------------------------------
Administer ==
  \E k \in Keys :
    \/ InitializeOracleRegistry(k)
    \/ \E o \in Oracles : AddOracle(k, o) \/ RemoveOracle(k, o) \/ SlashOracle(k, o)
    \/ \E new \in Keys \cup {DefaultKey} :
         \/ SetOracleAdmin(k, new)
         \/ SetOracleRegistryAuthority(k, new)
         \/ SetQuorumAuthority(k, new)
    \/ \E required \in BOOLEAN, t \in Thresholds, reward \in Rewards :
         \/ InitOracleQuorum(k, required, t, reward)
         \/ SetOracleQuorum(k, required, t, reward)

CastVote(a, o) ==
  \E h \in Hashes \cup {ZeroHash}, withConfig \in BOOLEAN :
    SubmitOracleAttestation(a, o, h, withConfig)

Operate ==
  \E o \in Oracles :
    \/ \E lamports \in Deposits : StakeOracle(o, lamports)
    \/ \E a \in Attestations : CastVote(a, o) \/ ClaimOracleReward(a, o)

Mint ==
  \E a \in Attestations, h \in Hashes, presented \in BOOLEAN : MintEnergy(a, h, presented)

Next == Administer \/ Operate \/ Mint

Spec == Init /\ [][Next]_vars
-----------------------------------------------------------------------------
(* Properties.                                                             *)

\* The oracles whose vote account agrees with the canonical hash.
Agreeing(a) ==
  {o \in Oracles : vote[a][o] # ZeroHash /\ vote[a][o] = attestation[a].proof_hash}

\* Every account holds values of its declared type.
TypeOK ==
  /\ registry \in OracleRegistry
  /\ config \in OracleQuorumConfig
  /\ stake \in [Oracles -> OracleStake]
  /\ attestation \in [Attestations -> OracleAttestation]
  /\ vote \in [Attestations -> [Oracles -> Hashes \cup {ZeroHash}]]
  /\ claimed \in [Attestations -> SUBSET Oracles]
  /\ fund \in Nat
  /\ minted \in [Attestations -> Minted]
  /\ paid \in [Attestations -> [Oracles -> Nat]]
  /\ slashRejected \in SUBSET Oracles
  /\ highest \in Nat

\* The vote counter is exact: it is the number of distinct oracles whose own vote
\* account carries the canonical hash, up to the saturation of the u8.
VotesCountAgreeing ==
  \A a \in Attestations :
    LET n == Cardinality(Agreeing(a))
    IN  attestation[a].votes = IF n < U8Max THEN n ELSE U8Max

\* A finalized attestation is backed by at least two distinct oracles that signed
\* exactly its canonical hash, whatever was reconfigured, removed or reported by
\* others meanwhile.
FinalizedHasQuorum ==
  \A a \in Attestations :
    attestation[a].finalized => Cardinality(Agreeing(a)) >= 2

\* The conflict flag is evidence: it is raised exactly when two oracles signed
\* different hashes for the same (device, nonce).
ConflictIsEvidence ==
  \A a \in Attestations :
    attestation[a].conflict <=>
      \E o, p \in Oracles : /\ vote[a][o] # ZeroHash
                            /\ vote[a][p] # ZeroHash
                            /\ vote[a][o] # vote[a][p]

\* Whoever voted still has a deposit on the line, or lost it to a slash: votes stay
\* accountable after the oracle is removed from the registry.
VotersAreAccountable ==
  \A a \in Attestations, o \in Oracles :
    vote[a][o] # ZeroHash => stake[o].lamports >= MinStake \/ stake[o].slashed

\* One vote is rewarded at most once, only to an oracle that voted, and only in an
\* attestation that reached its quorum.
RewardedOncePerVote ==
  \A a \in Attestations, o \in Oracles :
    /\ paid[a][o] <= 1
    /\ paid[a][o] = 1 => /\ vote[a][o] # ZeroHash
                         /\ attestation[a].finalized

\* The canonical hash, once fixed, and finalization are never undone or replaced.
AttestationIsIrrevocable ==
  [][\A a \in Attestations :
       /\ attestation[a].votes > 0 =>
            attestation'[a].proof_hash = attestation[a].proof_hash
       /\ attestation[a].votes <= attestation'[a].votes
       /\ attestation[a].finalized => attestation'[a].finalized]_vars

\* What the rest of the protocol may rely on: at most one accepted hash per
\* (device, nonce), final, signed by two distinct oracles that sign once.
Promise ==
  INSTANCE AttestationPromise WITH
    Undecided <- ZeroHash,
    signed <- vote,
    accepted <- [a \in Attestations |->
                   IF attestation[a].finalized THEN attestation[a].proof_hash
                   ELSE ZeroHash]

ImplementsPromise == Promise!PromiseSpec

\* No attestation misses its quorum: as many oracles on the canonical hash as the highest
\* threshold that was ever in force make it final, in whatever order they and the dissenters
\* voted, whoever omitted the configuration, and however the threshold moved meanwhile.
\* Their vote accounts cannot be created again, so a quorum missed would be missed for good.
AgreementIsFinal ==
  \A a \in Attestations :
    Cardinality(Agreeing(a)) >= highest => attestation[a].finalized

\* A report minted while the gate was on carries the hash that two distinct oracles signed,
\* and still does after votes, removals and reconfigurations that follow the mint.
MintedIsAttested ==
  \A a \in Attestations :
    minted[a].gated =>
      \E o, p \in Oracles :
        /\ o # p
        /\ vote[a][o] = minted[a].proof_hash /\ vote[a][p] = minted[a].proof_hash
=============================================================================
