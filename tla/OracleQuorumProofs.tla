------------------------ MODULE OracleQuorumProofs ------------------------
(***************************************************************************)
(* Proofs about OracleQuorum, for every set of keys, oracles, hashes and   *)
(* attestations and every threshold, reward and deposit that may be tried. *)
(***************************************************************************)
EXTENDS OracleQuorum, FiniteSetTheorems, TLAPS

\* The fields of an attestation after a vote.
LEMMA ApplyVoteType ==
  ASSUME NEW att \in OracleAttestation, NEW h \in Hashes
  PROVE  /\ ApplyVote(att, h) \in OracleAttestation
         /\ ApplyVote(att, h).finalized = att.finalized
<1> USE DEF OracleAttestation
<1>1. CASE att.votes = 0
  BY <1>1 DEF ApplyVote
<1>2. CASE att.votes # 0 /\ att.proof_hash = h
  <2>1. SaturatingInc(att.votes) \in Nat
    BY QuorumAssumption DEF SaturatingInc
  <2>2. ApplyVote(att, h) = [att EXCEPT !.votes = SaturatingInc(att.votes)]
    BY <1>2 DEF ApplyVote
  <2>3. QED
    BY <2>1, <2>2
<1>3. CASE att.votes # 0 /\ att.proof_hash # h
  BY <1>3 DEF ApplyVote
<1>4. QED
  BY <1>1, <1>2, <1>3

\* Every account keeps the type its Rust declaration gives it, whatever sequence of
\* instructions is executed (state/oracle_attestation.rs, state/registry/oracle.rs).
THEOREM TypeCorrect == Spec => []TypeOK
<1>1. Init => TypeOK
  BY QuorumAssumption, KeysAssumption
  DEF Init, TypeOK, OracleRegistry, OracleQuorumConfig, OracleStake,
      OracleAttestation, NewAttestation, Minted, NotMinted,
      ORACLE_ATTESTATION_THRESHOLD
<1>2. TypeOK /\ [Next]_vars => TypeOK'
  <2> SUFFICES ASSUME TypeOK, [Next]_vars PROVE TypeOK'
    OBVIOUS
  <2> USE DEF TypeOK
  <2>1. CASE UNCHANGED vars
    BY <2>1 DEF vars
  <2>2. ASSUME NEW k \in Keys, InitializeOracleRegistry(k) PROVE TypeOK'
    BY <2>2 DEF InitializeOracleRegistry, quorumVars, rewardVars, otherVars, OracleRegistry
  <2>3. ASSUME NEW k \in Keys, NEW o \in Oracles, AddOracle(k, o) PROVE TypeOK'
    BY <2>3 DEF AddOracle, quorumVars, rewardVars, otherVars, OracleRegistry
  <2>4. ASSUME NEW k \in Keys, NEW o \in Oracles, RemoveOracle(k, o) PROVE TypeOK'
    BY <2>4 DEF RemoveOracle, quorumVars, rewardVars, otherVars, OracleRegistry
  <2>5. ASSUME NEW k \in Keys, NEW o \in Oracles, SlashOracle(k, o) PROVE TypeOK'
    BY <2>5 DEF SlashOracle, quorumVars, rewardVars, otherVars, OracleStake
  <2>6. ASSUME NEW k \in Keys, NEW new \in Keys \cup {DefaultKey},
               SetOracleAdmin(k, new) \/ SetOracleRegistryAuthority(k, new)
        PROVE  TypeOK'
    BY <2>6 DEF SetOracleAdmin, SetOracleRegistryAuthority, quorumVars, rewardVars, otherVars,
                OracleRegistry
  <2>7. ASSUME NEW k \in Keys, NEW new \in Keys \cup {DefaultKey},
               SetQuorumAuthority(k, new)
        PROVE  TypeOK'
    BY <2>7 DEF SetQuorumAuthority, quorumVars, rewardVars, otherVars, OracleQuorumConfig
  <2>8. ASSUME NEW k \in Keys, NEW required \in BOOLEAN, NEW t \in Thresholds,
               NEW reward \in Rewards,
               InitOracleQuorum(k, required, t, reward)
                 \/ SetOracleQuorum(k, required, t, reward)
        PROVE  TypeOK'
    <3>1. t \in Nat /\ reward \in Nat
      BY QuorumAssumption
    <3>2. config' \in OracleQuorumConfig
      <4>1. CASE InitOracleQuorum(k, required, t, reward)
        BY <3>1, <4>1 DEF InitOracleQuorum, OracleQuorumConfig
      <4>2. CASE SetOracleQuorum(k, required, t, reward)
        BY <3>1, <4>2 DEF SetOracleQuorum, OracleQuorumConfig
      <4>3. QED
        BY <2>8, <4>1, <4>2
    <3>3. highest' \in Nat
      BY <2>8, <3>1 DEF InitOracleQuorum, SetOracleQuorum, Larger
    <3>4. QED
      BY <2>8, <3>2, <3>3 DEF InitOracleQuorum, SetOracleQuorum, quorumVars, rewardVars
  <2>9. ASSUME NEW o \in Oracles, NEW lamports \in Deposits, StakeOracle(o, lamports)
        PROVE  TypeOK'
    <3>1. stake[o].lamports + lamports \in Nat
      BY QuorumAssumption DEF OracleStake
    <3>2. stake' = [stake EXCEPT ![o] =
                      [stake[o] EXCEPT !.exists = TRUE, !.lamports = @ + lamports]]
      BY <2>9 DEF StakeOracle, OracleStake
    <3>3. stake' \in [Oracles -> OracleStake]
      BY <3>1, <3>2 DEF OracleStake
    <3>4. QED
      BY <2>9, <3>3 DEF StakeOracle, quorumVars, rewardVars, otherVars
  <2>10. ASSUME NEW a \in Attestations, NEW o \in Oracles, CastVote(a, o)
         PROVE  TypeOK'
    <3>1. PICK h \in Hashes \cup {ZeroHash}, withConfig \in BOOLEAN :
             SubmitOracleAttestation(a, o, h, withConfig)
      BY <2>10 DEF CastVote
    <3>2. h \in Hashes
      BY <3>1 DEF SubmitOracleAttestation
    <3>3. ApplyVote(attestation[a], h) \in OracleAttestation
      BY <3>2, ApplyVoteType
    <3>4. attestation' \in [Attestations -> OracleAttestation]
      BY <3>1, <3>3
      DEF SubmitOracleAttestation, OracleAttestation, IsFinalized
    <3>5. QED
      BY <3>1, <3>2, <3>4 DEF SubmitOracleAttestation, rewardVars, otherVars
  <2>11. ASSUME NEW a \in Attestations, NEW o \in Oracles, ClaimOracleReward(a, o)
         PROVE  TypeOK'
    BY <2>11, QuorumAssumption DEF ClaimOracleReward, quorumVars, otherVars, OracleQuorumConfig
  <2>12. ASSUME NEW a \in Attestations, NEW h \in Hashes, NEW presented \in BOOLEAN,
                MintEnergy(a, h, presented)
         PROVE  TypeOK'
    <3>1. [proof_hash |-> h, gated |-> config.required] \in Minted
      BY DEF Minted, OracleQuorumConfig
    <3>2. minted' \in [Attestations -> Minted]
      BY <2>12, <3>1 DEF MintEnergy
    <3>3. QED
      BY <2>12, <3>2 DEF MintEnergy, quorumVars, rewardVars
  <2>13. QED
    BY <2>1, <2>2, <2>3, <2>4, <2>5, <2>6, <2>7, <2>8, <2>9, <2>10, <2>11, <2>12
    DEF Next, Administer, Operate, Mint
<1>3. QED
  BY <1>1, <1>2, PTL DEF Spec
-----------------------------------------------------------------------------
(* The inductive invariant behind the quorum properties.                   *)

\* votes = 0 is exactly "no oracle voted yet"; from the first vote on there is a
\* canonical hash.
CanonicalHashFixedByFirstVote ==
  \A a \in Attestations :
    IF attestation[a].votes = 0
    THEN /\ attestation[a].proof_hash = ZeroHash
         /\ \A o \in Oracles : vote[a][o] = ZeroHash
    ELSE attestation[a].proof_hash \in Hashes

FinalizedHasTwoVotes ==
  \A a \in Attestations : attestation[a].finalized => attestation[a].votes >= 2

ConfiguredThresholdValid == config.exists => config.threshold >= 2

\* The conflict flag in terms of the canonical hash.
ConflictIsDissent ==
  \A a \in Attestations :
    attestation[a].conflict <=>
      \E o \in Oracles : /\ vote[a][o] # ZeroHash
                         /\ vote[a][o] # attestation[a].proof_hash

QuorumInv ==
  /\ TypeOK
  /\ ConfiguredThresholdValid
  /\ CanonicalHashFixedByFirstVote
  /\ VotesCountAgreeing
  /\ FinalizedHasTwoVotes
  /\ ConflictIsDissent

\* A vote changes nothing in other attestations and adds one agreeing oracle exactly
\* when it carries the canonical hash.
VoteEffectOn(a, o, h, withConfig) ==
  /\ h # ZeroHash
  /\ \A b \in Attestations \ {a} :
       attestation'[b] = attestation[b] /\ vote'[b] = vote[b]
  /\ vote'[a] = [vote[a] EXCEPT ![o] = h]
  /\ o \notin Agreeing(a)
  /\ attestation[a].votes = 0 =>
       /\ attestation'[a].votes = 1
       /\ attestation'[a].proof_hash = h
       /\ attestation'[a].conflict = attestation[a].conflict
       /\ Agreeing(a)' = {o} /\ Agreeing(a) = {}
  /\ attestation[a].votes # 0 /\ attestation[a].proof_hash = h =>
       /\ attestation'[a].votes = SaturatingInc(attestation[a].votes)
       /\ attestation'[a].proof_hash = h
       /\ attestation'[a].conflict = attestation[a].conflict
       /\ Agreeing(a)' = Agreeing(a) \cup {o}
  /\ attestation[a].votes # 0 /\ attestation[a].proof_hash # h =>
       /\ attestation'[a].votes = attestation[a].votes
       /\ attestation'[a].proof_hash = attestation[a].proof_hash
       /\ attestation'[a].conflict = TRUE
       /\ Agreeing(a)' = Agreeing(a)
  /\ attestation'[a].finalized <=>
       \/ attestation[a].finalized
       \/ attestation'[a].votes >= EffectiveThreshold(withConfig)

LEMMA VoteEffect ==
  ASSUME QuorumInv, NEW a \in Attestations, NEW o \in Oracles, NEW h,
         NEW withConfig \in BOOLEAN, SubmitOracleAttestation(a, o, h, withConfig)
  PROVE  VoteEffectOn(a, o, h, withConfig)
<1> USE DEF VoteEffectOn
<1> DEFINE att == ApplyVote(attestation[a], h)
<1> DEFINE t == EffectiveThreshold(withConfig)
<1>1. /\ attestation \in [Attestations -> OracleAttestation]
      /\ vote \in [Attestations -> [Oracles -> Hashes \cup {ZeroHash}]]
  BY DEF QuorumInv, TypeOK
<1>2. /\ vote[a][o] = ZeroHash /\ h # ZeroHash
      /\ vote' = [vote EXCEPT ![a][o] = h]
      /\ attestation' = [attestation EXCEPT ![a] =
           [att EXCEPT !.finalized = @ \/ IsFinalized(att, t)]]
  BY DEF SubmitOracleAttestation
<1>3. vote'[a] = [vote[a] EXCEPT ![o] = h] /\ o \notin Agreeing(a)
  BY <1>1, <1>2 DEF Agreeing
<1>4. \A b \in Attestations \ {a} : attestation'[b] = attestation[b] /\ vote'[b] = vote[b]
  BY <1>1, <1>2
<1>5. attestation'[a] = [att EXCEPT !.finalized = @ \/ IsFinalized(att, t)]
  BY <1>1, <1>2
<1>6. attestation[a] \in OracleAttestation
  BY <1>1
<1> HIDE DEF t
<1>7. CASE attestation[a].votes = 0
  <2>1. att = [attestation[a] EXCEPT !.proof_hash = h, !.votes = 1]
    BY <1>7 DEF ApplyVote
  <2>2. /\ attestation'[a].votes = 1 /\ attestation'[a].proof_hash = h
        /\ attestation'[a].conflict = attestation[a].conflict
        /\ attestation'[a].finalized <=> attestation[a].finalized \/ 1 >= t
    BY <1>5, <1>6, <2>1 DEF OracleAttestation, IsFinalized
  <2>3. \A p \in Oracles : vote[a][p] = ZeroHash
    BY <1>7 DEF QuorumInv, CanonicalHashFixedByFirstVote
  <2>4. Agreeing(a)' = {o} /\ Agreeing(a) = {}
    BY <1>1, <1>2, <1>3, <2>2, <2>3 DEF Agreeing
  <2>5. QED
    BY <1>2, <1>3, <1>4, <1>7, <2>2, <2>4 DEF t
<1>8. CASE attestation[a].votes # 0 /\ attestation[a].proof_hash = h
  <2>1. att = [attestation[a] EXCEPT !.votes = SaturatingInc(attestation[a].votes)]
    BY <1>8 DEF ApplyVote
  <2>2. /\ attestation'[a].votes = SaturatingInc(attestation[a].votes)
        /\ attestation'[a].proof_hash = h
        /\ attestation'[a].conflict = attestation[a].conflict
        /\ attestation'[a].finalized <=>
             attestation[a].finalized \/ attestation'[a].votes >= t
    BY <1>5, <1>6, <1>8, <2>1 DEF OracleAttestation, IsFinalized
  <2>3. Agreeing(a)' = Agreeing(a) \cup {o}
    BY <1>1, <1>2, <1>3, <1>8, <2>2 DEF Agreeing
  <2>4. QED
    BY <1>2, <1>3, <1>4, <1>8, <2>2, <2>3 DEF t
<1>9. CASE attestation[a].votes # 0 /\ attestation[a].proof_hash # h
  <2>1. att = [attestation[a] EXCEPT !.conflict = TRUE]
    BY <1>9 DEF ApplyVote
  <2>2. /\ attestation'[a].votes = attestation[a].votes
        /\ attestation'[a].proof_hash = attestation[a].proof_hash
        /\ attestation'[a].conflict = TRUE
        /\ attestation'[a].finalized <=>
             attestation[a].finalized \/ attestation'[a].votes >= t
    BY <1>5, <1>6, <2>1 DEF OracleAttestation, IsFinalized
  <2>3. Agreeing(a)' = Agreeing(a)
    BY <1>1, <1>2, <1>3, <1>9, <2>2 DEF Agreeing
  <2>4. QED
    BY <1>2, <1>3, <1>4, <1>9, <2>2, <2>3 DEF t
<1>10. QED
  BY <1>7, <1>8, <1>9
\* Instructions that leave attestations and votes alone keep the invariant, provided
\* they leave a valid configuration.
LEMMA OtherInstructions ==
  ASSUME QuorumInv, TypeOK', UNCHANGED quorumVars, ConfiguredThresholdValid'
  PROVE  QuorumInv'
<1>1. \A a : Agreeing(a)' = Agreeing(a)
  BY DEF quorumVars, Agreeing
<1>2. QED
  BY <1>1 DEF QuorumInv, quorumVars, CanonicalHashFixedByFirstVote, VotesCountAgreeing,
              FinalizedHasTwoVotes, ConflictIsDissent

\* One vote keeps the invariant.
LEMMA VoteKeepsInv ==
  ASSUME QuorumInv, TypeOK', NEW a \in Attestations, NEW o \in Oracles, NEW h,
         NEW withConfig \in BOOLEAN, SubmitOracleAttestation(a, o, h, withConfig)
  PROVE  QuorumInv'
<1> VoteEffectOn(a, o, h, withConfig)
  BY VoteEffect
<1>1. /\ attestation \in [Attestations -> OracleAttestation]
      /\ attestation' \in [Attestations -> OracleAttestation]
      /\ vote \in [Attestations -> [Oracles -> Hashes \cup {ZeroHash}]]
      /\ vote' \in [Attestations -> [Oracles -> Hashes \cup {ZeroHash}]]
      /\ TypeOK
  BY DEF QuorumInv, TypeOK
<1>2. attestation[a].votes \in Nat /\ attestation'[a].votes \in Nat
  BY <1>1 DEF OracleAttestation
<1>3. config' = config /\ ConfiguredThresholdValid'
  BY DEF SubmitOracleAttestation, QuorumInv, ConfiguredThresholdValid
<1>4. EffectiveThreshold(withConfig) >= 2
  BY DEF QuorumInv, ConfiguredThresholdValid, EffectiveThreshold,
         ORACLE_ATTESTATION_THRESHOLD, SubmitOracleAttestation
<1>5. EffectiveThreshold(withConfig) \in Nat
  BY <1>1 DEF TypeOK, OracleQuorumConfig, EffectiveThreshold,
              ORACLE_ATTESTATION_THRESHOLD
<1>6. \A b \in Attestations \ {a} :
        attestation'[b] = attestation[b] /\ vote'[b] = vote[b]
  BY DEF VoteEffectOn
<1>7. h \in Hashes /\ vote'[a][o] = h
  BY <1>1, QuorumAssumption DEF VoteEffectOn
<1>8. CanonicalHashFixedByFirstVote'
  <2> SUFFICES ASSUME NEW b \in Attestations
               PROVE  IF attestation'[b].votes = 0
                      THEN /\ attestation'[b].proof_hash = ZeroHash
                           /\ \A p \in Oracles : vote'[b][p] = ZeroHash
                      ELSE attestation'[b].proof_hash \in Hashes
    BY DEF CanonicalHashFixedByFirstVote
  <2>1. CASE b # a
    BY <1>6, <2>1 DEF QuorumInv, CanonicalHashFixedByFirstVote
  <2>2. CASE b = a
    <3>1. attestation'[a].votes # 0
      BY <1>2, QuorumAssumption DEF VoteEffectOn, SaturatingInc
    <3>2. attestation'[a].proof_hash \in Hashes
      BY <1>7 DEF VoteEffectOn, QuorumInv, CanonicalHashFixedByFirstVote
    <3>3. QED
      BY <2>2, <3>1, <3>2
  <2>3. QED
    BY <2>1, <2>2
<1>9. VotesCountAgreeing'
  <2> SUFFICES ASSUME NEW b \in Attestations
               PROVE  attestation'[b].votes =
                        IF Cardinality(Agreeing(b)') < U8Max
                        THEN Cardinality(Agreeing(b)') ELSE U8Max
    BY DEF VotesCountAgreeing
  <2>1. CASE b # a
    <3>1. Agreeing(b)' = Agreeing(b)
      BY <1>6, <2>1 DEF Agreeing
    <3>2. QED
      BY <1>6, <2>1, <3>1 DEF QuorumInv, VotesCountAgreeing
  <2>2. CASE b = a
    <3>1. IsFiniteSet(Agreeing(a)) /\ Cardinality(Agreeing(a)) \in Nat
      BY FS_Subset, FS_CardinalityType, QuorumAssumption DEF Agreeing
    <3>2. attestation[a].votes = IF Cardinality(Agreeing(a)) < U8Max
                                 THEN Cardinality(Agreeing(a)) ELSE U8Max
      BY DEF QuorumInv, VotesCountAgreeing
    <3>3. Cardinality(Agreeing(a) \cup {o}) = Cardinality(Agreeing(a)) + 1
      BY <3>1, FS_AddElement DEF VoteEffectOn
    <3>4. CASE attestation[a].votes = 0
      <4>1. Agreeing(a)' = {o} /\ attestation'[a].votes = 1
        BY <3>4 DEF VoteEffectOn
      <4>2. Cardinality({o}) = 1
        BY FS_Singleton
      <4>3. QED
        BY <2>2, <4>1, <4>2, QuorumAssumption
    <3>5. CASE attestation[a].votes # 0 /\ attestation[a].proof_hash = h
      <4>1. /\ Agreeing(a)' = Agreeing(a) \cup {o}
            /\ attestation'[a].votes = SaturatingInc(attestation[a].votes)
        BY <3>5 DEF VoteEffectOn
      <4>2. QED
        BY <2>2, <3>1, <3>2, <3>3, <4>1, QuorumAssumption DEF SaturatingInc
    <3>6. CASE attestation[a].votes # 0 /\ attestation[a].proof_hash # h
      BY <2>2, <3>2, <3>6 DEF VoteEffectOn
    <3>7. QED
      BY <3>4, <3>5, <3>6
  <2>3. QED
    BY <2>1, <2>2
<1>10. FinalizedHasTwoVotes'
  <2> SUFFICES ASSUME NEW b \in Attestations, attestation'[b].finalized
               PROVE  attestation'[b].votes >= 2
    BY DEF FinalizedHasTwoVotes
  <2>1. CASE b # a
    BY <1>6, <2>1 DEF QuorumInv, FinalizedHasTwoVotes
  <2>2. CASE b = a /\ attestation[a].finalized
    <3>1. attestation[a].votes >= 2
      BY <2>2 DEF QuorumInv, FinalizedHasTwoVotes
    <3>2. attestation'[a].votes >= attestation[a].votes
      BY <1>2, <3>1 DEF VoteEffectOn, SaturatingInc
    <3>3. QED
      BY <1>2, <2>2, <3>1, <3>2
  <2>3. CASE b = a /\ ~attestation[a].finalized
    <3>1. attestation'[a].votes >= EffectiveThreshold(withConfig)
      BY <2>3 DEF VoteEffectOn
    <3>2. QED
      BY <1>2, <1>4, <1>5, <2>3, <3>1
  <2>4. QED
    BY <2>1, <2>2, <2>3
<1>11. ConflictIsDissent'
  <2> SUFFICES ASSUME NEW b \in Attestations
               PROVE  attestation'[b].conflict <=>
                        \E p \in Oracles : /\ vote'[b][p] # ZeroHash
                                           /\ vote'[b][p] # attestation'[b].proof_hash
    BY DEF ConflictIsDissent
  <2>0. attestation[b].conflict <=>
          \E p \in Oracles : /\ vote[b][p] # ZeroHash
                             /\ vote[b][p] # attestation[b].proof_hash
    BY DEF QuorumInv, ConflictIsDissent
  <2>1. CASE b # a
    BY <1>6, <2>0, <2>1
  <2>2. CASE b = a
    <3>1. \A p \in Oracles : vote'[a][p] = IF p = o THEN h ELSE vote[a][p]
      BY <1>1 DEF VoteEffectOn
    <3>2. CASE attestation[a].votes = 0
      <4>1. \A p \in Oracles : vote[a][p] = ZeroHash
        BY <3>2 DEF QuorumInv, CanonicalHashFixedByFirstVote
      <4>2. /\ attestation'[a].proof_hash = h
            /\ attestation'[a].conflict = attestation[a].conflict
        BY <3>2 DEF VoteEffectOn
      <4>3. ~attestation[a].conflict
        BY <2>0, <2>2, <4>1
      <4>4. QED
        BY <2>2, <3>1, <4>1, <4>2, <4>3
    <3>3. CASE attestation[a].votes # 0 /\ attestation[a].proof_hash = h
      <4>1. /\ attestation'[a].proof_hash = h
            /\ attestation'[a].conflict = attestation[a].conflict
            /\ vote[a][o] = ZeroHash
        BY <3>3 DEF VoteEffectOn, SubmitOracleAttestation
      <4>2. QED
        BY <2>0, <2>2, <3>1, <3>3, <4>1
    <3>4. CASE attestation[a].votes # 0 /\ attestation[a].proof_hash # h
      <4>1. /\ attestation'[a].proof_hash = attestation[a].proof_hash
            /\ attestation'[a].conflict
        BY <3>4 DEF VoteEffectOn
      <4>2. h # ZeroHash
        BY DEF VoteEffectOn
      <4>3. QED
        BY <2>2, <3>1, <3>4, <4>1, <4>2
    <3>5. QED
      BY <3>2, <3>3, <3>4
  <2>3. QED
    BY <2>1, <2>2
<1>12. QED
  BY <1>3, <1>8, <1>9, <1>10, <1>11 DEF QuorumInv
\* What every instruction but the vote leaves alone.
LEMMA StepKinds ==
  ASSUME TypeOK, ConfiguredThresholdValid, [Next]_vars
  PROVE  \/ /\ UNCHANGED quorumVars
            /\ ConfiguredThresholdValid'
         \/ \E a \in Attestations, o \in Oracles, h \in Hashes, withConfig \in BOOLEAN :
              SubmitOracleAttestation(a, o, h, withConfig)
<1> USE DEF ConfiguredThresholdValid, quorumVars, rewardVars
<1>1. CASE UNCHANGED vars
  BY <1>1 DEF vars
<1>2. ASSUME NEW k \in Keys, NEW o \in Oracles,
             AddOracle(k, o) \/ RemoveOracle(k, o) \/ SlashOracle(k, o)
      PROVE  UNCHANGED quorumVars /\ ConfiguredThresholdValid'
  BY <1>2 DEF AddOracle, RemoveOracle, SlashOracle
<1>3. ASSUME NEW k \in Keys, InitializeOracleRegistry(k)
      PROVE  UNCHANGED quorumVars /\ ConfiguredThresholdValid'
  BY <1>3 DEF InitializeOracleRegistry
<1>4. ASSUME NEW k \in Keys, NEW new \in Keys \cup {DefaultKey},
             \/ SetOracleAdmin(k, new) \/ SetOracleRegistryAuthority(k, new)
             \/ SetQuorumAuthority(k, new)
      PROVE  UNCHANGED quorumVars /\ ConfiguredThresholdValid'
  BY <1>4 DEF SetOracleAdmin, SetOracleRegistryAuthority, SetQuorumAuthority, TypeOK,
              OracleQuorumConfig
<1>5. ASSUME NEW k \in Keys, NEW required \in BOOLEAN, NEW t \in Thresholds,
             NEW reward \in Rewards,
             \/ InitOracleQuorum(k, required, t, reward)
             \/ SetOracleQuorum(k, required, t, reward)
      PROVE  UNCHANGED quorumVars /\ ConfiguredThresholdValid'
  <2>1. UNCHANGED quorumVars
    BY <1>5 DEF InitOracleQuorum, SetOracleQuorum
  <2>2. config'.threshold = t
    <3>1. CASE InitOracleQuorum(k, required, t, reward)
      BY <3>1 DEF InitOracleQuorum
    <3>2. CASE SetOracleQuorum(k, required, t, reward)
      BY <3>2 DEF SetOracleQuorum, TypeOK, OracleQuorumConfig
    <3>3. QED
      BY <1>5, <3>1, <3>2
  <2>3. 2 <= t /\ t \in Nat
    BY <1>5, QuorumAssumption
    DEF InitOracleQuorum, SetOracleQuorum, ValidThreshold, MinThreshold
  <2>4. QED
    BY <2>1, <2>2, <2>3
<1>6. ASSUME NEW o \in Oracles, NEW lamports \in Deposits, StakeOracle(o, lamports)
      PROVE  UNCHANGED quorumVars /\ ConfiguredThresholdValid'
  BY <1>6 DEF StakeOracle
<1>7. ASSUME NEW a \in Attestations, NEW o \in Oracles, ClaimOracleReward(a, o)
      PROVE  UNCHANGED quorumVars /\ ConfiguredThresholdValid'
  BY <1>7 DEF ClaimOracleReward
<1>8. ASSUME NEW a \in Attestations, NEW o \in Oracles, CastVote(a, o)
      PROVE  \E h \in Hashes, withConfig \in BOOLEAN :
               SubmitOracleAttestation(a, o, h, withConfig)
  BY <1>8 DEF CastVote, SubmitOracleAttestation
<1>9. ASSUME NEW a \in Attestations, NEW h \in Hashes, NEW presented \in BOOLEAN,
             MintEnergy(a, h, presented)
      PROVE  UNCHANGED quorumVars /\ ConfiguredThresholdValid'
  BY <1>9 DEF MintEnergy
<1>10. QED
  BY <1>1, <1>2, <1>3, <1>4, <1>5, <1>6, <1>7, <1>8, <1>9
  DEF Next, Administer, Operate, Mint

\* The counter, the canonical hash, the finalized flag and the conflict flag stay in
\* step with the vote accounts in every reachable state.
THEOREM QuorumInvariant == Spec => []QuorumInv
<1>1. Init => QuorumInv
  <2> SUFFICES ASSUME Init PROVE QuorumInv
    OBVIOUS
  <2>1. TypeOK
    BY QuorumAssumption, KeysAssumption
    DEF Init, TypeOK, OracleRegistry, OracleQuorumConfig, OracleStake,
        OracleAttestation, NewAttestation, Minted, NotMinted,
        ORACLE_ATTESTATION_THRESHOLD
  <2>2. \A a \in Attestations :
          /\ attestation[a] = NewAttestation
          /\ \A o \in Oracles : vote[a][o] = ZeroHash
          /\ Agreeing(a) = {}
    BY DEF Init, Agreeing
  <2>3. VotesCountAgreeing
    <3>1. 0 < U8Max
      BY QuorumAssumption
    <3>2. \A a \in Attestations : Cardinality(Agreeing(a)) = 0
      BY <2>2, FS_EmptySet
    <3>3. QED
      BY <2>2, <3>1, <3>2 DEF VotesCountAgreeing, NewAttestation
  <2>4. /\ ConfiguredThresholdValid /\ CanonicalHashFixedByFirstVote
        /\ FinalizedHasTwoVotes /\ ConflictIsDissent
    BY <2>2
    DEF Init, NewAttestation, ConfiguredThresholdValid, CanonicalHashFixedByFirstVote,
        FinalizedHasTwoVotes, ConflictIsDissent
  <2>5. QED
    BY <2>1, <2>3, <2>4 DEF QuorumInv
<1>2. QuorumInv /\ TypeOK' /\ [Next]_vars => QuorumInv'
  <2> SUFFICES ASSUME QuorumInv, TypeOK', [Next]_vars PROVE QuorumInv'
    OBVIOUS
  <2>1. TypeOK /\ ConfiguredThresholdValid
    BY DEF QuorumInv
  <2>2. CASE UNCHANGED quorumVars /\ ConfiguredThresholdValid'
    BY <2>2, OtherInstructions
  <2>3. ASSUME NEW a \in Attestations, NEW o \in Oracles, NEW h \in Hashes,
               NEW withConfig \in BOOLEAN, SubmitOracleAttestation(a, o, h, withConfig)
        PROVE  QuorumInv'
    BY <2>3, VoteKeepsInv
  <2>4. QED
    BY <2>1, <2>2, <2>3, StepKinds
<1>3. QED
  BY <1>1, <1>2, TypeCorrect, PTL DEF Spec

\* The u8 counter of OracleAttestation is the number of distinct agreeing oracles, for
\* any number of oracles that come and go.
THEOREM CounterIsExact == Spec => []VotesCountAgreeing
<1>1. QuorumInv => VotesCountAgreeing
  BY DEF QuorumInv
<1>2. QED
  BY <1>1, QuorumInvariant, PTL

\* Two counted votes are two oracles.
LEMMA QuorumBacks ==
  ASSUME QuorumInv
  PROVE  FinalizedHasQuorum
<1> SUFFICES ASSUME NEW a \in Attestations, attestation[a].finalized
             PROVE  Cardinality(Agreeing(a)) >= 2
  BY DEF FinalizedHasQuorum
<1>1. attestation[a].votes >= 2
  BY DEF QuorumInv, FinalizedHasTwoVotes
<1>2. attestation[a].votes = IF Cardinality(Agreeing(a)) < U8Max
                             THEN Cardinality(Agreeing(a)) ELSE U8Max
  BY DEF QuorumInv, VotesCountAgreeing
<1>3. Cardinality(Agreeing(a)) \in Nat
  BY FS_Subset, FS_CardinalityType, QuorumAssumption DEF Agreeing
<1>4. QED
  BY <1>1, <1>2, <1>3, QuorumAssumption

\* A finalized attestation carries the signatures of two distinct oracles on exactly
\* its canonical hash, whatever thresholds were configured and whoever passes or omits
\* the configuration account.
THEOREM QuorumSafety == Spec => []FinalizedHasQuorum
<1>1. QuorumInv => FinalizedHasQuorum
  BY QuorumBacks
<1>2. QED
  BY <1>1, QuorumInvariant, PTL

\* The conflict flag is raised exactly when two oracles signed different hashes.
THEOREM ConflictEvidence == Spec => []ConflictIsEvidence
<1>1. QuorumInv => ConflictIsEvidence
  <2> SUFFICES ASSUME QuorumInv, NEW a \in Attestations
               PROVE  attestation[a].conflict <=>
                        \E o, p \in Oracles : /\ vote[a][o] # ZeroHash
                                              /\ vote[a][p] # ZeroHash
                                              /\ vote[a][o] # vote[a][p]
    BY DEF ConflictIsEvidence
  <2>1. attestation[a].conflict <=>
          \E o \in Oracles : vote[a][o] # ZeroHash /\ vote[a][o] # attestation[a].proof_hash
    BY DEF QuorumInv, ConflictIsDissent
  <2>2. CASE attestation[a].votes = 0
    <3>1. \A o \in Oracles : vote[a][o] = ZeroHash
      BY <2>2 DEF QuorumInv, CanonicalHashFixedByFirstVote
    <3>2. QED
      BY <2>1, <3>1
  <2>3. CASE attestation[a].votes # 0
    <3>1. Agreeing(a) # {}
      <4>1. 0 < U8Max
        BY QuorumAssumption
      <4>2. attestation[a].votes = IF Cardinality(Agreeing(a)) < U8Max
                                   THEN Cardinality(Agreeing(a)) ELSE U8Max
        BY DEF QuorumInv, VotesCountAgreeing
      <4>3. Agreeing(a) = {} => Cardinality(Agreeing(a)) = 0
        BY FS_EmptySet
      <4>4. QED
        BY <2>3, <4>1, <4>2, <4>3
    <3>2. PICK q \in Oracles :
            vote[a][q] # ZeroHash /\ vote[a][q] = attestation[a].proof_hash
      BY <3>1 DEF Agreeing
    <3>3. QED
      BY <2>1, <3>2
  <2>4. QED
    BY <2>2, <2>3
<1>2. QED
  BY <1>1, QuorumInvariant, PTL

\* A step either leaves every attestation alone, or is one oracle's first vote on one
\* attestation: the hash and the finalized flag it finds there stay.
LEMMA StepKeepsDecision ==
  ASSUME QuorumInv, QuorumInv', [Next]_vars, NEW a \in Attestations
  PROVE  /\ attestation[a].votes > 0 =>
              attestation'[a].proof_hash = attestation[a].proof_hash
         /\ attestation[a].votes <= attestation'[a].votes
         /\ attestation[a].finalized => attestation'[a].finalized
<1>1. attestation[a].votes \in Nat /\ attestation'[a].votes \in Nat
  BY DEF QuorumInv, TypeOK, OracleAttestation
<1>2. TypeOK /\ ConfiguredThresholdValid
  BY DEF QuorumInv
<1>3. CASE UNCHANGED quorumVars
  BY <1>1, <1>3 DEF quorumVars
<1>4. ASSUME NEW b \in Attestations, NEW o \in Oracles, NEW h \in Hashes,
             NEW withConfig \in BOOLEAN, SubmitOracleAttestation(b, o, h, withConfig)
      PROVE  /\ attestation[a].votes > 0 =>
                  attestation'[a].proof_hash = attestation[a].proof_hash
             /\ attestation[a].votes <= attestation'[a].votes
             /\ attestation[a].finalized => attestation'[a].finalized
  <2>1. VoteEffectOn(b, o, h, withConfig)
    BY <1>4, VoteEffect
  <2>2. CASE a # b
    BY <1>1, <2>1, <2>2 DEF VoteEffectOn
  <2>3. CASE a = b
    <3>1. SaturatingInc(attestation[a].votes) >= attestation[a].votes
      BY <1>1 DEF SaturatingInc
    <3>2. QED
      BY <1>1, <2>1, <2>3, <3>1 DEF VoteEffectOn
  <2>4. QED
    BY <2>2, <2>3
<1>5. QED
  BY <1>2, <1>3, <1>4, StepKinds

\* The canonical hash and finalization are never undone or replaced.
THEOREM Irrevocability == Spec => AttestationIsIrrevocable
<1>1. QuorumInv /\ QuorumInv' /\ [Next]_vars =>
        [\A a \in Attestations :
           /\ attestation[a].votes > 0 =>
                attestation'[a].proof_hash = attestation[a].proof_hash
           /\ attestation[a].votes <= attestation'[a].votes
           /\ attestation[a].finalized => attestation'[a].finalized]_vars
  BY StepKeepsDecision
<1>2. QED
  BY <1>1, QuorumInvariant, PTL DEF Spec, AttestationIsIrrevocable

\* A deposit that exists covers the minimum, or was slashed.
DepositsCover ==
  \A o \in Oracles : stake[o].exists => stake[o].lamports >= MinStake \/ stake[o].slashed

AccountableInv == DepositsCover /\ VotersAreAccountable

\* What a step does to one deposit: nothing, a further deposit, or a slash.
LEMMA DepositSteps ==
  ASSUME TypeOK, [Next]_vars, NEW o \in Oracles
  PROVE  \/ stake'[o] = stake[o]
         \/ /\ stake'[o].exists /\ stake'[o].slashed = stake[o].slashed
            /\ stake'[o].lamports >= MinStake /\ stake'[o].lamports >= stake[o].lamports
         \/ stake'[o].slashed
<1>1. stake \in [Oracles -> OracleStake]
  BY DEF TypeOK
<1>2. ASSUME NEW p \in Oracles, NEW lamports \in Deposits, StakeOracle(p, lamports)
      PROVE  \/ stake'[o] = stake[o]
             \/ /\ stake'[o].exists /\ stake'[o].slashed = stake[o].slashed
                /\ stake'[o].lamports >= MinStake /\ stake'[o].lamports >= stake[o].lamports
  <2>1. /\ stake' = [stake EXCEPT ![p].exists = TRUE, ![p].lamports = @ + lamports]
        /\ lamports >= MinStake
    BY <1>2 DEF StakeOracle
  <2>2. lamports \in Nat /\ MinStake \in Nat /\ stake[o] \in OracleStake
    BY <1>1, QuorumAssumption
  <2>3. CASE o = p
    <3>1. stake'[o] = [stake[o] EXCEPT !.exists = TRUE, !.lamports = @ + lamports]
      BY <1>1, <2>1, <2>3
    <3>2. /\ stake'[o].exists /\ stake'[o].slashed = stake[o].slashed
          /\ stake'[o].lamports = stake[o].lamports + lamports
      BY <2>2, <3>1 DEF OracleStake
    <3>3. stake[o].lamports \in Nat
      BY <2>2 DEF OracleStake
    <3>4. \A n \in Nat : n + lamports >= MinStake /\ n + lamports >= n
      BY <2>1, <2>2
    <3>5. QED
      BY <3>2, <3>3, <3>4
  <2>4. CASE o # p
    BY <1>1, <2>1, <2>4
  <2>5. QED
    BY <2>3, <2>4
<1>3. ASSUME NEW k \in Keys, NEW p \in Oracles, SlashOracle(k, p)
      PROVE  stake'[o] = stake[o] \/ stake'[o].slashed
  BY <1>1, <1>3 DEF SlashOracle, OracleStake
<1>4. \/ UNCHANGED stake
      \/ \E p \in Oracles, lamports \in Deposits : StakeOracle(p, lamports)
      \/ \E k \in Keys, p \in Oracles : SlashOracle(k, p)
  BY DEF Next, Administer, Operate, Mint, CastVote, vars,
         InitializeOracleRegistry, AddOracle, RemoveOracle, SetOracleAdmin,
         SetOracleRegistryAuthority, SetQuorumAuthority, InitOracleQuorum, SetOracleQuorum,
         SubmitOracleAttestation, ClaimOracleReward, MintEnergy
<1>5. QED
  BY <1>2, <1>3, <1>4

\* A vote is cast on a deposit that covers the minimum, and nothing but a slash takes a
\* deposit away: every vote has a deposit, or a slash, behind it.
THEOREM Accountability == Spec => []VotersAreAccountable
<1>1. Init => AccountableInv
  BY DEF Init, AccountableInv, DepositsCover, VotersAreAccountable
<1>2. QuorumInv /\ QuorumInv' /\ AccountableInv /\ [Next]_vars => AccountableInv'
  <2> SUFFICES ASSUME QuorumInv, QuorumInv', AccountableInv, [Next]_vars
               PROVE  AccountableInv'
    OBVIOUS
  <2>1. /\ TypeOK /\ ConfiguredThresholdValid
        /\ stake \in [Oracles -> OracleStake] /\ stake' \in [Oracles -> OracleStake]
        /\ MinStake \in Nat
    BY QuorumAssumption DEF QuorumInv, TypeOK
  <2>2. DepositsCover'
    <3> SUFFICES ASSUME NEW o \in Oracles, stake'[o].exists
                 PROVE  stake'[o].lamports >= MinStake \/ stake'[o].slashed
      BY DEF DepositsCover
    <3>1. stake[o].exists => stake[o].lamports >= MinStake \/ stake[o].slashed
      BY DEF AccountableInv, DepositsCover
    <3>2. QED
      BY <2>1, <3>1, DepositSteps
  <2>3. ASSUME NEW a \in Attestations, NEW o \in Oracles, vote'[a][o] # ZeroHash
        PROVE  stake'[o].lamports >= MinStake \/ stake'[o].slashed
    <3>1. CASE vote[a][o] # ZeroHash
      <4>1. stake[o].lamports >= MinStake \/ stake[o].slashed
        BY <3>1 DEF AccountableInv, VotersAreAccountable
      <4>2. /\ stake[o].lamports \in Nat /\ stake'[o].lamports \in Nat
        BY <2>1 DEF OracleStake
      <4>3. QED
        BY <2>1, <4>1, <4>2, DepositSteps
    <3>2. CASE vote[a][o] = ZeroHash
      <4>1. PICK b \in Attestations, p \in Oracles, h \in Hashes, withConfig \in BOOLEAN :
              SubmitOracleAttestation(b, p, h, withConfig)
        BY <2>1, <2>3, <3>2, StepKinds DEF quorumVars
      <4>2. vote \in [Attestations -> [Oracles -> Hashes \cup {ZeroHash}]]
        BY <2>1 DEF TypeOK
      <4>3. p = o
        BY <2>3, <3>2, <4>1, <4>2 DEF SubmitOracleAttestation
      <4>4. stake[o].exists /\ ~stake[o].slashed /\ stake' = stake
        BY <4>1, <4>3 DEF SubmitOracleAttestation
      <4>5. QED
        BY <4>4 DEF AccountableInv, DepositsCover
    <3>3. QED
      BY <3>1, <3>2
  <2>4. QED
    BY <2>2, <2>3 DEF AccountableInv, VotersAreAccountable
<1>3. AccountableInv => VotersAreAccountable
  BY DEF AccountableInv
<1>4. QED
  BY <1>1, <1>2, <1>3, QuorumInvariant, PTL DEF Spec

\* The rewards follow the votes: a claimed vote exists, was paid exactly once, and its
\* attestation is finalized.
RewardInv ==
  \A a \in Attestations, o \in Oracles :
    /\ paid[a][o] = IF o \in claimed[a] THEN 1 ELSE 0
    /\ o \in claimed[a] => vote[a][o] # ZeroHash /\ attestation[a].finalized

LEMMA OnlyClaimsPay ==
  ASSUME [Next]_vars
  PROVE  \/ UNCHANGED <<claimed, paid>>
         \/ \E a \in Attestations, o \in Oracles : ClaimOracleReward(a, o)
BY DEF Next, Administer, Operate, Mint, MintEnergy, CastVote, vars, rewardVars,
       InitializeOracleRegistry, AddOracle, RemoveOracle, SlashOracle, SetOracleAdmin,
       SetOracleRegistryAuthority, SetQuorumAuthority, InitOracleQuorum, SetOracleQuorum,
       StakeOracle, SubmitOracleAttestation

\* A vote stays on the account it was written to.
LEMMA VotesPersist ==
  ASSUME QuorumInv, [Next]_vars, NEW a \in Attestations, NEW o \in Oracles,
         vote[a][o] # ZeroHash
  PROVE  vote'[a][o] = vote[a][o]
<1>1. vote \in [Attestations -> [Oracles -> Hashes \cup {ZeroHash}]]
  BY DEF QuorumInv, TypeOK
<1>2. TypeOK /\ ConfiguredThresholdValid
  BY DEF QuorumInv
<1>3. ASSUME NEW b \in Attestations, NEW p \in Oracles, NEW h \in Hashes,
             NEW withConfig \in BOOLEAN, SubmitOracleAttestation(b, p, h, withConfig)
      PROVE  vote'[a][o] = vote[a][o]
  BY <1>1, <1>3 DEF SubmitOracleAttestation
<1>4. QED
  BY <1>2, <1>3, StepKinds DEF quorumVars

\* No vote is paid twice, and none outside a finalized attestation.
THEOREM RewardSafety == Spec => []RewardedOncePerVote
<1>1. Init => RewardInv
  BY DEF Init, RewardInv
<1>2. QuorumInv /\ QuorumInv' /\ RewardInv /\ [Next]_vars => RewardInv'
  <2> SUFFICES ASSUME QuorumInv, QuorumInv', RewardInv, [Next]_vars,
                      NEW a \in Attestations, NEW o \in Oracles
               PROVE  /\ paid'[a][o] = IF o \in claimed'[a] THEN 1 ELSE 0
                      /\ o \in claimed'[a] =>
                           vote'[a][o] # ZeroHash /\ attestation'[a].finalized
    BY DEF RewardInv
  <2>1. vote[a][o] # ZeroHash => vote'[a][o] # ZeroHash
    BY VotesPersist
  <2>2. attestation[a].finalized => attestation'[a].finalized
    BY StepKeepsDecision
  <2>3. /\ paid[a][o] = IF o \in claimed[a] THEN 1 ELSE 0
        /\ o \in claimed[a] => vote[a][o] # ZeroHash /\ attestation[a].finalized
    BY DEF RewardInv
  <2>4. /\ claimed \in [Attestations -> SUBSET Oracles]
        /\ paid \in [Attestations -> [Oracles -> Nat]]
    BY DEF QuorumInv, TypeOK
  <2>5. CASE UNCHANGED <<claimed, paid>>
    BY <2>1, <2>2, <2>3, <2>5
  <2>6. ASSUME NEW b \in Attestations, NEW p \in Oracles, ClaimOracleReward(b, p)
        PROVE  /\ paid'[a][o] = IF o \in claimed'[a] THEN 1 ELSE 0
               /\ o \in claimed'[a] =>
                    vote'[a][o] # ZeroHash /\ attestation'[a].finalized
    <3>1. CASE a = b /\ o = p
      <4>1. /\ o \notin claimed[a] /\ o \in claimed'[a]
            /\ paid'[a][o] = paid[a][o] + 1
            /\ vote[a][o] # ZeroHash /\ attestation[a].finalized
        BY <2>4, <2>6, <3>1 DEF ClaimOracleReward
      <4>2. QED
        BY <2>1, <2>2, <2>3, <4>1
    <3>2. CASE ~(a = b /\ o = p)
      <4>1. paid'[a][o] = paid[a][o] /\ (o \in claimed'[a] <=> o \in claimed[a])
        BY <2>4, <2>6, <3>2 DEF ClaimOracleReward
      <4>2. QED
        BY <2>1, <2>2, <2>3, <4>1
    <3>3. QED
      BY <3>1, <3>2
  <2>7. QED
    BY <2>5, <2>6, OnlyClaimsPay
<1>3. RewardInv => RewardedOncePerVote
  BY DEF RewardInv, RewardedOncePerVote
<1>4. QED
  BY <1>1, <1>2, <1>3, QuorumInvariant, PTL DEF Spec-----------------------------------------------------------------------------
(* OracleQuorum implements AttestationPromise.                             *)

Accepted == [a \in Attestations |->
               IF attestation[a].finalized THEN attestation[a].proof_hash ELSE ZeroHash]

LEMMA TwoMembers ==
  ASSUME NEW S, IsFiniteSet(S), Cardinality(S) >= 2
  PROVE  \E p, q \in S : p # q
<1>1. Cardinality(S) \in Nat
  BY FS_CardinalityType
<1>2. PICK p : p \in S
  BY <1>1, FS_EmptySet
<1>3. Cardinality(S \ {p}) = Cardinality(S) - 1 /\ IsFiniteSet(S \ {p})
  BY <1>2, FS_RemoveElement
<1>4. PICK q : q \in S \ {p}
  BY <1>1, <1>3, FS_EmptySet
<1>5. QED
  BY <1>2, <1>4

\* A vote of the program is a signature of the promise; if it finalizes, what it makes
\* acceptable is a hash that two distinct oracles have signed by then.
LEMMA VoteImplementsSign ==
  ASSUME QuorumInv, QuorumInv', NEW a \in Attestations, NEW o \in Oracles,
         NEW h \in Hashes, NEW withConfig \in BOOLEAN,
         SubmitOracleAttestation(a, o, h, withConfig)
  PROVE  Promise!Sign(a, o, h)
<1>1. VoteEffectOn(a, o, h, withConfig)
  BY VoteEffect
<1>2. /\ attestation \in [Attestations -> OracleAttestation]
      /\ attestation' \in [Attestations -> OracleAttestation]
  BY DEF QuorumInv, TypeOK
<1>3. vote[a][o] = ZeroHash /\ vote' = [vote EXCEPT ![a][o] = h]
  BY DEF SubmitOracleAttestation
<1>4. \A b \in Attestations \ {a} : attestation'[b] = attestation[b]
  BY <1>1 DEF VoteEffectOn
<1>5. CASE attestation'[a].finalized = attestation[a].finalized
  <2>1. attestation[a].finalized => attestation[a].votes # 0
    BY <1>2 DEF QuorumInv, FinalizedHasTwoVotes, OracleAttestation
  <2>2. attestation[a].finalized =>
          attestation'[a].proof_hash = attestation[a].proof_hash
    BY <1>1, <2>1 DEF VoteEffectOn
  <2>3. Accepted' = Accepted
    BY <1>4, <1>5, <2>2 DEF Accepted
  <2>4. QED
    BY <1>3, <2>3 DEF Promise!Sign, Accepted
<1>6. CASE attestation'[a].finalized # attestation[a].finalized
  <2> DEFINE winner == attestation'[a].proof_hash
  <2>1. ~attestation[a].finalized /\ attestation'[a].finalized
    BY <1>1, <1>2, <1>6 DEF VoteEffectOn, OracleAttestation
  <2>2. attestation'[a].votes >= 2
    BY <2>1 DEF QuorumInv, FinalizedHasTwoVotes
  <2>3. winner \in Hashes
    BY <1>2, <2>2 DEF QuorumInv, CanonicalHashFixedByFirstVote, OracleAttestation
  <2>4. Agreeing(a)' = {p \in Oracles : vote'[a][p] = winner}
    BY <2>3, QuorumAssumption DEF Agreeing
  <2>5. Cardinality(Agreeing(a)') >= 2
    <3>1. attestation'[a].votes = IF Cardinality(Agreeing(a)') < U8Max
                                  THEN Cardinality(Agreeing(a)') ELSE U8Max
      BY DEF QuorumInv, VotesCountAgreeing
    <3>2. Cardinality(Agreeing(a)') \in Nat
      BY FS_Subset, FS_CardinalityType, QuorumAssumption DEF Agreeing
    <3>3. QED
      BY <2>2, <3>1, <3>2, QuorumAssumption
  <2>6. Accepted[a] = ZeroHash /\ Accepted' = [Accepted EXCEPT ![a] = winner]
    <3> HIDE DEF winner
    <3>1. attestation'[a].proof_hash = winner
      BY DEF winner
    <3>2. Accepted[a] = ZeroHash
      BY <2>1 DEF Accepted
    <3>3. \A b \in Attestations :
            Accepted'[b] = IF b = a THEN winner ELSE Accepted[b]
      BY <1>4, <2>1, <3>1 DEF Accepted
    <3>4. Accepted' = [b \in Attestations |-> Accepted'[b]]
      BY DEF Accepted
    <3>5. Accepted = [b \in Attestations |-> Accepted[b]]
      BY DEF Accepted
    <3>6. Accepted' = [b \in Attestations |->
                         IF b = a THEN winner ELSE Accepted[b]]
      BY <3>3, <3>4
    <3>7. QED
      BY <3>2, <3>5, <3>6
  <2>7. \E p, q \in Oracles :
          p # q /\ vote'[a][p] = winner /\ vote'[a][q] = winner
    <3>1. IsFiniteSet(Agreeing(a)')
      BY FS_Subset, QuorumAssumption DEF Agreeing
    <3>2. PICK p, q \in Agreeing(a)' : p # q
      BY <2>5, <3>1, TwoMembers
    <3>3. QED
      BY <2>4, <3>2
  <2>8. Accepted[a] = ZeroHash /\ \E w \in Hashes :
          /\ \E p, q \in Oracles : p # q /\ vote'[a][p] = w /\ vote'[a][q] = w
          /\ Accepted' = [Accepted EXCEPT ![a] = w]
    BY <2>3, <2>6, <2>7
  <2>9. QED
    BY <1>3, <2>8 DEF Promise!Sign, Accepted
<1>7. QED
  BY <1>5, <1>6

\* The quorum implements its promise: every instruction is a signature of one oracle or
\* invisible to those who only look at accepted hashes.
THEOREM QuorumRefinesPromise == Spec => ImplementsPromise
<1>1. Init => Promise!PromiseInit
  BY DEF Init, Promise!PromiseInit, NewAttestation
<1>2. QuorumInv /\ QuorumInv' /\ [Next]_vars =>
        [Promise!PromiseNext]_(Promise!promiseVars)
  <2> SUFFICES ASSUME QuorumInv, QuorumInv', [Next]_vars
               PROVE  [Promise!PromiseNext]_(Promise!promiseVars)
    OBVIOUS
  <2>1. TypeOK /\ ConfiguredThresholdValid
    BY DEF QuorumInv
  <2>2. CASE UNCHANGED quorumVars
    <3>1. vote' = vote /\ attestation' = attestation
      BY <2>2 DEF quorumVars
    <3>2. UNCHANGED Promise!promiseVars
      BY <3>1 DEF Promise!promiseVars
    <3>3. QED
      BY <3>2
  <2>3. ASSUME NEW a \in Attestations, NEW o \in Oracles, NEW h \in Hashes,
               NEW withConfig \in BOOLEAN, SubmitOracleAttestation(a, o, h, withConfig)
        PROVE  Promise!PromiseNext
    <3>1. Promise!Sign(a, o, h)
      BY <2>3, VoteImplementsSign
    <3>2. QED
      BY <3>1 DEF Promise!PromiseNext
  <2>4. CASE \E a \in Attestations, o \in Oracles, h \in Hashes, withConfig \in BOOLEAN :
               SubmitOracleAttestation(a, o, h, withConfig)
    <3>1. Promise!PromiseNext
      BY <2>3, <2>4
    <3>2. QED
      BY <3>1
  <2>5. QED
    BY <2>1, <2>2, <2>4, StepKinds
<1>3. QED
  BY <1>1, <1>2, QuorumInvariant, PTL DEF Spec, ImplementsPromise, Promise!PromiseSpec
-----------------------------------------------------------------------------
(* No quorum is missed, and the gate lets through what the quorum accepted. *)

\* The threshold in force is one that `highest` remembers, and no attestation has as many
\* votes as the highest without being final.
FinalityInv ==
  /\ 2 <= highest /\ highest <= MaxOracles
  /\ config.exists => config.threshold <= highest
  /\ \A a \in Attestations : attestation[a].votes >= highest => attestation[a].finalized

LEMMA ThresholdSteps ==
  ASSUME TypeOK, TypeOK', FinalityInv, [Next]_vars
  PROVE  /\ highest <= highest' /\ highest' <= MaxOracles
         /\ config'.exists => config'.threshold <= highest'
<1> USE DEF FinalityInv
<1>1. highest \in Nat /\ MaxOracles \in Nat /\ config \in OracleQuorumConfig
  BY QuorumAssumption DEF TypeOK
<1>2. ASSUME NEW k \in Keys, NEW required \in BOOLEAN, NEW t \in Thresholds,
             NEW reward \in Rewards,
             \/ InitOracleQuorum(k, required, t, reward)
             \/ SetOracleQuorum(k, required, t, reward)
      PROVE  /\ highest <= highest' /\ highest' <= MaxOracles
             /\ config'.exists => config'.threshold <= highest'
  <2>1. t \in Nat /\ t <= MaxOracles /\ highest' = Larger(highest, t)
    BY <1>2, QuorumAssumption DEF InitOracleQuorum, SetOracleQuorum, ValidThreshold
  <2>2. config'.threshold = t
    <3>1. CASE InitOracleQuorum(k, required, t, reward)
      BY <3>1 DEF InitOracleQuorum
    <3>2. CASE SetOracleQuorum(k, required, t, reward)
      BY <1>1, <3>2 DEF SetOracleQuorum, OracleQuorumConfig
    <3>3. QED
      BY <1>2, <3>1, <3>2
  <2>3. QED
    BY <1>1, <2>1, <2>2 DEF Larger
<1>3. ASSUME NEW k \in Keys, NEW new \in Keys \cup {DefaultKey}, SetQuorumAuthority(k, new)
      PROVE  UNCHANGED highest /\ config'.exists = config.exists
                               /\ config'.threshold = config.threshold
  BY <1>1, <1>3 DEF SetQuorumAuthority, otherVars, OracleQuorumConfig
<1>4. \/ UNCHANGED <<config, highest>>
      \/ \E k \in Keys, required \in BOOLEAN, t \in Thresholds, reward \in Rewards :
           \/ InitOracleQuorum(k, required, t, reward)
           \/ SetOracleQuorum(k, required, t, reward)
      \/ \E k \in Keys, new \in Keys \cup {DefaultKey} : SetQuorumAuthority(k, new)
  BY DEF Next, Administer, Operate, Mint, MintEnergy, CastVote, vars, otherVars,
         InitializeOracleRegistry, AddOracle, RemoveOracle, SlashOracle, SetOracleAdmin,
         SetOracleRegistryAuthority, StakeOracle, SubmitOracleAttestation, ClaimOracleReward
<1>5. QED
  BY <1>1, <1>2, <1>3, <1>4

\* As many oracles on the canonical hash as the highest threshold ever in force make an
\* attestation final, whatever the order of votes, dissent and reconfiguration.
THEOREM QuorumIsNotMissed == Spec => []AgreementIsFinal
<1>1. Init => FinalityInv
  BY QuorumAssumption
  DEF Init, FinalityInv, ORACLE_ATTESTATION_THRESHOLD, NewAttestation
<1>2. QuorumInv /\ QuorumInv' /\ FinalityInv /\ [Next]_vars => FinalityInv'
  <2> SUFFICES ASSUME QuorumInv, QuorumInv', FinalityInv, [Next]_vars PROVE FinalityInv'
    OBVIOUS
  <2>1. /\ TypeOK /\ TypeOK' /\ ConfiguredThresholdValid
        /\ highest \in Nat /\ highest' \in Nat
    BY DEF QuorumInv, TypeOK
  <2>2. /\ highest <= highest' /\ highest' <= MaxOracles
        /\ config'.exists => config'.threshold <= highest'
    BY <2>1, ThresholdSteps
  <2>3. ASSUME NEW a \in Attestations, attestation'[a].votes >= highest'
        PROVE  attestation'[a].finalized
    <3>1. attestation[a].votes \in Nat /\ attestation'[a].votes \in Nat
      BY <2>1 DEF TypeOK, OracleAttestation
    <3>2. attestation[a].votes >= highest => attestation[a].finalized
      BY DEF FinalityInv
    <3>3. CASE attestation'[a] = attestation[a]
      BY <2>1, <2>2, <2>3, <3>1, <3>2, <3>3
    <3>4. ASSUME NEW o \in Oracles, NEW h \in Hashes, NEW withConfig \in BOOLEAN,
                 SubmitOracleAttestation(a, o, h, withConfig)
          PROVE  attestation'[a].finalized
      <4>1. attestation'[a].finalized <=>
              \/ attestation[a].finalized
              \/ attestation'[a].votes >= EffectiveThreshold(withConfig)
        <5>1. VoteEffectOn(a, o, h, withConfig)
          BY <3>4, VoteEffect
        <5>2. QED
          BY <5>1 DEF VoteEffectOn
      <4>2. EffectiveThreshold(withConfig) \in Nat /\ EffectiveThreshold(withConfig) <= highest
        BY <2>1, <3>4 DEF EffectiveThreshold, ORACLE_ATTESTATION_THRESHOLD, FinalityInv,
                          SubmitOracleAttestation, TypeOK, OracleQuorumConfig
      <4>3. QED
        BY <2>1, <2>2, <2>3, <3>1, <4>1, <4>2
    <3>5. ASSUME NEW b \in Attestations, NEW o \in Oracles, NEW h \in Hashes,
                 NEW withConfig \in BOOLEAN, SubmitOracleAttestation(b, o, h, withConfig)
          PROVE  attestation'[a].finalized
      <4>1. a # b => attestation'[a] = attestation[a]
        <5>1. VoteEffectOn(b, o, h, withConfig)
          BY <3>5, VoteEffect
        <5>2. QED
          BY <5>1 DEF VoteEffectOn
      <4>2. QED
        BY <3>3, <3>4, <3>5, <4>1
    <3>6. QED
      BY <2>1, <3>3, <3>5, StepKinds DEF quorumVars
  <2>4. QED
    BY <2>1, <2>2, <2>3 DEF FinalityInv
<1>3. QuorumInv /\ FinalityInv => AgreementIsFinal
  <2> SUFFICES ASSUME QuorumInv, FinalityInv, NEW a \in Attestations,
                      Cardinality(Agreeing(a)) >= highest
               PROVE  attestation[a].finalized
    BY DEF AgreementIsFinal
  <2>1. attestation[a].votes = IF Cardinality(Agreeing(a)) < U8Max
                               THEN Cardinality(Agreeing(a)) ELSE U8Max
    BY DEF QuorumInv, VotesCountAgreeing
  <2>2. Cardinality(Agreeing(a)) \in Nat
    BY FS_Subset, FS_CardinalityType, QuorumAssumption DEF Agreeing
  <2>3. highest \in Nat
    BY DEF QuorumInv, TypeOK
  <2>4. attestation[a].votes >= highest
    BY <2>1, <2>2, <2>3, QuorumAssumption DEF FinalityInv
  <2>5. QED
    BY <2>4 DEF FinalityInv
<1>4. QED
  BY <1>1, <1>2, <1>3, QuorumInvariant, PTL DEF Spec

\* What went through the gate is what the attestation then accepted and still accepts.
GateInv ==
  \A a \in Attestations :
    minted[a].gated => /\ attestation[a].finalized
                       /\ attestation[a].proof_hash = minted[a].proof_hash

LEMMA OnlyMintsAreRecorded ==
  ASSUME [Next]_vars
  PROVE  \/ UNCHANGED minted
         \/ \E a \in Attestations, h \in Hashes, presented \in BOOLEAN :
              MintEnergy(a, h, presented)
BY DEF Next, Administer, Operate, Mint, CastVote, vars, otherVars,
       InitializeOracleRegistry, AddOracle, RemoveOracle, SlashOracle, SetOracleAdmin,
       SetOracleRegistryAuthority, SetQuorumAuthority, InitOracleQuorum, SetOracleQuorum,
       StakeOracle, SubmitOracleAttestation, ClaimOracleReward

\* A report minted behind the gate has two distinct signers on its own hash, for ever.
THEOREM GateHolds == Spec => []MintedIsAttested
<1>1. Init => GateInv
  BY DEF Init, GateInv, NotMinted
<1>2. QuorumInv /\ QuorumInv' /\ GateInv /\ [Next]_vars => GateInv'
  <2> SUFFICES ASSUME QuorumInv, QuorumInv', GateInv, [Next]_vars,
                      NEW a \in Attestations, minted'[a].gated
               PROVE  /\ attestation'[a].finalized
                      /\ attestation'[a].proof_hash = minted'[a].proof_hash
    BY DEF GateInv
  <2>1. /\ minted \in [Attestations -> Minted]
        /\ attestation \in [Attestations -> OracleAttestation]
    BY DEF QuorumInv, TypeOK
  <2>2. attestation[a].finalized => attestation[a].votes > 0
    BY <2>1 DEF QuorumInv, FinalizedHasTwoVotes, OracleAttestation
  <2>3. CASE minted'[a] = minted[a]
    <3>1. attestation[a].finalized /\ attestation[a].proof_hash = minted[a].proof_hash
      BY <2>3 DEF GateInv
    <3>2. QED
      BY <2>2, <2>3, <3>1, StepKeepsDecision
  <2>4. ASSUME NEW h \in Hashes, NEW presented \in BOOLEAN, MintEnergy(a, h, presented)
        PROVE  /\ attestation'[a].finalized
               /\ attestation'[a].proof_hash = minted'[a].proof_hash
    <3>1. minted'[a] = [proof_hash |-> h, gated |-> config.required]
      BY <2>1, <2>4 DEF MintEnergy
    <3>2. config.required /\ attestation' = attestation
      BY <2>4, <3>1 DEF MintEnergy, quorumVars
    <3>3. QED
      BY <2>4, <3>1, <3>2 DEF MintEnergy, QuorumGate
  <2>5. ASSUME NEW b \in Attestations, NEW h \in Hashes, NEW presented \in BOOLEAN,
               MintEnergy(b, h, presented), a # b
        PROVE  minted'[a] = minted[a]
    BY <2>1, <2>5 DEF MintEnergy
  <2>6. QED
    BY <2>3, <2>4, <2>5, OnlyMintsAreRecorded
<1>3. QuorumInv /\ GateInv => MintedIsAttested
  <2> SUFFICES ASSUME QuorumInv, GateInv, NEW a \in Attestations, minted[a].gated
               PROVE  \E o, p \in Oracles :
                        /\ o # p
                        /\ vote[a][o] = minted[a].proof_hash
                        /\ vote[a][p] = minted[a].proof_hash
    BY DEF MintedIsAttested
  <2>1. attestation[a].finalized /\ attestation[a].proof_hash = minted[a].proof_hash
    BY DEF GateInv
  <2>2. Cardinality(Agreeing(a)) >= 2
    BY <2>1, QuorumBacks DEF FinalizedHasQuorum
  <2>3. IsFiniteSet(Agreeing(a))
    BY FS_Subset, QuorumAssumption DEF Agreeing
  <2>4. PICK o, p \in Agreeing(a) : o # p
    BY <2>2, <2>3, TwoMembers
  <2>5. QED
    BY <2>1, <2>4 DEF Agreeing
<1>4. QED
  BY <1>1, <1>2, <1>3, QuorumInvariant, PTL DEF Spec
=============================================================================
