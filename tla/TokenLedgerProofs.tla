------------------------- MODULE TokenLedgerProofs -------------------------
(***************************************************************************)
(* Proofs about EnergyPool and about TokenLedger, which extends it.        *)
(*                                                                         *)
(* Of the pool, for any owners, devices and pools, any caps and any        *)
(* severities: a score that was ever penalised stays below its merit.  The *)
(* argument needs that merit only grows, that half of a gap is less than   *)
(* the gap, and that a first penalty is at least a point, which is why the *)
(* base score must be at least 20.                                         *)
(*                                                                         *)
(* The books: the vault, the token program and the accounts agree on the   *)
(* supply, and energy is paid for twice at most.  The argument for a       *)
(* distribution is that shares rounded down fit in the scale, what they    *)
(* take fits in the reward, and the last group gets what is left.          *)
(*                                                                         *)
(* Of the ledger, for any allocation, cliff and release: the founder never *)
(* claims ahead of the schedule that began with the first initialisation.  *)
(* Initialising again forgets what was withdrawn, so the invariant splits  *)
(* what was claimed: the part before the clock in force was covered by the *)
(* time until that clock started, the part since then by the time since,   *)
(* and the cliff only makes two schedules that follow one another release  *)
(* less than one.                                                          *)
(***************************************************************************)
EXTENDS TokenLedger, EmissionProofs

ReputationRecord == [exists : BOOLEAN, score : Nat, updated_at : Nat, total_energy_wh : Nat,
                     first_seen : Nat, anomaly_count : Nat]

\* What a reputation keeps: it does not change before its time, and the penalty shows.
SoundReputation(r) ==
  r.exists =>
    /\ r.first_seen <= r.updated_at /\ r.updated_at <= now
    /\ IF r.anomaly_count = 0 THEN r.score = Merit(r) ELSE r.score < Merit(r)

ReputationInv ==
  /\ now \in Nat
  /\ reputation \in [Owners -> ReputationRecord]
  /\ \A o \in Owners : SoundReputation(reputation[o])
-----------------------------------------------------------------------------
(* Scores.                                                                 *)

LEMMA AtMostBounds ==
  ASSUME NEW a \in Nat, NEW b \in Nat
  PROVE  AtMost(a, b) \in Nat /\ AtMost(a, b) <= a /\ AtMost(a, b) <= b
BY DEF AtMost

LEMMA MeritGrows ==
  ASSUME NEW e \in Nat, NEW f \in Nat, e <= f, NEW t \in Nat, NEW u \in Nat, t <= u
  PROVE  /\ compute_ers_score(e, t) \in Nat
         /\ ERS_BASE_SCORE <= compute_ers_score(e, t)
         /\ compute_ers_score(e, t) <= compute_ers_score(f, u)
<1> DEFINE a == e \div ERS_ENERGY_WH_PER_POINT
           b == f \div ERS_ENERGY_WH_PER_POINT
           c == t \div DAY
           d == u \div DAY
<1>1. a \in Nat /\ b \in Nat /\ a <= b /\ c \in Nat /\ d \in Nat /\ c <= d
  BY DivisionBounds, DivisionGrows, ReputationAssumption
<1>2. /\ compute_ers_score(e, t) = AtMost(ERS_MAX_SCORE, ERS_BASE_SCORE
           + AtMost(ERS_ENERGY_POINTS_CAP, a) + AtMost(ERS_UPTIME_POINTS_CAP, c))
      /\ compute_ers_score(f, u) = AtMost(ERS_MAX_SCORE, ERS_BASE_SCORE
           + AtMost(ERS_ENERGY_POINTS_CAP, b) + AtMost(ERS_UPTIME_POINTS_CAP, d))
  BY DEF compute_ers_score
<1> HIDE DEF a, b, c, d
<1> QED
  BY <1>1, <1>2, ReputationAssumption DEF AtMost

\* A penalty never adds, and from the base score on it takes at least a point.
LEMMA PenaltyTakes ==
  ASSUME NEW score \in Nat, NEW severity \in 1 .. 10
  PROVE  /\ apply_anomaly_penalty(score, severity) \in Nat
         /\ apply_anomaly_penalty(score, severity) <= score
         /\ score >= 20 => apply_anomaly_penalty(score, severity) < score
<1> DEFINE percent == AtMost(50, 5 * severity)
           penalty == (score * percent) \div 100
<1>1. percent \in 5 .. 50
  BY DEF AtMost
<1> HIDE DEF percent
<1>2. score * percent \in Nat
  BY <1>1
<1>3. penalty \in Nat
  BY <1>2
<1>4. score >= 20 => score * percent >= 100
  <2> SUFFICES ASSUME score >= 20 PROVE score * percent >= 100
    OBVIOUS
  <2>1. PICK s \in Nat : score = 20 + s
    <3>1. score - 20 \in Nat /\ score = 20 + (score - 20)
      OBVIOUS
    <3> QED
      BY <3>1
  <2>2. score * percent = 20 * percent + s * percent /\ s * percent \in Nat
    BY <1>1, <2>1
  <2> QED
    BY <1>1, <2>2
<1>5. score >= 20 => penalty >= 1
  BY <1>2, <1>4
<1>6. apply_anomaly_penalty(score, severity) = SaturatingSub(score, penalty)
  BY DEF apply_anomaly_penalty, percent
<1> HIDE DEF penalty
<1> QED
  BY <1>3, <1>5, <1>6 DEF SaturatingSub

\* Half of a gap does not close it.
LEMMA GapStaysOpen ==
  ASSUME NEW score \in Nat, NEW merit \in Nat, score < merit
  PROVE  Slowed(score, merit) \in Nat /\ Slowed(score, merit) < merit
<1>1. SaturatingSub(merit, score) = merit - score /\ merit - score \in Nat /\ merit - score >= 1
  BY DEF SaturatingSub
<1>2. (merit - score) \div 2 \in Nat /\ (merit - score) \div 2 < merit - score
  BY <1>1
<1> QED
  BY <1>1, <1>2, ReputationAssumption DEF Slowed, AtMost
-----------------------------------------------------------------------------
(* The three operations on a reputation.                                   *)

LEMMA NewReputationIsSound ==
  ASSUME ReputationInv
  PROVE  LET r == [exists |-> TRUE, score |-> ERS_BASE_SCORE, updated_at |-> now,
                   total_energy_wh |-> 0, first_seen |-> now, anomaly_count |-> 0]
         IN  r \in ReputationRecord /\ SoundReputation(r)
<1> DEFINE r == [exists |-> TRUE, score |-> ERS_BASE_SCORE, updated_at |-> now,
                 total_energy_wh |-> 0, first_seen |-> now, anomaly_count |-> 0]
<1>1. r \in ReputationRecord
  BY ReputationAssumption DEF ReputationInv, ReputationRecord
<1>2. Merit(r) = compute_ers_score(0, 0)
  BY DEF Merit, ReputationInv
<1>3. compute_ers_score(0, 0) = ERS_BASE_SCORE
  <2>1. 0 \div ERS_ENERGY_WH_PER_POINT = 0 /\ 0 \div DAY = 0
    BY ReputationAssumption
  <2> QED
    BY <2>1, ReputationAssumption DEF compute_ers_score, AtMost
<1>4. SoundReputation(r)
  BY <1>2, <1>3 DEF SoundReputation, ReputationInv
<1> QED
  BY <1>1, <1>4

LEMMA MeritOf ==
  ASSUME NEW r \in ReputationRecord, r.exists, SoundReputation(r), now \in Nat
  PROVE  /\ Merit(r) \in Nat /\ Merit(r) >= ERS_BASE_SCORE
         /\ r.score <= Merit(r)
         /\ \A e \in Nat, t \in Nat :
              e >= r.total_energy_wh /\ t >= r.updated_at - r.first_seen =>
                compute_ers_score(e, t) \in Nat /\ Merit(r) <= compute_ers_score(e, t)
<1>1. r.total_energy_wh \in Nat /\ r.updated_at - r.first_seen \in Nat /\ r.score \in Nat
  BY DEF ReputationRecord, SoundReputation
<1>2. Merit(r) \in Nat /\ Merit(r) >= ERS_BASE_SCORE
  BY <1>1, MeritGrows DEF Merit
<1>3. r.score <= Merit(r)
  BY <1>1, <1>2 DEF SoundReputation
<1>4. \A e \in Nat, t \in Nat :
        e >= r.total_energy_wh /\ t >= r.updated_at - r.first_seen =>
          compute_ers_score(e, t) \in Nat /\ Merit(r) <= compute_ers_score(e, t)
  BY <1>1, MeritGrows DEF Merit
<1> QED
  BY <1>2, <1>3, <1>4

LEMMA PenalisedIsSound ==
  ASSUME NEW r \in ReputationRecord, r.exists, SoundReputation(r), now \in Nat,
         NEW severity \in 1 .. 10
  PROVE  LET q == [r EXCEPT !.score = apply_anomaly_penalty(r.score, severity),
                            !.anomaly_count = r.anomaly_count + 1, !.updated_at = now]
         IN  q \in ReputationRecord /\ SoundReputation(q)
<1> DEFINE score == apply_anomaly_penalty(r.score, severity)
           q == [r EXCEPT !.score = score, !.anomaly_count = r.anomaly_count + 1,
                          !.updated_at = now]
<1>1. /\ r.score \in Nat /\ r.anomaly_count \in Nat /\ r.first_seen \in Nat
      /\ r.updated_at \in Nat /\ r.total_energy_wh \in Nat
  BY DEF ReputationRecord
<1>2. /\ score \in Nat /\ score <= r.score
      /\ r.score >= 20 => score < r.score
  BY <1>1, PenaltyTakes
<1>3. score < Merit(r)
  <2>1. Merit(r) \in Nat /\ Merit(r) >= 20 /\ r.score <= Merit(r)
    BY MeritOf, ReputationAssumption
  <2>2. r.anomaly_count = 0 => r.score = Merit(r)
    BY DEF SoundReputation
  <2>3. r.anomaly_count # 0 => r.score < Merit(r)
    BY DEF SoundReputation
  <2> QED
    BY <1>1, <1>2, <2>1, <2>2, <2>3
<1>4. /\ q.exists = r.exists /\ q.score = score /\ q.updated_at = now
      /\ q.first_seen = r.first_seen /\ q.total_energy_wh = r.total_energy_wh
      /\ q.anomaly_count = r.anomaly_count + 1
  BY DEF ReputationRecord
<1>5. q \in ReputationRecord
  <2> DEFINE count == r.anomaly_count + 1
  <2>1. count \in Nat
    BY <1>1
  <2>2. q = [r EXCEPT !.score = score, !.anomaly_count = count, !.updated_at = now]
    OBVIOUS
  <2> HIDE DEF score, count, q
  <2> QED
    BY <1>2, <2>1, <2>2 DEF ReputationRecord
<1>6. r.first_seen <= r.updated_at /\ r.updated_at <= now
  BY DEF SoundReputation
<1>7. Merit(q) \in Nat /\ Merit(r) <= Merit(q) /\ Merit(r) \in Nat
  <2>1. now - r.first_seen \in Nat /\ now - r.first_seen >= r.updated_at - r.first_seen
    BY <1>1, <1>6
  <2>2. Merit(q) = compute_ers_score(r.total_energy_wh, now - r.first_seen)
    BY <1>4 DEF Merit
  <2> HIDE DEF q
  <2> QED
    BY <1>1, <2>1, <2>2, MeritOf
<1> HIDE DEF q, score
<1>8. SoundReputation(q)
  BY <1>1, <1>2, <1>3, <1>4, <1>6, <1>7 DEF SoundReputation
<1> QED
  BY <1>5, <1>8 DEF q, score

LEMMA UpdatedIsSound ==
  ASSUME NEW r \in ReputationRecord, r.exists, SoundReputation(r), now \in Nat, NEW wh \in Nat
  PROVE  update_reputation_after_mint(r, wh) \in ReputationRecord
           /\ SoundReputation(update_reputation_after_mint(r, wh))
<1> DEFINE q == update_reputation_after_mint(r, wh)
           energy == r.total_energy_wh + wh
           merit == compute_ers_score(energy, now - r.first_seen)
           score == IF r.anomaly_count = 0 THEN merit ELSE Slowed(r.score, merit)
<1>1. /\ r.score \in Nat /\ r.anomaly_count \in Nat /\ r.first_seen \in Nat
      /\ r.updated_at \in Nat /\ r.total_energy_wh \in Nat
  BY DEF ReputationRecord
<1>2. r.first_seen <= r.updated_at /\ r.updated_at <= now
  BY DEF SoundReputation
<1>3. SaturatingSub(now, r.first_seen) = now - r.first_seen /\ now - r.first_seen \in Nat
        /\ now - r.first_seen >= r.updated_at - r.first_seen
  BY <1>1, <1>2 DEF SaturatingSub
<1>4. q = [r EXCEPT !.total_energy_wh = energy, !.score = score, !.updated_at = now]
  BY <1>3 DEF update_reputation_after_mint
<1>5. energy \in Nat /\ energy >= r.total_energy_wh
  BY <1>1
<1>6. merit \in Nat /\ Merit(r) \in Nat /\ Merit(r) <= merit
  <2> HIDE DEF energy
  <2> QED
    BY <1>3, <1>5, MeritOf
<1> HIDE DEF q, energy, merit
<1>7. /\ score \in Nat
      /\ IF r.anomaly_count = 0 THEN score = merit ELSE score < merit
  <2>1. CASE r.anomaly_count = 0
    BY <1>6, <2>1
  <2>2. CASE r.anomaly_count # 0
    <3>1. r.score < merit
      BY <1>1, <1>6, <2>2 DEF SoundReputation
    <3> QED
      BY <1>1, <1>6, <2>2, <3>1, GapStaysOpen
  <2> QED
    BY <2>1, <2>2
<1> HIDE DEF score
<1>8. /\ q.exists = r.exists /\ q.score = score /\ q.updated_at = now
      /\ q.first_seen = r.first_seen /\ q.total_energy_wh = energy
      /\ q.anomaly_count = r.anomaly_count
  BY <1>4 DEF ReputationRecord
<1>9. q \in ReputationRecord
  BY <1>4, <1>5, <1>7 DEF ReputationRecord
<1>10. Merit(q) = merit
  BY <1>8 DEF Merit, merit
<1>11. SoundReputation(q)
  BY <1>1, <1>2, <1>7, <1>8, <1>10 DEF SoundReputation
<1> QED
  BY <1>9, <1>11 DEF q
-----------------------------------------------------------------------------
LEMMA ReputationStarts == PoolInit => ReputationInv
BY DEF PoolInit, ReputationInv, NewReputation, ReputationRecord, SoundReputation

\* A step that changes one reputation at most, and only to a sound one.
LEMMA OneReputationChanges ==
  ASSUME ReputationInv, now' = now, NEW o \in Owners, NEW r \in ReputationRecord,
         SoundReputation(r), reputation' = [reputation EXCEPT ![o] = r]
  PROVE  ReputationInv'
<1>1. reputation' \in [Owners -> ReputationRecord]
  BY DEF ReputationInv
<1>2. \A p \in Owners : reputation'[p] = IF p = o THEN r ELSE reputation[p]
  BY DEF ReputationInv
<1>3. ASSUME NEW p \in Owners PROVE SoundReputation(reputation[p])'
  <2>1. SoundReputation(reputation'[p])
    BY <1>2 DEF ReputationInv
  <2> QED
    BY <2>1 DEF SoundReputation, Merit
<1> QED
  BY <1>1, <1>3 DEF ReputationInv

LEMMA ReputationsStay ==
  ASSUME ReputationInv, reputation' = reputation, now' \in Nat, now' >= now
  PROVE  ReputationInv'
<1>1. ASSUME NEW o \in Owners PROVE SoundReputation(reputation[o])'
  <2>1. reputation[o].updated_at \in Nat /\ SoundReputation(reputation[o]) /\ now \in Nat
    BY DEF ReputationInv, ReputationRecord
  <2> QED
    BY <2>1 DEF SoundReputation, Merit
<1> QED
  BY <1>1 DEF ReputationInv

LEMMA PoolStepKeepsReputation ==
  ASSUME ReputationInv, [PoolNext]_poolVars
  PROVE  ReputationInv'
<1>1. now \in Nat /\ \A o \in Owners : reputation[o] \in ReputationRecord /\ SoundReputation(reputation[o])
  BY DEF ReputationInv
<1>2. CASE UNCHANGED poolVars
  BY <1>1, <1>2, ReputationsStay DEF poolVars
<1>3. ASSUME NEW p \in Pools,
             \/ \E t \in Thresholds : CreatePool(p, t)
             \/ \E d \in Devices : JoinPool(p, d)
             \/ \E group \in Groups(p) : DistributePool(p, group)
      PROVE  ReputationInv'
  <2>1. UNCHANGED <<reputation, now>>
    BY <1>3 DEF CreatePool, JoinPool, DistributePool
  <2> QED
    BY <1>1, <2>1, ReputationsStay
<1>4. ASSUME NEW o \in Owners, InitializeReputation(o) PROVE ReputationInv'
  BY <1>4, NewReputationIsSound, OneReputationChanges DEF InitializeReputation
<1>5. ASSUME NEW o \in Owners, NEW severity \in Severities, ReportAnomaly(o, severity)
      PROVE  ReputationInv'
  <2>1. severity \in 1 .. 10 /\ reputation[o].exists
    BY <1>5, ReputationAssumption DEF ReportAnomaly
  <2> DEFINE r == [reputation[o] EXCEPT !.score = apply_anomaly_penalty(reputation[o].score, severity),
                                        !.anomaly_count = reputation[o].anomaly_count + 1,
                                        !.updated_at = now]
  <2>2. r \in ReputationRecord /\ SoundReputation(r)
    BY <1>1, <2>1, PenalisedIsSound
  <2>3. reputation' = [reputation EXCEPT ![o] = r] /\ now' = now
    BY <1>5 DEF ReportAnomaly, ReputationInv
  <2> HIDE DEF r
  <2> QED
    BY <2>2, <2>3, OneReputationChanges
<1>6. ASSUME NEW d \in Devices, NEW wh \in Reports, NEW capped \in BOOLEAN,
             NEW withReputation \in BOOLEAN, NEW into \in Pools \cup {NoPool}, NEW reward \in MintRewards(wh),
             MintEnergy(d, wh, reward, capped, withReputation, into)
      PROVE  ReputationInv'
  <2> DEFINE o == Owner[d]
             r == update_reputation_after_mint(reputation[o], wh)
  <2>1. o \in Owners /\ wh \in Nat
    BY PoolAssumption, ReputationAssumption
  <2>2. now' = now
    BY <1>6 DEF MintEnergy
  <2>3. CASE withReputation
    <3>1. reputation[o].exists /\ reputation' = [reputation EXCEPT ![o] = r]
      BY <1>6, <2>3 DEF MintEnergy
    <3>2. r \in ReputationRecord /\ SoundReputation(r)
      BY <1>1, <2>1, <3>1, UpdatedIsSound
    <3> HIDE DEF o, r
    <3> QED
      BY <2>1, <2>2, <3>1, <3>2, OneReputationChanges
  <2>4. CASE ~withReputation
    <3>1. reputation' = reputation
      BY <1>6, <2>4 DEF MintEnergy
    <3> QED
      BY <1>1, <2>2, <3>1, ReputationsStay
  <2> QED
    BY <2>3, <2>4
<1>7. CASE Tick
  BY <1>1, <1>7, ReputationsStay DEF Tick
<1> QED
  BY <1>2, <1>3, <1>4, <1>5, <1>6, <1>7 DEF PoolNext
-----------------------------------------------------------------------------
LEMMA SoundIsPenalised == ReputationInv => PenaltyIsNeverForgotten
BY DEF ReputationInv, SoundReputation, PenaltyIsNeverForgotten

\* Whatever is produced and however long one waits, a score that was penalised never reaches
\* its merit again, and one that was not is exactly its merit.
THEOREM PenaltyHolds == PoolSpec => []PenaltyIsNeverForgotten
<1>1. ReputationInv /\ [PoolNext]_poolVars => ReputationInv'
  BY PoolStepKeepsReputation
<1> QED
  BY ReputationStarts, <1>1, SoundIsPenalised, PTL DEF PoolSpec
-----------------------------------------------------------------------------
(* What the members of a pool are paid.                                    *)

LEMMA FactorCancels ==
  ASSUME NEW k \in Nat \ {0}, NEW a \in Nat, NEW b \in Nat, k * a <= k * b
  PROVE  a <= b
<1> SUFFICES ASSUME b + 1 <= a PROVE FALSE
  OBVIOUS
<1>1. k * (b + 1) <= k * a
  BY ProductGrows
<1>2. k * (b + 1) = k * b + k /\ k * b \in Nat /\ k * a \in Nat
  OBVIOUS
<1> QED
  BY <1>1, <1>2

\* The parts of a whole, each rounded down, are no more than the whole.
LEMMA SharesFit ==
  ASSUME NEW D, IsFiniteSet(D), NEW U \in SUBSET D, NEW w, NEW s, \A i \in D : w[i] \in Nat,
         Total(w, D) > 0,
         \A i \in D : s[i] = (w[i] * FP_SCALE) \div Total(w, D)
  PROVE  /\ \A i \in D : s[i] \in Nat
         /\ Total(s, U) \in Nat /\ Total(s, U) <= FP_SCALE
<1> DEFINE W == Total(w, D)
<1>1. W \in Nat \ {0}
  BY SumIsNat
<1>2. \A i \in D : s[i] = (w[i] * FP_SCALE) \div W
  OBVIOUS
<1> HIDE DEF W
<1>3. IsFiniteSet(U)
  BY FS_Subset
<1>4. ASSUME NEW i \in D PROVE s[i] \in Nat /\ W * s[i] <= FP_SCALE * w[i]
  <2>1. w[i] * FP_SCALE \in Nat /\ w[i] * FP_SCALE = FP_SCALE * w[i]
    BY Scales
  <2> QED
    BY <1>1, <1>2, <2>1, DivisionBounds
<1>5. Total(s, U) \in Nat /\ Total(w, U) \in Nat
  BY <1>3, <1>4, SumIsNat
<1>6. W * Total(s, U) <= FP_SCALE * Total(w, U)
  <2>1. \A i \in U : s[i] \in Nat /\ w[i] \in Nat /\ W * s[i] <= FP_SCALE * w[i]
    BY <1>4
  <2>2. W \in Nat /\ FP_SCALE \in Nat
    BY <1>1, Scales
  <2> QED
    BY <1>3, <2>1, <2>2, SumBounds
<1>7. Total(w, U) <= W
  <2>1. D \in SUBSET D /\ \A i \in U \ D : w[i] = 0
    OBVIOUS
  <2> QED
    BY <2>1, SumOfPart DEF W
<1>8. FP_SCALE * Total(w, U) <= FP_SCALE * W
  BY <1>1, <1>5, <1>7, ProductGrows, Scales
<1> DEFINE a == Total(s, U)
           b == Total(w, U)
<1> HIDE DEF a, b
<1>9. W * a <= W * FP_SCALE
  <2>1. W * a \in Nat /\ FP_SCALE * b \in Nat /\ FP_SCALE * W = W * FP_SCALE
    BY <1>1, <1>5, Scales DEF a, b
  <2>2. W * a <= FP_SCALE * b /\ FP_SCALE * b <= FP_SCALE * W /\ FP_SCALE * W \in Nat
    BY <1>1, <1>6, <1>8, Scales DEF a, b
  <2> QED
    BY <2>1, <2>2
<1>10. a <= FP_SCALE
  BY <1>1, <1>5, <1>9, FactorCancels, Scales DEF a
<1> QED
  BY <1>4, <1>5, <1>10 DEF a

\* What the shares take of a reward is no more than the reward.
LEMMA SharesPaidFit ==
  ASSUME NEW U, IsFiniteSet(U), NEW s, NEW q, NEW reward \in Nat,
         \A i \in U : s[i] \in Nat /\ q[i] = pool_reward_for_share(reward, s[i]),
         Total(s, U) <= FP_SCALE
  PROVE  /\ \A i \in U : q[i] \in Nat
         /\ Total(q, U) \in Nat /\ Total(q, U) <= reward
<1>1. ASSUME NEW i \in U PROVE q[i] \in Nat /\ FP_SCALE * q[i] <= reward * s[i]
  <2> DEFINE p == (reward * s[i]) \div FP_SCALE
  <2>1. reward * s[i] \in Nat
    OBVIOUS
  <2>2. p \in Nat /\ FP_SCALE * p <= reward * s[i]
    BY <2>1, DivisionBounds, Scales
  <2>3. q[i] = AtMost(reward, p)
    BY DEF pool_reward_for_share
  <2> HIDE DEF p
  <2>4. q[i] \in Nat /\ q[i] <= p
    BY <2>2, <2>3, AtMostBounds
  <2>5. FP_SCALE * q[i] <= FP_SCALE * p /\ FP_SCALE * q[i] \in Nat /\ FP_SCALE * p \in Nat
    BY <2>2, <2>4, ProductGrows, Scales
  <2> QED
    BY <2>1, <2>2, <2>4, <2>5
<1> DEFINE a == Total(q, U)
           b == Total(s, U)
<1>2. a \in Nat /\ b \in Nat /\ b <= FP_SCALE
  BY <1>1, SumIsNat
<1>3. FP_SCALE * a <= reward * b
  BY <1>1, SumBounds, Scales
<1> HIDE DEF a, b
<1>4. reward * b <= reward * FP_SCALE /\ reward * b \in Nat /\ reward * FP_SCALE \in Nat
  BY <1>2, ProductGrows, Scales
<1>5. FP_SCALE * a <= FP_SCALE * reward
  <2>1. FP_SCALE * a \in Nat /\ FP_SCALE * reward = reward * FP_SCALE
    BY <1>2, Scales
  <2> QED
    BY <1>3, <1>4, <2>1
<1>6. a <= reward
  BY <1>2, <1>5, FactorCancels, Scales
<1> QED
  BY <1>1, <1>2, <1>6 DEF a

LEMMA WeightIsNat ==
  ASSUME NEW p \in Pools, NEW d \in Devices,
         pool \in [Pools -> Pool], share \in [Pools -> [Devices -> Nat]],
         reputation \in [Owners -> ReputationRecord]
  PROVE  Weighted(p, d) \in Nat
<1>1. /\ pool[p].total_energy \in Nat /\ share[p][d] \in Nat
      /\ Owner[d] \in Owners /\ reputation[Owner[d]].score \in Nat
  BY PoolAssumption DEF Pool, ReputationRecord
<1> DEFINE raw == pool_share_fp(share[p][d], pool[p].total_energy)
           bonus == ers_pool_bonus_fp(reputation[Owner[d]].score)
<1>2. raw \in Nat
  <2>1. share[p][d] * FP_SCALE \in Nat
    BY <1>1, ProductIsNat, Scales
  <2> QED
    BY <1>1, <2>1, DivisionBounds DEF pool_share_fp
<1>3. bonus \in Nat
  <2> DEFINE score == AtMost(ERS_MAX_SCORE, reputation[Owner[d]].score)
             fifth == FP_SCALE \div 5
  <2>1. ERS_MAX_SCORE \in Nat \ {0}
    BY ReputationAssumption
  <2>2. score \in Nat
    BY <1>1, <2>1, AtMostBounds
  <2>3. fifth \in Nat
    BY Scales
  <2> HIDE DEF score, fifth
  <2>4. score * fifth \in Nat
    BY <2>2, <2>3
  <2> QED
    BY <2>1, <2>4, DivisionBounds DEF ers_pool_bonus_fp, score, fifth
<1>4. Weighted(p, d) = raw + fp_mul(bonus, raw)
  BY DEF Weighted
<1> HIDE DEF raw, bonus
<1>5. fp_mul(bonus, raw) \in Nat
  BY <1>2, <1>3, FixedProduct
<1> QED
  BY <1>2, <1>4, <1>5

\* What one loses by rounding the last one gets: the groups share the reward, to the atom.
LEMMA PayoutsAddUp ==
  ASSUME NEW p \in Pools, NEW group \in Groups(p), group # <<>>, NEW reward \in Nat,
         pool \in [Pools -> Pool], share \in [Pools -> [Devices -> Nat]],
         reputation \in [Owners -> ReputationRecord],
         WeightedSum(p, group) > 0
  PROVE  /\ IsFiniteSet(DOMAIN group)
         /\ \A i \in DOMAIN group : group[i] \in Devices
         /\ \A i \in DOMAIN group : Payouts(p, group, reward)[i] \in Nat
         /\ Total(Payouts(p, group, reward), DOMAIN group) = reward
<1> DEFINE n == Cardinality(pool[p].producers)
           D == DOMAIN group
           last == Cardinality(D)
           U == D \ {last}
           w == [i \in D |-> Weighted(p, group[i])]
           s == [i \in D |-> (w[i] * FP_SCALE) \div Total(w, D)]
           q == ProportionalPayouts(p, group, reward)
           pay == Payouts(p, group, reward)
<1>1. pool[p].producers \in SUBSET Devices /\ IsFiniteSet(pool[p].producers) /\ n \in Nat
  BY PoolAssumption, FS_Subset, FS_CardinalityType DEF Pool
<1>2. group \in [1 .. n -> pool[p].producers] /\ D = 1 .. n
  BY DEF Groups
<1>3. IsFiniteSet(D) /\ last = n
  BY <1>1, <1>2, FS_Interval
<1>4. n >= 1
  <2> SUFFICES ASSUME n = 0 PROVE FALSE
    BY <1>1
  <2>1. 1 .. n = {} /\ DOMAIN <<>> = {}
    OBVIOUS
  <2>2. group = [i \in 1 .. n |-> group[i]] /\ <<>> = [i \in {} |-> group[i]]
    BY <1>2
  <2> QED
    BY <2>1, <2>2
<1>5. last \in D /\ U \in SUBSET D /\ IsFiniteSet(U)
  BY <1>1, <1>2, <1>3, <1>4, FS_Subset
<1>6. \A i \in D : group[i] \in Devices /\ w[i] \in Nat
  BY <1>1, <1>2, WeightIsNat
<1>7. Total(w, D) = WeightedSum(p, group) /\ Total(w, D) > 0
  BY DEF WeightedSum
<1>8. /\ \A i \in D : s[i] \in Nat
      /\ Total(s, U) <= FP_SCALE
  <2>1. \A i \in D : s[i] = (w[i] * FP_SCALE) \div Total(w, D)
    OBVIOUS
  <2>2. \A i \in D : w[i] \in Nat
    BY <1>6
  <2> HIDE DEF D, U, w, s
  <2> QED
    BY <1>3, <1>5, <1>7, <2>1, <2>2, SharesFit
<1>9. \A i \in D : q[i] = pool_reward_for_share(reward, s[i])
  BY <1>7 DEF ProportionalPayouts
<1>10. /\ q = [i \in D |-> q[i]]
       /\ pay = [q EXCEPT ![last] = SaturatingSub(reward, Total(q, U))]
  BY DEF ProportionalPayouts, Payouts
<1> HIDE DEF D, U, w, s, q, pay, last, n
<1>11. /\ \A i \in U : q[i] \in Nat
       /\ Total(q, U) \in Nat /\ Total(q, U) <= reward
  <2>1. \A i \in U : s[i] \in Nat /\ q[i] = pool_reward_for_share(reward, s[i])
    BY <1>5, <1>8, <1>9
  <2> QED
    BY <1>5, <1>8, <2>1, SharesPaidFit
<1>12. pay[last] = reward - Total(q, U) /\ \A i \in U : pay[i] = q[i]
  <2>1. SaturatingSub(reward, Total(q, U)) = reward - Total(q, U)
    BY <1>11 DEF SaturatingSub
  <2>2. \A i \in U : i \in D /\ i # last
    BY DEF U
  <2> QED
    BY <1>5, <1>10, <2>1, <2>2
<1>13. \A i \in D : pay[i] \in Nat
  <2>1. \A i \in D : i = last \/ i \in U
    BY DEF U
  <2>2. pay[last] \in Nat
    BY <1>11, <1>12
  <2> QED
    BY <1>11, <1>12, <2>1, <2>2
<1>14. Total(pay, U) = Total(q, U)
  <2>1. \A i \in U : pay[i] = q[i] /\ pay[i] \in Int /\ q[i] \in Int
    BY <1>11, <1>12
  <2> QED
    BY <1>5, <2>1, SumsAreEqual
<1>15. Total(pay, D) = pay[last] + Total(pay, U)
  <2>1. \A i \in D : pay[i] \in Int
    BY <1>13
  <2> QED
    BY <1>3, <1>5, <2>1, SumTakes DEF U
<1>16. Total(pay, D) = reward
  BY <1>11, <1>12, <1>14, <1>15
<1> QED
  BY <1>3, <1>6, <1>13, <1>16 DEF D, pay
-----------------------------------------------------------------------------
(* The books: what the vault counts, what the token program counts and     *)
(* what the accounts hold; what was paid for energy and what the pools     *)
(* still have to be paid for.                                              *)

BooksTypes ==
  /\ pool \in [Pools -> Pool]
  /\ share \in [Pools -> [Devices -> Nat]]
  /\ vault \in [total_supply : Nat, total_energy_wh : Nat]
  /\ earned \in Nat
  /\ balance \in [Accounts -> Nat]

BooksInv == BooksTypes /\ VaultCountsTheToken /\ EnergyIsRewardedTwiceAtMost

EnergyIn == [p \in Pools |-> pool[p].total_energy]

\* Energy that is not yet worth a second reward, counted twice as long as it is in no pool.
Due == 2 * vault.total_energy_wh - Total(EnergyIn, Pools)

LEMMA AccountsOfLedger ==
  /\ IsFiniteSet(Accounts) /\ FourFunds \subseteq Accounts /\ Funds = FourFunds
  /\ \A o \in Owners : o \in Accounts \ FourFunds
<1>1. IsFiniteSet({"buyback", "staking"}) /\ IsFiniteSet({"dao", "emergency"})
      /\ IsFiniteSet({"founder", "outside"})
  <2>1. ASSUME NEW x, NEW y PROVE IsFiniteSet({x, y})
    <3>1. IsFiniteSet({x})
      BY FS_Singleton
    <3>2. {x, y} = {x} \cup {y}
      OBVIOUS
    <3> QED
      BY <3>1, <3>2, FS_AddElement
  <2> QED
    BY <2>1
<1>2. Funds = {"buyback", "staking"} \cup {"dao", "emergency"}
  BY DEF Funds
<1>3. IsFiniteSet(Funds)
  BY <1>1, <1>2, FS_Union
<1>4. IsFiniteSet(Owners \cup Funds)
  BY <1>3, FS_Union, PoolAssumption
<1>5. IsFiniteSet(Accounts)
  BY <1>1, <1>4, FS_Union DEF Accounts
<1>6. Funds = FourFunds /\ FourFunds \subseteq Accounts
  BY DEF Accounts, Funds, FourFunds
<1>7. \A o \in Owners : o \in Accounts \ FourFunds
  BY <1>6, AccountsAssumption DEF Accounts
<1> QED
  BY <1>5, <1>6, <1>7

LEMMA BooksOf ==
  ASSUME BooksInv
  PROVE  /\ vault.total_supply \in Nat /\ vault.total_energy_wh \in Nat /\ earned \in Nat
         /\ Whole(EnergyIn, Pools) /\ Total(EnergyIn, Pools) \in Int /\ Due \in Int
         /\ earned * INITIAL_ENERGY_PER_SRC <= SRC_BASIS * Due
         /\ Whole(balance, Accounts)
         /\ Total(balance, Accounts) = supply /\ supply = vault.total_supply
<1>1. /\ vault.total_supply \in Nat /\ vault.total_energy_wh \in Nat /\ earned \in Nat
      /\ Total(balance, Accounts) = supply /\ supply = vault.total_supply
  BY DEF BooksInv, BooksTypes, VaultCountsTheToken
<1>2. \A p \in Pools : pool[p].total_energy \in Nat /\ EnergyIn[p] = pool[p].total_energy
  BY DEF BooksInv, BooksTypes, Pool, EnergyIn
<1>3. Whole(EnergyIn, Pools) /\ Total(EnergyIn, Pools) \in Int
  <2>1. \A p \in Pools : EnergyIn[p] \in Int
    BY <1>2
  <2> QED
    BY <2>1, SumType, AccountsAssumption DEF Whole
<1>4. Whole(balance, Accounts)
  BY DEF BooksInv, BooksTypes, Whole
<1>5. earned * INITIAL_ENERGY_PER_SRC <= SRC_BASIS * Due
  BY DEF BooksInv, EnergyIsRewardedTwiceAtMost, Due, EnergyIn
<1>6. Due \in Int
  BY <1>1, <1>3 DEF Due
<1> QED
  BY <1>1, <1>3, <1>4, <1>5, <1>6

\* A reward within the peg, for energy that becomes due.
LEMMA RewardsFit ==
  ASSUME NEW peg \in Nat, NEW basis \in Nat, NEW e \in Nat, NEW r \in Nat, NEW x \in Nat,
         NEW m \in Int, NEW n \in Int,
         e * peg <= basis * m, r * peg <= x * basis, m + x <= n
  PROVE  (e + r) * peg <= basis * n
<1>1. PICK d \in Nat : n = m + x + d
  <2>1. n - (m + x) \in Nat /\ n = m + x + (n - (m + x))
    OBVIOUS
  <2> QED
    BY <2>1
<1>2. basis * n = basis * m + x * basis + basis * d
  <2>1. basis * (m + x + d) = basis * m + basis * x + basis * d /\ basis * x = x * basis
    OBVIOUS
  <2> QED
    BY <1>1, <2>1
<1>3. (e + r) * peg = e * peg + r * peg
  OBVIOUS
<1>4. /\ e * peg \in Int /\ r * peg \in Int /\ basis * m \in Int /\ x * basis \in Int
      /\ basis * d \in Nat
  BY ProductIsNat
<1> QED
  BY <1>2, <1>3, <1>4

\* The pools lose nothing or give up what they had.
LEMMA RewardKeepsBound ==
  ASSUME BooksInv, NEW reward \in Nat, NEW wh \in Nat,
         reward * INITIAL_ENERGY_PER_SRC <= wh * SRC_BASIS,
         earned' = earned + reward, Due' \in Int, Due + wh <= Due'
  PROVE  EnergyIsRewardedTwiceAtMost'
<1>1. (earned + reward) * INITIAL_ENERGY_PER_SRC <= SRC_BASIS * Due'
  <2>1. earned \in Nat /\ Due \in Int /\ earned * INITIAL_ENERGY_PER_SRC <= SRC_BASIS * Due
    BY BooksOf
  <2>2. INITIAL_ENERGY_PER_SRC \in Nat /\ SRC_BASIS \in Nat
    BY Scales
  <2> DEFINE m == Due
             n == Due'
  <2>3. m \in Int /\ n \in Int /\ m + wh <= n
    BY <2>1
  <2> HIDE DEF m, n
  <2> QED
    BY <2>1, <2>2, <2>3, RewardsFit DEF m, n
<1> QED
  BY <1>1 DEF EnergyIsRewardedTwiceAtMost, Due, EnergyIn

LEMMA PoolEmpties ==
  ASSUME BooksInv, NEW p \in Pools, pool'[p].total_energy = 0,
         \A z \in Pools \ {p} : pool'[z] = pool[z]
  PROVE  /\ Total(EnergyIn, Pools)' \in Int
         /\ Total(EnergyIn, Pools) = Total(EnergyIn, Pools)' + pool[p].total_energy
<1> DEFINE was == EnergyIn
           is == EnergyIn'
           n == pool[p].total_energy
<1>1. n \in Int
  BY DEF BooksInv, BooksTypes, Pool
<1>2. /\ \A z \in Pools : was[z] = pool[z].total_energy
      /\ \A z \in Pools : is[z] = pool'[z].total_energy
  BY DEF EnergyIn
<1>3. Grown(is, was, Pools, p, n)
  BY <1>1, <1>2 DEF Grown
<1>4. Whole(is, Pools)
  <2>1. \A z \in Pools : pool[z].total_energy \in Int
    BY DEF BooksInv, BooksTypes, Pool
  <2> QED
    BY <1>2, <2>1 DEF Whole
<1>5. IsFiniteSet(Pools)
  BY AccountsAssumption
<1> HIDE DEF is, was, n
<1>6. Total(is, Pools) \in Int /\ Total(was, Pools) = Total(is, Pools) + n
  BY <1>1, <1>3, <1>4, <1>5, SumGrows
<1> QED
  BY <1>6 DEF is, was, n

LEMMA PoolFills ==
  ASSUME BooksInv, NEW p \in Pools, NEW wh \in Nat,
         pool'[p].total_energy = pool[p].total_energy + wh,
         \A z \in Pools \ {p} : pool'[z] = pool[z]
  PROVE  Total(EnergyIn, Pools)' = Total(EnergyIn, Pools) + wh
<1> DEFINE was == EnergyIn
           is == EnergyIn'
<1>1. wh \in Int
  OBVIOUS
<1>2. /\ \A z \in Pools : was[z] = pool[z].total_energy
      /\ \A z \in Pools : is[z] = pool'[z].total_energy
  BY DEF EnergyIn
<1>3. Grown(was, is, Pools, p, wh)
  BY <1>2 DEF Grown
<1>4. Whole(was, Pools)
  BY BooksOf
<1>5. IsFiniteSet(Pools)
  BY AccountsAssumption
<1> HIDE DEF is, was
<1>6. Total(is, Pools) = Total(was, Pools) + wh
  BY <1>1, <1>3, <1>4, <1>5, SumGrows
<1> QED
  BY <1>6 DEF is, was

LEMMA BooksStart == PoolInit => BooksInv
<1> SUFFICES ASSUME PoolInit PROVE BooksInv
  OBVIOUS
<1>1. /\ pool = [p \in Pools |-> NewPool] /\ share = [p \in Pools |-> [d \in Devices |-> 0]]
      /\ vault = [total_supply |-> 0, total_energy_wh |-> 0] /\ supply = 0 /\ earned = 0
      /\ balance = [a \in Accounts |-> 0]
  BY DEF PoolInit
<1>2. BooksTypes
  <2>1. NewPool \in Pool
    BY DEF NewPool, Pool
  <2> QED
    BY <1>1, <2>1 DEF BooksTypes
<1>3. Total(balance, Accounts) = 0
  BY <1>1, AccountsOfLedger, SumOfZeros
<1>4. Total(EnergyIn, Pools) = 0
  <2>1. \A p \in Pools : EnergyIn[p] = 0
    BY <1>1 DEF EnergyIn, NewPool
  <2> QED
    BY <2>1, AccountsAssumption, SumOfZeros
<1>5. 0 * INITIAL_ENERGY_PER_SRC <= SRC_BASIS * (2 * 0 - 0)
  BY Scales
<1> QED
  BY <1>1, <1>2, <1>3, <1>4, <1>5
     DEF BooksInv, VaultCountsTheToken, EnergyIsRewardedTwiceAtMost, EnergyIn

\* Steps that touch neither tokens nor pools.
LEMMA BooksStay ==
  ASSUME BooksInv, UNCHANGED <<pool, share, vault, supply, balance, earned>>
  PROVE  BooksInv'
BY DEF BooksInv, BooksTypes, VaultCountsTheToken, EnergyIsRewardedTwiceAtMost

LEMMA CreatingKeepsBooks ==
  ASSUME BooksInv, NEW p \in Pools, NEW threshold \in Thresholds, CreatePool(p, threshold)
  PROVE  BooksInv'
<1> DEFINE new == [exists |-> TRUE, total_energy |-> 0, producers |-> {},
                   threshold |-> IF threshold = 0 THEN DEFAULT_POOL_THRESHOLD ELSE threshold]
<1>1. /\ pool' = [pool EXCEPT ![p] = new]
      /\ UNCHANGED <<share, vault, supply, balance, earned>>
  BY DEF CreatePool
<1>2. pool \in [Pools -> Pool]
  BY DEF BooksInv, BooksTypes
<1>3. new \in Pool /\ new.total_energy = 0
  BY PoolAssumption DEF Pool
<1> HIDE DEF new
<1>4. /\ pool' \in [Pools -> Pool] /\ pool'[p].total_energy = 0
      /\ \A z \in Pools \ {p} : pool'[z] = pool[z]
  BY <1>1, <1>2, <1>3
<1>5. BooksTypes' /\ VaultCountsTheToken'
  BY <1>1, <1>4 DEF BooksInv, BooksTypes, VaultCountsTheToken
<1>6. EnergyIsRewardedTwiceAtMost'
  <2>1. /\ Total(EnergyIn, Pools)' \in Int
        /\ Total(EnergyIn, Pools) = Total(EnergyIn, Pools)' + pool[p].total_energy
    BY <1>4, PoolEmpties
  <2>2. pool[p].total_energy \in Nat /\ vault' = vault /\ vault.total_energy_wh \in Nat
    BY <1>1, <1>2, BooksOf DEF Pool
  <2>3. Due' \in Int /\ Due + 0 <= Due'
    BY <2>1, <2>2 DEF Due
  <2>4. earned' = earned + 0 /\ 0 * INITIAL_ENERGY_PER_SRC <= 0 * SRC_BASIS
    BY <1>1, BooksOf, Scales
  <2> QED
    BY <2>3, <2>4, RewardKeepsBound
<1> QED
  BY <1>5, <1>6 DEF BooksInv

LEMMA JoiningKeepsBooks ==
  ASSUME BooksInv, NEW p \in Pools, NEW d \in Devices, JoinPool(p, d)
  PROVE  BooksInv'
<1>1. /\ pool' = [pool EXCEPT ![p].producers = @ \cup {d}]
      /\ UNCHANGED <<share, vault, supply, balance, earned>>
  BY DEF JoinPool
<1>2. pool \in [Pools -> Pool]
  BY DEF BooksInv, BooksTypes
<1>3. /\ pool' \in [Pools -> Pool]
      /\ \A z \in Pools : pool'[z].total_energy = pool[z].total_energy
  BY <1>1, <1>2 DEF Pool
<1>4. BooksTypes' /\ VaultCountsTheToken'
  BY <1>1, <1>3 DEF BooksInv, BooksTypes, VaultCountsTheToken
<1>5. EnergyIn' = EnergyIn
  BY <1>3 DEF EnergyIn
<1>6. EnergyIsRewardedTwiceAtMost'
  BY <1>1, <1>5 DEF BooksInv, EnergyIsRewardedTwiceAtMost, EnergyIn
<1> QED
  BY <1>4, <1>6 DEF BooksInv

\* The difficulty of a device divides, so that no report is paid beyond the peg.
LEMMA MintRewardsArePegged ==
  ASSUME BooksInv, NEW wh \in Nat, NEW reward \in MintRewards(wh)
  PROVE  reward \in Nat /\ reward * INITIAL_ENERGY_PER_SRC <= wh * SRC_BASIS
<1>1. PICK device \in {0, 1} :
        reward = calculate_reward_dynamic(wh, vault.total_supply, device, 1)
  BY DEF MintRewards
<1>2. vault.total_supply \in Nat /\ device \in Nat /\ 1 \in Nat
  BY BooksOf
<1> QED
  BY <1>1, <1>2, RewardBelowPeg

LEMMA CreditingKeepsBalances ==
  ASSUME BooksInv, NEW owner \in Owners, NEW reward \in Nat,
         balance' = [a \in Accounts |-> balance[a] + PartOf(Split(reward), a, owner)]
  PROVE  /\ balance' \in [Accounts -> Nat]
         /\ Total(balance', Accounts) = Total(balance, Accounts) + reward
         /\ SumParts(Split(reward)) = reward
<1> DEFINE part == Split(reward)
<1>1. part \in Parts
      /\ part.user + part.buyback + part.staking + part.dao + part.emergency = reward
  BY SplitLosesNothing
<1>2. SumParts(part) = reward
  BY <1>1 DEF SumParts
<1>3. \A a \in Accounts : balance'[a] = balance[a] + PartOf(part, a, owner)
  OBVIOUS
<1>4. balance' = [a \in Accounts |-> balance'[a]]
  OBVIOUS
<1> HIDE DEF part
<1>5. IsFiniteSet(Accounts) /\ FourFunds \subseteq Accounts /\ owner \in Accounts \ FourFunds
  BY AccountsOfLedger
<1>6. /\ PartOf(part, "buyback", owner) = part.buyback
      /\ PartOf(part, "staking", owner) = part.staking
      /\ PartOf(part, "dao", owner) = part.dao
      /\ PartOf(part, "emergency", owner) = part.emergency
      /\ PartOf(part, owner, owner) = part.user
      /\ \A a \in Accounts \ (FourFunds \cup {owner}) : PartOf(part, a, owner) = 0
  BY <1>5 DEF PartOf, FourFunds
<1>7. balance \in [Accounts -> Nat]
  BY DEF BooksInv, BooksTypes
<1>8. balance' \in [Accounts -> Nat]
  <2>1. \A a \in Accounts : PartOf(part, a, owner) \in Nat
    <3>1. part.user \in Nat /\ part.buyback \in Nat /\ part.staking \in Nat /\ part.dao \in Nat
          /\ part.emergency \in Nat
      BY <1>1 DEF Parts
    <3> QED
      BY <1>6, <3>1 DEF FourFunds
  <2> QED
    BY <1>3, <1>4, <1>7, <2>1
<1>9. Credits(balance, balance', Accounts, owner, part)
  <2>1. \A a \in Accounts \ (FourFunds \cup {owner}) : balance'[a] = balance[a]
    BY <1>3, <1>6, <1>7
  <2>2. "buyback" \in Accounts /\ "staking" \in Accounts /\ "dao" \in Accounts
        /\ "emergency" \in Accounts /\ owner \in Accounts
    BY <1>5 DEF FourFunds
  <2> QED
    BY <1>3, <1>6, <2>1, <2>2 DEF Credits
<1>10. Whole(balance, Accounts)
  BY <1>7 DEF Whole
<1>11. Total(balance', Accounts) = Total(balance, Accounts) + reward
  BY <1>5, <1>9, <1>10, CreditsAddUp DEF part
<1> QED
  BY <1>2, <1>8, <1>11 DEF part

LEMMA ContributionsAreDue ==
  ASSUME BooksInv, NEW d \in Devices, NEW wh \in Nat, NEW into \in Pools \cup {NoPool},
         Contribute(d, wh, into)
  PROVE  /\ pool' \in [Pools -> Pool] /\ share' \in [Pools -> [Devices -> Nat]]
         /\ Total(EnergyIn, Pools)' \in Int
         /\ Total(EnergyIn, Pools)' <= Total(EnergyIn, Pools) + wh
<1>1. /\ pool \in [Pools -> Pool] /\ share \in [Pools -> [Devices -> Nat]]
      /\ Total(EnergyIn, Pools) \in Int
  BY BooksOf DEF BooksInv, BooksTypes
<1>2. CASE UNCHANGED <<pool, share>>
  <2>1. EnergyIn' = EnergyIn
    BY <1>2 DEF EnergyIn
  <2> QED
    BY <1>1, <1>2, <2>1
<1>3. CASE /\ into \in Pools
           /\ pool' = [pool EXCEPT ![into].total_energy = @ + wh]
           /\ share' = [share EXCEPT ![into][d] = @ + wh]
  <2>1. /\ pool' \in [Pools -> Pool]
        /\ pool'[into].total_energy = pool[into].total_energy + wh
        /\ \A z \in Pools \ {into} : pool'[z] = pool[z]
    <3> DEFINE full == [pool[into] EXCEPT !.total_energy = @ + wh]
    <3>1. full \in Pool /\ full.total_energy = pool[into].total_energy + wh
      <4>1. pool[into] \in Pool
        BY <1>1, <1>3
      <4>2. wh \in Nat
        OBVIOUS
      <4> QED
        BY ONLY <4>1, <4>2 DEF Pool
    <3>2. pool' = [pool EXCEPT ![into] = full]
      BY <1>1, <1>3
    <3> HIDE DEF full
    <3> QED
      BY <1>1, <1>3, <3>1, <3>2
  <2>2. share' \in [Pools -> [Devices -> Nat]]
    <3> DEFINE more == [share[into] EXCEPT ![d] = @ + wh]
    <3>1. more \in [Devices -> Nat]
      BY <1>1, <1>3
    <3>2. share' = [share EXCEPT ![into] = more]
      BY <1>1, <1>3
    <3> HIDE DEF more
    <3> QED
      BY <1>1, <1>3, <3>1, <3>2
  <2>3. Total(EnergyIn, Pools)' = Total(EnergyIn, Pools) + wh
    BY <1>3, <2>1, PoolFills
  <2> QED
    BY <1>1, <2>1, <2>2, <2>3
<1> QED
  BY <1>2, <1>3, PoolAssumption DEF Contribute

LEMMA MintingKeepsBooks ==
  ASSUME BooksInv, NEW d \in Devices, NEW wh \in Reports, NEW reward \in MintRewards(wh),
         NEW capped \in BOOLEAN, NEW withReputation \in BOOLEAN, NEW into \in Pools \cup {NoPool},
         MintEnergy(d, wh, reward, capped, withReputation, into)
  PROVE  BooksInv'
<1>1. /\ balance' = [a \in Accounts |-> balance[a] + PartOf(Split(reward), a, Owner[d])]
      /\ supply' = supply + SumParts(Split(reward))
      /\ vault' = [total_supply |-> vault.total_supply + reward,
                   total_energy_wh |-> vault.total_energy_wh + wh]
      /\ earned' = earned + reward
      /\ Contribute(d, wh, into)
  BY DEF MintEnergy
<1>2. wh \in Nat /\ Owner[d] \in Owners
  BY PoolAssumption, ReputationAssumption
<1>3. reward \in Nat /\ reward * INITIAL_ENERGY_PER_SRC <= wh * SRC_BASIS
  BY <1>2, MintRewardsArePegged
<1>4. /\ balance' \in [Accounts -> Nat]
      /\ Total(balance', Accounts) = Total(balance, Accounts) + reward
      /\ SumParts(Split(reward)) = reward
  BY <1>1, <1>2, <1>3, CreditingKeepsBalances
<1>5. /\ pool' \in [Pools -> Pool] /\ share' \in [Pools -> [Devices -> Nat]]
      /\ Total(EnergyIn, Pools)' \in Int
      /\ Total(EnergyIn, Pools)' <= Total(EnergyIn, Pools) + wh
  BY <1>1, <1>2, ContributionsAreDue
<1>6. /\ vault.total_supply \in Nat /\ vault.total_energy_wh \in Nat /\ earned \in Nat
      /\ Total(balance, Accounts) = supply /\ supply = vault.total_supply
      /\ Total(EnergyIn, Pools) \in Int
  BY BooksOf
<1>7. /\ vault'.total_supply = vault.total_supply + reward
      /\ vault'.total_energy_wh = vault.total_energy_wh + wh
      /\ vault' \in [total_supply : Nat, total_energy_wh : Nat]
  BY <1>1, <1>2, <1>3, <1>6
<1>8. BooksTypes'
  BY <1>1, <1>3, <1>4, <1>5, <1>6, <1>7 DEF BooksTypes
<1>9. VaultCountsTheToken'
  BY <1>1, <1>4, <1>6, <1>7 DEF VaultCountsTheToken
<1>10. Due' \in Int /\ Due + wh <= Due'
  <2>1. Due' = 2 * vault'.total_energy_wh - Total(EnergyIn, Pools)'
    BY DEF Due
  <2>2. Due = 2 * vault.total_energy_wh - Total(EnergyIn, Pools)
    BY DEF Due
  <2> DEFINE was == Total(EnergyIn, Pools)
             is == Total(EnergyIn, Pools)'
             e == vault.total_energy_wh
  <2>3. /\ was \in Int /\ is \in Int /\ e \in Nat /\ is <= was + wh
        /\ Due' = 2 * (e + wh) - is /\ Due = 2 * e - was
    BY <1>5, <1>6, <1>7, <2>1, <2>2
  <2> HIDE DEF was, is, e
  <2> QED
    BY ONLY <1>2, <2>3
<1>11. EnergyIsRewardedTwiceAtMost'
  BY <1>1, <1>2, <1>3, <1>10, RewardKeepsBound
<1> QED
  BY <1>8, <1>9, <1>11 DEF BooksInv

\* Each account is credited with the groups that are its own.
LEMMA GroupsCreditAccounts ==
  ASSUME BooksInv, NEW D, IsFiniteSet(D), NEW class \in [D -> Accounts], NEW pay,
         \A i \in D : pay[i] \in Nat,
         balance' = [a \in Accounts |-> balance[a] + Total(pay, OfClass(D, class, a))]
  PROVE  /\ balance' \in [Accounts -> Nat]
         /\ Total(balance', Accounts) = Total(balance, Accounts) + Total(pay, D)
<1> DEFINE paid == [a \in Accounts |-> Total(pay, OfClass(D, class, a))]
<1>1. /\ \A a \in Accounts : paid[a] = Total(pay, OfClass(D, class, a))
      /\ \A a \in Accounts : balance'[a] = balance[a] + paid[a]
      /\ balance' = [a \in Accounts |-> balance'[a]]
  OBVIOUS
<1>2. ASSUME NEW a \in Accounts PROVE paid[a] \in Nat
  <2> DEFINE own == OfClass(D, class, a)
  <2>1. IsFiniteSet(own) /\ \A i \in own : pay[i] \in Nat
    BY FS_Subset DEF OfClass
  <2> HIDE DEF own
  <2>2. Total(pay, own) \in Nat
    BY <2>1, SumIsNat
  <2> QED
    BY <2>2 DEF own
<1> HIDE DEF paid
<1>3. balance \in [Accounts -> Nat] /\ IsFiniteSet(Accounts)
  BY AccountsOfLedger DEF BooksInv, BooksTypes
<1>4. balance' \in [Accounts -> Nat]
  BY <1>1, <1>2, <1>3
<1>5. \A a \in Accounts : balance[a] \in Int /\ paid[a] \in Int /\ balance'[a] = balance[a] + paid[a]
  BY <1>1, <1>2, <1>3
<1>6. Total(balance', Accounts) = Total(balance, Accounts) + Total(paid, Accounts)
  BY ONLY <1>3, <1>5, SumAdds
<1>7. Total(paid, Accounts) = Total(pay, D)
  <2>1. \A i \in D : pay[i] \in Int
    OBVIOUS
  <2> QED
    BY <1>1, <1>3, <2>1, SumOfClasses
<1> QED
  BY <1>4, <1>6, <1>7

\* What a distribution mints for the energy of the pool, as much of it as fits an u64.
DistributedReward(p) ==
  reward_for_energy(AtMost(pool[p].total_energy, WORD - 1), energy_per_src(vault.total_supply))

LEMMA DistributionIsPegged ==
  ASSUME BooksInv, NEW p \in Pools
  PROVE  /\ DistributedReward(p) \in Nat
         /\ DistributedReward(p) * INITIAL_ENERGY_PER_SRC <= pool[p].total_energy * SRC_BASIS
<1> DEFINE energy == pool[p].total_energy
           fits == AtMost(energy, WORD - 1)
           reward == DistributedReward(p)
<1>1. energy \in Nat /\ vault.total_supply \in Nat
  BY DEF BooksInv, BooksTypes, Pool
<1> HIDE DEF energy
<1>2. fits \in Nat /\ fits <= energy
  BY <1>1, AtMostBounds, Scales
<1>3. reward = reward_for_energy(fits, energy_per_src(vault.total_supply))
  BY DEF DistributedReward, energy
<1> HIDE DEF fits, reward
<1>4. reward \in Nat /\ reward * INITIAL_ENERGY_PER_SRC <= fits * SRC_BASIS
  BY <1>1, <1>2, <1>3, PriceAtLeastPeg, RewardBelowPrice
<1>5. SRC_BASIS * fits <= SRC_BASIS * energy /\ SRC_BASIS * fits = fits * SRC_BASIS
      /\ SRC_BASIS * energy = energy * SRC_BASIS /\ fits * SRC_BASIS \in Nat
      /\ energy * SRC_BASIS \in Nat
  BY <1>1, <1>2, ProductGrows, Scales
<1>6. reward * INITIAL_ENERGY_PER_SRC \in Nat
  BY <1>4, Scales, ProductIsNat
<1> QED
  BY <1>4, <1>5, <1>6 DEF energy, reward

LEMMA DistributingKeepsBooks ==
  ASSUME BooksInv, ReputationInv, NEW p \in Pools, NEW group \in Groups(p),
         DistributePool(p, group)
  PROVE  BooksInv'
<1> DEFINE energy == pool[p].total_energy
           reward == DistributedReward(p)
           pay == Payouts(p, group, reward)
           D == DOMAIN group
           class == [i \in D |-> Owner[group[i]]]
<1>1. /\ group # <<>> /\ WeightedSum(p, group) > 0
      /\ balance' = [a \in Accounts |->
                       balance[a] + Total(pay, {i \in D : Owner[group[i]] = a})]
      /\ supply' = supply + Total(pay, D)
      /\ vault' = [vault EXCEPT !.total_supply = @ + reward]
      /\ earned' = earned + reward
      /\ pool' = [pool EXCEPT ![p].total_energy = 0]
      /\ share' = share
  BY DEF DistributePool, Emptied, DistributedReward
<1>2. /\ pool \in [Pools -> Pool] /\ share \in [Pools -> [Devices -> Nat]]
      /\ reputation \in [Owners -> ReputationRecord]
      /\ vault \in [total_supply : Nat, total_energy_wh : Nat]
  BY DEF BooksInv, BooksTypes, ReputationInv
<1>3. /\ vault.total_supply \in Nat /\ vault.total_energy_wh \in Nat /\ earned \in Nat
      /\ Total(balance, Accounts) = supply /\ supply = vault.total_supply
      /\ Total(EnergyIn, Pools) \in Int
  BY BooksOf
<1>4. energy \in Nat
  BY <1>2 DEF Pool
<1>5. reward \in Nat /\ reward * INITIAL_ENERGY_PER_SRC <= energy * SRC_BASIS
  BY DistributionIsPegged
<1> HIDE DEF energy
<1> HIDE DEF reward
<1>6. /\ IsFiniteSet(D)
      /\ \A i \in D : group[i] \in Devices
      /\ \A i \in D : pay[i] \in Nat
      /\ Total(pay, D) = reward
  BY <1>1, <1>2, <1>5, PayoutsAddUp
<1>7. class \in [D -> Accounts]
  <2>1. \A i \in D : Owner[group[i]] \in Accounts
    BY <1>6, AccountsOfLedger, PoolAssumption
  <2> QED
    BY <2>1
<1>8. balance' = [a \in Accounts |-> balance[a] + Total(pay, OfClass(D, class, a))]
  <2>1. \A a : {i \in D : Owner[group[i]] = a} = OfClass(D, class, a)
    BY DEF OfClass
  <2> HIDE DEF pay, D, class
  <2> QED
    BY <1>1, <2>1
<1> HIDE DEF pay, D, class
<1>9. /\ balance' \in [Accounts -> Nat]
      /\ Total(balance', Accounts) = Total(balance, Accounts) + reward
  BY <1>6, <1>7, <1>8, GroupsCreditAccounts
<1>10. /\ vault'.total_supply = vault.total_supply + reward
       /\ vault'.total_energy_wh = vault.total_energy_wh
       /\ vault' \in [total_supply : Nat, total_energy_wh : Nat]
  <2>1. vault' = [vault EXCEPT !.total_supply = @ + reward] /\ reward \in Nat
    BY <1>1, <1>5
  <2>2. vault \in [total_supply : Nat, total_energy_wh : Nat]
    BY <1>2
  <2> QED
    BY ONLY <2>1, <2>2
<1>11. /\ pool' \in [Pools -> Pool] /\ pool'[p].total_energy = 0
       /\ \A z \in Pools \ {p} : pool'[z] = pool[z]
  BY <1>1, <1>2 DEF Pool
<1>12. BooksTypes'
  BY <1>1, <1>2, <1>3, <1>5, <1>9, <1>10, <1>11 DEF BooksTypes
<1>13. VaultCountsTheToken'
  BY <1>1, <1>3, <1>6, <1>9, <1>10 DEF VaultCountsTheToken
<1>14. /\ Total(EnergyIn, Pools)' \in Int
       /\ Total(EnergyIn, Pools) = Total(EnergyIn, Pools)' + energy
  BY <1>11, PoolEmpties DEF energy
<1>15. Due' \in Int /\ Due + energy <= Due'
  <2>1. Due' = 2 * vault'.total_energy_wh - Total(EnergyIn, Pools)'
    BY DEF Due
  <2>2. Due = 2 * vault.total_energy_wh - Total(EnergyIn, Pools)
    BY DEF Due
  <2> DEFINE was == Total(EnergyIn, Pools)
             is == Total(EnergyIn, Pools)'
             e == vault.total_energy_wh
  <2>3. /\ is \in Int /\ e \in Nat /\ was = is + energy
        /\ Due' = 2 * e - is /\ Due = 2 * e - was
    BY <1>3, <1>10, <1>14, <2>1, <2>2
  <2> HIDE DEF was, is, e
  <2> QED
    BY ONLY <1>4, <2>3
<1>16. EnergyIsRewardedTwiceAtMost'
  BY <1>1, <1>4, <1>5, <1>15, RewardKeepsBound
<1> QED
  BY <1>12, <1>13, <1>16 DEF BooksInv

LEMMA PoolStepKeepsBooks ==
  ASSUME BooksInv, ReputationInv, [PoolNext]_poolVars
  PROVE  BooksInv'
<1>1. CASE UNCHANGED poolVars
  BY <1>1, BooksStay DEF poolVars
<1>2. ASSUME NEW p \in Pools, NEW t \in Thresholds, CreatePool(p, t) PROVE BooksInv'
  BY <1>2, CreatingKeepsBooks
<1>3. ASSUME NEW p \in Pools, NEW d \in Devices, JoinPool(p, d) PROVE BooksInv'
  BY <1>3, JoiningKeepsBooks
<1>4. ASSUME NEW p \in Pools, NEW group \in Groups(p), DistributePool(p, group) PROVE BooksInv'
  BY <1>4, DistributingKeepsBooks
<1>5. ASSUME NEW o \in Owners, InitializeReputation(o) \/ \E s \in Severities : ReportAnomaly(o, s)
      PROVE  BooksInv'
  BY <1>5, BooksStay DEF InitializeReputation, ReportAnomaly
<1>6. ASSUME NEW d \in Devices, NEW wh \in Reports, NEW capped \in BOOLEAN,
             NEW withReputation \in BOOLEAN, NEW into \in Pools \cup {NoPool}, NEW reward \in MintRewards(wh),
             MintEnergy(d, wh, reward, capped, withReputation, into)
      PROVE  BooksInv'
  BY <1>6, MintingKeepsBooks
<1>7. CASE Tick
  BY <1>7, BooksStay DEF Tick
<1> QED
  BY <1>1, <1>2, <1>3, <1>4, <1>5, <1>6, <1>7 DEF PoolNext
-----------------------------------------------------------------------------
\* Whatever the devices report, the pools distribute and the callers pass: the vault, the
\* token program and the accounts agree on the supply.
THEOREM PoolCountsTheToken == PoolSpec => []VaultCountsTheToken
<1>1. BooksInv /\ ReputationInv /\ [PoolNext]_poolVars => BooksInv' /\ ReputationInv'
  BY PoolStepKeepsBooks, PoolStepKeepsReputation
<1>2. BooksInv => VaultCountsTheToken
  BY DEF BooksInv
<1> QED
  BY BooksStart, ReputationStarts, <1>1, <1>2, PTL DEF PoolSpec

\* Energy is paid for when it is minted and once more through a pool: never a third time.
THEOREM TwiceAtMost == PoolSpec => []EnergyIsRewardedTwiceAtMost
<1>1. BooksInv /\ ReputationInv /\ [PoolNext]_poolVars => BooksInv' /\ ReputationInv'
  BY PoolStepKeepsBooks, PoolStepKeepsReputation
<1>2. BooksInv => EnergyIsRewardedTwiceAtMost
  BY DEF BooksInv
<1> QED
  BY BooksStart, ReputationStarts, <1>1, <1>2, PTL DEF PoolSpec
-----------------------------------------------------------------------------
(* The bounds of the types.                                                *)

ReputationInRange(r) ==
  /\ r.score <= ERS_MAX_SCORE /\ r.anomaly_count <= MaxAnomalies
  /\ r.first_seen <= now /\ r.updated_at <= now

RangeInv ==
  /\ now <= MaxTime
  /\ vault.total_supply < WORD
  /\ \A o \in Owners : ReputationInRange(reputation[o])

LEMMA RangesStart == PoolInit => RangeInv
BY PoolAssumption, ReputationAssumption, Scales
   DEF PoolInit, RangeInv, ReputationInRange, NewReputation

\* Time may pass and tokens may be minted, as many as an u64 counts.
LEMMA RangesStay ==
  ASSUME RangeInv, reputation' = reputation, now \in Nat, now' \in Nat, now <= now', now' <= MaxTime,
         reputation \in [Owners -> ReputationRecord],
         vault'.total_supply < WORD
  PROVE  RangeInv'
<1>1. ASSUME NEW o \in Owners PROVE ReputationInRange(reputation[o])'
  <2>1. reputation[o].first_seen \in Nat /\ reputation[o].updated_at \in Nat
        /\ ReputationInRange(reputation[o])
    BY DEF ReputationRecord, RangeInv
  <2> QED
    BY <2>1, PoolAssumption DEF ReputationInRange
<1> QED
  BY <1>1 DEF RangeInv

LEMMA OneReputationInRange ==
  ASSUME RangeInv, reputation \in [Owners -> ReputationRecord], NEW o \in Owners, NEW r,
         reputation' = [reputation EXCEPT ![o] = r], ReputationInRange(r), now' = now,
         vault'.total_supply < WORD
  PROVE  RangeInv'
<1>1. ASSUME NEW z \in Owners PROVE ReputationInRange(reputation[z])'
  <2>1. ReputationInRange(reputation'[z])
    BY DEF RangeInv
  <2> QED
    BY <2>1 DEF ReputationInRange
<1> QED
  BY <1>1 DEF RangeInv

LEMMA ScoresAreCapped ==
  ASSUME NEW r \in ReputationRecord, NEW wh \in Nat, ReputationInRange(r), now \in Nat
  PROVE  ReputationInRange(update_reputation_after_mint(r, wh))
<1> DEFINE energy == r.total_energy_wh + wh
           merit == compute_ers_score(energy, SaturatingSub(now, r.first_seen))
           score == IF r.anomaly_count = 0 THEN merit ELSE Slowed(r.score, merit)
<1>1. update_reputation_after_mint(r, wh)
        = [r EXCEPT !.total_energy_wh = energy, !.score = score, !.updated_at = now]
  BY DEF update_reputation_after_mint
<1>2. r.first_seen \in Nat /\ r.score \in Nat /\ energy \in Nat
  BY DEF ReputationRecord
<1>3. SaturatingSub(now, r.first_seen) \in Nat
  BY <1>2 DEF SaturatingSub
<1>4. merit \in Nat /\ merit <= ERS_MAX_SCORE
  <2> DEFINE a == AtMost(ERS_ENERGY_POINTS_CAP, energy \div ERS_ENERGY_WH_PER_POINT)
             b == AtMost(ERS_UPTIME_POINTS_CAP, SaturatingSub(now, r.first_seen) \div DAY)
  <2>1. energy \div ERS_ENERGY_WH_PER_POINT \in Nat
        /\ SaturatingSub(now, r.first_seen) \div DAY \in Nat
    BY <1>2, <1>3, DivisionBounds, ReputationAssumption
  <2>2. a \in Nat /\ b \in Nat
    BY <2>1, AtMostBounds, ReputationAssumption
  <2>3. merit = AtMost(ERS_MAX_SCORE, ERS_BASE_SCORE + a + b)
    BY DEF compute_ers_score
  <2> HIDE DEF a, b, merit
  <2>4. ERS_BASE_SCORE + a + b \in Nat /\ ERS_MAX_SCORE \in Nat
    BY <2>2, ReputationAssumption
  <2> QED
    BY <2>3, <2>4, AtMostBounds
<1> HIDE DEF merit, energy
<1>5. Slowed(r.score, merit) <= ERS_MAX_SCORE
  <2> DEFINE half == SaturatingSub(merit, r.score) \div 2
  <2>1. half \in Nat
    BY <1>2, <1>4 DEF SaturatingSub
  <2>2. Slowed(r.score, merit) = AtMost(ERS_MAX_SCORE, r.score + half)
    BY DEF Slowed
  <2> HIDE DEF half
  <2>3. r.score + half \in Nat /\ ERS_MAX_SCORE \in Nat
    BY <1>2, <2>1, ReputationAssumption
  <2> QED
    BY <2>2, <2>3, AtMostBounds
<1>6. score <= ERS_MAX_SCORE
  BY <1>4, <1>5
<1> HIDE DEF score
<1>7. LET u == update_reputation_after_mint(r, wh)
      IN  u.score = score /\ u.updated_at = now /\ u.anomaly_count = r.anomaly_count
          /\ u.first_seen = r.first_seen
  BY <1>1 DEF ReputationRecord
<1> QED
  BY <1>6, <1>7 DEF ReputationInRange

LEMMA PoolStepKeepsRanges ==
  ASSUME RangeInv, ReputationInv, BooksInv, [PoolNext]_poolVars
  PROVE  RangeInv'
<1>1. /\ now \in Nat /\ now <= MaxTime /\ reputation \in [Owners -> ReputationRecord]
      /\ vault \in [total_supply : Nat, total_energy_wh : Nat]
      /\ vault.total_supply < WORD
      /\ MaxTime \in Nat /\ MaxAnomalies \in Nat
  BY PoolAssumption DEF ReputationInv, RangeInv, BooksInv, BooksTypes
<1>2. CASE UNCHANGED <<reputation, now, vault>>
  BY <1>1, <1>2, RangesStay
<1>3. ASSUME NEW p \in Pools, NEW t \in Thresholds, CreatePool(p, t)
      PROVE  UNCHANGED <<reputation, now, vault>>
  BY <1>3 DEF CreatePool
<1>4. ASSUME NEW p \in Pools, NEW d \in Devices, JoinPool(p, d)
      PROVE  UNCHANGED <<reputation, now, vault>>
  BY <1>4 DEF JoinPool
<1>5. ASSUME NEW p \in Pools, NEW group \in Groups(p), DistributePool(p, group) PROVE RangeInv'
  <2> DEFINE reward == DistributedReward(p)
  <2>1. /\ vault' = [vault EXCEPT !.total_supply = @ + reward]
        /\ vault.total_supply + reward <= MAX_SUPPLY_ATOMIC
        /\ UNCHANGED <<reputation, now>>
    BY <1>5 DEF DistributePool, DistributedReward
  <2>2. reward \in Nat
    BY DistributionIsPegged
  <2> HIDE DEF reward
  <2>3. vault'.total_supply < WORD
    BY <1>1, <2>1, <2>2, Scales
  <2> QED
    BY <1>1, <2>1, <2>3, RangesStay
<1>6. ASSUME NEW o \in Owners, InitializeReputation(o) PROVE RangeInv'
  <2> DEFINE r == [exists |-> TRUE, score |-> ERS_BASE_SCORE, updated_at |-> now,
                   total_energy_wh |-> 0, first_seen |-> now, anomaly_count |-> 0]
  <2>1. reputation' = [reputation EXCEPT ![o] = r] /\ now' = now /\ vault' = vault
    BY <1>6 DEF InitializeReputation
  <2>2. ReputationInRange(r)
    BY <1>1, ReputationAssumption DEF ReputationInRange
  <2> HIDE DEF r
  <2> QED
    BY <1>1, <2>1, <2>2, OneReputationInRange
<1>7. ASSUME NEW o \in Owners, NEW severity \in Severities, ReportAnomaly(o, severity)
      PROVE  RangeInv'
  <2> DEFINE score == apply_anomaly_penalty(reputation[o].score, severity)
             r == [reputation[o] EXCEPT !.score = score,
                                        !.anomaly_count = reputation[o].anomaly_count + 1,
                                        !.updated_at = now]
  <2>1. /\ reputation' = [reputation EXCEPT ![o] = r] /\ now' = now /\ vault' = vault
        /\ severity >= 1 /\ severity <= 10 /\ reputation[o].anomaly_count < MaxAnomalies
    BY <1>1, <1>7 DEF ReportAnomaly
  <2>2. severity \in 1 .. 10
    BY <2>1, ReputationAssumption
  <2>3. /\ reputation[o] \in ReputationRecord /\ reputation[o].score \in Nat
        /\ reputation[o].anomaly_count \in Nat
        /\ ReputationInRange(reputation[o])
    BY <1>1 DEF RangeInv, ReputationRecord
  <2>4. score \in Nat /\ score <= reputation[o].score
    BY <2>2, <2>3, PenaltyTakes
  <2> HIDE DEF score
  <2>5. /\ r.score = score /\ r.anomaly_count = reputation[o].anomaly_count + 1
        /\ r.updated_at = now /\ r.first_seen = reputation[o].first_seen
    BY <2>3 DEF ReputationRecord
  <2> HIDE DEF r
  <2>6. ReputationInRange(r)
    BY <1>1, <2>1, <2>3, <2>4, <2>5, ReputationAssumption DEF ReputationInRange
  <2> QED
    BY <1>1, <2>1, <2>6, OneReputationInRange
<1>8. ASSUME NEW d \in Devices, NEW wh \in Reports, NEW capped \in BOOLEAN,
             NEW withReputation \in BOOLEAN, NEW into \in Pools \cup {NoPool}, NEW reward \in MintRewards(wh),
             MintEnergy(d, wh, reward, capped, withReputation, into)
      PROVE  RangeInv'
  <2> DEFINE o == Owner[d]
             r == update_reputation_after_mint(reputation[o], wh)
  <2>1. o \in Owners /\ wh \in Nat
    BY PoolAssumption, ReputationAssumption
  <2>2. /\ now' = now
        /\ vault' = [total_supply |-> vault.total_supply + reward,
                     total_energy_wh |-> vault.total_energy_wh + wh]
        /\ vault.total_supply + reward < WORD
        /\ reputation' = IF withReputation THEN [reputation EXCEPT ![o] = r] ELSE reputation
    BY <1>8 DEF MintEnergy
  <2>3. vault'.total_supply < WORD
    BY <2>2
  <2>4. ReputationInRange(r)
    BY <1>1, <2>1, ScoresAreCapped DEF RangeInv
  <2> HIDE DEF o, r
  <2>5. CASE withReputation
    BY <1>1, <2>1, <2>2, <2>3, <2>4, <2>5, OneReputationInRange
  <2>6. CASE ~withReputation
    <3>1. reputation' = reputation
      BY <2>2, <2>6
    <3> QED
      BY <1>1, <2>2, <2>3, <3>1, RangesStay
  <2> QED
    BY <2>5, <2>6
<1>9. CASE Tick
  <2>1. now < MaxTime /\ now' = now + 1 /\ UNCHANGED <<reputation, vault>>
    BY <1>9 DEF Tick
  <2> QED
    BY <1>1, <2>1, RangesStay
<1>10. CASE UNCHANGED poolVars
  BY <1>2, <1>10 DEF poolVars
<1> QED
  BY <1>2, <1>3, <1>4, <1>5, <1>6, <1>7, <1>8, <1>9, <1>10 DEF PoolNext

LEMMA TypesOfPool ==
  ASSUME BooksInv, ReputationInv, RangeInv
  PROVE  PoolTypeOK
<1>1. now \in 0 .. MaxTime /\ supply \in Nat
  BY PoolAssumption, BooksOf DEF ReputationInv, RangeInv
<1>2. vault \in [total_supply : 0 .. WORD - 1, total_energy_wh : Nat]
  BY Scales DEF BooksInv, BooksTypes, RangeInv
<1>3. reputation \in [Owners -> Reputation]
  <2>1. ASSUME NEW o \in Owners PROVE reputation[o] \in Reputation
    <3>1. reputation[o] \in ReputationRecord /\ ReputationInRange(reputation[o]) /\ now \in Nat
      BY DEF ReputationInv, RangeInv
    <3> QED
      BY <3>1, PoolAssumption, ReputationAssumption
         DEF ReputationRecord, Reputation, ReputationInRange
  <2> QED
    BY <2>1 DEF ReputationInv
<1> QED
  BY <1>1, <1>2, <1>3 DEF PoolTypeOK, BooksInv, BooksTypes

\* Every variable of pools, reputations and vault (pool.rs, reputation.rs, vault.rs) keeps
\* its type and its bounds: no balance or counter falls below zero, and the counted supply
\* fits an u64, whether or not a policy keeps the cap.
THEOREM PoolTypeCorrect == PoolSpec => []PoolTypeOK
<1>1. PoolInit => BooksInv /\ ReputationInv /\ RangeInv
  BY BooksStart, ReputationStarts, RangesStart
<1>2. BooksInv /\ ReputationInv /\ RangeInv /\ [PoolNext]_poolVars
        => BooksInv' /\ ReputationInv' /\ RangeInv'
  BY PoolStepKeepsBooks, PoolStepKeepsReputation, PoolStepKeepsRanges
<1>3. BooksInv /\ ReputationInv /\ RangeInv => PoolTypeOK
  BY TypesOfPool
<1> QED
  BY <1>1, <1>2, <1>3, PTL DEF PoolSpec
-----------------------------------------------------------------------------
(* The founder's vesting.                                                  *)

\* Atoms, times the length of the release, that a schedule of this age has released at most.
Released(age) == FOUNDER_ALLOCATION_ATOMIC * SaturatingSub(age, FOUNDER_VESTING_CLIFF)

VestingInv ==
  /\ now \in Nat /\ first_start \in Nat /\ claimed \in Nat
  /\ vesting \in [exists : BOOLEAN, start_time : Nat, withdrawn : Nat]
  /\ first_start <= vesting.start_time /\ vesting.start_time <= now
  /\ vesting.withdrawn <= claimed
  /\ ~vesting.exists => claimed = 0
  /\ (claimed - vesting.withdrawn) * FOUNDER_VESTING_RELEASE
       <= Released(vesting.start_time - first_start)
  /\ vesting.withdrawn * FOUNDER_VESTING_RELEASE <= Released(now - vesting.start_time)
-----------------------------------------------------------------------------
(* Schedules.                                                              *)

LEMMA FounderParameters ==
  /\ FOUNDER_ALLOCATION_ATOMIC \in Nat
  /\ FOUNDER_VESTING_CLIFF \in Nat
  /\ FOUNDER_VESTING_RELEASE \in Nat /\ FOUNDER_VESTING_RELEASE # 0
BY LedgerAssumption

LEMMA ReleasedGrows ==
  ASSUME NEW x \in Nat, NEW y \in Nat, x <= y
  PROVE  Released(x) \in Nat /\ Released(y) \in Nat /\ Released(x) <= Released(y)
<1>1. /\ SaturatingSub(x, FOUNDER_VESTING_CLIFF) \in Nat
      /\ SaturatingSub(y, FOUNDER_VESTING_CLIFF) \in Nat
      /\ SaturatingSub(x, FOUNDER_VESTING_CLIFF) <= SaturatingSub(y, FOUNDER_VESTING_CLIFF)
  BY FounderParameters DEF SaturatingSub
<1> QED
  BY <1>1, ProductGrows, FounderParameters DEF Released

\* Two schedules that follow one another release no more than one over the whole time.
LEMMA ReleasedAdds ==
  ASSUME NEW x \in Nat, NEW y \in Nat
  PROVE  Released(x) + Released(y) <= Released(x + y)
<1> DEFINE a == SaturatingSub(x, FOUNDER_VESTING_CLIFF)
           b == SaturatingSub(y, FOUNDER_VESTING_CLIFF)
           c == SaturatingSub(x + y, FOUNDER_VESTING_CLIFF)
<1>1. a \in Nat /\ b \in Nat /\ c \in Nat /\ a + b <= c
  BY FounderParameters DEF SaturatingSub
<1>2. FOUNDER_ALLOCATION_ATOMIC \in Nat
  BY FounderParameters
<1>3. /\ Released(x) = FOUNDER_ALLOCATION_ATOMIC * a
      /\ Released(y) = FOUNDER_ALLOCATION_ATOMIC * b
      /\ Released(x + y) = FOUNDER_ALLOCATION_ATOMIC * c
  BY DEF Released
<1> HIDE DEF a, b, c
<1>4. FOUNDER_ALLOCATION_ATOMIC * (a + b) <= FOUNDER_ALLOCATION_ATOMIC * c
  BY <1>1, <1>2, ProductGrows
<1>5. FOUNDER_ALLOCATION_ATOMIC * (a + b)
        = FOUNDER_ALLOCATION_ATOMIC * a + FOUNDER_ALLOCATION_ATOMIC * b
  BY <1>1, <1>2
<1> QED
  BY <1>3, <1>4, <1>5

\* What is vested is within what the schedule has released.
LEMMA VestedIsReleased ==
  ASSUME NEW start \in Nat, NEW at \in Nat, start <= at
  PROVE  /\ vested_at(start, at) \in Nat
         /\ vested_at(start, at) * FOUNDER_VESTING_RELEASE <= Released(at - start)
<1> DEFINE age == at - start
           time == AtMost(age - FOUNDER_VESTING_CLIFF, FOUNDER_VESTING_RELEASE)
           sofar == FOUNDER_ALLOCATION_ATOMIC * time
<1>1. age \in Nat /\ SaturatingSub(at, start) = age
  BY DEF SaturatingSub
<1>2. CASE age < FOUNDER_VESTING_CLIFF
  <2>1. vested_at(start, at) = 0
    BY <1>1, <1>2 DEF vested_at
  <2>2. Released(age) \in Nat
    BY <1>1, ReleasedGrows
  <2>3. 0 * FOUNDER_VESTING_RELEASE = 0
    BY FounderParameters
  <2> QED
    BY <2>1, <2>2, <2>3
<1>3. CASE ~(age < FOUNDER_VESTING_CLIFF)
  <2>1. vested_at(start, at) = sofar \div FOUNDER_VESTING_RELEASE
    BY <1>1, <1>3 DEF vested_at
  <2>2. /\ age - FOUNDER_VESTING_CLIFF \in Nat
        /\ SaturatingSub(age, FOUNDER_VESTING_CLIFF) = age - FOUNDER_VESTING_CLIFF
    BY <1>1, <1>3, FounderParameters DEF SaturatingSub
  <2>3. time \in Nat /\ time <= age - FOUNDER_VESTING_CLIFF
    <3> DEFINE most == age - FOUNDER_VESTING_CLIFF
    <3>1. most \in Nat
      BY <2>2
    <3> HIDE DEF most
    <3>2. AtMost(most, FOUNDER_VESTING_RELEASE) \in Nat /\ AtMost(most, FOUNDER_VESTING_RELEASE) <= most
      BY <3>1, FounderParameters DEF AtMost
    <3> QED
      BY <3>2 DEF most
  <2>4. Released(age) = FOUNDER_ALLOCATION_ATOMIC * (age - FOUNDER_VESTING_CLIFF)
    BY <2>2 DEF Released
  <2> HIDE DEF time
  <2>5. sofar \in Nat /\ sofar <= Released(age)
    <3> DEFINE most == age - FOUNDER_VESTING_CLIFF
    <3>1. most \in Nat /\ time <= most
      BY <2>2, <2>3
    <3> HIDE DEF most
    <3>2. sofar \in Nat /\ sofar <= FOUNDER_ALLOCATION_ATOMIC * most
      BY <2>3, <3>1, ProductGrows, FounderParameters
    <3> QED
      BY <2>4, <3>2 DEF most
  <2> HIDE DEF sofar
  <2>6. /\ sofar \div FOUNDER_VESTING_RELEASE \in Nat
        /\ FOUNDER_VESTING_RELEASE * (sofar \div FOUNDER_VESTING_RELEASE) <= sofar
    BY <2>5, DivisionBounds, FounderParameters
  <2>7. Released(age) \in Nat
    BY <1>1, ReleasedGrows
  <2> DEFINE vested == sofar \div FOUNDER_VESTING_RELEASE
  <2>8. vested \in Nat /\ FOUNDER_VESTING_RELEASE * vested <= sofar
    BY <2>6
  <2> HIDE DEF vested
  <2>9. vested * FOUNDER_VESTING_RELEASE = FOUNDER_VESTING_RELEASE * vested
           /\ FOUNDER_VESTING_RELEASE * vested \in Nat
    BY <2>8, FounderParameters
  <2>10. vested * FOUNDER_VESTING_RELEASE <= Released(age)
    BY <2>5, <2>7, <2>8, <2>9
  <2>11. vested_at(start, at) = vested
    BY <2>1 DEF vested
  <2> HIDE DEF age
  <2>12. vested_at(start, at) \in Nat /\ vested_at(start, at) * FOUNDER_VESTING_RELEASE <= Released(age)
    BY <2>8, <2>10, <2>11
  <2> QED
    BY <2>12 DEF age
<1> QED
  BY <1>2, <1>3

LEMMA WholeTime ==
  ASSUME VestingInv
  PROVE  claimed * FOUNDER_VESTING_RELEASE <= Released(now - first_start)
<1> DEFINE before == claimed - vesting.withdrawn
           early == vesting.start_time - first_start
           late == now - vesting.start_time
<1>1. before \in Nat /\ vesting.withdrawn \in Nat /\ early \in Nat /\ late \in Nat
        /\ claimed = before + vesting.withdrawn /\ now - first_start = early + late
  BY DEF VestingInv
<1>2. /\ before * FOUNDER_VESTING_RELEASE <= Released(early)
      /\ vesting.withdrawn * FOUNDER_VESTING_RELEASE <= Released(late)
  BY DEF VestingInv
<1> HIDE DEF before, early, late
<1>3. Released(early) \in Nat /\ Released(late) \in Nat /\ Released(early + late) \in Nat
  BY <1>1, ReleasedGrows
<1>4. claimed * FOUNDER_VESTING_RELEASE
        = before * FOUNDER_VESTING_RELEASE + vesting.withdrawn * FOUNDER_VESTING_RELEASE
  BY <1>1, FounderParameters
<1>5. Released(early) + Released(late) <= Released(early + late)
  BY <1>1, ReleasedAdds
<1>6. before * FOUNDER_VESTING_RELEASE \in Nat /\ vesting.withdrawn * FOUNDER_VESTING_RELEASE \in Nat
  BY <1>1, FounderParameters
<1> QED
  BY <1>1, <1>2, <1>3, <1>4, <1>5, <1>6
-----------------------------------------------------------------------------
(* The steps.                                                              *)

LEMMA VestingStarts == LedgerInit => VestingInv
<1> SUFFICES ASSUME LedgerInit PROVE VestingInv
  OBVIOUS
<1>1. now = 0 /\ first_start = 0 /\ claimed = 0
        /\ vesting = [exists |-> FALSE, start_time |-> 0, withdrawn |-> 0]
  BY DEF LedgerInit, PoolInit
<1>2. Released(0) \in Nat /\ 0 * FOUNDER_VESTING_RELEASE = 0
  BY ReleasedGrows, FounderParameters
<1> QED
  BY <1>1, <1>2 DEF VestingInv

\* Time passes and what is released grows.
LEMMA VestingStays ==
  ASSUME VestingInv, UNCHANGED <<vesting, first_start, claimed>>, now' \in Nat, now' >= now
  PROVE  VestingInv'
<1>1. /\ now - vesting.start_time \in Nat /\ now' - vesting.start_time \in Nat
      /\ now - vesting.start_time <= now' - vesting.start_time
      /\ vesting.withdrawn \in Nat
  BY DEF VestingInv
<1>2. /\ Released(now - vesting.start_time) <= Released(now' - vesting.start_time)
      /\ Released(now - vesting.start_time) \in Nat /\ Released(now' - vesting.start_time) \in Nat
  BY <1>1, ReleasedGrows
<1>3. vesting.withdrawn * FOUNDER_VESTING_RELEASE \in Nat
  BY <1>1, FounderParameters
<1>4. vesting.withdrawn * FOUNDER_VESTING_RELEASE <= Released(now' - vesting.start_time)
  BY <1>2, <1>3 DEF VestingInv
<1>5. /\ (vesting.withdrawn * FOUNDER_VESTING_RELEASE <= Released(now - vesting.start_time))'
      /\ ((claimed - vesting.withdrawn) * FOUNDER_VESTING_RELEASE
            <= Released(vesting.start_time - first_start))'
  BY <1>4 DEF VestingInv, Released
<1>6. vesting.start_time <= now'
  BY DEF VestingInv
<1> QED
  BY <1>5, <1>6 DEF VestingInv

LEMMA InitializingKeepsVesting ==
  ASSUME VestingInv, InitializeFounderVesting
  PROVE  VestingInv'
<1>1. /\ vesting' = [exists |-> TRUE, start_time |-> now, withdrawn |-> 0]
      /\ first_start' = IF vesting.exists THEN first_start ELSE now
      /\ now' = now /\ claimed' = claimed
  BY DEF InitializeFounderVesting, poolVars
<1>2. first_start' \in Nat /\ first_start' <= now /\ now \in Nat
  BY <1>1 DEF VestingInv
<1>3. claimed * FOUNDER_VESTING_RELEASE <= Released(now - first_start')
  <2>1. CASE vesting.exists
    BY <1>1, <2>1, WholeTime
  <2>2. CASE ~vesting.exists
    <3>1. claimed = 0
      BY <2>2 DEF VestingInv
    <3>2. 0 * FOUNDER_VESTING_RELEASE = 0
      BY FounderParameters
    <3> DEFINE age == now - first_start'
    <3>3. age \in Nat /\ age <= age
      <4> DEFINE start == first_start'
      <4>1. start \in Nat /\ start <= now /\ now \in Nat
        BY <1>2
      <4> HIDE DEF start
      <4>2. now - start \in Nat /\ now - start <= now - start
        BY <4>1
      <4> QED
        BY <4>2 DEF start
    <3> HIDE DEF age
    <3>4. Released(age) \in Nat
      BY <3>3, ReleasedGrows
    <3> QED
      BY <3>1, <3>2, <3>4 DEF age
  <2> QED
    BY <2>1, <2>2
<1>4. Released(0) \in Nat /\ 0 * FOUNDER_VESTING_RELEASE = 0
  BY ReleasedGrows, FounderParameters
<1>5. claimed \in Nat /\ claimed - 0 = claimed /\ now - now = 0
  BY DEF VestingInv
<1>6. /\ (claimed' - vesting'.withdrawn) * FOUNDER_VESTING_RELEASE
           <= Released(vesting'.start_time - first_start')
      /\ vesting'.withdrawn * FOUNDER_VESTING_RELEASE <= Released(now' - vesting'.start_time)
  BY <1>1, <1>3, <1>4, <1>5
<1>7. /\ ((claimed - vesting.withdrawn) * FOUNDER_VESTING_RELEASE
            <= Released(vesting.start_time - first_start))'
      /\ (vesting.withdrawn * FOUNDER_VESTING_RELEASE <= Released(now - vesting.start_time))'
  BY <1>6 DEF Released
<1> QED
  BY <1>1, <1>2, <1>5, <1>7 DEF VestingInv

LEMMA ClaimingKeepsVesting ==
  ASSUME VestingInv, NEW to, ClaimVested(to)
  PROVE  VestingInv'
<1> DEFINE vested == vested_at(vesting.start_time, now)
<1>1. /\ vesting.exists /\ vested - vesting.withdrawn > 0
      /\ vesting' = [vesting EXCEPT !.withdrawn = vested]
      /\ claimed' = claimed + (vested - vesting.withdrawn)
      /\ first_start' = first_start /\ now' = now
  BY DEF ClaimVested, Transfer
<1>2. vested \in Nat /\ vested * FOUNDER_VESTING_RELEASE <= Released(now - vesting.start_time)
  BY VestedIsReleased DEF VestingInv
<1> HIDE DEF vested
<1>3. /\ vesting'.exists = vesting.exists /\ vesting'.start_time = vesting.start_time
      /\ vesting'.withdrawn = vested
      /\ vesting' \in [exists : BOOLEAN, start_time : Nat, withdrawn : Nat]
  BY <1>1, <1>2 DEF VestingInv
<1>4. claimed' \in Nat /\ claimed' - vested = claimed - vesting.withdrawn /\ vested <= claimed'
  BY <1>1, <1>2 DEF VestingInv
<1>5. /\ (claimed' - vesting'.withdrawn) * FOUNDER_VESTING_RELEASE
           <= Released(vesting'.start_time - first_start')
      /\ vesting'.withdrawn * FOUNDER_VESTING_RELEASE <= Released(now' - vesting'.start_time)
  BY <1>1, <1>2, <1>3, <1>4 DEF VestingInv
<1>6. /\ ((claimed - vesting.withdrawn) * FOUNDER_VESTING_RELEASE
            <= Released(vesting.start_time - first_start))'
      /\ (vesting.withdrawn * FOUNDER_VESTING_RELEASE <= Released(now - vesting.start_time))'
  BY <1>5 DEF Released
<1> QED
  BY <1>1, <1>3, <1>4, <1>6 DEF VestingInv

LEMMA PoolStepKeepsTime ==
  ASSUME now \in Nat, PoolNext
  PROVE  now' \in Nat /\ now' >= now
<1>1. ASSUME NEW p \in Pools,
             \/ \E t \in Thresholds : CreatePool(p, t)
             \/ \E d \in Devices : JoinPool(p, d)
             \/ \E group \in Groups(p) : DistributePool(p, group)
      PROVE  now' = now
  BY <1>1 DEF CreatePool, JoinPool, DistributePool
<1>2. ASSUME NEW o \in Owners, InitializeReputation(o) \/ \E s \in Severities : ReportAnomaly(o, s)
      PROVE  now' = now
  BY <1>2 DEF InitializeReputation, ReportAnomaly
<1>3. ASSUME NEW d \in Devices, NEW wh \in Reports, NEW capped \in BOOLEAN,
             NEW withReputation \in BOOLEAN, NEW into \in Pools \cup {NoPool}, NEW reward \in MintRewards(wh),
             MintEnergy(d, wh, reward, capped, withReputation, into)
      PROVE  now' = now
  BY <1>3 DEF MintEnergy
<1>4. CASE Tick
  BY <1>4 DEF Tick
<1> QED
  BY <1>1, <1>2, <1>3, <1>4 DEF PoolNext

LEMMA LedgerStepKeepsVesting ==
  ASSUME VestingInv, [LedgerNext]_ledgerVars
  PROVE  VestingInv'
<1>1. now \in Nat
  BY DEF VestingInv
<1>2. CASE UNCHANGED ledgerVars
  BY <1>1, <1>2, VestingStays DEF ledgerVars, poolVars, founderVars
<1>3. CASE PoolNext /\ UNCHANGED founderVars
  BY <1>1, <1>3, PoolStepKeepsTime, VestingStays DEF founderVars
<1>4. CASE AllocateFounder
  BY <1>1, <1>4, VestingStays DEF AllocateFounder, MintTo
<1>5. CASE InitializeFounderVesting
  BY <1>5, InitializingKeepsVesting
<1>6. CASE \E a \in Payees : ClaimVested(a)
  BY <1>6, ClaimingKeepsVesting
<1>7. CASE Treasury
  <2>1. UNCHANGED <<vesting, first_start, claimed, now>>
    BY <1>7 DEF Treasury, GovernanceMint, BuybackAndBurn, ClaimOracleReward, WithdrawFund,
                MintTo, Transfer, founderVars
  <2> QED
    BY <1>1, <2>1, VestingStays
<1> QED
  BY <1>2, <1>3, <1>4, <1>5, <1>6, <1>7 DEF LedgerNext, Founder
-----------------------------------------------------------------------------
\* However often the vesting is initialised again, the founder claims no more than the
\* schedule of the first initialisation has released.
THEOREM VestingHolds == LedgerSpec => []VestingNeverAheadOfFirstStart
<1>1. VestingInv /\ [LedgerNext]_ledgerVars => VestingInv'
  BY LedgerStepKeepsVesting
<1>2. VestingInv => VestingNeverAheadOfFirstStart
  BY WholeTime DEF VestingNeverAheadOfFirstStart, Released
<1> QED
  BY VestingStarts, <1>1, <1>2, PTL DEF LedgerSpec

LEMMA LedgerStepKeepsReputation ==
  ASSUME ReputationInv, [LedgerNext]_ledgerVars
  PROVE  ReputationInv'
<1>1. CASE PoolNext
  BY <1>1, PoolStepKeepsReputation
<1>2. CASE UNCHANGED ledgerVars \/ Founder \/ Treasury
  <2>1. UNCHANGED <<reputation, now>>
    BY <1>2 DEF ledgerVars, poolVars, Founder, AllocateFounder, InitializeFounderVesting,
                ClaimVested, Treasury, GovernanceMint, BuybackAndBurn, ClaimOracleReward,
                WithdrawFund, MintTo, Transfer
  <2> QED
    BY <2>1, ReputationsStay DEF ReputationInv
<1> QED
  BY <1>1, <1>2 DEF LedgerNext

\* With every instruction that moves the token around it, the reputation keeps its promise.
THEOREM LedgerKeepsPenalties == LedgerSpec => []PenaltyIsNeverForgotten
<1>1. LedgerInit => ReputationInv
  BY ReputationStarts DEF LedgerInit
<1>2. ReputationInv /\ [LedgerNext]_ledgerVars => ReputationInv'
  BY LedgerStepKeepsReputation
<1> QED
  BY <1>1, <1>2, SoundIsPenalised, PTL DEF LedgerSpec
-----------------------------------------------------------------------------
(* The instructions of the ledger.                                         *)

LEMMA MintToKeepsBooks ==
  ASSUME BooksInv, NEW a \in Accounts, NEW amount \in Nat, MintTo(a, amount)
  PROVE  BooksInv'
<1>1. /\ balance' = [balance EXCEPT ![a] = @ + amount]
      /\ supply' = supply + amount
      /\ vault' = [vault EXCEPT !.total_supply = @ + amount]
      /\ UNCHANGED <<pool, share, earned>>
  BY DEF MintTo
<1>2. /\ balance \in [Accounts -> Nat]
      /\ vault \in [total_supply : Nat, total_energy_wh : Nat]
  BY DEF BooksInv, BooksTypes
<1>3. balance' \in [Accounts -> Nat] /\ Grown(balance, balance', Accounts, a, amount)
  BY <1>1, <1>2 DEF Grown
<1>4. Total(balance', Accounts) = Total(balance, Accounts) + amount
  <2>1. Whole(balance, Accounts) /\ IsFiniteSet(Accounts) /\ amount \in Int
    BY BooksOf, AccountsOfLedger
  <2> QED
    BY <1>3, <2>1, SumGrows
<1>5. /\ vault'.total_supply = vault.total_supply + amount
      /\ vault'.total_energy_wh = vault.total_energy_wh
      /\ vault' \in [total_supply : Nat, total_energy_wh : Nat]
  BY <1>1, <1>2
<1>6. VaultCountsTheToken'
  BY <1>1, <1>4, <1>5, BooksOf DEF VaultCountsTheToken
<1>7. BooksTypes' /\ EnergyIsRewardedTwiceAtMost'
  BY <1>1, <1>3, <1>5 DEF BooksInv, BooksTypes, EnergyIsRewardedTwiceAtMost
<1> QED
  BY <1>6, <1>7 DEF BooksInv

LEMMA TransferKeepsBooks ==
  ASSUME BooksInv, NEW from \in Accounts, NEW to \in Accounts, NEW amount \in Nat,
         Transfer(from, to, amount)
  PROVE  BooksInv'
<1>1. /\ amount <= balance[from]
      /\ balance' = [balance EXCEPT ![from] = @ - amount, ![to] = @ + amount]
      /\ UNCHANGED <<pool, share, vault, supply, earned>>
  BY DEF Transfer
<1>2. balance \in [Accounts -> Nat]
  BY DEF BooksInv, BooksTypes
<1>3. CASE from = to
  <2>1. balance' = balance
    BY <1>1, <1>2, <1>3
  <2> QED
    BY <1>1, <2>1, BooksStay
<1>4. CASE from # to
  <2>1. /\ balance'[from] = balance[from] - amount /\ balance'[to] = balance[to] + amount
        /\ \A z \in Accounts \ {from, to} : balance'[z] = balance[z]
        /\ balance' = [z \in Accounts |-> balance'[z]]
    BY <1>1, <1>2, <1>4
  <2>2. balance' \in [Accounts -> Nat]
    BY <1>1, <1>2, <2>1
  <2>3. Total(balance', Accounts) = Total(balance, Accounts)
    <3>1. Whole(balance, Accounts) /\ IsFiniteSet(Accounts) /\ amount \in Int
      BY BooksOf, AccountsOfLedger
    <3>2. Shifted(balance, balance', Accounts, from, to, amount)
      BY <2>1 DEF Shifted
    <3> QED
      BY <1>4, <3>1, <3>2, SumShifts
  <2>4. VaultCountsTheToken'
    BY <1>1, <2>3, BooksOf DEF VaultCountsTheToken
  <2>5. BooksTypes' /\ EnergyIsRewardedTwiceAtMost'
    BY <1>1, <2>2 DEF BooksInv, BooksTypes, EnergyIsRewardedTwiceAtMost
  <2> QED
    BY <2>4, <2>5 DEF BooksInv
<1> QED
  BY <1>3, <1>4

LEMMA BurningKeepsBooks ==
  ASSUME BooksInv, NEW amount \in Amounts, BuybackAndBurn(amount)
  PROVE  BooksInv'
<1>1. /\ amount <= balance["buyback"] /\ amount <= vault.total_supply
      /\ balance' = [balance EXCEPT !["buyback"] = @ - amount]
      /\ supply' = supply - amount
      /\ vault' = [vault EXCEPT !.total_supply = @ - amount]
      /\ UNCHANGED <<pool, share, earned>>
  BY DEF BuybackAndBurn
<1>2. /\ balance \in [Accounts -> Nat] /\ amount \in Nat
      /\ vault \in [total_supply : Nat, total_energy_wh : Nat]
      /\ "buyback" \in Accounts
  BY LedgerAssumption, AccountsOfLedger DEF BooksInv, BooksTypes, FourFunds
<1>3. /\ balance' \in [Accounts -> Nat]
      /\ Grown(balance', balance, Accounts, "buyback", amount)
  BY <1>1, <1>2 DEF Grown
<1>4. Total(balance', Accounts) \in Int
      /\ Total(balance, Accounts) = Total(balance', Accounts) + amount
  <2>1. Whole(balance', Accounts)
    BY <1>3 DEF Whole
  <2>2. IsFiniteSet(Accounts) /\ amount \in Int
    BY <1>2, AccountsOfLedger
  <2> QED
    BY <1>2, <1>3, <2>1, <2>2, SumGrows
<1>5. /\ vault'.total_supply = vault.total_supply - amount
      /\ vault'.total_energy_wh = vault.total_energy_wh
      /\ vault' \in [total_supply : Nat, total_energy_wh : Nat]
  BY <1>1, <1>2
<1>6. VaultCountsTheToken'
  BY <1>1, <1>2, <1>4, <1>5, BooksOf DEF VaultCountsTheToken
<1>7. BooksTypes' /\ EnergyIsRewardedTwiceAtMost'
  BY <1>1, <1>3, <1>5 DEF BooksInv, BooksTypes, EnergyIsRewardedTwiceAtMost
<1> QED
  BY <1>6, <1>7 DEF BooksInv

LEMMA LedgerStepKeepsBooks ==
  ASSUME BooksInv, ReputationInv, VestingInv, [LedgerNext]_ledgerVars
  PROVE  BooksInv'
<1>1. /\ Payees \subseteq Accounts /\ Amounts \subseteq Nat /\ ProposalAmounts \subseteq Nat
      /\ FOUNDER_ALLOCATION_ATOMIC \in Nat
      /\ "founder" \in Accounts /\ Funds \subseteq Accounts /\ "staking" \in Funds
  BY LedgerAssumption DEF Accounts, Funds
<1>2. CASE UNCHANGED ledgerVars
  BY <1>2, BooksStay DEF ledgerVars, poolVars
<1>3. CASE PoolNext
  BY <1>3, PoolStepKeepsBooks
<1>4. CASE AllocateFounder
  BY <1>1, <1>4, MintToKeepsBooks DEF AllocateFounder
<1>5. CASE InitializeFounderVesting
  BY <1>5, BooksStay DEF InitializeFounderVesting, poolVars
<1>6. ASSUME NEW a \in Payees, ClaimVested(a) PROVE BooksInv'
  <2> DEFINE claimable == vested_at(vesting.start_time, now) - vesting.withdrawn
  <2>1. claimable > 0 /\ Transfer("founder", a, claimable)
    BY <1>6 DEF ClaimVested
  <2>2. vested_at(vesting.start_time, now) \in Nat /\ vesting.withdrawn \in Nat
    BY VestedIsReleased DEF VestingInv
  <2>3. claimable \in Nat
    BY <2>1, <2>2
  <2> HIDE DEF claimable
  <2> QED
    BY <1>1, <2>1, <2>3, TransferKeepsBooks
<1>7. ASSUME NEW a \in Payees, NEW amount \in ProposalAmounts, GovernanceMint(a, amount)
      PROVE  BooksInv'
  BY <1>1, <1>7, MintToKeepsBooks DEF GovernanceMint
<1>8. ASSUME NEW amount \in Amounts, BuybackAndBurn(amount) PROVE BooksInv'
  BY <1>8, BurningKeepsBooks
<1>9. ASSUME NEW amount \in Amounts, NEW a \in Payees, ClaimOracleReward(a, amount)
      PROVE  BooksInv'
  <2>1. "staking" \in Accounts /\ a \in Accounts /\ amount \in Nat
    BY <1>1
  <2> QED
    BY <1>9, <2>1, TransferKeepsBooks DEF ClaimOracleReward
<1>10. ASSUME NEW amount \in Amounts, NEW a \in Payees, NEW f \in Funds, WithdrawFund(f, a, amount)
       PROVE  BooksInv'
  <2>1. f \in Accounts /\ a \in Accounts /\ amount \in Nat
    BY <1>1
  <2> QED
    BY <1>10, <2>1, TransferKeepsBooks DEF WithdrawFund
<1> QED
  BY <1>2, <1>3, <1>4, <1>5, <1>6, <1>7, <1>8, <1>9, <1>10 DEF LedgerNext, Founder, Treasury

\* With premine, vesting, emissions, rewards, withdrawals and burns in any order, the count
\* is exact and energy is still paid for twice at most.
THEOREM LedgerInvariant ==
  LedgerSpec => [](BooksInv /\ ReputationInv /\ VestingInv)
<1>1. LedgerInit => BooksInv /\ ReputationInv /\ VestingInv
  BY BooksStart, ReputationStarts, VestingStarts DEF LedgerInit
<1>2. BooksInv /\ ReputationInv /\ VestingInv /\ [LedgerNext]_ledgerVars => BooksInv' /\ VestingInv'
  BY LedgerStepKeepsBooks, LedgerStepKeepsVesting
<1>3. ReputationInv /\ [LedgerNext]_ledgerVars => ReputationInv'
  BY LedgerStepKeepsReputation
<1> QED
  BY <1>1, <1>2, <1>3, PTL DEF LedgerSpec

\* The vault, the token program and the accounts agree on the supply through every
\* instruction that moves the token.
THEOREM LedgerCountsTheToken == LedgerSpec => []VaultCountsTheToken
<1>1. BooksInv => VaultCountsTheToken
  BY DEF BooksInv
<1> QED
  BY LedgerInvariant, <1>1, PTL

\* No instruction of the treasury or of the founder makes energy worth a third reward.
THEOREM LedgerPaysTwiceAtMost == LedgerSpec => []EnergyIsRewardedTwiceAtMost
<1>1. BooksInv => EnergyIsRewardedTwiceAtMost
  BY DEF BooksInv
<1> QED
  BY LedgerInvariant, <1>1, PTL

LEMMA LedgerStepKeepsRanges ==
  ASSUME RangeInv, ReputationInv, BooksInv, [LedgerNext]_ledgerVars
  PROVE  RangeInv'
<1>1. /\ now \in Nat /\ now <= MaxTime /\ reputation \in [Owners -> ReputationRecord]
      /\ vault \in [total_supply : Nat, total_energy_wh : Nat]
      /\ vault.total_supply < WORD /\ WORD \in Nat
  BY Scales DEF ReputationInv, RangeInv, BooksInv, BooksTypes
<1>2. CASE UNCHANGED <<reputation, now, vault>>
  BY <1>1, <1>2, RangesStay
<1>3. CASE PoolNext
  BY <1>3, PoolStepKeepsRanges
<1>4. ASSUME NEW a, NEW amount \in Nat, MintTo(a, amount) PROVE RangeInv'
  <2>1. /\ vault' = [vault EXCEPT !.total_supply = @ + amount]
        /\ vault.total_supply + amount <= MAX_SUPPLY_ATOMIC
        /\ UNCHANGED <<reputation, now>>
    BY <1>4 DEF MintTo
  <2>2. vault'.total_supply < WORD
    BY <1>1, <2>1, Scales
  <2> QED
    BY <1>1, <2>1, <2>2, RangesStay
<1>5. ASSUME NEW amount \in Amounts, BuybackAndBurn(amount) PROVE RangeInv'
  <2>1. /\ vault' = [vault EXCEPT !.total_supply = @ - amount]
        /\ amount \in Nat
        /\ UNCHANGED <<reputation, now>>
    BY <1>5, LedgerAssumption DEF BuybackAndBurn
  <2>2. vault'.total_supply < WORD
    BY <1>1, <2>1
  <2> QED
    BY <1>1, <2>1, <2>2, RangesStay
<1>6. ASSUME NEW f, NEW a, NEW amount, Transfer(f, a, amount)
      PROVE  UNCHANGED <<reputation, now, vault>>
  BY <1>6 DEF Transfer
<1>7. CASE Founder
  BY <1>2, <1>4, <1>6, <1>7, LedgerAssumption DEF Founder, AllocateFounder, InitializeFounderVesting, ClaimVested, poolVars
<1>8. CASE Treasury
  BY <1>2, <1>4, <1>5, <1>6, <1>8, LedgerAssumption DEF Treasury, GovernanceMint, ClaimOracleReward, WithdrawFund
<1>9. CASE UNCHANGED ledgerVars
  BY <1>2, <1>9 DEF ledgerVars, poolVars
<1> QED
  BY <1>3, <1>7, <1>8, <1>9 DEF LedgerNext

FlagIsTyped == founder_minted \in BOOLEAN

LEMMA LedgerStepKeepsFlag ==
  ASSUME FlagIsTyped, [LedgerNext]_ledgerVars
  PROVE  FlagIsTyped'
BY DEF FlagIsTyped, LedgerNext, Founder, AllocateFounder, InitializeFounderVesting, ClaimVested, Treasury,
       GovernanceMint, ClaimOracleReward, WithdrawFund, BuybackAndBurn, ledgerVars, founderVars

\* Every variable of the ledger (init_founder.rs, vesting.rs, funds.rs, buyback.rs) keeps its
\* type: no instruction takes a balance or a counter below zero, and the counted supply fits
\* an u64, whether or not a policy keeps the cap.
THEOREM LedgerTypeCorrect == LedgerSpec => []LedgerTypeOK
<1>1. LedgerInit => RangeInv /\ FlagIsTyped
  BY RangesStart DEF LedgerInit, FlagIsTyped
<1>2. BooksInv /\ ReputationInv /\ RangeInv /\ [LedgerNext]_ledgerVars => RangeInv'
  BY LedgerStepKeepsRanges
<1>3. FlagIsTyped /\ [LedgerNext]_ledgerVars => FlagIsTyped'
  BY LedgerStepKeepsFlag
<1>4. BooksInv /\ ReputationInv /\ VestingInv /\ RangeInv /\ FlagIsTyped
        => LedgerTypeOK
  BY TypesOfPool DEF LedgerTypeOK, FlagIsTyped, VestingInv, Vesting
<1> QED
  BY LedgerInvariant, <1>1, <1>2, <1>3, <1>4, PTL DEF LedgerSpec
=============================================================================
