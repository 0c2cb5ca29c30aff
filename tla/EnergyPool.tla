----------------------------- MODULE EnergyPool -----------------------------
(***************************************************************************)
(* Pools of producers (instructions/pool.rs, state/pool.rs) and the energy *)
(* reputation score of owners (instructions/reputation.rs,                 *)
(* state/reputation.rs), with the part of mint_energy that feeds them.     *)
(*                                                                         *)
(* The devices are registered and active, each with its owner.  What       *)
(* decides whether a report is admitted is EnergyMint; here any report is. *)
(* The percentile of a score, which nothing reads, is left out.            *)
(***************************************************************************)
EXTENDS EmissionMath

CONSTANTS
  Devices, Owners,
  Owner,                   \* the authority of each device
  Pools,                   \* a pool is named by its authority: one for each
  NoPool,                  \* mint_energy without the pool accounts
  Thresholds,              \* arguments of create_pool
  DEFAULT_POOL_THRESHOLD, MAX_PRODUCERS,
  ERS_BASE_SCORE, ERS_MAX_SCORE,
  ERS_ENERGY_WH_PER_POINT, ERS_ENERGY_POINTS_CAP,
  DAY, ERS_UPTIME_POINTS_CAP,
  Severities,              \* that an oracle reports, of 1 .. 10
  Reports,                 \* energy of a report
  MaxEnergy, MaxTime, MaxAnomalies   \* bounds

ASSUME PoolAssumption ==
  /\ Owner \in [Devices -> Owners]
  /\ IsFiniteSet(Devices) /\ IsFiniteSet(Owners)
  /\ NoPool \notin Pools
  /\ Thresholds \subseteq Nat /\ DEFAULT_POOL_THRESHOLD \in Nat \ {0}
  /\ MAX_PRODUCERS \in Nat \ {0}
  /\ {MaxEnergy, MaxTime, MaxAnomalies} \subseteq Nat

\* Five percent of the score that everybody starts with is at least a point.
ASSUME ReputationAssumption ==
  /\ ERS_BASE_SCORE \in Nat /\ ERS_BASE_SCORE >= 20
  /\ ERS_MAX_SCORE \in Nat /\ ERS_MAX_SCORE >= ERS_BASE_SCORE
  /\ {ERS_ENERGY_WH_PER_POINT, DAY} \subseteq Nat \ {0}
  /\ {ERS_ENERGY_POINTS_CAP, ERS_UPTIME_POINTS_CAP} \subseteq Nat
  /\ Severities \subseteq 0 .. 255
  /\ Reports \subseteq Nat \ {0}

VARIABLES
  pool,        \* the Pool of each authority
  share,       \* energy_wh of the PoolContribution of each pool and device
  reputation,  \* the Reputation of each owner
  vault,
  supply,      \* of the token, as the token program counts it
  balance,     \* token accounts of the owners, the funds and the founder
  now,
  earned       \* history: atoms paid for energy

poolVars == <<pool, share, reputation, vault, supply, balance, now, earned>>

Funds == {"buyback", "staking", "dao", "emergency"}
Accounts == Owners \cup Funds \cup {"founder", "outside"}

\* No owner of a device is a fund, the founder or an outsider.
ASSUME AccountsAssumption ==
  /\ IsFiniteSet(Pools)
  /\ Owners \cap (Funds \cup {"founder", "outside"}) = {}

NewPool == [exists |-> FALSE, total_energy |-> 0, threshold |-> 0, producers |-> {}]
NewReputation == [exists |-> FALSE, score |-> 0, updated_at |-> 0, total_energy_wh |-> 0,
                  first_seen |-> 0, anomaly_count |-> 0]

PoolInit ==
  /\ pool = [p \in Pools |-> NewPool]
  /\ share = [p \in Pools |-> [d \in Devices |-> 0]]
  /\ reputation = [o \in Owners |-> NewReputation]
  /\ vault = [total_supply |-> 0, total_energy_wh |-> 0]
  /\ supply = 0
  /\ balance = [a \in Accounts |-> 0]
  /\ now = 0
  /\ earned = 0
-----------------------------------------------------------------------------
(* Pools.  Nothing asks for the consent of the owner of a device: whoever  *)
(* pays for the PoolContribution account adds the device.                  *)

CreatePool(p, threshold) ==
  /\ ~pool[p].exists
  /\ pool' = [pool EXCEPT ![p] =
                [exists |-> TRUE, total_energy |-> 0, producers |-> {},
                 threshold |-> IF threshold = 0 THEN DEFAULT_POOL_THRESHOLD ELSE threshold]]
  /\ UNCHANGED <<share, reputation, vault, supply, balance, now, earned>>

\* There is no leaving, so the contribution of a member is always the one it started with.
JoinPool(p, d) ==
  /\ pool[p].exists
  /\ d \notin pool[p].producers
  /\ Cardinality(pool[p].producers) < MAX_PRODUCERS
  /\ pool' = [pool EXCEPT ![p].producers = @ \cup {d}]
  /\ UNCHANGED <<share, reputation, vault, supply, balance, now, earned>>
-----------------------------------------------------------------------------
(* Reputation.                                                             *)

AtMost(a, b) == IF a <= b THEN a ELSE b

compute_ers_score(energy, uptime) ==
  AtMost(ERS_MAX_SCORE,
         ERS_BASE_SCORE + AtMost(ERS_ENERGY_POINTS_CAP, energy \div ERS_ENERGY_WH_PER_POINT)
                        + AtMost(ERS_UPTIME_POINTS_CAP, uptime \div DAY))

apply_anomaly_penalty(score, severity) ==
  SaturatingSub(score, (score * AtMost(50, 5 * severity)) \div 100)

InitializeReputation(o) ==
  /\ ~reputation[o].exists
  /\ reputation' = [reputation EXCEPT ![o] =
                      [exists |-> TRUE, score |-> ERS_BASE_SCORE, updated_at |-> now,
                       total_energy_wh |-> 0, first_seen |-> now, anomaly_count |-> 0]]
  /\ UNCHANGED <<pool, share, vault, supply, balance, now, earned>>

\* Signed by any oracle of the registry.
ReportAnomaly(o, severity) ==
  /\ reputation[o].exists
  /\ severity >= 1 /\ severity <= 10
  /\ reputation[o].anomaly_count < MaxAnomalies
  /\ reputation' = [reputation EXCEPT ![o].score = apply_anomaly_penalty(@, severity),
                                      ![o].anomaly_count = @ + 1,
                                      ![o].updated_at = now]
  /\ UNCHANGED <<pool, share, vault, supply, balance, now, earned>>

\* Defect: half of the gap is rounded up, so that a gap of one point is closed.
Recovered(score, merit) == AtMost(ERS_MAX_SCORE, score + (SaturatingSub(merit, score) + 1) \div 2)

\* After an anomaly a score makes good half of what it lacks.
Slowed(score, merit) == AtMost(ERS_MAX_SCORE, score + SaturatingSub(merit, score) \div 2)

update_reputation_after_mint(r, wh) ==
  LET energy == r.total_energy_wh + wh
      merit  == compute_ers_score(energy, SaturatingSub(now, r.first_seen))
  IN  [r EXCEPT !.total_energy_wh = energy,
                !.score = IF r.anomaly_count = 0 THEN merit ELSE Slowed(@, merit),
                !.updated_at = now]
-----------------------------------------------------------------------------
(* mint_energy: the accounts of reputation and pool are optional; without  *)
(* them the energy is rewarded and counted for neither.                    *)

SumParts(part) == part.user + part.buyback + part.staking + part.dao + part.emergency

PartOf(part, a, owner) ==
  CASE a = "buyback"   -> part.buyback
    [] a = "staking"   -> part.staking
    [] a = "dao"       -> part.dao
    [] a = "emergency" -> part.emergency
    [] a = owner       -> part.user
    [] OTHER           -> 0

\* The difficulty of a device lies between that of one without a share of the network
\* and that of one that is the network.
MintRewards(wh) ==
  {calculate_reward_dynamic(wh, vault.total_supply, device, 1) : device \in {0, 1}}

Contribute(d, wh, into) ==
  \/ into = NoPool /\ UNCHANGED <<pool, share>>
  \/ /\ into # NoPool
     /\ d \in pool[into].producers
     /\ pool' = [pool EXCEPT ![into].total_energy = @ + wh]
     /\ share' = [share EXCEPT ![into][d] = @ + wh]

\* The policy of the report may have the cap of the supply switched off.
MintEnergy(d, wh, reward, capped, withReputation, into) ==
  LET part == Split(reward)
  IN  /\ vault.total_energy_wh + wh <= MaxEnergy
      /\ reward > 0
      /\ capped => vault.total_supply + reward <= MAX_SUPPLY_ATOMIC
      /\ reward * 85 < WORD /\ vault.total_supply + reward < WORD
      /\ withReputation => reputation[Owner[d]].exists
      /\ balance' = [a \in Accounts |-> balance[a] + PartOf(part, a, Owner[d])]
      /\ supply' = supply + SumParts(part)
      /\ vault' = [total_supply |-> vault.total_supply + reward,
                   total_energy_wh |-> vault.total_energy_wh + wh]
      /\ earned' = earned + reward
      /\ reputation' = IF withReputation
                       THEN [reputation EXCEPT ![Owner[d]] = update_reputation_after_mint(@, wh)]
                       ELSE reputation
      /\ Contribute(d, wh, into)
      /\ UNCHANGED now
-----------------------------------------------------------------------------
(* distribute_pool.  The members are passed as groups of accounts, as many *)
(* as the pool has members; each group must be of a member, but one may be *)
(* passed twice and another not at all.                                    *)

ers_pool_bonus_fp(score) == (AtMost(ERS_MAX_SCORE, score) * (FP_SCALE \div 5)) \div ERS_MAX_SCORE

pool_share_fp(contribution, total) ==
  IF total = 0 THEN 0 ELSE (contribution * FP_SCALE) \div total

pool_reward_for_share(total_reward, share_fp) ==
  AtMost(total_reward, (total_reward * share_fp) \div FP_SCALE)

Weighted(p, d) ==
  LET raw == pool_share_fp(share[p][d], pool[p].total_energy)
  IN  raw + fp_mul(ers_pool_bonus_fp(reputation[Owner[d]].score), raw)

WeightedSum(p, group) == Total([i \in DOMAIN group |-> Weighted(p, group[i])], DOMAIN group)

Groups(p) == [1 .. Cardinality(pool[p].producers) -> pool[p].producers]

\* What the weights of the groups make of the reward, each rounded down.
ProportionalPayouts(p, group, total_reward) ==
  [i \in DOMAIN group |->
     pool_reward_for_share(total_reward,
                           (Weighted(p, group[i]) * FP_SCALE) \div WeightedSum(p, group))]

\* The last group takes what the others leave.
Payouts(p, group, total_reward) ==
  LET proportional == ProportionalPayouts(p, group, total_reward)
      last == Cardinality(DOMAIN group)
  IN  [proportional EXCEPT
         ![last] = SaturatingSub(total_reward, Total(proportional, DOMAIN group \ {last}))]

\* Defect: the energy is left in the pool.
LeftFull(p) == pool

Emptied(p) == [pool EXCEPT ![p].total_energy = 0]

\* The contributions are reset on a copy of each account that is never written back:
\* they stay.  The weights of the next distribution are those of all times.
DistributePool(p, group) ==
  LET total_reward == reward_for_energy(AtMost(pool[p].total_energy, WORD - 1),
                                        energy_per_src(vault.total_supply))
      payout == Payouts(p, group, total_reward)
      PaidTo(a) == {i \in DOMAIN group : Owner[group[i]] = a}
  IN  /\ pool[p].exists
      /\ pool[p].total_energy >= pool[p].threshold
      /\ group # <<>>
      /\ \A i \in DOMAIN group : reputation[Owner[group[i]]].exists
      /\ WeightedSum(p, group) > 0
      /\ total_reward > 0
      /\ vault.total_supply + total_reward <= MAX_SUPPLY_ATOMIC
      /\ balance' = [a \in Accounts |-> balance[a] + Total(payout, PaidTo(a))]
      /\ supply' = supply + Total(payout, DOMAIN group)
      /\ vault' = [vault EXCEPT !.total_supply = @ + total_reward]
      /\ earned' = earned + total_reward
      /\ pool' = Emptied(p)
      /\ UNCHANGED <<share, reputation, now>>
-----------------------------------------------------------------------------
Tick ==
  /\ now < MaxTime
  /\ now' = now + 1
  /\ UNCHANGED <<pool, share, reputation, vault, supply, balance, earned>>

PoolNext ==
  \/ \E p \in Pools : \/ \E t \in Thresholds : CreatePool(p, t)
                      \/ \E d \in Devices : JoinPool(p, d)
                      \/ \E group \in Groups(p) : DistributePool(p, group)
  \/ \E o \in Owners : \/ InitializeReputation(o)
                       \/ \E s \in Severities : ReportAnomaly(o, s)
  \/ \E d \in Devices, wh \in Reports, into \in Pools \cup {NoPool} :
       \E reward \in MintRewards(wh), capped \in BOOLEAN, withReputation \in BOOLEAN :
         MintEnergy(d, wh, reward, capped, withReputation, into)
  \/ Tick

PoolSpec == PoolInit /\ [][PoolNext]_poolVars
-----------------------------------------------------------------------------
(* Properties.                                                             *)

Pool == [exists : BOOLEAN, total_energy : Nat, threshold : Nat, producers : SUBSET Devices]

Reputation == [exists : BOOLEAN, score : 0 .. ERS_MAX_SCORE, updated_at : 0 .. now,
               total_energy_wh : Nat, first_seen : 0 .. now, anomaly_count : 0 .. MaxAnomalies]

\* The accounts keep their types: no balance and no counter ever goes below zero, and the
\* supply that the vault counts fits an u64, whether or not a policy keeps the cap.
PoolTypeOK ==
  /\ pool \in [Pools -> Pool]
  /\ share \in [Pools -> [Devices -> Nat]]
  /\ now \in 0 .. MaxTime
  /\ reputation \in [Owners -> Reputation]
  /\ vault \in [total_supply : 0 .. WORD - 1, total_energy_wh : Nat]
  /\ supply \in Nat /\ earned \in Nat
  /\ balance \in [Accounts -> Nat]

\* Merit: the score that the energy and the age of a reputation are worth without anomalies.
Merit(r) == compute_ers_score(r.total_energy_wh, r.updated_at - r.first_seen)

\* state/reputation.rs: an anomaly lowers the score for good.  However much energy and time
\* follow, in whatever order, the score stays below what it would be without the anomaly:
\* making good half of the gap never closes it.  Without an anomaly it is exactly that.
PenaltyIsNeverForgotten ==
  \A o \in Owners : reputation[o].exists =>
    IF reputation[o].anomaly_count = 0
    THEN reputation[o].score = Merit(reputation[o])
    ELSE reputation[o].score < Merit(reputation[o])

\* pool.rs:239: the energy of a member is rewarded when it is minted and again when its pool
\* is distributed, and no more: not by another pool, by a member that is passed twice, by
\* contributions that outlive a distribution, or by the rounding of all of these.
EnergyIsRewardedTwiceAtMost ==
  earned * INITIAL_ENERGY_PER_SRC
    <= SRC_BASIS * (2 * vault.total_energy_wh
                      - Total([p \in Pools |-> pool[p].total_energy], Pools))

\* Five instructions keep vault.total_supply beside the supply of the token, each by its
\* own arithmetic and some in several mint_to calls: the counter that sets the difficulty
\* and the cap is the supply of the token, and that is what the accounts hold.
VaultCountsTheToken ==
  /\ vault.total_supply = supply
  /\ supply = Total(balance, Accounts)
=============================================================================
