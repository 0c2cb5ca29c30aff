----------------------------- MODULE EnergyMint -----------------------------
(***************************************************************************)
(* mint_energy (instructions/mint.rs) with what it reads and writes: the   *)
(* device registry, the tier limits of the devices, the profiles of the    *)
(* owners in programs/enrg-profile, the policy registry, the vault and the *)
(* token accounts the reward is split over.                                *)
(*                                                                         *)
(* An action of the registry conjoins the lifecycle instruction of         *)
(* DeviceLifecycle with what it does to the tier fields.  The signatures   *)
(* of device and oracle, the freshness of the report and the quorum gate   *)
(* (OracleQuorum) decide whether a report reaches the code that changes    *)
(* state: here any report may.  The clock ticks in parts of thirty days.   *)
(***************************************************************************)
EXTENDS DeviceLifecycle, EmissionMath

CONSTANTS
  BASIC_MONTHLY_LIMIT_WH, VERIFIED_MONTHLY_LIMIT_WH,
  THIRTY_DAYS,     \* TIER_MONTH_SECS, in ticks
  Policies,        \* what update_policy may set
  NoPolicy,        \* the registry does not exist
  RatedPowers,
  AssignedTiers,   \* tiers that the admin assigns
  MaxTime          \* bound on the clock

Policy ==
  [mint_enabled : BOOLEAN, enforce_device_state : BOOLEAN, enforce_tier_limits : BOOLEAN,
   enforce_energy_caps : BOOLEAN, enforce_supply_cap : BOOLEAN, max_energy_bps : Nat]

Tiers == {"Basic", "Verified", "Industrial", "Institutional"}

ASSUME MintAssumption ==
  /\ AssignedTiers \subseteq Tiers
  /\ {BASIC_MONTHLY_LIMIT_WH, VERIFIED_MONTHLY_LIMIT_WH} \subseteq Nat
  /\ THIRTY_DAYS \in Nat \ {0} /\ MaxTime \in Nat \ {0}
  /\ RatedPowers \subseteq Nat
  /\ Policies \subseteq Policy /\ NoPolicy \notin Policy

VARIABLES
  limits,    \* tier and monthly window of each device record
  profile,   \* the EnergyProfile of each owner
  policy,    \* the PolicyRegistry
  vault,
  balance,   \* token accounts of the owners and of the four funds
  now,
  relaxed,   \* history: limits that a policy has ever switched off
  history    \* history: energy accepted in each tick

mintVars == <<limits, profile, policy, vault, balance, now, relaxed, history>>
vars == <<deviceVars, mintVars>>
-----------------------------------------------------------------------------
Unlimited == {"Industrial", "Institutional"}
LimitOf(tier) == IF tier = "Basic" THEN BASIC_MONTHLY_LIMIT_WH ELSE VERIFIED_MONTHLY_LIMIT_WH

\* A month_start_ts of zero: the window never started.
NewLimits == [tier |-> "Basic", month_energy_wh |-> 0, month_start_ts |-> 0]

RollMonth(l) ==
  IF l.month_start_ts = 0 \/ now - l.month_start_ts >= THIRTY_DAYS
  THEN [l EXCEPT !.month_start_ts = now, !.month_energy_wh = 0]
  ELSE l

BelowLimit(l) == l.tier \in Unlimited \/ l.month_energy_wh < LimitOf(l.tier)

AllowsIncrement(l, wh) == l.tier \in Unlimited \/ l.month_energy_wh + wh <= LimitOf(l.tier)

\* The window of an owner decays in proportion to the time since its last update.
DecayedWindow(p, timestamp, wh) ==
  LET elapsed == timestamp - p.device_energy_updated_at
      decay   == (p.device_energy_30d * elapsed) \div THIRTY_DAYS
  IN  IF elapsed <= 0 THEN p.device_energy_30d + wh
      ELSE IF elapsed >= THIRTY_DAYS THEN wh
      ELSE SaturatingSub(p.device_energy_30d, decay) + wh

NoProfile == [exists |-> FALSE, rated_power |-> 0, device_energy_30d |-> 0,
              device_energy_updated_at |-> 0]

Defaults == [mint_enabled |-> TRUE, enforce_device_state |-> TRUE,
             enforce_tier_limits |-> TRUE, enforce_energy_caps |-> TRUE,
             enforce_supply_cap |-> TRUE, max_energy_bps |-> 10000]

Funds == {"buyback", "staking", "dao", "emergency"}
Accounts == Wallets \cup Funds

\* A fund is no wallet.
ASSUME AccountsAssumption == IsFiniteSet(Wallets) /\ Wallets \cap Funds = {}

MintInit ==
  /\ DeviceInit
  /\ limits = [d \in Devices |-> NewLimits]
  /\ profile = [w \in Wallets |-> NoProfile]
  /\ policy = NoPolicy
  /\ vault = [total_supply |-> 0, total_energy_wh |-> 0,
              network_energy_30d |-> 0, network_energy_updated_at |-> 0]
  /\ balance = [a \in Accounts |-> 0]
  /\ now = 1
  /\ relaxed = {}
  /\ history = [t \in 1 .. MaxTime |-> 0]
-----------------------------------------------------------------------------
(* The registry: only a rotation moves the tier fields.                    *)

KeepsLimits ==
  \E d \in Devices :
    \/ RegisterDevice(d)
    \/ \E k \in Wallets : OwnerActs(k, d)
    \/ \E k \in Wallets \cup {Admin}, withOwner \in BOOLEAN : RevokeDevice(k, d, withOwner)

Lifecycle == KeepsLimits /\ UNCHANGED mintVars

Rotate(k, d, e, n) ==
  /\ RotateDeviceKey(k, d, e, n)
  /\ limits' = [limits EXCEPT ![e] = limits[d]]
  /\ UNCHANGED <<profile, policy, vault, balance, now, relaxed, history>>

\* Defect: the month goes on under the new limit.
SetTierMidMonth(d, tier) ==
  /\ Exists(d)
  /\ limits' = [limits EXCEPT ![d].tier = tier]
  /\ UNCHANGED <<deviceVars, profile, policy, vault, balance, now, relaxed, history>>

\* The protocol admin; revoked records are not excluded.
SetDeviceTier(d, tier) ==
  /\ Exists(d)
  /\ limits' = [limits EXCEPT ![d] = [tier |-> tier, month_energy_wh |-> 0,
                                      month_start_ts |-> now]]
  /\ UNCHANGED <<deviceVars, profile, policy, vault, balance, now, relaxed, history>>
-----------------------------------------------------------------------------
(* Profiles, programs/enrg-profile.                                        *)

InitializeProfile(w, power) ==
  /\ ~profile[w].exists
  /\ profile' = [profile EXCEPT ![w] = [exists |-> TRUE, rated_power |-> power,
                                        device_energy_30d |-> 0,
                                        device_energy_updated_at |-> now]]
  /\ UNCHANGED <<deviceVars, limits, policy, vault, balance, now, relaxed, history>>

\* The power can be set once.
UpdateMetadata(w, power) ==
  /\ profile[w].exists
  /\ profile[w].rated_power = 0
  /\ profile' = [profile EXCEPT ![w].rated_power = power]
  /\ UNCHANGED <<deviceVars, limits, policy, vault, balance, now, relaxed, history>>

\* The policy registry; whose authority it is matters to no property here.
InitializePolicyRegistry ==
  /\ policy = NoPolicy
  /\ policy' = Defaults
  /\ UNCHANGED <<deviceVars, limits, profile, vault, balance, now, relaxed, history>>

UpdatePolicy(p) ==
  /\ policy # NoPolicy
  /\ p.max_energy_bps > 0 /\ p.max_energy_bps <= 1000000
  /\ policy' = p
  /\ relaxed' = relaxed \cup (IF p.enforce_tier_limits THEN {} ELSE {"tier"})
                        \cup (IF p.enforce_supply_cap THEN {} ELSE {"supply"})
  /\ UNCHANGED <<deviceVars, limits, profile, vault, balance, now, history>>
-----------------------------------------------------------------------------
(* mint_energy.  The policy account is optional: without it the defaults   *)
(* are in force.  The reward is computed from the window of the owner as   *)
(* it was loaded, before this report, and of the network with it.          *)

InForce(withPolicy) == IF withPolicy THEN policy ELSE Defaults

NetworkWindow(wh) ==
  update_energy_window(vault.network_energy_30d, vault.network_energy_updated_at, now, wh,
                       THIRTY_DAYS)

Reward(d, wh) ==
  calculate_reward_dynamic(wh, vault.total_supply,
                           profile[producer[d].authority].device_energy_30d, NetworkWindow(wh))

Admissible(p, d, wh) ==
  LET month == RollMonth(limits[d])
  IN  /\ p.mint_enabled
      /\ p.enforce_device_state => producer[d].state = "Active" /\ BelowLimit(month)
      /\ p.enforce_tier_limits => AllowsIncrement(month, wh)
      /\ p.enforce_energy_caps =>
           wh <= (profile[producer[d].authority].rated_power * p.max_energy_bps) \div 10000

\* Defect: the cap is checked before the reward is added.
PayableBelowCap(p, reward) ==
  /\ reward \in Nat \ {0}
  /\ reward * 85 < WORD /\ vault.total_supply + reward < WORD
  /\ p.enforce_supply_cap => vault.total_supply <= MAX_SUPPLY_ATOMIC

\* A zero reward is refused; neither its split nor the supply may pass an u64.
Payable(p, reward) ==
  /\ reward \in Nat \ {0}
  /\ reward * 85 < WORD /\ vault.total_supply + reward < WORD
  /\ p.enforce_supply_cap => vault.total_supply + reward <= MAX_SUPPLY_ATOMIC

Credited(owner, reward) ==
  LET part == Split(reward)
  IN  [a \in Accounts |->
         balance[a] + CASE a = "buyback"   -> part.buyback
                        [] a = "staking"   -> part.staking
                        [] a = "dao"       -> part.dao
                        [] a = "emergency" -> part.emergency
                        [] a = owner       -> part.user
                        [] OTHER           -> 0]

UpdateProducer(d, n, wh) == RecordProduction(d, n, wh)

MintEnergy(d, n, wh, withPolicy) ==
  LET owner  == producer[d].authority
      month  == RollMonth(limits[d])
      reward == Reward(d, wh)
  IN  /\ UpdateProducer(d, n, wh)
      /\ withPolicy => policy # NoPolicy
      /\ profile[owner].exists
      /\ Admissible(InForce(withPolicy), d, wh)
      /\ Payable(InForce(withPolicy), reward)
      /\ limits' = [limits EXCEPT ![d] = [month EXCEPT !.month_energy_wh = @ + wh]]
      /\ profile' = [profile EXCEPT
                       ![owner].device_energy_30d = DecayedWindow(profile[owner], now, wh),
                       ![owner].device_energy_updated_at = now]
      /\ vault' = [total_supply |-> vault.total_supply + reward,
                   total_energy_wh |-> vault.total_energy_wh + wh,
                   network_energy_30d |-> NetworkWindow(wh),
                   network_energy_updated_at |-> now]
      /\ balance' = Credited(owner, reward)
      /\ history' = [history EXCEPT ![now] = @ + wh]
      /\ UNCHANGED <<policy, now, relaxed>>
-----------------------------------------------------------------------------
Tick ==
  /\ now < MaxTime
  /\ now' = now + 1
  /\ UNCHANGED <<deviceVars, limits, profile, policy, vault, balance, relaxed, history>>

Registry ==
  \/ Lifecycle
  \/ \E k \in Wallets \cup {Admin}, d, e \in Devices, n \in ClaimNonces : Rotate(k, d, e, n)
  \/ \E d \in Devices, tier \in AssignedTiers : SetDeviceTier(d, tier)

Profiles ==
  \E w \in Wallets, power \in RatedPowers : InitializeProfile(w, power) \/ UpdateMetadata(w, power)

Mint ==
  \E d \in Devices, n \in ProofNonces, wh \in Reports, withPolicy \in BOOLEAN :
    MintEnergy(d, n, wh, withPolicy)

MintNext ==
  \/ Registry \/ Profiles \/ Mint
  \/ InitializePolicyRegistry
  \/ \E p \in Policies : UpdatePolicy(p)
  \/ Tick

MintSpec == MintInit /\ [][MintNext]_vars
-----------------------------------------------------------------------------
(* Properties.                                                             *)

Limits == [tier : Tiers, month_energy_wh : Nat, month_start_ts : Nat]
EnergyProfile == [exists : BOOLEAN, rated_power : Nat, device_energy_30d : Nat,
                  device_energy_updated_at : Nat]
Vault == [total_supply : Nat, total_energy_wh : Nat, network_energy_30d : Nat,
          network_energy_updated_at : Nat]

\* The accounts keep their types: no window and no total ever goes below zero.
MintTypeOK ==
  /\ limits \in [Devices -> Limits]
  /\ profile \in [Wallets -> EnergyProfile]
  /\ policy \in Policy \cup {NoPolicy}
  /\ vault \in Vault
  /\ now \in 1 .. MaxTime
  /\ \A d \in Devices : limits[d].month_start_ts <= now

\* The energy in the vault is the energy of the devices, each counted at its current key:
\* rotations neither lose nor double it.
EnergyAtCurrentKey ==
  [d \in Devices |-> IF producer[d].rotated_to = NoKey THEN producer[d].energy_wh ELSE 0]

EnergyIsAccounted == vault.total_energy_wh = Total(EnergyAtCurrentKey, Devices)

\* The atoms in the accounts are those the vault has emitted, and each was paid for with at
\* least the energy of the genesis peg, whatever the windows and the rounding of the single
\* rewards and of their five parts did.
SupplyIsBacked ==
  /\ Total(balance, Accounts) = vault.total_supply
  /\ vault.total_supply * INITIAL_ENERGY_PER_SRC <= vault.total_energy_wh * SRC_BASIS

\* Unless a policy has switched the limits off, no window of a device ever holds more than
\* its tier allows: across rotations, new months, and a tier that is lowered.
TierLimitIsKept ==
  "tier" \notin relaxed =>
    \A d \in Devices : limits[d].tier \notin Unlimited =>
                         limits[d].month_energy_wh <= LimitOf(limits[d].tier)

\* Unless a policy has switched the cap off, emission stops at the maximum.
MintKeepsCap == "supply" \notin relaxed => vault.total_supply <= MAX_SUPPLY_ATOMIC

\* math.rs:200: the window of the network holds at least what was accepted in the thirty
\* days up to its last update.
NetworkWindowCoversMonth ==
  LET last == vault.network_energy_updated_at
  IN  vault.network_energy_30d >=
        Total(history, {t \in 1 .. MaxTime : t <= last /\ t > last - THIRTY_DAYS})
=============================================================================
