---------------------------- MODULE EmissionMath ----------------------------
(***************************************************************************)
(* The emission formulas of programs/enrg-mvp/src/math.rs and the split of *)
(* a reward in instructions/mint.rs, in the integer arithmetic of the      *)
(* code: a fixed point of FP_SCALE, every division rounded down.  The      *)
(* scale and the constants are parameters; the loops that sum a series     *)
(* until its next term is zero are sums of MaxTerms terms, enough of them  *)
(* for the scale in use (the terms shrink, so all later ones are zero).    *)
(***************************************************************************)
EXTENDS Sums

CONSTANTS
  FP_SCALE,                \* 1.0
  LN10_FP,                 \* ln(10)
  LN2_FP,                  \* ln(2)
  MaxTerms,                \* terms of a series
  MAX_SUPPLY_ATOMIC,       \* atoms of SRC that can ever exist
  INITIAL_ENERGY_PER_SRC,  \* Wh for one SRC at genesis
  SRC_BASIS,               \* atoms of one SRC
  WORD                     \* numbers that an u64 can hold, 2^64

ASSUME EmissionAssumption ==
  /\ {FP_SCALE, LN10_FP, LN2_FP, MAX_SUPPLY_ATOMIC, INITIAL_ENERGY_PER_SRC, SRC_BASIS, WORD}
       \subseteq Nat \ {0}
  /\ MaxTerms \in Nat \ {0}
  /\ MAX_SUPPLY_ATOMIC < WORD

fp_mul(a, b) == (a * b) \div FP_SCALE

SaturatingSub(a, b) == IF a > b THEN a - b ELSE 0

\* Defect: the factorial is missing.
exp_without_factorial(x) ==
  LET step[k \in 0 .. MaxTerms] ==
        IF k = 0 THEN [term |-> FP_SCALE, sum |-> FP_SCALE]
        ELSE LET prev == step[k - 1]
                 term == fp_mul(prev.term, x) \div 2
             IN  [term |-> term, sum |-> prev.sum + term]
  IN  step[MaxTerms].sum

\* e^x = 1 + x + x^2/2! + ...
exp_fp(x) ==
  LET step[k \in 0 .. MaxTerms] ==
        IF k = 0 THEN [term |-> FP_SCALE, sum |-> FP_SCALE]
        ELSE LET prev == step[k - 1]
                 term == fp_mul(prev.term, x) \div k
             IN  [term |-> term, sum |-> prev.sum + term]
  IN  step[MaxTerms].sum

\* The sign of term k below one half: the flag `subtract` starts as false, so the term
\* of k = 2 is added.
SignInCode(k) == IF k % 2 = 0 THEN 1 ELSE -1

\* u + u^2/2 + u^3/3 + ..., with the signs of the code when it alternates.
LogSeries(u, alternating) ==
  LET step[k \in 1 .. MaxTerms] ==
        IF k = 1 THEN [power |-> u, sum |-> u]
        ELSE LET prev  == step[k - 1]
                 power == fp_mul(prev.power, u)
                 sign  == IF alternating THEN SignInCode(k) ELSE 1
             IN  [power |-> power, sum |-> prev.sum + sign * (power \div k)]
  IN  step[MaxTerms].sum

\* ln(1 + u); from 1/2 on it is ln(2) + ln(1 - v) with v = (1 - u)/2.
ln_1p_fp(u) ==
  IF u < FP_SCALE \div 2
  THEN LogSeries(u, TRUE)
  ELSE SaturatingSub(LN2_FP, LogSeries((FP_SCALE - u) \div 2, FALSE))

log10_1p_fp(u) == (ln_1p_fp(u) * FP_SCALE) \div LN10_FP

emission_share(total_supply) == (total_supply * FP_SCALE) \div MAX_SUPPLY_ATOMIC

\* 10^share
emission_difficulty(total_supply) ==
  exp_fp(fp_mul(emission_share(total_supply), LN10_FP))

\* Defect: the difficulty divides.
energy_per_src_divided(total_supply) ==
  (INITIAL_ENERGY_PER_SRC * FP_SCALE) \div emission_difficulty(total_supply)

energy_per_src(total_supply) ==
  (INITIAL_ENERGY_PER_SRC * emission_difficulty(total_supply)) \div FP_SCALE

DeviceShare(device, network) ==
  IF device >= network THEN FP_SCALE ELSE (device * FP_SCALE) \div network

\* 1 + log10(1 + share of the device)
device_difficulty_multiplier(device, network) ==
  IF network = 0 THEN FP_SCALE
  ELSE FP_SCALE + log10_1p_fp(DeviceShare(device, network))

effective_energy_per_src(total_supply, device, network) ==
  (energy_per_src(total_supply) * device_difficulty_multiplier(device, network))
    \div FP_SCALE

\* Defect: the reward is rounded up.
reward_rounded_up(energy, per_src) ==
  IF per_src = 0 THEN 0 ELSE ((energy * SRC_BASIS + per_src - 1) \div per_src) % WORD

\* The quotient is 128 bits wide and cut to an u64.
reward_for_energy(energy, per_src) ==
  IF per_src = 0 THEN 0 ELSE ((energy * SRC_BASIS) \div per_src) % WORD

calculate_reward_dynamic(energy, total_supply, device, network) ==
  reward_for_energy(energy, effective_energy_per_src(total_supply, device, network))
-----------------------------------------------------------------------------
(* The 30-day window of the network: accumulate, or start again when the   *)
(* last update is a whole window old.                                      *)

\* Defect: the comparison is turned around.
window_restarting_early(window, last, now, energy, thirty_days) ==
  IF last = 0 \/ now - last <= thirty_days THEN energy ELSE window + energy

update_energy_window(window, last, now, energy, thirty_days) ==
  IF last = 0 \/ now - last >= thirty_days THEN energy ELSE window + energy
-----------------------------------------------------------------------------
(* The split of a reward: 85% for the owner of the device, the rest in     *)
(* four funds of 20/40/30/10 percent, the last one taking the remainder.   *)

Split(reward) ==
  LET user    == (reward * 85) \div 100
      fee     == reward - user
      buyback == (fee * 20) \div 100
      staking == (fee * 40) \div 100
      dao     == (fee * 30) \div 100
  IN  [user |-> user, buyback |-> buyback, staking |-> staking, dao |-> dao,
       emergency |-> fee - buyback - staking - dao]
=============================================================================
