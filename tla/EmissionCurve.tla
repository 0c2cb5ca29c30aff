---------------------------- MODULE EmissionCurve ----------------------------
(***************************************************************************)
(* The formulas of EmissionMath along a history of their arguments: the    *)
(* supply and the window of one device only grow, as between two windows,  *)
(* and the network is of any size.                                         *)
(***************************************************************************)
EXTENDS EmissionMath

CONSTANTS
  Networks,   \* energy of the network in the window
  MaxDevice,  \* bound on the energy of the device, beyond every network on purpose
  Energies,   \* energy of a report
  Tolerance   \* rounding allowed to the fixed point

ASSUME CurveAssumption ==
  /\ (Networks \cup Energies) \subseteq Nat
  /\ {MaxDevice, Tolerance} \subseteq Nat

VARIABLES emitted, deviceWindow, networkWindow

curve == <<emitted, deviceWindow, networkWindow>>

CurveInit == emitted = 0 /\ deviceWindow = 0 /\ networkWindow \in Networks

Emission ==
  emitted < MAX_SUPPLY_ATOMIC /\ emitted' = emitted + 1
  /\ UNCHANGED <<deviceWindow, networkWindow>>

Production ==
  deviceWindow < MaxDevice /\ deviceWindow' = deviceWindow + 1
  /\ UNCHANGED <<emitted, networkWindow>>

CurveNext == Emission \/ Production

CurveSpec == CurveInit /\ [][CurveNext]_curve

Near(a, b) == a - b <= Tolerance /\ b - a <= Tolerance

\* math.rs:109: the difficulty is 10^share, from 1 at genesis to 10 at the full supply,
\* and no emission ever makes the next SRC cheaper.
DifficultyFollowsSupply ==
  /\ energy_per_src(emitted) >= INITIAL_ENERGY_PER_SRC
  /\ energy_per_src(emitted) <= 10 * INITIAL_ENERGY_PER_SRC
  /\ emitted = MAX_SUPPLY_ATOMIC =>
       Near((energy_per_src(emitted) * FP_SCALE) \div INITIAL_ENERGY_PER_SRC, 10 * FP_SCALE)
  /\ emitted > 0 => energy_per_src(emitted) >= energy_per_src(emitted - 1)

\* No reward exceeds the genesis peg, and cutting a report in two never pays more, up to the
\* energy whose reward fits an u64 at genesis.
RewardsNeverExceedPeg ==
  \A a, b \in Energies :
    LET paid(e) == calculate_reward_dynamic(e, emitted, deviceWindow, networkWindow)
    IN  /\ paid(a) * INITIAL_ENERGY_PER_SRC <= a * SRC_BASIS
        /\ (a + b) * SRC_BASIS < WORD * INITIAL_ENERGY_PER_SRC =>
             paid(a) + paid(b) <= paid(a + b)
=============================================================================
