---------------------------- MODULE MCEnergyMint ----------------------------
(* Bounded instance of EnergyMint for TLC.                                 *)
EXTENDS EnergyMint, TLC

\* No definition names a device key or a wallet; the admin is one of its own.
Symmetry == Permutations(Devices) \cup Permutations(Wallets)

\* The default policy, and one that relaxes everything that limits the amounts.
MCPolicies ==
  {Defaults,
   [Defaults EXCEPT !.enforce_tier_limits = FALSE, !.enforce_supply_cap = FALSE,
                    !.enforce_device_state = FALSE]}
=============================================================================
