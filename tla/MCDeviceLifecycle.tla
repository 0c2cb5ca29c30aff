-------------------------- MODULE MCDeviceLifecycle --------------------------
(* Bounded instance of DeviceLifecycle for TLC.                            *)
EXTENDS DeviceLifecycle, TLC

\* No definition names a device key or a wallet; the admin is one of its own.
Symmetry == Permutations(Devices) \cup Permutations(Wallets)
=============================================================================
