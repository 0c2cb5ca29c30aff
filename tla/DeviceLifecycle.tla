--------------------------- MODULE DeviceLifecycle ---------------------------
(***************************************************************************)
(* The device registry of programs/enrg-mvp: one EnergyProducer record per *)
(* device key and one OwnerDevices counter per wallet                      *)
(* (instructions/device_lifecycle.rs, state/producer.rs,                   *)
(* state/owner_devices.rs).                                                *)
(*                                                                         *)
(* One action per instruction; k is the wallet that signs.  A device key   *)
(* signs its registration, its claim by one wallet and the rotation to it; *)
(* the signatures and the clock bounds are inputs, available to whoever    *)
(* holds the device, so they leave no guard.  EnergyMint models the whole  *)
(* of mint_energy; here RecordProduction is what that handler does to the  *)
(* device record.                                                          *)
(***************************************************************************)
EXTENDS Naturals, FiniteSets

CONSTANTS
  Devices,             \* device public keys, rotation targets included
  NoKey,               \* Pubkey::default()
  Wallets,             \* owner wallets
  Admin,               \* vault.authority, the protocol admin
  MaxDevicesPerOwner,  \* constants::MAX_DEVICES_PER_OWNER
  ClaimNonces,         \* nonces used in claim and rotation messages
  ProofNonces,         \* nonces used in energy reports
  Reports              \* energy of a report (Wh)

ASSUME DeviceAssumption ==
  /\ IsFiniteSet(Devices)
  /\ NoKey \notin Devices /\ NoKey \notin Wallets /\ Admin # NoKey
  /\ MaxDevicesPerOwner \in Nat
  /\ ClaimNonces \subseteq Nat /\ ProofNonces \subseteq Nat /\ Reports \subseteq Nat

VARIABLES
  producer,      \* the EnergyProducer record of each device key
  owner_devices  \* the OwnerDevices counters of each wallet

deviceVars == <<producer, owner_devices>>
-----------------------------------------------------------------------------
DeviceState == {"Unregistered", "Registered", "Claimed", "Provisioned", "Active",
                "Quarantine", "Maintenance", "Revoked"}

CanTransitionTo(from, to) ==
  \/ from = "Unregistered" /\ to = "Registered"
  \/ from = "Registered" /\ to = "Claimed"
  \/ from = "Claimed" /\ to = "Provisioned"
  \/ from = "Provisioned" /\ to = "Active"
  \/ from = "Active" /\ to \in {"Quarantine", "Maintenance", "Revoked"}
  \/ from = "Quarantine" /\ to \in {"Active", "Maintenance", "Revoked"}
  \/ from = "Maintenance" /\ to \in {"Active", "Revoked"}

EnergyProducer ==
  [authority : Wallets \cup {NoKey}, state : DeviceState, nonce : Nat,
   energy_wh : Nat, claim_nonce : Nat, revoked : BOOLEAN,
   rotated_to : Devices \cup {NoKey}]

OwnerDevices == [total_claimed : Nat, active_count : Nat]

\* The account of a key that never registered does not exist: "Unregistered".
NoRecord ==
  [authority |-> NoKey, state |-> "Unregistered", nonce |-> 0, energy_wh |-> 0,
   claim_nonce |-> 0, revoked |-> FALSE, rotated_to |-> NoKey]

DeviceInit ==
  /\ producer = [d \in Devices |-> NoRecord]
  /\ owner_devices = [w \in Wallets |-> [total_claimed |-> 0, active_count |-> 0]]
-----------------------------------------------------------------------------
Exists(d) == producer[d].state # "Unregistered"

\* The owner or the protocol admin signs (vault is an optional account that whoever
\* is the admin supplies).
OwnerOrAdmin(k, d) == k = producer[d].authority \/ k = Admin

\* has_one = authority, not revoked, and a transition of the table.
OwnerMoves(k, d, to) ==
  /\ k = producer[d].authority
  /\ ~producer[d].revoked
  /\ CanTransitionTo(producer[d].state, to)

SaturatingDec(n) == IF n > 0 THEN n - 1 ELSE 0

RegisterDevice(d) ==
  /\ ~Exists(d)
  /\ producer' = [producer EXCEPT ![d] = [NoRecord EXCEPT !.state = "Registered"]]
  /\ UNCHANGED owner_devices

ClaimDevice(k, d, n) ==
  /\ ~producer[d].revoked
  /\ producer[d].state = "Registered"
  /\ producer[d].authority = NoKey
  /\ n > producer[d].claim_nonce
  /\ owner_devices[k].total_claimed < MaxDevicesPerOwner
  /\ owner_devices' = [owner_devices EXCEPT ![k].total_claimed = @ + 1]
  /\ producer' = [producer EXCEPT ![d].authority = k, ![d].state = "Claimed",
                                  ![d].claim_nonce = n]

ProvisionDevice(k, d) ==
  /\ OwnerMoves(k, d, "Provisioned")
  /\ producer' = [producer EXCEPT ![d].state = "Provisioned"]
  /\ UNCHANGED owner_devices

\* activate_device and release_from_quarantine do the same.
EnterActive(k, d) ==
  /\ OwnerMoves(k, d, "Active")
  /\ owner_devices[k].active_count < MaxDevicesPerOwner
  /\ owner_devices' = [owner_devices EXCEPT ![k].active_count = @ + 1]
  /\ producer' = [producer EXCEPT ![d].state = "Active"]

ActivateDevice(k, d) == EnterActive(k, d)

ReleaseFromQuarantine(k, d) == EnterActive(k, d)

\* Defect: the counter is left as it is.
QuarantineKeepsCount(k, d) ==
  /\ OwnerMoves(k, d, "Quarantine")
  /\ producer' = [producer EXCEPT ![d].state = "Quarantine"]
  /\ UNCHANGED owner_devices

QuarantineDevice(k, d) ==
  /\ OwnerMoves(k, d, "Quarantine")
  /\ owner_devices' = [owner_devices EXCEPT ![k].active_count = SaturatingDec(@)]
  /\ producer' = [producer EXCEPT ![d].state = "Quarantine"]

\* Defect: the counter is decremented whatever the state the device leaves.
MaintenanceAlwaysDecrements(k, d) ==
  /\ OwnerMoves(k, d, "Maintenance")
  /\ owner_devices' = [owner_devices EXCEPT ![k].active_count = SaturatingDec(@)]
  /\ producer' = [producer EXCEPT ![d].state = "Maintenance"]

MaintenanceDevice(k, d) ==
  /\ OwnerMoves(k, d, "Maintenance")
  /\ owner_devices' = IF producer[d].state = "Active"
                      THEN [owner_devices EXCEPT ![k].active_count = SaturatingDec(@)]
                      ELSE owner_devices
  /\ producer' = [producer EXCEPT ![d].state = "Maintenance"]

\* withOwner: the caller supplied the optional owner_devices account.
RevokeDevice(k, d, withOwner) ==
  /\ Exists(d)
  /\ ~producer[d].revoked
  /\ OwnerOrAdmin(k, d)
  /\ producer[d].state # "Revoked"
  /\ withOwner => producer[d].authority \in Wallets
  /\ owner_devices' =
       IF producer[d].state = "Active" /\ withOwner
       THEN [owner_devices EXCEPT ![producer[d].authority].active_count = SaturatingDec(@)]
       ELSE owner_devices
  /\ producer' = [producer EXCEPT ![d].state = "Revoked", ![d].revoked = TRUE]
-----------------------------------------------------------------------------
(* Rotation of a device key: the record moves to the PDA of the new key.   *)

Retired(record, e) ==
  [record EXCEPT !.state = "Revoked", !.revoked = TRUE, !.rotated_to = e]

\* Defect of the copy: the proof nonce restarts.
SuccessorRestartingNonce(d, n) ==
  [producer[d] EXCEPT !.nonce = 0, !.claim_nonce = n, !.revoked = FALSE, !.rotated_to = NoKey]

Successor(d, n) ==
  [producer[d] EXCEPT !.claim_nonce = n, !.revoked = FALSE, !.rotated_to = NoKey]

\* Defects: the old record stays in use; a revoked record can be rotated again.
RotateWithoutRetiring(k, d, e, n) ==
  /\ Exists(d) /\ ~Exists(e) /\ d # e
  /\ ~producer[d].revoked /\ producer[d].state # "Revoked"
  /\ OwnerOrAdmin(k, d)
  /\ n > producer[d].claim_nonce
  /\ producer' = [producer EXCEPT ![e] = Successor(d, n)]
  /\ UNCHANGED owner_devices

RotateRevoked(k, d, e, n) ==
  /\ Exists(d) /\ ~Exists(e) /\ d # e
  /\ OwnerOrAdmin(k, d)
  /\ n > producer[d].claim_nonce
  /\ producer' = [producer EXCEPT ![e] = Successor(d, n), ![d] = Retired(@, e)]
  /\ UNCHANGED owner_devices

RotateDeviceKey(k, d, e, n) ==
  /\ Exists(d) /\ ~Exists(e) /\ d # e
  /\ ~producer[d].revoked /\ producer[d].state # "Revoked"
  /\ OwnerOrAdmin(k, d)
  /\ n > producer[d].claim_nonce
  /\ producer' = [producer EXCEPT ![e] = Successor(d, n), ![d] = Retired(@, e)]
  /\ UNCHANGED owner_devices
-----------------------------------------------------------------------------
\* What mint_energy does to the record (can_mint may be switched off by policy).
RecordProduction(d, n, wh) ==
  /\ Exists(d) /\ ~producer[d].revoked
  /\ producer[d].authority # NoKey
  /\ n > producer[d].nonce
  /\ producer' = [producer EXCEPT ![d].nonce = n, ![d].energy_wh = @ + wh]
  /\ UNCHANGED owner_devices

OwnerActs(k, d) ==
  \/ \E n \in ClaimNonces : ClaimDevice(k, d, n)
  \/ ProvisionDevice(k, d)
  \/ ActivateDevice(k, d)
  \/ ReleaseFromQuarantine(k, d)
  \/ QuarantineDevice(k, d)
  \/ MaintenanceDevice(k, d)

OwnerOrAdminActs(k, d) ==
  \/ \E withOwner \in BOOLEAN : RevokeDevice(k, d, withOwner)
  \/ \E e \in Devices, n \in ClaimNonces : RotateDeviceKey(k, d, e, n)

LifecycleNext ==
  \E d \in Devices :
    \/ RegisterDevice(d)
    \/ \E k \in Wallets : OwnerActs(k, d)
    \/ \E k \in Wallets \cup {Admin} : OwnerOrAdminActs(k, d)

DeviceNext ==
  \/ LifecycleNext
  \/ \E d \in Devices, n \in ProofNonces, wh \in Reports : RecordProduction(d, n, wh)

DeviceSpec == DeviceInit /\ [][DeviceNext]_deviceVars
-----------------------------------------------------------------------------
(* Properties.                                                             *)

\* The devices the limit is about.
ActiveDevicesOf(w) ==
  {d \in Devices : producer[d].authority = w /\ producer[d].state = "Active"}

\* Devices a wallet claimed, each counted at its current key.
CurrentDevicesOf(w) ==
  {d \in Devices : producer[d].authority = w /\ producer[d].rotated_to = NoKey}

\* Every record is of its type and the counters stay within the limit of a wallet.
DeviceTypeOK ==
  /\ producer \in [Devices -> EnergyProducer]
  /\ owner_devices \in [Wallets -> OwnerDevices]
  /\ \A w \in Wallets : /\ owner_devices[w].total_claimed <= MaxDevicesPerOwner
                        /\ owner_devices[w].active_count <= MaxDevicesPerOwner

\* active_count never falls below the number of devices that are Active, so the limit
\* it is compared with really bounds the active devices of a wallet: whatever path a
\* device takes through quarantine, maintenance, rotation and revocation.
ActiveDevicesAreCounted ==
  \A w \in Wallets : Cardinality(ActiveDevicesOf(w)) <= owner_devices[w].active_count

\* The counter drifts (a device revoked without its owner's account stays counted for
\* ever), but never far enough to refuse the activation of a device the table allows.
ActivationIsNeverRefused ==
  \A w \in Wallets, d \in Devices :
    OwnerMoves(w, d, "Active") => owner_devices[w].active_count < MaxDevicesPerOwner

\* total_claimed is exactly the number of devices the wallet ever claimed; rotating a
\* key neither adds nor loses a device.
ClaimsAreCounted ==
  \A w \in Wallets : Cardinality(CurrentDevicesOf(w)) = owner_devices[w].total_claimed

\* A rotated record points at a later one with the same owner that took over at least
\* its progress: no nonce becomes usable twice and no energy is lost by rotating, and
\* chains of rotations never come back (claim_nonce grows along them).
RotationKeepsProgress ==
  \A d \in Devices :
    LET e == producer[d].rotated_to
    IN  e # NoKey =>
          /\ producer[d].revoked
          /\ producer[e].state # "Unregistered"
          /\ producer[e].nonce >= producer[d].nonce
          /\ producer[e].energy_wh >= producer[d].energy_wh
          /\ producer[e].claim_nonce > producer[d].claim_nonce
          /\ producer[d].authority # NoKey => producer[e].authority = producer[d].authority

\* A device key takes over from at most one other key.
OnePredecessor ==
  \A d, f \in Devices :
    producer[d].rotated_to # NoKey /\ producer[d].rotated_to = producer[f].rotated_to
      => d = f

\* Rotations form chains, each link with the progress of the one before it: neither a
\* rotation nor what follows it splits a device, merges two or loses what one has done.
RotationsAreChains == RotationKeepsProgress /\ OnePredecessor

\* producer.rs:137: after a revocation or a rotation the record can neither mint nor
\* change state: the record is frozen, and every move to Revoked sets the flag.
RevokedIsFinal ==
  [][\A d \in Devices : (producer[d].revoked \/ producer[d].state = "Revoked")
                           => producer'[d] = producer[d]]_deviceVars
=============================================================================
