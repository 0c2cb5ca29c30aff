-------------------------- MODULE EnergyMintProofs --------------------------
(***************************************************************************)
(* Proofs about DeviceLifecycle and about EnergyMint, which extends it, in *)
(* three parts.                                                            *)
(*                                                                         *)
(* The registry: the shape of the records (revocation, rotation,           *)
(* ownership) and the counters of the owners, for any number of devices,   *)
(* wallets and nonces.                                                     *)
(*                                                                         *)
(* The mint path: it implements the registry, so that what holds of the    *)
(* registry alone holds of the whole mint path, and its accounts, tier     *)
(* limits and supply stay sound, for any policies and any emission curve.  *)
(*                                                                         *)
(* The totals of the vault: the energy, the supply and the month of the    *)
(* network are the sums of what the devices, the accounts and the hours    *)
(* hold, by the laws of sums in EmissionProofs.                            *)
(***************************************************************************)
EXTENDS EnergyMint, EmissionProofs

-----------------------------------------------------------------------------
(* The registry.                                                           *)

\* Types of the two tables, without the bounds on the counters.
DeviceTypes ==
  /\ producer \in [Devices -> EnergyProducer]
  /\ owner_devices \in [Wallets -> OwnerDevices]

\* The flag and the terminal state say the same, and only a revoked record points at a
\* successor.
RevocationIsState ==
  \A d \in Devices : /\ producer[d].revoked <=> producer[d].state = "Revoked"
                     /\ producer[d].rotated_to # NoKey => producer[d].revoked

\* Records that do not exist hold nothing.
AbsentIsBlank ==
  \A d \in Devices : producer[d].state = "Unregistered" => producer[d] = NoRecord

\* Only a claim takes a record out of the states without an owner, and it sets one.
OwnedByState ==
  \A d \in Devices :
    producer[d].authority = NoKey =>
      producer[d].state \in {"Unregistered", "Registered", "Revoked"}

ShapeInv ==
  /\ DeviceTypes
  /\ RevocationIsState
  /\ AbsentIsBlank
  /\ OwnedByState
  /\ RotationKeepsProgress
  /\ OnePredecessor

\* An instruction that touches one record only, keeps its links and does not undo its
\* progress.
Advances(d) ==
  /\ producer' \in [Devices -> EnergyProducer]
  /\ \A f \in Devices \ {d} : producer'[f] = producer[f]
  /\ ~producer[d].revoked
  /\ producer'[d].state # "Unregistered"
  /\ producer'[d].rotated_to = NoKey
  /\ producer'[d].revoked <=> producer'[d].state = "Revoked"
  /\ producer'[d].nonce >= producer[d].nonce
  /\ producer'[d].energy_wh >= producer[d].energy_wh
  /\ producer'[d].claim_nonce >= producer[d].claim_nonce
  /\ producer[d].authority # NoKey => producer'[d].authority = producer[d].authority
  /\ producer'[d].authority = NoKey =>
       producer'[d].state \in {"Registered", "Revoked"}

LEMMA RegisterAdvances ==
  ASSUME ShapeInv, NEW d \in Devices, RegisterDevice(d)
  PROVE  Advances(d) /\ owner_devices' = owner_devices
<1>1. producer[d] = NoRecord
  BY DEF ShapeInv, AbsentIsBlank, RegisterDevice, Exists
<1>2. [NoRecord EXCEPT !.state = "Registered"] \in EnergyProducer
  BY DEF NoRecord, EnergyProducer, DeviceState
<1>3. producer' \in [Devices -> EnergyProducer]
  BY <1>2 DEF ShapeInv, DeviceTypes, RegisterDevice
<1>4. producer'[d] = [NoRecord EXCEPT !.state = "Registered"]
  BY DEF ShapeInv, DeviceTypes, RegisterDevice
<1>5. \A f \in Devices \ {d} : producer'[f] = producer[f]
  BY DEF ShapeInv, DeviceTypes, RegisterDevice
<1>6. QED
  BY <1>1, <1>3, <1>4, <1>5 DEF Advances, NoRecord, RegisterDevice

LEMMA ClaimAdvances ==
  ASSUME ShapeInv, NEW d \in Devices, NEW k \in Wallets, NEW n \in ClaimNonces,
         ClaimDevice(k, d, n)
  PROVE  Advances(d) /\ owner_devices' \in [Wallets -> OwnerDevices]
<1>1. producer[d] \in EnergyProducer /\ k # NoKey /\ n \in Nat
  BY DeviceAssumption DEF ShapeInv, DeviceTypes
<1>2. /\ producer' \in [Devices -> EnergyProducer]
      /\ \A f \in Devices \ {d} : producer'[f] = producer[f]
  BY <1>1 DEF ShapeInv, DeviceTypes, ClaimDevice, EnergyProducer, DeviceState
<1>3. producer'[d] = [producer[d] EXCEPT !.authority = k, !.state = "Claimed",
                                         !.claim_nonce = n]
  BY DEF ShapeInv, DeviceTypes, ClaimDevice
<1>4. producer[d].rotated_to = NoKey
  BY DEF ShapeInv, RevocationIsState, ClaimDevice
<1>5. Advances(d)
  BY <1>1, <1>2, <1>3, <1>4 DEF Advances, ClaimDevice, EnergyProducer
<1>6. owner_devices' \in [Wallets -> OwnerDevices]
  BY DEF ShapeInv, DeviceTypes, ClaimDevice, OwnerDevices
<1>7. QED
  BY <1>5, <1>6

\* The transitions of the owner: only the state of the record changes.
LEMMA MoveAdvances ==
  ASSUME ShapeInv, NEW d \in Devices, NEW k \in Wallets,
         NEW to \in {"Provisioned", "Active", "Quarantine", "Maintenance"},
         OwnerMoves(k, d, to),
         producer' = [producer EXCEPT ![d].state = to]
  PROVE  Advances(d)
<1>1. producer[d] \in EnergyProducer /\ k # NoKey /\ to \in DeviceState
  BY DeviceAssumption DEF ShapeInv, DeviceTypes, DeviceState
<1>2. /\ producer' \in [Devices -> EnergyProducer]
      /\ \A f \in Devices \ {d} : producer'[f] = producer[f]
  BY <1>1 DEF ShapeInv, DeviceTypes, EnergyProducer
<1>3. producer'[d] = [producer[d] EXCEPT !.state = to]
  BY DEF ShapeInv, DeviceTypes
<1>4. producer[d].rotated_to = NoKey
  BY DEF ShapeInv, RevocationIsState, OwnerMoves
<1>5. QED
  BY <1>1, <1>2, <1>3, <1>4 DEF Advances, OwnerMoves, EnergyProducer

LEMMA RevokeAdvances ==
  ASSUME ShapeInv, NEW d \in Devices, NEW k, NEW withOwner \in BOOLEAN,
         RevokeDevice(k, d, withOwner)
  PROVE  Advances(d) /\ owner_devices' \in [Wallets -> OwnerDevices]
<1>1. producer[d] \in EnergyProducer
  BY DEF ShapeInv, DeviceTypes
<1>2. /\ producer' \in [Devices -> EnergyProducer]
      /\ \A f \in Devices \ {d} : producer'[f] = producer[f]
  <2>1. producer' = [producer EXCEPT ![d].state = "Revoked", ![d].revoked = TRUE]
    BY DEF RevokeDevice
  <2>3. producer \in [Devices -> EnergyProducer]
    BY DEF ShapeInv, DeviceTypes
  <2>4. producer' \in [Devices -> EnergyProducer]
    BY <1>1, <2>1, <2>3 DEF EnergyProducer, DeviceState
  <2>5. \A f \in Devices \ {d} : producer'[f] = producer[f]
    BY <2>1, <2>3
  <2>6. QED
    BY <2>4, <2>5
<1>3. producer'[d] = [producer[d] EXCEPT !.state = "Revoked", !.revoked = TRUE]
  BY DEF ShapeInv, DeviceTypes, RevokeDevice
<1>4. producer[d].rotated_to = NoKey
  BY DEF ShapeInv, RevocationIsState, RevokeDevice
<1>5. Advances(d)
  BY <1>1, <1>2, <1>3, <1>4 DEF Advances, RevokeDevice, EnergyProducer
<1>6. owner_devices' \in [Wallets -> OwnerDevices]
  <2>1. \A c \in Nat : SaturatingDec(c) \in Nat
    BY DEF SaturatingDec
  <2>2. QED
    BY <2>1 DEF ShapeInv, DeviceTypes, RevokeDevice, OwnerDevices
<1>7. QED
  BY <1>5, <1>6

LEMMA ProductionAdvances ==
  ASSUME ShapeInv, NEW d \in Devices, NEW n \in ProofNonces, NEW wh \in Reports,
         RecordProduction(d, n, wh)
  PROVE  Advances(d) /\ owner_devices' = owner_devices
<1>1. producer[d] \in EnergyProducer /\ n \in Nat /\ wh \in Nat
  BY DeviceAssumption DEF ShapeInv, DeviceTypes
<1>2. /\ producer' \in [Devices -> EnergyProducer]
      /\ \A f \in Devices \ {d} : producer'[f] = producer[f]
  <2>1. producer' = [producer EXCEPT ![d].nonce = n, ![d].energy_wh = @ + wh]
    BY DEF RecordProduction
  <2>2. producer \in [Devices -> EnergyProducer]
    BY DEF ShapeInv, DeviceTypes
  <2>3. producer[d].energy_wh + wh \in Nat
    BY <1>1 DEF EnergyProducer
  <2>4. producer' \in [Devices -> EnergyProducer]
    BY <1>1, <2>1, <2>2, <2>3 DEF EnergyProducer
  <2>5. \A f \in Devices \ {d} : producer'[f] = producer[f]
    BY <2>1, <2>2
  <2>6. QED
    BY <2>4, <2>5
<1>3. producer'[d] = [producer[d] EXCEPT !.nonce = n, !.energy_wh = @ + wh]
  BY DEF ShapeInv, DeviceTypes, RecordProduction
<1>4. producer[d].rotated_to = NoKey /\ producer[d].state # "Revoked"
  BY DEF ShapeInv, RevocationIsState, RecordProduction
<1>5. QED
  BY <1>1, <1>2, <1>3, <1>4 DEF Advances, RecordProduction, Exists, EnergyProducer

\* Whatever advances one record keeps the shape of all of them.
LEMMA AdvanceKeepsShape ==
  ASSUME ShapeInv, NEW d \in Devices, Advances(d),
         owner_devices' \in [Wallets -> OwnerDevices]
  PROVE  ShapeInv'
<1>1. DeviceTypes'
  BY DEF DeviceTypes, Advances
<1>2. RevocationIsState'
  BY DEF ShapeInv, RevocationIsState, Advances
<1>3. AbsentIsBlank'
  BY DEF ShapeInv, AbsentIsBlank, Advances
<1>4. OwnedByState'
  BY DEF ShapeInv, OwnedByState, Advances
<1>5. RotationKeepsProgress'
  <2> SUFFICES ASSUME NEW f \in Devices, producer'[f].rotated_to # NoKey
               PROVE  LET e == producer'[f].rotated_to
                      IN  /\ producer'[f].revoked
                          /\ producer'[e].state # "Unregistered"
                          /\ producer'[e].nonce >= producer'[f].nonce
                          /\ producer'[e].energy_wh >= producer'[f].energy_wh
                          /\ producer'[e].claim_nonce > producer'[f].claim_nonce
                          /\ producer'[f].authority # NoKey =>
                               producer'[e].authority = producer'[f].authority
    BY DEF RotationKeepsProgress
  <2> DEFINE e == producer[f].rotated_to
  <2>1. f # d /\ producer'[f] = producer[f]
    BY DEF Advances
  <2>2. e # NoKey /\ e \in Devices
    BY <2>1 DEF ShapeInv, DeviceTypes, EnergyProducer
  <2>3. /\ producer[f].revoked
        /\ producer[e].state # "Unregistered"
        /\ producer[e].nonce >= producer[f].nonce
        /\ producer[e].energy_wh >= producer[f].energy_wh
        /\ producer[e].claim_nonce > producer[f].claim_nonce
        /\ producer[f].authority # NoKey => producer[e].authority = producer[f].authority
    BY <2>2 DEF ShapeInv, RotationKeepsProgress
  <2>4. CASE e # d
    BY <2>1, <2>2, <2>3, <2>4 DEF Advances
  <2>5. CASE e = d
    <3>1. /\ producer[d] \in EnergyProducer /\ producer'[d] \in EnergyProducer
          /\ producer[f] \in EnergyProducer
      BY DEF ShapeInv, DeviceTypes, Advances
    <3>2. QED
      BY <2>1, <2>3, <2>5, <3>1 DEF Advances, EnergyProducer
  <2>6. QED
    BY <2>4, <2>5
<1>6. OnePredecessor'
  BY DEF ShapeInv, OnePredecessor, Advances
<1>7. QED
  BY <1>1, <1>2, <1>3, <1>4, <1>5, <1>6 DEF ShapeInv

LEMMA RotationKeepsShape ==
  ASSUME ShapeInv, NEW k, NEW d \in Devices, NEW e \in Devices, NEW n \in ClaimNonces,
         RotateDeviceKey(k, d, e, n)
  PROVE  ShapeInv'
<1> DEFINE old == Retired(producer[d], e)
           new == Successor(d, n)
<1>1. /\ producer \in [Devices -> EnergyProducer]
      /\ producer[d] \in EnergyProducer
      /\ n \in Nat /\ e # NoKey /\ d # e
  BY DeviceAssumption DEF ShapeInv, DeviceTypes, RotateDeviceKey
<1>2. producer' = [producer EXCEPT ![e] = new, ![d] = Retired(@, e)]
  BY DEF RotateDeviceKey
<1>3. producer'[d] = old /\ producer'[e] = new
  BY <1>1, <1>2
<1>4. \A f \in Devices : f # d /\ f # e => producer'[f] = producer[f]
  BY <1>1, <1>2
<1>5. old \in EnergyProducer
  BY <1>1 DEF EnergyProducer, Retired, DeviceState
<1>6. new \in EnergyProducer
  BY <1>1 DEF EnergyProducer, Successor, DeviceState
<1>7. producer' \in [Devices -> EnergyProducer]
  BY <1>1, <1>2, <1>3, <1>5, <1>6
<1>8. /\ producer[e] = NoRecord /\ producer[e].state = "Unregistered"
      /\ ~producer[d].revoked /\ producer[d].state # "Revoked"
      /\ producer[d].state # "Unregistered" /\ producer[d].rotated_to = NoKey
      /\ n > producer[d].claim_nonce
  BY DEF RotateDeviceKey, Exists, ShapeInv, AbsentIsBlank, RevocationIsState
<1>9. /\ old.state = "Revoked" /\ old.revoked /\ old.rotated_to = e
      /\ old.nonce = producer[d].nonce /\ old.energy_wh = producer[d].energy_wh
      /\ old.claim_nonce = producer[d].claim_nonce
      /\ old.authority = producer[d].authority
  BY <1>1 DEF Retired, EnergyProducer
<1>10. /\ new.state = producer[d].state /\ ~new.revoked /\ new.rotated_to = NoKey
       /\ new.nonce = producer[d].nonce /\ new.energy_wh = producer[d].energy_wh
       /\ new.claim_nonce = n /\ new.authority = producer[d].authority
  BY <1>1 DEF Successor, EnergyProducer
<1>11. \A f \in Devices : producer[f].rotated_to # e
  BY <1>1, <1>8 DEF ShapeInv, RotationKeepsProgress
<1> HIDE DEF old, new
<1>12. DeviceTypes'
  BY <1>7 DEF DeviceTypes, ShapeInv, RotateDeviceKey
<1>13. RevocationIsState'
  BY <1>3, <1>4, <1>8, <1>9, <1>10 DEF RevocationIsState, ShapeInv
<1>14. AbsentIsBlank'
  BY <1>3, <1>4, <1>8, <1>9, <1>10 DEF AbsentIsBlank, ShapeInv
<1>15. OwnedByState'
  BY <1>3, <1>4, <1>8, <1>9, <1>10 DEF OwnedByState, ShapeInv
<1>16. RotationKeepsProgress'
  <2> SUFFICES ASSUME NEW f \in Devices, producer'[f].rotated_to # NoKey
               PROVE  LET g == producer'[f].rotated_to
                      IN  /\ producer'[f].revoked
                          /\ producer'[g].state # "Unregistered"
                          /\ producer'[g].nonce >= producer'[f].nonce
                          /\ producer'[g].energy_wh >= producer'[f].energy_wh
                          /\ producer'[g].claim_nonce > producer'[f].claim_nonce
                          /\ producer'[f].authority # NoKey =>
                               producer'[g].authority = producer'[f].authority
    BY DEF RotationKeepsProgress
  <2>1. CASE f = d
    <3>1. producer[d].nonce \in Nat /\ producer[d].energy_wh \in Nat
      BY <1>1 DEF EnergyProducer
    <3>2. QED
      BY <1>3, <1>8, <1>9, <1>10, <2>1, <3>1
  <2>2. CASE f # d
    <3> DEFINE g == producer[f].rotated_to
    <3>1. f # e /\ producer'[f] = producer[f] /\ g # NoKey
      BY <1>3, <1>4, <1>10, <2>2
    <3>2. /\ g \in Devices /\ g # e
      BY <1>1, <1>11, <3>1 DEF EnergyProducer
    <3>3. /\ producer[f].revoked
          /\ producer[g].state # "Unregistered"
          /\ producer[g].nonce >= producer[f].nonce
          /\ producer[g].energy_wh >= producer[f].energy_wh
          /\ producer[g].claim_nonce > producer[f].claim_nonce
          /\ producer[f].authority # NoKey => producer[g].authority = producer[f].authority
      BY <3>1 DEF ShapeInv, RotationKeepsProgress
    <3>4. CASE g = d
      BY <1>3, <1>9, <3>1, <3>3, <3>4
    <3>5. CASE g # d
      BY <1>4, <3>1, <3>2, <3>3, <3>5
    <3>6. QED
      BY <3>4, <3>5
  <2>3. QED
    BY <2>1, <2>2
<1>17. OnePredecessor'
  <2> SUFFICES ASSUME NEW f \in Devices, NEW g \in Devices,
                      producer'[f].rotated_to # NoKey,
                      producer'[f].rotated_to = producer'[g].rotated_to
               PROVE  f = g
    BY DEF OnePredecessor
  <2>1. f # e /\ g # e
    BY <1>3, <1>10
  <2>2. CASE f = d \/ g = d
    BY <1>3, <1>4, <1>9, <1>11, <2>1, <2>2
  <2>3. CASE f # d /\ g # d
    BY <1>4, <2>1, <2>3 DEF ShapeInv, OnePredecessor
  <2>4. QED
    BY <2>2, <2>3
<1>18. QED
  BY <1>12, <1>13, <1>14, <1>15, <1>16, <1>17 DEF ShapeInv

\* The counters of an owner move by one at most and stay natural numbers.
LEMMA OwnerActsKeepShape ==
  ASSUME ShapeInv, NEW d \in Devices, NEW k \in Wallets, OwnerActs(k, d)
  PROVE  ShapeInv'
<1>1. ASSUME NEW n \in ClaimNonces, ClaimDevice(k, d, n)
      PROVE  ShapeInv'
  BY <1>1, ClaimAdvances, AdvanceKeepsShape
<1>2. ASSUME ProvisionDevice(k, d) PROVE ShapeInv'
  <2>1. Advances(d)
    BY <1>2, MoveAdvances DEF ProvisionDevice
  <2>2. owner_devices' \in [Wallets -> OwnerDevices]
    BY <1>2 DEF ProvisionDevice, ShapeInv, DeviceTypes
  <2>3. QED
    BY <2>1, <2>2, AdvanceKeepsShape
<1>3. ASSUME EnterActive(k, d) PROVE ShapeInv'
  <2>1. Advances(d)
    BY <1>3, MoveAdvances DEF EnterActive
  <2>2. owner_devices' \in [Wallets -> OwnerDevices]
    BY <1>3 DEF EnterActive, ShapeInv, DeviceTypes, OwnerDevices
  <2>3. QED
    BY <2>1, <2>2, AdvanceKeepsShape
<1>4. \A c \in Nat : SaturatingDec(c) \in Nat
  BY DEF SaturatingDec
<1>5. ASSUME QuarantineDevice(k, d) PROVE ShapeInv'
  <2>1. Advances(d)
    BY <1>5, MoveAdvances DEF QuarantineDevice
  <2>2. owner_devices' \in [Wallets -> OwnerDevices]
    BY <1>4, <1>5 DEF QuarantineDevice, ShapeInv, DeviceTypes, OwnerDevices
  <2>3. QED
    BY <2>1, <2>2, AdvanceKeepsShape
<1>6. ASSUME MaintenanceDevice(k, d) PROVE ShapeInv'
  <2>1. Advances(d)
    BY <1>6, MoveAdvances DEF MaintenanceDevice
  <2>2. owner_devices' \in [Wallets -> OwnerDevices]
    BY <1>4, <1>6 DEF MaintenanceDevice, ShapeInv, DeviceTypes, OwnerDevices
  <2>3. QED
    BY <2>1, <2>2, AdvanceKeepsShape
<1>7. QED
  BY <1>1, <1>2, <1>3, <1>5, <1>6 DEF OwnerActs, ActivateDevice, ReleaseFromQuarantine

LEMMA StepKeepsShape ==
  ASSUME ShapeInv, [DeviceNext]_deviceVars
  PROVE  ShapeInv'
<1>1. CASE UNCHANGED deviceVars
  BY <1>1 DEF deviceVars, ShapeInv, DeviceTypes, RevocationIsState, AbsentIsBlank,
              OwnedByState, RotationKeepsProgress, OnePredecessor
<1>2. ASSUME NEW d \in Devices, RegisterDevice(d) PROVE ShapeInv'
  <2>1. owner_devices' \in [Wallets -> OwnerDevices]
    BY <1>2, RegisterAdvances DEF ShapeInv, DeviceTypes
  <2>2. QED
    BY <1>2, <2>1, RegisterAdvances, AdvanceKeepsShape
<1>3. ASSUME NEW d \in Devices, NEW k, OwnerOrAdminActs(k, d) PROVE ShapeInv'
  BY <1>3, RevokeAdvances, RotationKeepsShape, AdvanceKeepsShape DEF OwnerOrAdminActs
<1>4. ASSUME NEW d \in Devices, NEW n \in ProofNonces, NEW wh \in Reports,
             RecordProduction(d, n, wh)
      PROVE  ShapeInv'
  <2>1. owner_devices' \in [Wallets -> OwnerDevices]
    BY <1>4, ProductionAdvances DEF ShapeInv, DeviceTypes
  <2>2. QED
    BY <1>4, <2>1, ProductionAdvances, AdvanceKeepsShape
<1>5. QED
  BY <1>1, <1>2, <1>3, <1>4, OwnerActsKeepShape DEF DeviceNext, LifecycleNext

LEMMA InitShape ==
  ASSUME DeviceInit
  PROVE  ShapeInv
<1>1. DeviceTypes
  BY DEF DeviceInit, DeviceTypes, NoRecord, EnergyProducer, OwnerDevices, DeviceState
<1>2. \A d \in Devices : producer[d] = NoRecord
  BY DEF DeviceInit
<1>3. \A d \in Devices : /\ producer[d].rotated_to = NoKey
                        /\ ~producer[d].revoked
                        /\ producer[d].state = "Unregistered"
  BY <1>2 DEF NoRecord
<1>4. RevocationIsState /\ AbsentIsBlank /\ OwnedByState
  BY <1>2, <1>3 DEF RevocationIsState, AbsentIsBlank, OwnedByState
<1>5. RotationKeepsProgress /\ OnePredecessor
  BY <1>3 DEF RotationKeepsProgress, OnePredecessor
<1>6. QED
  BY <1>1, <1>4, <1>5 DEF ShapeInv

THEOREM ShapeInvariant == DeviceSpec => []ShapeInv
<1>1. DeviceInit => ShapeInv
  BY InitShape
<1>2. ShapeInv /\ [DeviceNext]_deviceVars => ShapeInv'
  BY StepKeepsShape
<1>3. QED
  BY <1>1, <1>2, PTL DEF DeviceSpec

\* Rotation safety: a rotated record points at a live successor with the same owner and
\* no less progress, so a nonce accepted once is never accepted again under a new key.
THEOREM RotationSafety == DeviceSpec => []RotationsAreChains
<1>1. ShapeInv => RotationsAreChains
  BY DEF ShapeInv, RotationsAreChains
<1>2. QED
  BY <1>1, ShapeInvariant, PTL

\* No instruction touches a record once it is revoked.
LEMMA StepKeepsRevoked ==
  ASSUME ShapeInv, [DeviceNext]_deviceVars, NEW f \in Devices,
         producer[f].revoked \/ producer[f].state = "Revoked"
  PROVE  producer'[f] = producer[f]
<1>1. producer[f].revoked /\ producer[f].state = "Revoked"
  BY DEF ShapeInv, RevocationIsState
<1>2. CASE UNCHANGED deviceVars
  BY <1>2 DEF deviceVars
<1>3. ASSUME NEW d \in Devices, Advances(d) PROVE producer'[f] = producer[f]
  BY <1>1, <1>3 DEF Advances
<1>4. ASSUME NEW d \in Devices, RegisterDevice(d) PROVE producer'[f] = producer[f]
  BY <1>3, <1>4, RegisterAdvances
<1>5. ASSUME NEW d \in Devices, NEW k \in Wallets, OwnerActs(k, d)
      PROVE  producer'[f] = producer[f]
  <2>1. CASE \E n \in ClaimNonces : ClaimDevice(k, d, n)
    BY <1>3, <2>1, ClaimAdvances
  <2>2. CASE ProvisionDevice(k, d)
    BY <1>3, <2>2, MoveAdvances DEF ProvisionDevice
  <2>3. CASE EnterActive(k, d)
    BY <1>3, <2>3, MoveAdvances DEF EnterActive
  <2>4. CASE QuarantineDevice(k, d)
    BY <1>3, <2>4, MoveAdvances DEF QuarantineDevice
  <2>5. CASE MaintenanceDevice(k, d)
    BY <1>3, <2>5, MoveAdvances DEF MaintenanceDevice
  <2>6. QED
    BY <1>5, <2>1, <2>2, <2>3, <2>4, <2>5
    DEF OwnerActs, ActivateDevice, ReleaseFromQuarantine
<1>6. ASSUME NEW d \in Devices, NEW k, OwnerOrAdminActs(k, d)
      PROVE  producer'[f] = producer[f]
  <2>1. CASE \E withOwner \in BOOLEAN : RevokeDevice(k, d, withOwner)
    BY <1>3, <2>1, RevokeAdvances
  <2>2. ASSUME NEW e \in Devices, NEW n \in ClaimNonces, RotateDeviceKey(k, d, e, n)
        PROVE  producer'[f] = producer[f]
    <3>1. f # d /\ f # e
      BY <1>1, <2>2 DEF RotateDeviceKey, Exists
    <3>2. QED
      BY <2>2, <3>1 DEF RotateDeviceKey, ShapeInv, DeviceTypes
  <2>3. QED
    BY <1>6, <2>1, <2>2 DEF OwnerOrAdminActs
<1>7. ASSUME NEW d \in Devices, NEW n \in ProofNonces, NEW wh \in Reports,
             RecordProduction(d, n, wh)
      PROVE  producer'[f] = producer[f]
  BY <1>3, <1>7, ProductionAdvances
<1>8. QED
  BY <1>2, <1>4, <1>5, <1>6, <1>7 DEF DeviceNext, LifecycleNext

\* A revoked or rotated record is frozen: it cannot mint, move or be rotated again.
THEOREM RevocationIsFinal == DeviceSpec => RevokedIsFinal
<1>1. ShapeInv /\ [DeviceNext]_deviceVars
        => [\A d \in Devices : (producer[d].revoked \/ producer[d].state = "Revoked")
                                  => producer'[d] = producer[d]]_deviceVars
  BY StepKeepsRevoked
<1>2. QED
  BY <1>1, ShapeInvariant, PTL DEF DeviceSpec, RevokedIsFinal
-----------------------------------------------------------------------------
(* The counters.  active_count may exceed the number of Active devices, since a  *)
(* revocation without the owner's account leaves it; it never exceeds the number *)
(* of current records that are Active or were revoked.                           *)

CountedOf(w) ==
  {d \in CurrentDevicesOf(w) : producer[d].state \in {"Active", "Revoked"}}

CountsOf(w) ==
  /\ Cardinality(ActiveDevicesOf(w)) <= owner_devices[w].active_count
  /\ owner_devices[w].active_count <= Cardinality(CountedOf(w))
  /\ Cardinality(CurrentDevicesOf(w)) = owner_devices[w].total_claimed
  /\ owner_devices[w].total_claimed <= MaxDevicesPerOwner

CountInv == \A w \in Wallets : CountsOf(w)

\* The cardinalities are natural numbers, whatever the state.
LEMMA SetsAreFinite ==
  ASSUME NEW w
  PROVE  /\ IsFiniteSet(ActiveDevicesOf(w)) /\ Cardinality(ActiveDevicesOf(w)) \in Nat
         /\ IsFiniteSet(CountedOf(w)) /\ Cardinality(CountedOf(w)) \in Nat
         /\ IsFiniteSet(CurrentDevicesOf(w)) /\ Cardinality(CurrentDevicesOf(w)) \in Nat
<1>1. /\ ActiveDevicesOf(w) \in SUBSET Devices
      /\ CountedOf(w) \in SUBSET Devices
      /\ CurrentDevicesOf(w) \in SUBSET Devices
  BY DEF ActiveDevicesOf, CountedOf, CurrentDevicesOf
<1>2. \A S \in SUBSET Devices : IsFiniteSet(S) /\ Cardinality(S) \in Nat
  BY DeviceAssumption, FS_Subset, FS_CardinalityType
<1>3. QED
  BY <1>1, <1>2

\* One member more, one less, one replaced.
LEMMA CardinalitySteps ==
  ASSUME NEW S, IsFiniteSet(S), NEW x
  PROVE  /\ x \notin S => Cardinality(S \cup {x}) = Cardinality(S) + 1
         /\ x \in S => Cardinality(S \ {x}) = Cardinality(S) - 1
  BY FS_AddElement, FS_RemoveElement

LEMMA CardinalityOfSwap ==
  ASSUME NEW S, IsFiniteSet(S), NEW x \in S, NEW y, y \notin S
  PROVE  Cardinality((S \ {x}) \cup {y}) = Cardinality(S)
<1>1. IsFiniteSet(S \ {x}) /\ y \notin S \ {x}
  BY FS_RemoveElement
<1>2. Cardinality((S \ {x}) \cup {y}) = Cardinality(S \ {x}) + 1
  BY <1>1, FS_AddElement
<1>3. Cardinality(S) \in Nat /\ Cardinality(S \ {x}) = Cardinality(S) - 1
  BY CardinalitySteps, FS_CardinalityType
<1>4. QED
  BY <1>2, <1>3

\* A wallet none of whose records changes keeps its counts.
LEMMA UntouchedCounts ==
  ASSUME NEW w, CountsOf(w), owner_devices'[w] = owner_devices[w],
         \A f \in Devices : \/ producer'[f] = producer[f]
                            \/ producer[f].authority # w /\ producer'[f].authority # w
  PROVE  CountsOf(w)'
<1>1. ActiveDevicesOf(w)' = ActiveDevicesOf(w)
  BY DEF ActiveDevicesOf
<1>2. CurrentDevicesOf(w)' = CurrentDevicesOf(w)
  BY DEF CurrentDevicesOf
<1>3. CountedOf(w)' = CountedOf(w)
  BY <1>2 DEF CountedOf, CurrentDevicesOf
<1>4. QED
  BY <1>1, <1>2, <1>3 DEF CountsOf

\* What the sets of a wallet become when one of its records changes and no other does.
LEMMA OneRecordChanges ==
  ASSUME NEW d \in Devices, NEW w,
         \A f \in Devices \ {d} : producer'[f] = producer[f]
  PROVE  /\ ActiveDevicesOf(w)' =
              IF producer'[d].authority = w /\ producer'[d].state = "Active"
              THEN ActiveDevicesOf(w) \cup {d} ELSE ActiveDevicesOf(w) \ {d}
         /\ CurrentDevicesOf(w)' =
              IF producer'[d].authority = w /\ producer'[d].rotated_to = NoKey
              THEN CurrentDevicesOf(w) \cup {d} ELSE CurrentDevicesOf(w) \ {d}
         /\ CountedOf(w)' =
              IF /\ producer'[d].authority = w /\ producer'[d].rotated_to = NoKey
                 /\ producer'[d].state \in {"Active", "Revoked"}
              THEN CountedOf(w) \cup {d} ELSE CountedOf(w) \ {d}
<1>1. ActiveDevicesOf(w)' =
        IF producer'[d].authority = w /\ producer'[d].state = "Active"
        THEN ActiveDevicesOf(w) \cup {d} ELSE ActiveDevicesOf(w) \ {d}
  BY DEF ActiveDevicesOf
<1>2. CurrentDevicesOf(w)' =
        IF producer'[d].authority = w /\ producer'[d].rotated_to = NoKey
        THEN CurrentDevicesOf(w) \cup {d} ELSE CurrentDevicesOf(w) \ {d}
  BY DEF CurrentDevicesOf
<1>3. CountedOf(w)' =
        IF /\ producer'[d].authority = w /\ producer'[d].rotated_to = NoKey
           /\ producer'[d].state \in {"Active", "Revoked"}
        THEN CountedOf(w) \cup {d} ELSE CountedOf(w) \ {d}
  BY DEF CountedOf, CurrentDevicesOf
<1>4. QED
  BY <1>1, <1>2, <1>3

LEMMA ClaimCounts ==
  ASSUME ShapeInv, CountInv, NEW d \in Devices, NEW k \in Wallets, NEW n \in ClaimNonces,
         ClaimDevice(k, d, n)
  PROVE  CountInv'
<1>1. /\ producer[d] \in EnergyProducer /\ k # NoKey
      /\ producer[d].authority = NoKey /\ producer[d].rotated_to = NoKey
      /\ \A f \in Devices \ {d} : producer'[f] = producer[f]
  BY DeviceAssumption, ClaimAdvances
  DEF ShapeInv, DeviceTypes, RevocationIsState, ClaimDevice, Advances
<1>2. producer'[d].authority = k /\ producer'[d].state = "Claimed"
      /\ producer'[d].rotated_to = NoKey
  BY <1>1 DEF ClaimDevice, ShapeInv, DeviceTypes, EnergyProducer
<1>3. /\ \A w \in Wallets \ {k} : owner_devices'[w] = owner_devices[w]
      /\ owner_devices'[k] = [owner_devices[k] EXCEPT !.total_claimed = @ + 1]
      /\ owner_devices[k] \in OwnerDevices
      /\ owner_devices[k].total_claimed < MaxDevicesPerOwner
  BY DEF ClaimDevice, ShapeInv, DeviceTypes
<1>4. ASSUME NEW w \in Wallets \ {k} PROVE CountsOf(w)'
  BY <1>1, <1>2, <1>3, UntouchedCounts, DeviceAssumption DEF CountInv
<1>5. CountsOf(k)'
  <2>1. d \notin ActiveDevicesOf(k) /\ d \notin CountedOf(k) /\ d \notin CurrentDevicesOf(k)
    BY <1>1 DEF ActiveDevicesOf, CountedOf, CurrentDevicesOf
  <2>2. /\ ActiveDevicesOf(k)' = ActiveDevicesOf(k)
        /\ CountedOf(k)' = CountedOf(k)
        /\ CurrentDevicesOf(k)' = CurrentDevicesOf(k) \cup {d}
    <3>1. /\ ActiveDevicesOf(k)' = ActiveDevicesOf(k) \ {d}
          /\ CountedOf(k)' = CountedOf(k) \ {d}
          /\ CurrentDevicesOf(k)' = CurrentDevicesOf(k) \cup {d}
      BY <1>1, <1>2, OneRecordChanges
    <3>2. QED
      BY <2>1, <3>1
  <2>3. Cardinality(CurrentDevicesOf(k)') = Cardinality(CurrentDevicesOf(k)) + 1
    BY <2>1, <2>2, CardinalitySteps, SetsAreFinite
  <2>4. /\ owner_devices'[k].total_claimed = owner_devices[k].total_claimed + 1
        /\ owner_devices'[k].active_count = owner_devices[k].active_count
        /\ owner_devices[k].total_claimed \in Nat /\ MaxDevicesPerOwner \in Nat
    BY <1>3, DeviceAssumption DEF OwnerDevices
  <2>5. CountsOf(k)
    BY DEF CountInv
  <2>6. QED
    BY <1>3, <2>2, <2>3, <2>4, <2>5 DEF CountsOf
<1>6. QED
  BY <1>4, <1>5 DEF CountInv

\* A transition between two states with the owner unchanged, by what it does to
\* active_count: n is the counter after it.
LEMMA MoveCounts ==
  ASSUME ShapeInv, CountInv, NEW d \in Devices, NEW k \in Wallets, NEW n \in Nat,
         Advances(d), producer[d].authority = k,
         owner_devices' = [owner_devices EXCEPT ![k].active_count = n],
         \/ /\ producer[d].state # "Active" /\ producer'[d].state = "Active"
            /\ n = owner_devices[k].active_count + 1
         \/ /\ producer[d].state = "Active" /\ producer'[d].state # "Active"
            /\ n = owner_devices[k].active_count - 1
         \/ /\ producer[d].state = "Active" /\ producer'[d].state = "Revoked"
            /\ n = owner_devices[k].active_count
         \/ /\ producer[d].state # "Active" /\ producer'[d].state # "Active"
            /\ n = owner_devices[k].active_count
         \/ /\ producer[d].state = "Active" /\ producer'[d].state = "Active"
            /\ n = owner_devices[k].active_count
  PROVE  CountInv'
<1> DEFINE c == owner_devices[k].active_count
           A == ActiveDevicesOf(k)
           C == CountedOf(k)
           T == CurrentDevicesOf(k)
<1>1. /\ producer[d] \in EnergyProducer /\ k # NoKey
      /\ producer[d].rotated_to = NoKey /\ producer[d].state # "Revoked"
      /\ producer'[d].authority = k /\ producer'[d].rotated_to = NoKey
      /\ \A f \in Devices \ {d} : producer'[f] = producer[f]
  BY DeviceAssumption DEF ShapeInv, DeviceTypes, RevocationIsState, Advances
<1>2. /\ \A w \in Wallets \ {k} : owner_devices'[w] = owner_devices[w]
      /\ owner_devices'[k] = [owner_devices[k] EXCEPT !.active_count = n]
      /\ owner_devices[k] \in OwnerDevices
  BY DEF ShapeInv, DeviceTypes
<1>3. /\ owner_devices'[k].total_claimed = owner_devices[k].total_claimed
      /\ owner_devices'[k].active_count = n
      /\ c \in Nat
  BY <1>2 DEF OwnerDevices
<1>4. ASSUME NEW w \in Wallets \ {k} PROVE CountsOf(w)'
  BY <1>1, <1>2, UntouchedCounts DEF CountInv
<1>5. /\ Cardinality(A) <= c /\ c <= Cardinality(C)
      /\ Cardinality(T) = owner_devices[k].total_claimed
      /\ owner_devices[k].total_claimed <= MaxDevicesPerOwner
  BY DEF CountInv, CountsOf
<1>6. /\ d \in A <=> producer[d].state = "Active"
      /\ d \in C <=> producer[d].state = "Active"
      /\ d \in T
  BY <1>1 DEF ActiveDevicesOf, CountedOf, CurrentDevicesOf
<1>7. /\ A' = IF producer'[d].state = "Active" THEN A \cup {d} ELSE A \ {d}
      /\ C' = IF producer'[d].state \in {"Active", "Revoked"} THEN C \cup {d} ELSE C \ {d}
      /\ T' = T
  <2>1. /\ A' = IF producer'[d].state = "Active" THEN A \cup {d} ELSE A \ {d}
        /\ C' = IF producer'[d].state \in {"Active", "Revoked"}
                THEN C \cup {d} ELSE C \ {d}
        /\ T' = T \cup {d}
    BY <1>1, OneRecordChanges
  <2>2. T \cup {d} = T
    BY <1>6
  <2>3. QED
    BY <2>1, <2>2
<1>8. /\ IsFiniteSet(A) /\ Cardinality(A) \in Nat
      /\ IsFiniteSet(C) /\ Cardinality(C) \in Nat
  BY SetsAreFinite
<1>9. /\ d \notin A => Cardinality(A \cup {d}) = Cardinality(A) + 1 /\ A \ {d} = A
      /\ d \in A => Cardinality(A \ {d}) = Cardinality(A) - 1 /\ A \cup {d} = A
      /\ d \notin C => Cardinality(C \cup {d}) = Cardinality(C) + 1 /\ C \ {d} = C
      /\ d \in C => Cardinality(C \ {d}) = Cardinality(C) - 1 /\ C \cup {d} = C
  BY <1>8, CardinalitySteps
<1>10. CountsOf(k)'
  <2> HIDE DEF c, A, C, T
  <2>1. Cardinality(A') <= n /\ n <= Cardinality(C')
    <3>1. CASE producer[d].state # "Active" /\ producer'[d].state = "Active" /\ n = c + 1
      <4>1. Cardinality(A') = Cardinality(A) + 1 /\ Cardinality(C') = Cardinality(C) + 1
        BY <1>6, <1>7, <1>9, <3>1
      <4>2. QED
        BY <1>3, <1>5, <1>8, <3>1, <4>1
    <3>2. CASE producer[d].state = "Active" /\ producer'[d].state # "Active" /\ n = c - 1
      <4>1. /\ Cardinality(A') = Cardinality(A) - 1
            /\ Cardinality(C') = Cardinality(C) \/ Cardinality(C') = Cardinality(C) - 1
        BY <1>6, <1>7, <1>9, <3>2
      <4>2. QED
        BY <1>3, <1>5, <1>8, <3>2, <4>1
    <3>3. CASE producer[d].state = "Active" /\ producer'[d].state = "Revoked" /\ n = c
      <4>1. Cardinality(A') = Cardinality(A) - 1 /\ Cardinality(C') = Cardinality(C)
        BY <1>6, <1>7, <1>9, <3>3
      <4>2. QED
        BY <1>3, <1>5, <1>8, <3>3, <4>1
    <3>4. CASE producer[d].state # "Active" /\ producer'[d].state # "Active" /\ n = c
      <4>1. /\ Cardinality(A') = Cardinality(A)
            /\ Cardinality(C') = Cardinality(C) \/ Cardinality(C') = Cardinality(C) + 1
        BY <1>6, <1>7, <1>9, <3>4
      <4>2. QED
        BY <1>3, <1>5, <1>8, <3>4, <4>1
    <3>5. CASE producer[d].state = "Active" /\ producer'[d].state = "Active" /\ n = c
      <4>1. Cardinality(A') = Cardinality(A) /\ Cardinality(C') = Cardinality(C)
        BY <1>6, <1>7, <1>9, <3>5
      <4>2. QED
        BY <1>5, <3>5, <4>1
    <3>6. QED
      BY <3>1, <3>2, <3>3, <3>4, <3>5 DEF c
  <2>2. QED
    BY <1>3, <1>5, <1>7, <2>1 DEF CountsOf, A, C, T
<1>11. QED
  BY <1>4, <1>10 DEF CountInv

\* Instructions that leave the counters and the ownership of Active records alone.
LEMMA RegisterCounts ==
  ASSUME ShapeInv, CountInv, NEW d \in Devices, RegisterDevice(d)
  PROVE  CountInv'
<1>1. producer[d].authority = NoKey
  BY DEF ShapeInv, AbsentIsBlank, RegisterDevice, Exists, NoRecord
<1>2. /\ producer'[d].authority = NoKey
      /\ \A f \in Devices \ {d} : producer'[f] = producer[f]
      /\ owner_devices' = owner_devices
  BY RegisterAdvances DEF RegisterDevice, ShapeInv, DeviceTypes, NoRecord, Advances
<1>3. ASSUME NEW w \in Wallets PROVE CountsOf(w)'
  <2>1. w # NoKey
    BY DeviceAssumption
  <2>2. QED
    BY <1>1, <1>2, <2>1, UntouchedCounts DEF CountInv
<1>4. QED
  BY <1>3 DEF CountInv

LEMMA ProductionCounts ==
  ASSUME ShapeInv, CountInv, NEW d \in Devices, NEW n \in ProofNonces, NEW wh \in Reports,
         RecordProduction(d, n, wh)
  PROVE  CountInv'
<1> DEFINE k == producer[d].authority
<1>1. k \in Wallets /\ owner_devices[k] \in OwnerDevices
  BY DEF ShapeInv, DeviceTypes, EnergyProducer, RecordProduction
<1>2. Advances(d) /\ owner_devices' = owner_devices
  BY ProductionAdvances
<1>3. producer'[d].state = producer[d].state
  BY DEF RecordProduction, ShapeInv, DeviceTypes, EnergyProducer
<1>4. owner_devices[k].active_count \in Nat
  BY <1>1 DEF OwnerDevices
<1>5. owner_devices' = [owner_devices EXCEPT ![k].active_count =
                                              owner_devices[k].active_count]
  BY <1>1, <1>2 DEF ShapeInv, DeviceTypes, OwnerDevices
<1>6. QED
  BY <1>1, <1>2, <1>3, <1>4, <1>5, MoveCounts

LEMMA OwnerActsCount ==
  ASSUME ShapeInv, CountInv, NEW d \in Devices, NEW k \in Wallets, OwnerActs(k, d)
  PROVE  CountInv'
<1> DEFINE c == owner_devices[k].active_count
<1>1. /\ c \in Nat /\ c + 1 \in Nat
      /\ owner_devices = [owner_devices EXCEPT ![k].active_count = c]
  BY DEF ShapeInv, DeviceTypes, OwnerDevices
<1>2. producer[d].state = "Active" /\ producer[d].authority = k =>
        SaturatingDec(c) = c - 1 /\ c - 1 \in Nat
  <2>1. ASSUME producer[d].state = "Active", producer[d].authority = k
        PROVE  c > 0
    <3>1. d \in ActiveDevicesOf(k)
      BY <2>1 DEF ActiveDevicesOf
    <3>2. Cardinality(ActiveDevicesOf(k)) # 0
      BY <3>1, SetsAreFinite, FS_EmptySet
    <3>3. Cardinality(ActiveDevicesOf(k)) <= c
      BY DEF CountInv, CountsOf
    <3>4. QED
      BY <1>1, <3>2, <3>3, SetsAreFinite
  <2>2. QED
    BY <1>1, <2>1 DEF SaturatingDec
<1>3. ASSUME NEW to \in {"Provisioned", "Active", "Quarantine", "Maintenance"},
             OwnerMoves(k, d, to), producer' = [producer EXCEPT ![d].state = to]
      PROVE  Advances(d) /\ producer[d].authority = k /\ producer'[d].state = to
  BY <1>3, MoveAdvances DEF OwnerMoves, ShapeInv, DeviceTypes, EnergyProducer
<1> HIDE DEF c
<1>4. ASSUME ProvisionDevice(k, d) PROVE CountInv'
  <2>1. producer[d].state # "Active"
    BY <1>4 DEF ProvisionDevice, OwnerMoves, CanTransitionTo
  <2>2. Advances(d) /\ producer[d].authority = k /\ producer'[d].state = "Provisioned"
    BY <1>3, <1>4 DEF ProvisionDevice
  <2>3. owner_devices' = [owner_devices EXCEPT ![k].active_count = c]
    BY <1>1, <1>4 DEF ProvisionDevice
  <2>4. QED
    BY <1>1, <2>1, <2>2, <2>3, MoveCounts DEF c
<1>5. ASSUME EnterActive(k, d) PROVE CountInv'
  <2>1. producer[d].state # "Active"
    BY <1>5 DEF EnterActive, OwnerMoves, CanTransitionTo
  <2>2. Advances(d) /\ producer[d].authority = k /\ producer'[d].state = "Active"
    BY <1>3, <1>5 DEF EnterActive
  <2>3. owner_devices' = [owner_devices EXCEPT ![k].active_count = c + 1]
    BY <1>5 DEF EnterActive, c
  <2>4. QED
    BY <1>1, <2>1, <2>2, <2>3, MoveCounts DEF c
<1>6. ASSUME QuarantineDevice(k, d) PROVE CountInv'
  <2>1. producer[d].state = "Active"
    BY <1>6 DEF QuarantineDevice, OwnerMoves, CanTransitionTo
  <2>2. Advances(d) /\ producer[d].authority = k /\ producer'[d].state = "Quarantine"
    BY <1>3, <1>6 DEF QuarantineDevice
  <2>3. owner_devices' = [owner_devices EXCEPT ![k].active_count = c - 1]
    BY <1>2, <1>6, <2>1, <2>2 DEF QuarantineDevice, c
  <2>4. QED
    BY <1>2, <2>1, <2>2, <2>3, MoveCounts DEF c
<1>7. ASSUME MaintenanceDevice(k, d) PROVE CountInv'
  <2>1. Advances(d) /\ producer[d].authority = k /\ producer'[d].state = "Maintenance"
    BY <1>3, <1>7 DEF MaintenanceDevice
  <2>2. CASE producer[d].state = "Active"
    <3>1. owner_devices' = [owner_devices EXCEPT ![k].active_count = c - 1]
      BY <1>2, <1>7, <2>1, <2>2 DEF MaintenanceDevice, c
    <3>2. QED
      BY <1>2, <2>1, <2>2, <3>1, MoveCounts DEF c
  <2>3. CASE producer[d].state # "Active"
    <3>1. owner_devices' = [owner_devices EXCEPT ![k].active_count = c]
      BY <1>1, <1>7, <2>3 DEF MaintenanceDevice
    <3>2. QED
      BY <1>1, <2>1, <2>3, <3>1, MoveCounts DEF c
  <2>4. QED
    BY <2>2, <2>3
<1>8. QED
  BY <1>4, <1>5, <1>6, <1>7, ClaimCounts DEF OwnerActs, ActivateDevice, ReleaseFromQuarantine

LEMMA RevokeCounts ==
  ASSUME ShapeInv, CountInv, NEW d \in Devices, NEW k0, NEW withOwner \in BOOLEAN,
         RevokeDevice(k0, d, withOwner)
  PROVE  CountInv'
<1> DEFINE k == producer[d].authority
           c == owner_devices[k].active_count
<1>1. Advances(d) /\ producer'[d].state = "Revoked" /\ producer'[d].authority = k
  <2>1. Advances(d)
    BY RevokeAdvances
  <2>2. producer' = [producer EXCEPT ![d].state = "Revoked", ![d].revoked = TRUE]
    BY DEF RevokeDevice
  <2>3. producer \in [Devices -> EnergyProducer] /\ producer[d] \in EnergyProducer
    BY DEF ShapeInv, DeviceTypes
  <2>4. producer'[d] = [producer[d] EXCEPT !.state = "Revoked", !.revoked = TRUE]
    BY <2>2, <2>3
  <2>5. QED
    BY <2>1, <2>3, <2>4 DEF EnergyProducer
<1>2. CASE k = NoKey
  <2>1. producer[d].state # "Active"
    BY <1>2 DEF ShapeInv, OwnedByState
  <2>2. owner_devices' = owner_devices
    BY <2>1 DEF RevokeDevice
  <2>3. ASSUME NEW w \in Wallets PROVE CountsOf(w)'
    <3>1. w # NoKey
      BY DeviceAssumption
    <3>2. QED
      BY <1>1, <1>2, <2>2, <3>1, UntouchedCounts DEF CountInv, Advances
  <2>4. QED
    BY <2>3 DEF CountInv
<1>3. CASE k # NoKey
  <2>1. k \in Wallets /\ owner_devices[k] \in OwnerDevices
    BY <1>3 DEF ShapeInv, DeviceTypes, EnergyProducer
  <2>2. c \in Nat /\ owner_devices = [owner_devices EXCEPT ![k].active_count = c]
    BY <2>1 DEF ShapeInv, DeviceTypes, OwnerDevices
  <2>3. CASE producer[d].state = "Active" /\ withOwner
    <3>1. d \in ActiveDevicesOf(k)
      BY <2>3 DEF ActiveDevicesOf
    <3>2. Cardinality(ActiveDevicesOf(k)) # 0
      BY <3>1, SetsAreFinite, FS_EmptySet
    <3>3. Cardinality(ActiveDevicesOf(k)) <= c
      BY <2>1 DEF CountInv, CountsOf
    <3>4. SaturatingDec(c) = c - 1 /\ c - 1 \in Nat
      BY <2>2, <3>2, <3>3, SetsAreFinite DEF SaturatingDec
    <3>5. owner_devices' = [owner_devices EXCEPT ![k].active_count = c - 1]
      BY <2>3, <3>4 DEF RevokeDevice
    <3>6. QED
      BY <1>1, <2>1, <2>3, <3>4, <3>5, MoveCounts
  <2>4. CASE ~(producer[d].state = "Active" /\ withOwner)
    <3>1. owner_devices' = [owner_devices EXCEPT ![k].active_count = c]
      BY <2>2, <2>4 DEF RevokeDevice
    <3>2. QED
      BY <1>1, <2>1, <2>2, <3>1, MoveCounts
  <2>5. QED
    BY <2>3, <2>4
<1>4. QED
  BY <1>2, <1>3

\* A rotation replaces the old key by the new one in every set the old key was in.
LEMMA RotationCounts ==
  ASSUME ShapeInv, CountInv, NEW k, NEW d \in Devices, NEW e \in Devices,
         NEW n \in ClaimNonces, RotateDeviceKey(k, d, e, n)
  PROVE  CountInv'
<1>1. /\ producer \in [Devices -> EnergyProducer] /\ producer[d] \in EnergyProducer
      /\ d # e /\ owner_devices' = owner_devices /\ e # NoKey
      /\ producer' = [producer EXCEPT ![e] = Successor(d, n), ![d] = Retired(@, e)]
  BY DeviceAssumption DEF ShapeInv, DeviceTypes, RotateDeviceKey
<1>2. \A f \in Devices : f # d /\ f # e => producer'[f] = producer[f]
  BY <1>1
<1>3. /\ producer[e] = NoRecord
      /\ producer[d].state # "Revoked" /\ producer[d].rotated_to = NoKey
  BY DEF RotateDeviceKey, Exists, ShapeInv, AbsentIsBlank, RevocationIsState
<1>4. /\ producer[e].authority = NoKey
      /\ producer'[d].authority = producer[d].authority
      /\ producer'[d].state = "Revoked" /\ producer'[d].rotated_to = e
      /\ producer'[e].authority = producer[d].authority
      /\ producer'[e].state = producer[d].state /\ producer'[e].rotated_to = NoKey
  <2>1. /\ producer'[d] = Retired(producer[d], e) /\ producer'[e] = Successor(d, n)
    BY <1>1
  <2>2. producer[e].authority = NoKey
    BY <1>3 DEF NoRecord
  <2>3. QED
    BY <1>1, <1>3, <2>1, <2>2 DEF Successor, Retired, EnergyProducer
<1>5. ASSUME NEW w \in Wallets PROVE CountsOf(w)'
  <2>1. w # NoKey /\ CountsOf(w)
    BY <1>5, DeviceAssumption DEF CountInv
  <2>2. CASE producer[d].authority # w
    <3>1. \A f \in Devices : \/ producer'[f] = producer[f]
                             \/ producer[f].authority # w /\ producer'[f].authority # w
      BY <1>2, <1>4, <2>1, <2>2
    <3>2. QED
      BY <1>1, <2>1, <3>1, UntouchedCounts
  <2>3. CASE producer[d].authority = w
    <3>1. e \notin ActiveDevicesOf(w) /\ e \notin CurrentDevicesOf(w)
          /\ e \notin CountedOf(w)
      BY <1>4, <2>1 DEF ActiveDevicesOf, CurrentDevicesOf, CountedOf
    <3>2. /\ d \in CurrentDevicesOf(w)
          /\ d \in ActiveDevicesOf(w) <=> producer[d].state = "Active"
          /\ d \in CountedOf(w) <=> producer[d].state = "Active"
      BY <1>3, <2>3 DEF ActiveDevicesOf, CurrentDevicesOf, CountedOf
    <3>3. CurrentDevicesOf(w)' = (CurrentDevicesOf(w) \ {d}) \cup {e}
      BY <1>1, <1>2, <1>4, <2>3 DEF CurrentDevicesOf
    <3>4. ActiveDevicesOf(w)' = IF producer[d].state = "Active"
                                THEN (ActiveDevicesOf(w) \ {d}) \cup {e}
                                ELSE ActiveDevicesOf(w)
      BY <1>2, <1>4, <2>3, <3>1, <3>2 DEF ActiveDevicesOf
    <3>5. CountedOf(w)' = IF producer[d].state = "Active"
                          THEN (CountedOf(w) \ {d}) \cup {e}
                          ELSE CountedOf(w)
      BY <1>1, <1>2, <1>3, <1>4, <2>3, <3>1, <3>2 DEF CountedOf, CurrentDevicesOf
    <3>6. /\ Cardinality(CurrentDevicesOf(w)') = Cardinality(CurrentDevicesOf(w))
          /\ Cardinality(ActiveDevicesOf(w)') = Cardinality(ActiveDevicesOf(w))
          /\ Cardinality(CountedOf(w)') = Cardinality(CountedOf(w))
      <4>0. ASSUME NEW S, IsFiniteSet(S), d \in S, e \notin S
            PROVE  Cardinality((S \ {d}) \cup {e}) = Cardinality(S)
        BY <4>0, CardinalityOfSwap
      <4>1. Cardinality(CurrentDevicesOf(w)') = Cardinality(CurrentDevicesOf(w))
        BY <3>1, <3>2, <3>3, <4>0, SetsAreFinite
      <4>2. Cardinality(ActiveDevicesOf(w)') = Cardinality(ActiveDevicesOf(w))
        BY <3>1, <3>2, <3>4, <4>0, SetsAreFinite
      <4>3. Cardinality(CountedOf(w)') = Cardinality(CountedOf(w))
        BY <3>1, <3>2, <3>5, <4>0, SetsAreFinite
      <4>4. QED
        BY <4>1, <4>2, <4>3
    <3>7. QED
      BY <1>1, <2>1, <3>6 DEF CountsOf
  <2>4. QED
    BY <2>2, <2>3
<1>6. QED
  BY <1>5 DEF CountInv

LEMMA StepKeepsCounts ==
  ASSUME ShapeInv, CountInv, [DeviceNext]_deviceVars
  PROVE  CountInv'
<1>1. CASE UNCHANGED deviceVars
  BY <1>1 DEF deviceVars, CountInv, CountsOf, ActiveDevicesOf, CountedOf, CurrentDevicesOf
<1>2. ASSUME NEW d \in Devices, NEW k, OwnerOrAdminActs(k, d) PROVE CountInv'
  BY <1>2, RevokeCounts, RotationCounts DEF OwnerOrAdminActs
<1>3. QED
  BY <1>1, <1>2, RegisterCounts, OwnerActsCount, ProductionCounts
  DEF DeviceNext, LifecycleNext

LEMMA InitCounts ==
  ASSUME DeviceInit
  PROVE  CountInv
<1>1. ASSUME NEW w \in Wallets PROVE CountsOf(w)
  <2>1. \A d \in Devices : producer[d].authority = NoKey
    BY DEF DeviceInit, NoRecord
  <2>2. w # NoKey
    BY DeviceAssumption
  <2>3. ActiveDevicesOf(w) = {} /\ CurrentDevicesOf(w) = {}
    BY <2>1, <2>2 DEF ActiveDevicesOf, CurrentDevicesOf
  <2>4. CountedOf(w) = {}
    BY <2>3 DEF CountedOf
  <2>5. /\ owner_devices[w].total_claimed = 0 /\ owner_devices[w].active_count = 0
        /\ MaxDevicesPerOwner \in Nat
    BY DeviceAssumption DEF DeviceInit
  <2>6. QED
    BY <2>3, <2>4, <2>5, FS_EmptySet DEF CountsOf
<1>2. QED
  BY <1>1 DEF CountInv

THEOREM CountInvariant == DeviceSpec => [](ShapeInv /\ CountInv)
<1>1. DeviceInit => ShapeInv /\ CountInv
  BY InitShape, InitCounts
<1>2. (ShapeInv /\ CountInv) /\ [DeviceNext]_deviceVars => (ShapeInv /\ CountInv)'
  BY StepKeepsShape, StepKeepsCounts
<1>3. QED
  BY <1>1, <1>2, PTL DEF DeviceSpec

\* Counted and Active records are current ones, so the claims bound both.
LEMMA CountsAreBounded ==
  ASSUME ShapeInv, CountInv, NEW w \in Wallets
  PROVE  /\ Cardinality(CountedOf(w)) <= Cardinality(CurrentDevicesOf(w))
         /\ owner_devices[w].active_count <= MaxDevicesPerOwner
<1>1. CountedOf(w) \in SUBSET CurrentDevicesOf(w)
  BY DEF CountedOf
<1>2. Cardinality(CountedOf(w)) <= Cardinality(CurrentDevicesOf(w))
  BY <1>1, SetsAreFinite, FS_Subset
<1>3. /\ owner_devices[w].active_count \in Nat /\ owner_devices[w].total_claimed \in Nat
      /\ MaxDevicesPerOwner \in Nat
  BY DeviceAssumption DEF ShapeInv, DeviceTypes, OwnerDevices
<1>4. QED
  BY <1>2, <1>3, SetsAreFinite DEF CountInv, CountsOf

\* Every record is of its type and no wallet exceeds the limit of devices.
THEOREM DeviceTypeCorrect == DeviceSpec => []DeviceTypeOK
<1>1. ShapeInv /\ CountInv => DeviceTypeOK
  BY CountsAreBounded DEF DeviceTypeOK, ShapeInv, DeviceTypes, CountInv, CountsOf
<1>2. QED
  BY <1>1, CountInvariant, PTL

\* The limit compared with active_count bounds the devices that are really Active.
THEOREM CountersAreSound == DeviceSpec => []ActiveDevicesAreCounted
<1>1. CountInv => ActiveDevicesAreCounted
  BY DEF CountInv, CountsOf, ActiveDevicesAreCounted
<1>2. QED
  BY <1>1, CountInvariant, PTL

\* total_claimed is the number of current devices of the wallet: no claim is lost to a
\* rotation or kept by a revocation.
THEOREM ClaimsHold == DeviceSpec => []ClaimsAreCounted
<1>1. CountInv => ClaimsAreCounted
  BY DEF CountInv, CountsOf, ClaimsAreCounted
<1>2. QED
  BY <1>1, CountInvariant, PTL

\* Although revocations without the owner's account leave the counter too high, it can
\* never refuse the activation of a device that the transition table allows.
THEOREM ActivationGranted == DeviceSpec => []ActivationIsNeverRefused
<1>1. ASSUME ShapeInv, CountInv, NEW w \in Wallets, NEW d \in Devices,
             OwnerMoves(w, d, "Active")
      PROVE  owner_devices[w].active_count < MaxDevicesPerOwner
  <2>1. /\ producer[d].authority = w /\ ~producer[d].revoked
        /\ producer[d].state \notin {"Active", "Revoked"}
    BY <1>1 DEF OwnerMoves, CanTransitionTo
  <2>2. producer[d].rotated_to = NoKey
    BY <1>1, <2>1 DEF ShapeInv, RevocationIsState
  <2>3. d \in CurrentDevicesOf(w)
    BY <2>1, <2>2 DEF CurrentDevicesOf
  <2>4. CountedOf(w) \in SUBSET (CurrentDevicesOf(w) \ {d})
    BY <2>1 DEF CountedOf
  <2>5. Cardinality(CountedOf(w)) <= Cardinality(CurrentDevicesOf(w)) - 1
    <3>1. /\ IsFiniteSet(CurrentDevicesOf(w) \ {d})
          /\ Cardinality(CurrentDevicesOf(w) \ {d}) = Cardinality(CurrentDevicesOf(w)) - 1
      BY <2>3, SetsAreFinite, FS_RemoveElement
    <3>2. QED
      BY <2>4, <3>1, FS_Subset
  <2>6. /\ owner_devices[w].active_count \in Nat /\ owner_devices[w].total_claimed \in Nat
        /\ MaxDevicesPerOwner \in Nat
    BY <1>1, DeviceAssumption DEF ShapeInv, DeviceTypes, OwnerDevices
  <2>7. QED
    BY <1>1, <2>5, <2>6, SetsAreFinite DEF CountInv, CountsOf
<1>2. ShapeInv /\ CountInv => ActivationIsNeverRefused
  BY <1>1 DEF ActivationIsNeverRefused
<1>3. QED
  BY <1>2, CountInvariant, PTL

-----------------------------------------------------------------------------
(* The mint path.                                                          *)

\* Each step of the mint path is one of the registry, or leaves the registry alone.
LEMMA StepImplements ==
  ASSUME [MintNext]_vars
  PROVE  [DeviceNext]_deviceVars
<1>1. CASE Lifecycle
  <2>1. KeepsLimits => LifecycleNext
    BY DEF KeepsLimits, LifecycleNext, OwnerOrAdminActs
  <2>2. QED
    BY <1>1, <2>1 DEF Lifecycle, DeviceNext
<1>2. ASSUME NEW k \in Wallets \cup {Admin}, NEW d \in Devices, NEW e \in Devices,
             NEW n \in ClaimNonces, Rotate(k, d, e, n)
      PROVE  DeviceNext
  BY <1>2 DEF Rotate, DeviceNext, LifecycleNext, OwnerOrAdminActs
<1>3. ASSUME NEW d \in Devices, NEW tier \in AssignedTiers, SetDeviceTier(d, tier)
      PROVE  UNCHANGED deviceVars
  BY <1>3 DEF SetDeviceTier
<1>4. CASE Profiles
  BY <1>4 DEF Profiles, InitializeProfile, UpdateMetadata
<1>5. ASSUME NEW d \in Devices, NEW n \in ProofNonces, NEW wh \in Reports,
             NEW withPolicy \in BOOLEAN, MintEnergy(d, n, wh, withPolicy)
      PROVE  DeviceNext
  BY <1>5 DEF MintEnergy, UpdateProducer, DeviceNext
<1>6. CASE InitializePolicyRegistry
  BY <1>6 DEF InitializePolicyRegistry
<1>7. ASSUME NEW p \in Policies, UpdatePolicy(p)
      PROVE  UNCHANGED deviceVars
  BY <1>7 DEF UpdatePolicy
<1>8. CASE Tick
  BY <1>8 DEF Tick
<1>9. CASE UNCHANGED vars
  BY <1>9 DEF vars
<1>10. QED
  BY <1>1, <1>2, <1>3, <1>4, <1>5, <1>6, <1>7, <1>8, <1>9 DEF MintNext, Registry, Mint

\* Every behaviour of the mint path is one of the registry (device_lifecycle.rs), whose
\* actions it is composed of: what is proved of the registry holds while energy is minted.
LEMMA MintImplementsRegistry == MintSpec => DeviceSpec
<1>1. MintInit => DeviceInit
  BY DEF MintInit
<1>2. [MintNext]_vars => [DeviceNext]_deviceVars
  BY StepImplements
<1>3. QED
  BY <1>1, <1>2, PTL DEF MintSpec, DeviceSpec

\* While energy is minted, the devices of an owner stay counted within the limit and every
\* activation the table allows is granted.
THEOREM MintingDevicesAreCounted ==
  MintSpec => [](DeviceTypeOK /\ ActiveDevicesAreCounted /\ ClaimsAreCounted)
BY MintImplementsRegistry, DeviceTypeCorrect, CountersAreSound, ClaimsHold, PTL

\* While energy is minted, rotations keep the nonce and the energy of a device: no report
\* can be minted again under the new key.
THEOREM MintingKeepsProgress == MintSpec => []RotationsAreChains
BY MintImplementsRegistry, RotationSafety, PTL
-----------------------------------------------------------------------------
(* The accounts of the mint path.  A policy that switches a limit off      *)
(* leaves a trace in relaxed; without it every report that was minted      *)
(* passed the check that the invariant needs.                              *)

PolicyIsTraced ==
  policy # NoPolicy =>
    /\ ~policy.enforce_tier_limits => "tier" \in relaxed
    /\ ~policy.enforce_supply_cap => "supply" \in relaxed

MintInv == MintTypeOK /\ PolicyIsTraced /\ TierLimitIsKept /\ MintKeepsCap

LEMMA DefaultsArePolicy == Defaults \in Policy
BY DEF Defaults, Policy

\* The policy that a report is judged by, whether or not the account was supplied.
LEMMA InForceIsTraced ==
  ASSUME MintTypeOK, PolicyIsTraced, NEW withPolicy \in BOOLEAN,
         withPolicy => policy # NoPolicy
  PROVE  /\ InForce(withPolicy) \in Policy
         /\ ~InForce(withPolicy).enforce_tier_limits => "tier" \in relaxed
         /\ ~InForce(withPolicy).enforce_supply_cap => "supply" \in relaxed
<1>1. CASE withPolicy
  BY <1>1 DEF InForce, MintTypeOK, PolicyIsTraced
<1>2. CASE ~withPolicy
  BY <1>2, DefaultsArePolicy DEF InForce, Defaults
<1>3. QED
  BY <1>1, <1>2

LEMMA InitialAccounts ==
  ASSUME MintInit
  PROVE  MintInv
<1>1. NewLimits \in Limits /\ NoProfile \in EnergyProfile
  BY DEF NewLimits, Limits, Tiers, NoProfile, EnergyProfile
<1>2. limits \in [Devices -> Limits] /\ profile \in [Wallets -> EnergyProfile]
  BY <1>1 DEF MintInit
<1>3. vault \in Vault
  BY DEF MintInit, Vault
<1>4. now \in 1 .. MaxTime /\ \A d \in Devices : limits[d].month_start_ts <= now
  BY MintAssumption DEF MintInit, NewLimits
<1>5. MintTypeOK
  BY <1>2, <1>3, <1>4 DEF MintInit, MintTypeOK
<1>6. TierLimitIsKept
  BY MintAssumption DEF TierLimitIsKept, MintInit, NewLimits, LimitOf
<1>7. MintKeepsCap
  BY EmissionAssumption DEF MintKeepsCap, MintInit
<1>8. QED
  BY <1>5, <1>6, <1>7 DEF MintInv, PolicyIsTraced, MintInit

\* A month that is rolled starts now and is within every limit, or goes on as it was.
LEMMA RolledMonth ==
  ASSUME MintTypeOK, TierLimitIsKept, NEW d \in Devices
  PROVE  /\ RollMonth(limits[d]) \in Limits
         /\ RollMonth(limits[d]).month_start_ts <= now
         /\ RollMonth(limits[d]).tier = limits[d].tier
<1>1. limits[d] \in Limits /\ now \in Nat /\ limits[d].month_start_ts <= now
  BY MintAssumption DEF MintTypeOK
<1> DEFINE fresh == [limits[d] EXCEPT !.month_start_ts = now, !.month_energy_wh = 0]
<1>2. /\ fresh \in Limits
      /\ fresh.month_start_ts = now
      /\ fresh.tier = limits[d].tier
  BY <1>1 DEF Limits
<1>3. RollMonth(limits[d]) = fresh \/ RollMonth(limits[d]) = limits[d]
  BY DEF RollMonth
<1> HIDE DEF fresh
<1>4. QED
  BY <1>1, <1>2, <1>3

\* The window of an owner stays a natural number, also where it decays.
LEMMA DecayIsNatural ==
  ASSUME NEW p \in EnergyProfile, NEW timestamp \in Nat, NEW wh \in Nat
  PROVE  DecayedWindow(p, timestamp, wh) \in Nat
<1> DEFINE elapsed == timestamp - p.device_energy_updated_at
           decay == (p.device_energy_30d * elapsed) \div THIRTY_DAYS
<1>1. p.device_energy_30d \in Nat /\ elapsed \in Int
  BY DEF EnergyProfile
<1>2. CASE elapsed <= 0
  BY <1>1, <1>2 DEF DecayedWindow
<1>3. CASE elapsed >= THIRTY_DAYS /\ ~(elapsed <= 0)
  BY <1>1, <1>3 DEF DecayedWindow
<1>4. CASE ~(elapsed >= THIRTY_DAYS) /\ ~(elapsed <= 0)
  <2>1. p.device_energy_30d * elapsed \in Int
    BY <1>1
  <2>2. decay \in Int
    BY <2>1, MintAssumption
  <2>3. SaturatingSub(p.device_energy_30d, decay) \in Nat
    <3> HIDE DEF decay
    <3> QED BY <1>1, <2>2 DEF SaturatingSub
  <2>4. DecayedWindow(p, timestamp, wh) = SaturatingSub(p.device_energy_30d, decay) + wh
    BY <1>4 DEF DecayedWindow
  <2>5. QED
    BY <2>3, <2>4
<1>5. QED
  BY <1>2, <1>3, <1>4

LEMMA NetworkWindowIsNatural ==
  ASSUME MintTypeOK, NEW wh \in Nat
  PROVE  NetworkWindow(wh) \in Nat
BY DEF MintTypeOK, Vault, NetworkWindow, update_energy_window

\* What the limit asks of one record.
WithinLimit(l) == l.tier \notin Unlimited => l.month_energy_wh <= LimitOf(l.tier)

\* One record gets new tier fields that are of their type and, unless a policy switched
\* the limits off, within them.
LEMMA OneMonthChanges ==
  ASSUME MintTypeOK, TierLimitIsKept, NEW e \in Devices, NEW l \in Limits,
         l.month_start_ts <= now, "tier" \notin relaxed => WithinLimit(l),
         limits' = [limits EXCEPT ![e] = l], now' = now, relaxed' = relaxed
  PROVE  /\ limits' \in [Devices -> Limits]
         /\ \A d \in Devices : limits'[d].month_start_ts <= now'
         /\ TierLimitIsKept'
<1>1. limits \in [Devices -> Limits] /\ \A d \in Devices : limits[d].month_start_ts <= now
  BY DEF MintTypeOK
<1>2. limits' \in [Devices -> Limits]
  BY <1>1
<1>3. limits'[e] = l /\ \A d \in Devices \ {e} : limits'[d] = limits[d]
  BY <1>1
<1>4. \A d \in Devices : limits'[d].month_start_ts <= now'
  BY <1>1, <1>3
<1>5. ASSUME "tier" \notin relaxed', NEW d \in Devices
      PROVE  WithinLimit(limits'[d])
  BY <1>3, <1>5 DEF TierLimitIsKept, WithinLimit
<1>6. TierLimitIsKept'
  BY <1>5 DEF TierLimitIsKept, WithinLimit
<1>7. QED
  BY <1>2, <1>4, <1>6

\* A step that leaves the accounts of the mint path alone.
LEMMA UntouchedAccounts ==
  ASSUME MintInv, UNCHANGED mintVars
  PROVE  MintInv'
BY DEF MintInv, mintVars, MintTypeOK, PolicyIsTraced, TierLimitIsKept, MintKeepsCap

LEMMA RotateKeepsAccounts ==
  ASSUME MintInv, NEW k, NEW d \in Devices, NEW e \in Devices, NEW n, Rotate(k, d, e, n)
  PROVE  MintInv'
<1>1. /\ limits' = [limits EXCEPT ![e] = limits[d]]
      /\ UNCHANGED <<profile, policy, vault, now, relaxed>>
  BY DEF Rotate
<1>2. limits[d] \in Limits /\ limits[d].month_start_ts <= now
  BY DEF MintInv, MintTypeOK
<1>3. "tier" \notin relaxed => WithinLimit(limits[d])
  BY DEF MintInv, TierLimitIsKept, WithinLimit
<1>4. /\ limits' \in [Devices -> Limits]
      /\ \A f \in Devices : limits'[f].month_start_ts <= now'
      /\ TierLimitIsKept'
  BY <1>1, <1>2, <1>3, OneMonthChanges DEF MintInv
<1>5. MintTypeOK'
  BY <1>1, <1>4 DEF MintInv, MintTypeOK
<1>6. QED
  BY <1>1, <1>4, <1>5 DEF MintInv, PolicyIsTraced, MintKeepsCap

LEMMA SetTierKeepsAccounts ==
  ASSUME MintInv, NEW d \in Devices, NEW tier \in AssignedTiers, SetDeviceTier(d, tier)
  PROVE  MintInv'
<1> DEFINE l == [tier |-> tier, month_energy_wh |-> 0, month_start_ts |-> now]
<1>1. /\ limits' = [limits EXCEPT ![d] = l]
      /\ UNCHANGED <<profile, policy, vault, now, relaxed>>
  BY DEF SetDeviceTier
<1>2. now \in Nat
  BY DEF MintInv, MintTypeOK
<1>3. l \in Limits /\ l.month_start_ts <= now
  BY <1>2, MintAssumption DEF Limits
<1>4. WithinLimit(l)
  BY MintAssumption DEF WithinLimit, LimitOf
<1> HIDE DEF l
<1>5. /\ limits' \in [Devices -> Limits]
      /\ \A f \in Devices : limits'[f].month_start_ts <= now'
      /\ TierLimitIsKept'
  BY <1>1, <1>3, <1>4, OneMonthChanges DEF MintInv
<1>6. MintTypeOK'
  BY <1>1, <1>5 DEF MintInv, MintTypeOK
<1>7. QED
  BY <1>1, <1>5, <1>6 DEF MintInv, PolicyIsTraced, MintKeepsCap

LEMMA ProfilesKeepAccounts ==
  ASSUME MintInv, Profiles
  PROVE  MintInv'
<1>1. PICK w \in Wallets, power \in RatedPowers :
        InitializeProfile(w, power) \/ UpdateMetadata(w, power)
  BY DEF Profiles
<1>2. power \in Nat /\ now \in Nat /\ profile \in [Wallets -> EnergyProfile]
  BY MintAssumption DEF MintInv, MintTypeOK
<1>3. profile' \in [Wallets -> EnergyProfile] /\ UNCHANGED <<limits, policy, vault, now, relaxed>>
  <2>1. CASE InitializeProfile(w, power)
    <3> DEFINE new == [exists |-> TRUE, rated_power |-> power, device_energy_30d |-> 0,
                       device_energy_updated_at |-> now]
    <3>1. new \in EnergyProfile
      BY <1>2 DEF EnergyProfile
    <3>2. profile' = [profile EXCEPT ![w] = new]
      BY <2>1 DEF InitializeProfile
    <3> HIDE DEF new
    <3>3. profile' \in [Wallets -> EnergyProfile]
      BY <1>2, <3>1, <3>2
    <3>4. QED
      BY <2>1, <3>3 DEF InitializeProfile
  <2>2. CASE UpdateMetadata(w, power)
    <3>1. [profile[w] EXCEPT !.rated_power = power] \in EnergyProfile
      BY <1>2 DEF EnergyProfile
    <3>2. profile' = [profile EXCEPT ![w] = [profile[w] EXCEPT !.rated_power = power]]
      BY <1>2, <2>2 DEF UpdateMetadata
    <3>3. profile' \in [Wallets -> EnergyProfile]
      BY <1>2, <3>1, <3>2
    <3>4. QED
      BY <2>2, <3>3 DEF UpdateMetadata
  <2>3. QED
    BY <1>1, <2>1, <2>2
<1>4. QED
  BY <1>3 DEF MintInv, MintTypeOK, PolicyIsTraced, TierLimitIsKept, MintKeepsCap

LEMMA PolicyStepsKeepAccounts ==
  ASSUME MintInv, InitializePolicyRegistry \/ \E p \in Policies : UpdatePolicy(p)
  PROVE  MintInv'
<1>1. CASE InitializePolicyRegistry
  <2>1. policy' = Defaults /\ UNCHANGED <<limits, profile, vault, now, relaxed>>
    BY <1>1 DEF InitializePolicyRegistry
  <2>2. PolicyIsTraced'
    BY <2>1 DEF PolicyIsTraced, Defaults
  <2>3. QED
    BY <2>1, <2>2, DefaultsArePolicy
       DEF MintInv, MintTypeOK, TierLimitIsKept, MintKeepsCap
<1>2. ASSUME NEW p \in Policies, UpdatePolicy(p)
      PROVE  MintInv'
  <2>1. /\ policy' = p /\ UNCHANGED <<limits, profile, vault, now>>
        /\ relaxed' = relaxed \cup (IF p.enforce_tier_limits THEN {} ELSE {"tier"})
                              \cup (IF p.enforce_supply_cap THEN {} ELSE {"supply"})
    BY <1>2 DEF UpdatePolicy
  <2>2. PolicyIsTraced'
    BY <2>1 DEF PolicyIsTraced
  <2>3. p \in Policy
    BY MintAssumption
  <2>4. MintTypeOK'
    BY <2>1, <2>3 DEF MintInv, MintTypeOK
  <2>5. TierLimitIsKept' /\ MintKeepsCap'
    BY <2>1 DEF MintInv, TierLimitIsKept, MintKeepsCap
  <2>6. QED
    BY <2>2, <2>4, <2>5 DEF MintInv
<1>3. QED
  BY <1>1, <1>2

LEMMA TickKeepsAccounts ==
  ASSUME MintInv, Tick
  PROVE  MintInv'
<1>1. /\ now < MaxTime /\ now' = now + 1 /\ now \in 1 .. MaxTime
      /\ UNCHANGED <<limits, profile, policy, vault, relaxed>>
  BY DEF Tick, MintInv, MintTypeOK
<1>2. now' \in 1 .. MaxTime
  BY <1>1, MintAssumption
<1>3. ASSUME NEW d \in Devices
      PROVE  limits[d].month_start_ts <= now'
  <2>1. limits[d].month_start_ts \in Nat /\ limits[d].month_start_ts <= now
    BY DEF MintInv, MintTypeOK, Limits
  <2>2. QED
    BY <1>1, <2>1
<1>4. QED
  BY <1>1, <1>2, <1>3 DEF MintInv, MintTypeOK, PolicyIsTraced, TierLimitIsKept, MintKeepsCap
-----------------------------------------------------------------------------
(* mint_energy itself, one lemma for each account it writes.               *)

\* The owner of a device that can be reported for is a wallet.
LEMMA OwnerIsWallet ==
  ASSUME ShapeInv, NEW d \in Devices, NEW n, NEW wh, NEW withPolicy,
         MintEnergy(d, n, wh, withPolicy)
  PROVE  producer[d].authority \in Wallets
<1>1. producer[d].authority # NoKey
  BY DEF MintEnergy, UpdateProducer, RecordProduction
<1>2. producer[d] \in EnergyProducer
  BY DEF ShapeInv, DeviceTypes
<1>3. QED
  BY <1>1, <1>2 DEF EnergyProducer

\* The month of the device: the report was added to it after the check that it fits.
LEMMA MintedMonth ==
  ASSUME MintInv, NEW d \in Devices, NEW n, NEW wh \in Nat, NEW withPolicy \in BOOLEAN,
         MintEnergy(d, n, wh, withPolicy)
  PROVE  /\ limits' \in [Devices -> Limits]
         /\ \A f \in Devices : limits'[f].month_start_ts <= now'
         /\ TierLimitIsKept'
<1> DEFINE month == RollMonth(limits[d])
           l == [month EXCEPT !.month_energy_wh = month.month_energy_wh + wh]
<1>1. /\ limits' = [limits EXCEPT ![d] = l]
      /\ now' = now /\ relaxed' = relaxed
      /\ withPolicy => policy # NoPolicy
      /\ Admissible(InForce(withPolicy), d, wh)
  BY DEF MintEnergy
<1>2. month \in Limits /\ month.month_start_ts <= now
  BY RolledMonth DEF MintInv
<1>3. "tier" \notin relaxed => AllowsIncrement(month, wh)
  <2>1. ~InForce(withPolicy).enforce_tier_limits => "tier" \in relaxed
    BY <1>1, InForceIsTraced DEF MintInv
  <2>2. InForce(withPolicy).enforce_tier_limits => AllowsIncrement(month, wh)
    BY <1>1 DEF Admissible
  <2>3. InForce(withPolicy).enforce_tier_limits \in BOOLEAN
    BY <1>1, InForceIsTraced DEF MintInv, Policy
  <2>4. QED
    BY <2>1, <2>2, <2>3
<1> HIDE DEF month
<1>4. /\ l \in Limits /\ l.month_start_ts = month.month_start_ts /\ l.tier = month.tier
      /\ l.month_energy_wh = month.month_energy_wh + wh
  BY <1>2 DEF Limits
<1> HIDE DEF l
<1>5. "tier" \notin relaxed => WithinLimit(l)
  BY <1>3, <1>4 DEF AllowsIncrement, WithinLimit
<1>6. l.month_start_ts <= now
  BY <1>2, <1>4
<1>7. QED
  BY <1>1, <1>4, <1>5, <1>6, OneMonthChanges DEF MintInv

\* The profile of the owner.
LEMMA MintedProfile ==
  ASSUME MintInv, ShapeInv, NEW d \in Devices, NEW n, NEW wh \in Nat, NEW withPolicy,
         MintEnergy(d, n, wh, withPolicy)
  PROVE  profile' \in [Wallets -> EnergyProfile]
<1> DEFINE owner == producer[d].authority
           window == DecayedWindow(profile[owner], now, wh)
           new == [profile[owner] EXCEPT !.device_energy_30d = window,
                                         !.device_energy_updated_at = now]
<1>1. owner \in Wallets /\ profile \in [Wallets -> EnergyProfile] /\ now \in Nat
  BY OwnerIsWallet DEF MintInv, MintTypeOK
<1>2. profile' = [profile EXCEPT ![owner].device_energy_30d = window,
                                 ![owner].device_energy_updated_at = now]
  BY DEF MintEnergy
<1>3. window \in Nat
  BY <1>1, DecayIsNatural
<1> HIDE DEF owner, window
<1>4. new \in EnergyProfile
  BY <1>1, <1>3 DEF EnergyProfile
<1>5. profile' = [profile EXCEPT ![owner] = new]
  BY <1>1, <1>2
<1> HIDE DEF new
<1>6. QED
  BY <1>1, <1>4, <1>5

\* The vault, whose supply was compared with the cap after the reward was added.
LEMMA MintedVault ==
  ASSUME MintInv, NEW d \in Devices, NEW n, NEW wh \in Nat, NEW withPolicy \in BOOLEAN,
         MintEnergy(d, n, wh, withPolicy)
  PROVE  vault' \in Vault /\ MintKeepsCap'
<1> DEFINE reward == Reward(d, wh)
<1>1. /\ vault' = [total_supply |-> vault.total_supply + reward,
                   total_energy_wh |-> vault.total_energy_wh + wh,
                   network_energy_30d |-> NetworkWindow(wh),
                   network_energy_updated_at |-> now]
      /\ Payable(InForce(withPolicy), reward)
      /\ withPolicy => policy # NoPolicy
      /\ relaxed' = relaxed
  BY DEF MintEnergy
<1> HIDE DEF reward
<1>2. vault \in Vault /\ now \in Nat /\ NetworkWindow(wh) \in Nat
  BY NetworkWindowIsNatural DEF MintInv, MintTypeOK
<1>3. reward \in Nat
  BY <1>1 DEF Payable
<1>4. vault' \in Vault
  BY <1>1, <1>2, <1>3 DEF Vault
<1>5. vault'.total_supply = vault.total_supply + reward
  BY <1>1
<1>6. InForce(withPolicy).enforce_supply_cap
        => vault.total_supply + reward <= MAX_SUPPLY_ATOMIC
  BY <1>1 DEF Payable
<1>7. /\ InForce(withPolicy).enforce_supply_cap \in BOOLEAN
      /\ ~InForce(withPolicy).enforce_supply_cap => "supply" \in relaxed
  BY <1>1, InForceIsTraced DEF MintInv, Policy
<1>8. MintKeepsCap'
  BY <1>1, <1>5, <1>6, <1>7 DEF MintKeepsCap
<1>9. QED
  BY <1>4, <1>8

LEMMA MintKeepsAccounts ==
  ASSUME MintInv, ShapeInv, NEW d \in Devices, NEW n \in ProofNonces, NEW wh \in Reports,
         NEW withPolicy \in BOOLEAN, MintEnergy(d, n, wh, withPolicy)
  PROVE  MintInv'
<1>1. wh \in Nat
  BY DeviceAssumption
<1>2. UNCHANGED <<policy, now, relaxed>>
  BY DEF MintEnergy
<1>3. /\ limits' \in [Devices -> Limits] /\ TierLimitIsKept'
      /\ \A f \in Devices : limits'[f].month_start_ts <= now'
  BY <1>1, MintedMonth
<1>4. profile' \in [Wallets -> EnergyProfile]
  BY <1>1, MintedProfile
<1>5. vault' \in Vault /\ MintKeepsCap'
  BY <1>1, MintedVault
<1>6. MintTypeOK'
  BY <1>2, <1>3, <1>4, <1>5 DEF MintInv, MintTypeOK
<1>7. QED
  BY <1>2, <1>3, <1>5, <1>6 DEF MintInv, PolicyIsTraced

LEMMA StepKeepsAccounts ==
  ASSUME MintInv, ShapeInv, [MintNext]_vars
  PROVE  MintInv'
<1>1. CASE Lifecycle
  BY <1>1, UntouchedAccounts DEF Lifecycle
<1>2. ASSUME NEW k \in Wallets \cup {Admin}, NEW d \in Devices, NEW e \in Devices,
             NEW n \in ClaimNonces, Rotate(k, d, e, n)
      PROVE  MintInv'
  BY <1>2, RotateKeepsAccounts
<1>3. ASSUME NEW d \in Devices, NEW tier \in AssignedTiers, SetDeviceTier(d, tier)
      PROVE  MintInv'
  BY <1>3, SetTierKeepsAccounts
<1>4. CASE Profiles
  BY <1>4, ProfilesKeepAccounts
<1>5. ASSUME NEW d \in Devices, NEW n \in ProofNonces, NEW wh \in Reports,
             NEW withPolicy \in BOOLEAN, MintEnergy(d, n, wh, withPolicy)
      PROVE  MintInv'
  BY <1>5, MintKeepsAccounts
<1>6. CASE InitializePolicyRegistry \/ \E p \in Policies : UpdatePolicy(p)
  BY <1>6, PolicyStepsKeepAccounts
<1>7. CASE Tick
  BY <1>7, TickKeepsAccounts
<1>8. CASE UNCHANGED vars
  BY <1>8, UntouchedAccounts DEF vars
<1>9. QED
  BY <1>1, <1>2, <1>3, <1>4, <1>5, <1>6, <1>7, <1>8 DEF MintNext, Registry, Mint

\* The invariant of the mint path (mint.rs, tier.rs, policy_engine.rs): it needs the shape
\* of the device records, which the refinement takes over from the registry.
THEOREM MintInvariant == MintSpec => []MintInv
<1>1. MintInit => MintInv
  BY InitialAccounts
<1>2. MintInv /\ ShapeInv /\ [MintNext]_vars => MintInv'
  BY StepKeepsAccounts
<1>3. MintSpec => []ShapeInv
  BY MintImplementsRegistry, ShapeInvariant, PTL
<1>4. QED
  BY <1>1, <1>2, <1>3, PTL DEF MintSpec

\* Every account of the mint path keeps its type (state/vault.rs, state/producer.rs,
\* enrg-profile): no window goes below zero and no month starts in the future.
THEOREM MintTypeCorrect == MintSpec => []MintTypeOK
<1>1. MintInv => MintTypeOK
  BY DEF MintInv
<1>2. QED
  BY <1>1, MintInvariant, PTL

\* The monthly limit of a tier (producer.rs, tier.rs): no device exceeds it while every
\* policy that was ever in force asked for it, however keys rotate and tiers change.
THEOREM TierLimitHolds == MintSpec => []TierLimitIsKept
<1>1. MintInv => TierLimitIsKept
  BY DEF MintInv
<1>2. QED
  BY <1>1, MintInvariant, PTL

\* The supply cap (policy_engine.rs): for every emission curve and every policy history
\* that never switched it off, the supply stays at or below MAX_SUPPLY_ATOMIC.
THEOREM CapHolds == MintSpec => []MintKeepsCap
<1>1. MintInv => MintKeepsCap
  BY DEF MintInv
<1>2. QED
  BY <1>1, MintInvariant, PTL

-----------------------------------------------------------------------------
(* The energy of the devices, each counted at its current key.             *)

LEMMA EnergyIsNatural ==
  ASSUME ShapeInv
  PROVE  /\ Whole(EnergyAtCurrentKey, Devices)
         /\ \A d \in Devices : producer[d].energy_wh \in Nat
<1>1. \A d \in Devices : producer[d].energy_wh \in Nat
  BY DEF ShapeInv, DeviceTypes, EnergyProducer
<1> QED
  BY <1>1 DEF EnergyAtCurrentKey, Whole

\* Neither the energy of a record nor where it was rotated to.
KeepsEnergy ==
  \A f \in Devices : /\ producer'[f].energy_wh = producer[f].energy_wh
                     /\ producer'[f].rotated_to = producer[f].rotated_to

LEMMA LifecycleKeepsEnergy ==
  ASSUME ShapeInv, KeepsLimits
  PROVE  EnergyAtCurrentKey' = EnergyAtCurrentKey
<1>1. producer \in [Devices -> EnergyProducer]
  BY DEF ShapeInv, DeviceTypes
<1>2. ASSUME NEW d \in Devices, RegisterDevice(d) PROVE KeepsEnergy
  <2>1. producer[d] = NoRecord
    BY <1>2 DEF ShapeInv, AbsentIsBlank, RegisterDevice, Exists
  <2>2. producer' = [producer EXCEPT ![d] = [NoRecord EXCEPT !.state = "Registered"]]
    BY <1>2 DEF RegisterDevice
  <2> QED
    BY <1>1, <2>1, <2>2 DEF KeepsEnergy, NoRecord
<1>3. ASSUME NEW d \in Devices, NEW k \in Wallets, OwnerActs(k, d) PROVE KeepsEnergy
  <2>1. \E r : /\ producer' = [producer EXCEPT ![d] = r]
               /\ r.energy_wh = producer[d].energy_wh /\ r.rotated_to = producer[d].rotated_to
    <3> DEFINE to(s) == [producer[d] EXCEPT !.state = s]
    <3>1. ASSUME NEW s
          PROVE  to(s).energy_wh = producer[d].energy_wh /\ to(s).rotated_to = producer[d].rotated_to
      BY <1>1 DEF EnergyProducer
    <3>2. CASE \E n \in ClaimNonces : ClaimDevice(k, d, n)
      <4>1. PICK n \in ClaimNonces : ClaimDevice(k, d, n)
        BY <3>2
      <4> DEFINE r == [producer[d] EXCEPT !.authority = k, !.state = "Claimed", !.claim_nonce = n]
      <4>2. producer' = [producer EXCEPT ![d] = r]
        BY <1>1, <4>1 DEF ClaimDevice
      <4>3. r.energy_wh = producer[d].energy_wh /\ r.rotated_to = producer[d].rotated_to
        BY <1>1 DEF EnergyProducer
      <4> QED
        BY <4>2, <4>3
    <3>3. CASE ~ \E n \in ClaimNonces : ClaimDevice(k, d, n)
      <4>1. \E s : producer' = [producer EXCEPT ![d] = to(s)]
        BY <1>1, <1>3, <3>3 DEF OwnerActs, ProvisionDevice, ActivateDevice, ReleaseFromQuarantine,
             EnterActive, QuarantineDevice, MaintenanceDevice
      <4> QED
        BY <3>1, <4>1
    <3> QED
      BY <3>2, <3>3
  <2>2. PICK r : /\ producer' = [producer EXCEPT ![d] = r]
                 /\ r.energy_wh = producer[d].energy_wh /\ r.rotated_to = producer[d].rotated_to
    BY <2>1
  <2> QED
    BY <1>1, <2>2 DEF KeepsEnergy
<1>4. ASSUME NEW d \in Devices, NEW k, NEW withOwner, RevokeDevice(k, d, withOwner)
      PROVE  KeepsEnergy
  <2> DEFINE r == [producer[d] EXCEPT !.state = "Revoked", !.revoked = TRUE]
  <2>1. producer' = [producer EXCEPT ![d] = r]
    BY <1>1, <1>4 DEF RevokeDevice
  <2>2. r.energy_wh = producer[d].energy_wh /\ r.rotated_to = producer[d].rotated_to
    BY <1>1 DEF EnergyProducer
  <2> QED
    BY <1>1, <2>1, <2>2 DEF KeepsEnergy
<1>5. KeepsEnergy
  BY <1>2, <1>3, <1>4 DEF KeepsLimits
<1> QED
  BY <1>5 DEF KeepsEnergy, EnergyAtCurrentKey

\* A rotation moves the energy of one key to another, where there was none.
LEMMA RotationMovesEnergy ==
  ASSUME ShapeInv, NEW k, NEW d \in Devices, NEW e \in Devices, NEW n, RotateDeviceKey(k, d, e, n)
  PROVE  Total(EnergyAtCurrentKey, Devices)' = Total(EnergyAtCurrentKey, Devices)
<1> DEFINE wh == producer[d].energy_wh
<1>1. producer \in [Devices -> EnergyProducer] /\ wh \in Int /\ IsFiniteSet(Devices)
      /\ Whole(EnergyAtCurrentKey, Devices)
  BY EnergyIsNatural, DeviceAssumption DEF ShapeInv, DeviceTypes
<1>2. d # e /\ producer' = [producer EXCEPT ![e] = Successor(d, n), ![d] = Retired(@, e)]
  BY DEF RotateDeviceKey
<1>3. producer[e] = NoRecord /\ producer[d].rotated_to = NoKey
  BY DEF RotateDeviceKey, Exists, ShapeInv, AbsentIsBlank, RevocationIsState
<1>4. producer'[e].energy_wh = wh /\ producer'[e].rotated_to = NoKey
  BY <1>1, <1>2 DEF Successor, EnergyProducer
<1>5. producer'[d].rotated_to = e /\ e # NoKey
  BY <1>1, <1>2, DeviceAssumption DEF Retired, EnergyProducer
<1>6. \A f \in Devices \ {d, e} : producer'[f] = producer[f]
  BY <1>1, <1>2
<1>7. Shifted(EnergyAtCurrentKey, EnergyAtCurrentKey', Devices, d, e, wh)
  BY <1>1, <1>2, <1>3, <1>4, <1>5, <1>6 DEF NoRecord, EnergyAtCurrentKey, Shifted
<1> HIDE DEF wh
<1> QED
  BY <1>1, <1>2, <1>7, SumShifts

\* A report is counted once.
LEMMA ProductionCountsEnergy ==
  ASSUME ShapeInv, NEW d \in Devices, NEW n, NEW wh \in Nat, RecordProduction(d, n, wh)
  PROVE  Total(EnergyAtCurrentKey, Devices)' = Total(EnergyAtCurrentKey, Devices) + wh
<1>1. producer \in [Devices -> EnergyProducer] /\ IsFiniteSet(Devices) /\ wh \in Int
      /\ Whole(EnergyAtCurrentKey, Devices)
  BY EnergyIsNatural, DeviceAssumption DEF ShapeInv, DeviceTypes
<1>2. producer' = [producer EXCEPT ![d].nonce = n, ![d].energy_wh = producer[d].energy_wh + wh]
  BY DEF RecordProduction
<1>3. producer[d].rotated_to = NoKey
  BY DEF RecordProduction, ShapeInv, RevocationIsState
<1>4. /\ producer'[d].energy_wh = producer[d].energy_wh + wh
      /\ producer'[d].rotated_to = NoKey
      /\ \A f \in Devices \ {d} : producer'[f] = producer[f]
  BY <1>1, <1>2, <1>3 DEF EnergyProducer
<1>5. Grown(EnergyAtCurrentKey, EnergyAtCurrentKey', Devices, d, wh)
  BY <1>3, <1>4 DEF EnergyAtCurrentKey, Grown
<1> QED
  BY <1>1, <1>5, SumGrows
-----------------------------------------------------------------------------
(* The totals of the vault.                                                *)

MonthUpTo(last) == {t \in 1 .. MaxTime : t <= last /\ t > last - THIRTY_DAYS}

\* Nothing was accepted after the last update of the network window.
HistoryIsPast ==
  /\ history \in [1 .. MaxTime -> Nat]
  /\ vault.network_energy_updated_at <= now
  /\ \A t \in 1 .. MaxTime : t > vault.network_energy_updated_at => history[t] = 0

TotalsInv ==
  /\ balance \in [Accounts -> Nat]
  /\ HistoryIsPast
  /\ EnergyIsAccounted /\ SupplyIsBacked /\ NetworkWindowCoversMonth

LEMMA AccountsAreFinite ==
  /\ IsFiniteSet(Accounts) /\ IsFiniteSet(1 .. MaxTime)
  /\ FourFunds \subseteq Accounts /\ \A w \in Wallets : w \in Accounts \ FourFunds
<1>1. FourFunds = Funds
  BY DEF FourFunds, Funds
<1>2. IsFiniteSet({}) /\ \A S, x : IsFiniteSet(S) => IsFiniteSet(S \cup {x})
  BY FS_EmptySet, FS_AddElement
<1>3. Wallets \cup Funds =
        (((Wallets \cup {"buyback"}) \cup {"staking"}) \cup {"dao"}) \cup {"emergency"}
  BY DEF Funds
<1>4. IsFiniteSet(Wallets \cup Funds)
  BY <1>2, <1>3, AccountsAssumption
<1>5. IsFiniteSet(1 .. MaxTime)
  BY MintAssumption, FS_Interval
<1> QED
  BY <1>1, <1>4, <1>5, AccountsAssumption DEF Accounts

LEMMA InitialTotals ==
  ASSUME MintInit
  PROVE  TotalsInv
<1>1. /\ producer = [d \in Devices |-> NoRecord]
      /\ balance = [a \in Accounts |-> 0]
      /\ history = [t \in 1 .. MaxTime |-> 0]
      /\ vault = [total_supply |-> 0, total_energy_wh |-> 0,
                  network_energy_30d |-> 0, network_energy_updated_at |-> 0]
      /\ now = 1
  BY DEF MintInit, DeviceInit
<1>2. \A d \in Devices : EnergyAtCurrentKey[d] = 0
  BY <1>1 DEF EnergyAtCurrentKey, NoRecord
<1>3. EnergyIsAccounted
  BY <1>1, <1>2, SumOfZeros, DeviceAssumption DEF EnergyIsAccounted
<1>4. \A a \in Accounts : balance[a] = 0
  BY <1>1
<1>5. Total(balance, Accounts) = 0
  BY <1>4, SumOfZeros, AccountsAreFinite
<1>6. SupplyIsBacked
  BY <1>1, <1>5, Scales DEF SupplyIsBacked
<1>7. Total(history, MonthUpTo(0)) = 0
  <2>1. MonthUpTo(0) \in SUBSET (1 .. MaxTime) /\ \A t \in MonthUpTo(0) : history[t] = 0
    BY <1>1 DEF MonthUpTo
  <2>2. IsFiniteSet(MonthUpTo(0))
    BY <2>1, AccountsAreFinite, FS_Subset
  <2> QED
    BY <2>1, <2>2, SumOfZeros
<1>8. NetworkWindowCoversMonth
  BY <1>1, <1>7 DEF NetworkWindowCoversMonth, MonthUpTo
<1>9. HistoryIsPast
  BY <1>1 DEF HistoryIsPast
<1>10. balance \in [Accounts -> Nat]
  BY <1>1
<1> QED
  BY <1>3, <1>6, <1>8, <1>9, <1>10 DEF TotalsInv

LEMMA UntouchedTotals ==
  ASSUME TotalsInv, MintTypeOK, UNCHANGED <<vault, balance, history>>,
         now' = now \/ now' = now + 1,
         Total(EnergyAtCurrentKey, Devices)' = Total(EnergyAtCurrentKey, Devices)
  PROVE  TotalsInv'
<1>1. vault.network_energy_updated_at \in Nat /\ now \in Nat
  BY DEF MintTypeOK, Vault
<1>2. HistoryIsPast'
  BY <1>1 DEF TotalsInv, HistoryIsPast
<1>3. EnergyIsAccounted'
  BY DEF TotalsInv, EnergyIsAccounted
<1>4. SupplyIsBacked' /\ NetworkWindowCoversMonth'
  BY DEF TotalsInv, SupplyIsBacked, NetworkWindowCoversMonth
<1> QED
  BY <1>2, <1>3, <1>4 DEF TotalsInv
-----------------------------------------------------------------------------
(* What mint_energy does to them.                                          *)

LEMMA MintedReward ==
  ASSUME MintInv, ShapeInv, NEW d \in Devices, NEW n, NEW wh \in Nat, NEW withPolicy \in BOOLEAN,
         MintEnergy(d, n, wh, withPolicy)
  PROVE  Reward(d, wh) \in Nat /\ Reward(d, wh) * INITIAL_ENERGY_PER_SRC <= wh * SRC_BASIS
<1>1. profile[producer[d].authority].device_energy_30d \in Nat
  BY OwnerIsWallet DEF MintInv, MintTypeOK, EnergyProfile
<1>2. NetworkWindow(wh) \in Nat /\ vault.total_supply \in Nat
  BY NetworkWindowIsNatural DEF MintInv, MintTypeOK, Vault
<1> QED
  BY <1>1, <1>2, RewardBelowPeg DEF Reward

LEMMA MintedSupply ==
  ASSUME MintInv, ShapeInv, TotalsInv, NEW d \in Devices, NEW n, NEW wh \in Nat,
         NEW withPolicy \in BOOLEAN, MintEnergy(d, n, wh, withPolicy)
  PROVE  balance' \in [Accounts -> Nat] /\ SupplyIsBacked'
<1> DEFINE reward == Reward(d, wh)
           owner == producer[d].authority
<1>1. /\ balance' = Credited(owner, reward)
      /\ vault'.total_supply = vault.total_supply + reward
      /\ vault'.total_energy_wh = vault.total_energy_wh + wh
  BY DEF MintEnergy
<1>2. reward \in Nat /\ reward * INITIAL_ENERGY_PER_SRC <= wh * SRC_BASIS
  BY MintedReward
<1>3. owner \in Wallets
  BY OwnerIsWallet
<1> HIDE DEF reward, owner
<1>4. owner \in Accounts \ FourFunds /\ FourFunds \subseteq Accounts /\ IsFiniteSet(Accounts)
  BY <1>3, AccountsAreFinite
<1>5. Split(reward) \in Parts
  BY <1>2, SplitLosesNothing
<1>6. balance \in [Accounts -> Nat]
  BY DEF TotalsInv
<1> DEFINE part == Split(reward)
           added == [a \in Accounts |-> CASE a = "buyback"   -> part.buyback
                                          [] a = "staking"   -> part.staking
                                          [] a = "dao"       -> part.dao
                                          [] a = "emergency" -> part.emergency
                                          [] a = owner       -> part.user
                                          [] OTHER           -> 0]
<1>7. \A a \in Accounts : balance'[a] = balance[a] + added[a]
  BY <1>1 DEF Credited
<1>8. balance' = [a \in Accounts |-> balance'[a]]
  BY <1>1 DEF Credited
<1>9. /\ added["buyback"] = part.buyback /\ added["staking"] = part.staking
      /\ added["dao"] = part.dao /\ added["emergency"] = part.emergency
      /\ added[owner] = part.user
      /\ \A a \in Accounts \ (FourFunds \cup {owner}) : added[a] = 0
  BY <1>4 DEF FourFunds
<1>10. \A a \in Accounts : added[a] \in Nat
  <2> HIDE DEF added
  <2>1. part.user \in Nat /\ part.buyback \in Nat /\ part.staking \in Nat /\ part.dao \in Nat
        /\ part.emergency \in Nat
    BY <1>5 DEF Parts
  <2> QED
    BY <1>9, <2>1 DEF FourFunds
<1> HIDE DEF added
<1>11. balance' \in [Accounts -> Nat]
  BY <1>6, <1>7, <1>8, <1>10
<1>12. Credits(balance, balance', Accounts, owner, part)
  <2>1. \A a \in Accounts \ (FourFunds \cup {owner}) : balance'[a] = balance[a]
    BY <1>6, <1>7, <1>9
  <2>2. "buyback" \in Accounts /\ "staking" \in Accounts /\ "dao" \in Accounts
        /\ "emergency" \in Accounts /\ owner \in Accounts
    BY <1>4 DEF FourFunds
  <2> QED
    BY <1>7, <1>9, <2>1, <2>2 DEF Credits
<1>13. Whole(balance, Accounts)
  BY <1>6 DEF Whole
<1>14. Total(balance', Accounts) = Total(balance, Accounts) + reward
  BY <1>2, <1>4, <1>12, <1>13, CreditsAddUp
<1> DEFINE s == vault.total_supply
           e == vault.total_energy_wh
<1>15. s \in Nat /\ e \in Nat
  BY DEF MintInv, MintTypeOK, Vault
<1>16. Total(balance, Accounts) = s /\ s * INITIAL_ENERGY_PER_SRC <= e * SRC_BASIS
  BY DEF TotalsInv, SupplyIsBacked
<1> HIDE DEF s, e
<1>17. (s + reward) * INITIAL_ENERGY_PER_SRC <= (e + wh) * SRC_BASIS
  <2>1. /\ (s + reward) * INITIAL_ENERGY_PER_SRC
             = s * INITIAL_ENERGY_PER_SRC + reward * INITIAL_ENERGY_PER_SRC
        /\ (e + wh) * SRC_BASIS = e * SRC_BASIS + wh * SRC_BASIS
        /\ s * INITIAL_ENERGY_PER_SRC \in Nat /\ reward * INITIAL_ENERGY_PER_SRC \in Nat
        /\ e * SRC_BASIS \in Nat /\ wh * SRC_BASIS \in Nat
    BY <1>2, <1>15, Scales
  <2> QED
    BY <1>2, <1>16, <2>1
<1>18. SupplyIsBacked'
  BY <1>1, <1>14, <1>16, <1>17 DEF SupplyIsBacked, s, e
<1> QED
  BY <1>11, <1>18

LEMMA MintedWindow ==
  ASSUME MintInv, TotalsInv, NEW d \in Devices, NEW n, NEW wh \in Nat, NEW withPolicy \in BOOLEAN,
         MintEnergy(d, n, wh, withPolicy)
  PROVE  HistoryIsPast' /\ NetworkWindowCoversMonth'
<1> DEFINE last == vault.network_energy_updated_at
           window == vault.network_energy_30d
           was == MonthUpTo(last)
           is == MonthUpTo(now)
<1>1. /\ vault'.network_energy_30d = NetworkWindow(wh)
      /\ vault'.network_energy_updated_at = now
      /\ history' = [history EXCEPT ![now] = history[now] + wh]
      /\ now' = now
  BY DEF MintEnergy
<1>2. /\ last \in Nat /\ window \in Nat /\ now \in 1 .. MaxTime /\ last <= now
      /\ history \in [1 .. MaxTime -> Nat]
      /\ \A t \in 1 .. MaxTime : t > last => history[t] = 0
  BY DEF MintInv, MintTypeOK, Vault, TotalsInv, HistoryIsPast
<1>3. window >= Total(history, was)
  BY DEF TotalsInv, NetworkWindowCoversMonth, MonthUpTo
<1>4. NetworkWindow(wh) = IF last = 0 \/ now - last >= THIRTY_DAYS THEN wh ELSE window + wh
  BY DEF NetworkWindow, update_energy_window
<1>5. THIRTY_DAYS \in Nat \ {0}
  BY MintAssumption
<1>6. now \in is /\ was \in SUBSET (1 .. MaxTime) /\ is \in SUBSET (1 .. MaxTime)
  BY <1>2, <1>5 DEF MonthUpTo
<1>7. HistoryIsPast'
  BY <1>1, <1>2 DEF HistoryIsPast
<1>8. Total(history', is) = Total(history, is) + wh
  <2>1. IsFiniteSet(is)
    BY <1>6, AccountsAreFinite, FS_Subset
  <2>2. Whole(history, is)
    BY <1>2, <1>6 DEF Whole
  <2>3. Grown(history, history', is, now, wh)
    BY <1>1, <1>2, <1>6 DEF Grown
  <2> HIDE DEF is
  <2> QED
    BY <1>6, <2>1, <2>2, <2>3, SumGrows
<1>9. CASE last = 0 \/ now - last >= THIRTY_DAYS
  <2>1. ASSUME NEW t \in is PROVE history[t] = 0
    BY <1>2, <1>5, <1>6, <1>9 DEF MonthUpTo
  <2>2. IsFiniteSet(is)
    BY <1>6, AccountsAreFinite, FS_Subset
  <2> HIDE DEF is
  <2>3. Total(history, is) = 0
    BY <2>1, <2>2, SumOfZeros
  <2>4. Total(history', is) = wh
    BY <1>8, <2>3
  <2> QED
    BY <1>1, <1>4, <1>7, <1>9, <2>4 DEF NetworkWindowCoversMonth, MonthUpTo, is
<1>10. CASE ~(last = 0 \/ now - last >= THIRTY_DAYS)
  <2>1. \A t \in is \ was : history[t] = 0
    BY <1>2, <1>5, <1>6 DEF MonthUpTo
  <2>2. \A t \in 1 .. MaxTime : history[t] \in Nat
    BY <1>2
  <2> HIDE DEF is, was
  <2>3. Total(history, is) <= Total(history, was)
    BY <1>6, <2>1, <2>2, AccountsAreFinite, SumOfPart
  <2>4. Total(history, is) \in Nat /\ Total(history, was) \in Nat
    BY <1>6, <2>2, AccountsAreFinite, FS_Subset, SumIsNat
  <2>5. window + wh >= Total(history', is)
    BY <1>2, <1>3, <1>8, <2>3, <2>4
  <2> QED
    BY <1>1, <1>4, <1>7, <1>10, <2>5 DEF NetworkWindowCoversMonth, MonthUpTo, is
<1> QED
  BY <1>9, <1>10

LEMMA MintKeepsTotals ==
  ASSUME MintInv, ShapeInv, TotalsInv, NEW d \in Devices, NEW n, NEW wh \in Reports,
         NEW withPolicy \in BOOLEAN, MintEnergy(d, n, wh, withPolicy)
  PROVE  TotalsInv'
<1>1. wh \in Nat
  BY DeviceAssumption
<1>2. balance' \in [Accounts -> Nat] /\ SupplyIsBacked'
  BY <1>1, MintedSupply
<1>3. HistoryIsPast' /\ NetworkWindowCoversMonth'
  BY <1>1, MintedWindow
<1>4. EnergyIsAccounted'
  <2>1. RecordProduction(d, n, wh) /\ vault'.total_energy_wh = vault.total_energy_wh + wh
    BY DEF MintEnergy, UpdateProducer
  <2>2. Total(EnergyAtCurrentKey, Devices)' = Total(EnergyAtCurrentKey, Devices) + wh
    BY <1>1, <2>1, ProductionCountsEnergy
  <2> QED
    BY <2>1, <2>2 DEF TotalsInv, EnergyIsAccounted
<1> QED
  BY <1>2, <1>3, <1>4 DEF TotalsInv

LEMMA StepKeepsTotals ==
  ASSUME MintInv, ShapeInv, TotalsInv, [MintNext]_vars
  PROVE  TotalsInv'
<1>0. MintTypeOK
  BY DEF MintInv
<1>1. UNCHANGED producer =>
        Total(EnergyAtCurrentKey, Devices)' = Total(EnergyAtCurrentKey, Devices)
  BY DEF EnergyAtCurrentKey
<1>2. CASE Lifecycle
  <2>1. EnergyAtCurrentKey' = EnergyAtCurrentKey
    BY <1>2, LifecycleKeepsEnergy DEF Lifecycle
  <2>2. Total(EnergyAtCurrentKey, Devices)' = Total(EnergyAtCurrentKey, Devices)
    BY <2>1
  <2>3. UNCHANGED <<vault, balance, history, now>>
    BY <1>2 DEF Lifecycle, mintVars
  <2> QED
    BY <1>0, <2>2, <2>3, UntouchedTotals
<1>3. ASSUME NEW k \in Wallets \cup {Admin}, NEW d \in Devices, NEW e \in Devices,
             NEW n \in ClaimNonces, Rotate(k, d, e, n)
      PROVE  TotalsInv'
  <2>1. Total(EnergyAtCurrentKey, Devices)' = Total(EnergyAtCurrentKey, Devices)
    BY <1>3, RotationMovesEnergy DEF Rotate
  <2>2. UNCHANGED <<vault, balance, history, now>>
    BY <1>3 DEF Rotate
  <2> QED
    BY <1>0, <2>1, <2>2, UntouchedTotals
<1>4. ASSUME NEW d \in Devices, NEW tier \in AssignedTiers, SetDeviceTier(d, tier)
      PROVE  TotalsInv'
  <2>1. UNCHANGED <<producer, vault, balance, history, now>>
    BY <1>4 DEF SetDeviceTier, deviceVars
  <2> QED
    BY <1>0, <1>1, <2>1, UntouchedTotals
<1>5. CASE Profiles \/ InitializePolicyRegistry \/ \E p \in Policies : UpdatePolicy(p)
  <2>1. UNCHANGED <<producer, vault, balance, history, now>>
    BY <1>5 DEF Profiles, InitializeProfile, UpdateMetadata, InitializePolicyRegistry,
                UpdatePolicy, deviceVars
  <2> QED
    BY <1>0, <1>1, <2>1, UntouchedTotals
<1>6. ASSUME NEW d \in Devices, NEW n \in ProofNonces, NEW wh \in Reports,
             NEW withPolicy \in BOOLEAN, MintEnergy(d, n, wh, withPolicy)
      PROVE  TotalsInv'
  BY <1>6, MintKeepsTotals
<1>7. CASE Tick
  <2>1. UNCHANGED <<producer, vault, balance, history>> /\ now' = now + 1
    BY <1>7 DEF Tick, deviceVars
  <2> QED
    BY <1>0, <1>1, <2>1, UntouchedTotals
<1>8. CASE UNCHANGED vars
  <2>1. UNCHANGED <<producer, vault, balance, history, now>>
    BY <1>8 DEF vars, deviceVars, mintVars
  <2> QED
    BY <1>0, <1>1, <2>1, UntouchedTotals
<1> QED
  BY <1>2, <1>3, <1>4, <1>5, <1>6, <1>7, <1>8 DEF MintNext, Registry, Mint

\* The totals of the vault (mint.rs:300, state/vault.rs), whatever the number of devices,
\* owners and reports.
THEOREM TotalsInvariant == MintSpec => []TotalsInv
<1>1. MintInit => TotalsInv
  BY InitialTotals
<1>2. MintInv /\ ShapeInv /\ TotalsInv /\ [MintNext]_vars => TotalsInv'
  BY StepKeepsTotals
<1>3. MintSpec => []ShapeInv
  BY MintImplementsRegistry, ShapeInvariant, PTL
<1> QED
  BY <1>1, <1>2, <1>3, MintInvariant, PTL DEF MintSpec

\* The energy in the vault is that of the devices, however their keys rotate.
THEOREM EnergyAccounting == MintSpec => []EnergyIsAccounted
<1>1. TotalsInv => EnergyIsAccounted
  BY DEF TotalsInv
<1> QED
  BY <1>1, TotalsInvariant, PTL

\* Every atom is in an account and was paid for at the genesis peg or better (math.rs),
\* for every scale and length of the series.
THEOREM SupplyBacking == MintSpec => []SupplyIsBacked
<1>1. TotalsInv => SupplyIsBacked
  BY DEF TotalsInv
<1> QED
  BY <1>1, TotalsInvariant, PTL

\* The window of the network (math.rs:200) never falls short of the month it stands for.
THEOREM WindowCoverage == MintSpec => []NetworkWindowCoversMonth
<1>1. TotalsInv => NetworkWindowCoversMonth
  BY DEF TotalsInv
<1> QED
  BY <1>1, TotalsInvariant, PTL

=============================================================================
