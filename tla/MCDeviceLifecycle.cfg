SPECIFICATION DeviceSpec
CONSTANTS
  Devices = {d1, d2, d3}
  NoKey = NoKey
  Wallets = {w1, w2}
  Admin = adm
  MaxDevicesPerOwner = 2
  ClaimNonces = {1, 2, 3}
  ProofNonces = {1, 2}
  Reports = {1}
SYMMETRY Symmetry
INVARIANTS
  ActiveDevicesAreCounted
  ActivationIsNeverRefused
  ClaimsAreCounted
  RotationsAreChains
PROPERTIES
  RevokedIsFinal
CHECK_DEADLOCK FALSE
