SPECIFICATION FairSpec
CONSTANTS
  NoBaseline = NoBaseline
  NoProof = NoProof
  RatedPowers = {0, 1}
  ENRG_MIN_START_NONCE = 1
  NonceTargets = {1, 3}
  ServerNonces = {0, 2}
  InitialMeter = 1
  MaxMeter = 4
  MaxMishaps = 3
INVARIANTS
  EnergyIsAccounted
  NonceIsUsedOnce
PROPERTIES
  EnergyIsDelivered
