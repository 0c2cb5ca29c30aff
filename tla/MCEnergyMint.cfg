SPECIFICATION MintSpec
CONSTANTS
  Devices = {d1, d2}
  NoKey = NoKey
  Wallets = {w1}
  Admin = adm
  MaxDevicesPerOwner = 1
  ClaimNonces = {1, 2}
  ProofNonces = {1, 2, 3}
  Reports = {2}
  FP_SCALE = 1000
  LN10_FP = 2302
  LN2_FP = 693
  MaxTerms = 16
  MAX_SUPPLY_ATOMIC = 22
  INITIAL_ENERGY_PER_SRC = 20
  SRC_BASIS = 200
  WORD = 65536
  BASIC_MONTHLY_LIMIT_WH = 3
  VERIFIED_MONTHLY_LIMIT_WH = 5
  THIRTY_DAYS = 2
  Policies <- MCPolicies
  NoPolicy = NoPolicy
  RatedPowers = {0, 2}
  AssignedTiers = {"Basic", "Industrial"}
  MaxTime = 3
SYMMETRY Symmetry
INVARIANTS
  EnergyIsAccounted
  SupplyIsBacked
  TierLimitIsKept
  MintKeepsCap
  NetworkWindowCoversMonth
CHECK_DEADLOCK FALSE
