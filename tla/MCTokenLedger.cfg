SPECIFICATION LedgerSpec
CONSTANTS
  FP_SCALE = 100
  LN10_FP = 230
  LN2_FP = 69
  MaxTerms = 10
  MAX_SUPPLY_ATOMIC = 510
  INITIAL_ENERGY_PER_SRC = 1
  SRC_BASIS = 400
  WORD = 65536
  TheOwner = o1
  Devices = {d1}
  Owners = {o1}
  Owner <- MCOwner
  Pools = {p1}
  NoPool = NoPool
  Thresholds = {1}
  DEFAULT_POOL_THRESHOLD = 1
  MAX_PRODUCERS = 1
  ERS_BASE_SCORE = 20
  ERS_MAX_SCORE = 20
  ERS_ENERGY_WH_PER_POINT = 1
  ERS_ENERGY_POINTS_CAP = 0
  DAY = 1
  ERS_UPTIME_POINTS_CAP = 0
  Severities = {}
  Reports = {1}
  MaxEnergy = 1
  MaxTime = 4
  MaxAnomalies = 0
  FOUNDER_ALLOCATION_ATOMIC = 9
  FOUNDER_VESTING_CLIFF = 1
  FOUNDER_VESTING_RELEASE = 2
  Amounts = {12}
  ProposalAmounts = {250}
  Payees = {"outside"}
INVARIANTS
  VaultCountsTheToken
  VestingNeverAheadOfFirstStart
CHECK_DEADLOCK FALSE
