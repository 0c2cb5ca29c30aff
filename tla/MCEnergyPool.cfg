SPECIFICATION PoolSpec
CONSTANTS
  FP_SCALE = 100
  LN10_FP = 230
  LN2_FP = 69
  MaxTerms = 10
  MAX_SUPPLY_ATOMIC = 60
  INITIAL_ENERGY_PER_SRC = 2
  SRC_BASIS = 13
  WORD = 65536
  d1 = d1
  d2 = d2
  o1 = o1
  o2 = o2
  Devices = {d1, d2}
  Owners = {o1, o2}
  Owner <- MCOwner
  Pools = {p1}
  NoPool = NoPool
  Thresholds = {0}
  DEFAULT_POOL_THRESHOLD = 1
  MAX_PRODUCERS = 2
  ERS_BASE_SCORE = 20
  ERS_MAX_SCORE = 23
  ERS_ENERGY_WH_PER_POINT = 2
  ERS_ENERGY_POINTS_CAP = 1
  DAY = 1
  ERS_UPTIME_POINTS_CAP = 2
  Severities = {1}
  Reports = {1, 2}
  MaxEnergy = 3
  MaxTime = 1
  MaxAnomalies = 1
INVARIANTS
  EnergyIsRewardedTwiceAtMost
  PenaltyIsNeverForgotten
CHECK_DEADLOCK FALSE
