SPECIFICATION CurveSpec
CONSTANTS
  FP_SCALE = 10000
  LN10_FP = 23025
  LN2_FP = 6931
  MaxTerms = 20
  MAX_SUPPLY_ATOMIC = 40
  INITIAL_ENERGY_PER_SRC = 1000
  SRC_BASIS = 1000
  WORD = 80
  Networks = {3, 20}
  MaxDevice = 22
  Energies = {1, 7, 50}
  Tolerance = 30
INVARIANTS
  DifficultyFollowsSupply
  RewardsNeverExceedPeg
CHECK_DEADLOCK FALSE
