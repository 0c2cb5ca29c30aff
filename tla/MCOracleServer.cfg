SPECIFICATION Spec
CONSTANTS
  Devices = {d1}
  Requests = {r1, r2}
  MINT_QUEUE_MAX = 1
  MINT_MAX_ATTEMPTS = 2
  LoadLimits = {1, 2}
  RpcMayFail = TRUE
  StorageMayFail = TRUE
  MaxNonce = 2
  MaxRows = 2
  MaxCrashes = 2
INVARIANTS
  MintedRowsAreOnChain
  NothingMintsUnrecorded
  AcceptedIsHeld
  EnergyCountsProofs
PROPERTIES
  QueueIsWorkedOff
  ImplementsMintingPromise
CHECK_DEADLOCK FALSE
