\* Nothing fails outside the server: one proof, one restart.
SPECIFICATION Spec
CONSTANTS
  Devices = {d1}
  Requests = {r1}
  MINT_QUEUE_MAX = 1
  MINT_MAX_ATTEMPTS = 2
  LoadLimits = {1}
  RpcMayFail = FALSE
  StorageMayFail = FALSE
  MaxNonce = 1
  MaxRows = 1
  MaxCrashes = 1
PROPERTIES
  RestartResumesQueue
CHECK_DEADLOCK FALSE
