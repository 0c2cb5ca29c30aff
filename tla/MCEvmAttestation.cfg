SPECIFICATION Spec
CONSTANTS
  Owners = {w1, w2}
  Deployer = w1
  NoAddress = NoAddress
  Oracles = {o1, o2, o3}
  Attestations = {a1}
  Payloads = {p1, p2}
  NoPayload = NoPayload
  Thresholds = {0, 1, 2, 3, 4}
  TIMELOCK = 1
  MAX_ORACLES = 2
  MAX_THRESHOLD = 3
  MaxTime = 3
SYMMETRY Symmetry
CONSTRAINT FewWaiting
INVARIANTS
  QuorumIsDistinct
  VotersWereAnnounced
  OracleCountIsExact
CHECK_DEADLOCK FALSE
