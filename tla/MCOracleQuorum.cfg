SPECIFICATION Spec
SYMMETRY Symmetry
CONSTANTS
  Keys = {k1}
  DefaultKey = NoKey
  Deployer = k1
  GovernanceAuthority = k1
  Oracles = {o1, o2, o3, o4}
  Attestations = {a1}
  Hashes = {h1, h2}
  ZeroHash = NoHash
  Thresholds = {1, 2, 3, 4}
  Rewards = {0, 1}
  Deposits = {0, 1}
  MinStake = 1
  MaxLamports = 1
  MaxOracles = 3
  U8Max = 3
  InitialFund = 2
  DataAccountMayPay = FALSE
INVARIANTS
  VotesCountAgreeing
  FinalizedHasQuorum
  VotersAreAccountable
  RewardedOncePerVote
  AgreementIsFinal
  MintedIsAttested
PROPERTIES
  ImplementsPromise
