SPECIFICATION Spec
CONSTANTS
  Wallets = {w1, w2, w3}
  NoWallet = NoWallet
  EXPECTED_DEPLOYER = w1
  TokenAccounts = {w1, w2, w3}
  Owner <- OwnAccount
  GOVERNANCE_MIN_MEMBERS = 2
  GOVERNANCE_MEMBER_MAX = 3
  PROPOSAL_AMOUNT_MAX_ATOMIC = 1
  TIMELOCK_DELAY = 1
  MaxSupply = 1
  MaxProposals = 2
  MaxTime = 2
SYMMETRY Symmetry
INVARIANTS
  OneOpenProposal
  VotesAreDistinct
  ApprovalHasMajority
  PayoutsMatchExecutions
PROPERTY ImplementsEmissionPromise
