---------------------------- MODULE TokenLedger ----------------------------
(***************************************************************************)
(* Every instruction that moves SRC: the energy rewards and distributions  *)
(* of EnergyPool together with the premine of the founder                  *)
(* (instructions/init_founder.rs), its vesting (instructions/vesting.rs,   *)
(* state/vesting.rs), emissions by vote (governance_mint), rewards of      *)
(* oracles (claim_oracle_reward), withdrawals from the funds               *)
(* (instructions/funds.rs) and the burning of the buyback fund             *)
(* (instructions/buyback.rs).                                              *)
(*                                                                         *)
(* Who may call what, and when a proposal or an attestation is ready, is   *)
(* Governance and OracleQuorum; here each may happen at any time.  The     *)
(* accounts are set up: token, vault and funds exist.                      *)
(***************************************************************************)
EXTENDS EnergyPool

CONSTANTS
  FOUNDER_ALLOCATION_ATOMIC,
  FOUNDER_VESTING_CLIFF, FOUNDER_VESTING_RELEASE,
  ProposalAmounts,
  Amounts,   \* of oracle rewards, withdrawals and burns
  Payees     \* accounts that anybody who may choose the destination chooses

ASSUME LedgerAssumption ==
  /\ {FOUNDER_ALLOCATION_ATOMIC, FOUNDER_VESTING_RELEASE} \subseteq Nat \ {0}
  /\ FOUNDER_VESTING_CLIFF \in Nat
  /\ (ProposalAmounts \cup Amounts) \subseteq Nat /\ Payees \subseteq Accounts

VARIABLES
  founder_minted,  \* flag of the TokenMint account
  vesting,         \* the FounderVesting account; last_claim, which nothing reads, is left out
  first_start,     \* history: when the vesting was first initialised
  claimed          \* history: atoms the founder has claimed

founderVars == <<founder_minted, vesting, first_start, claimed>>
ledgerVars == <<poolVars, founderVars>>

LedgerInit ==
  /\ PoolInit
  /\ founder_minted = FALSE
  /\ vesting = [exists |-> FALSE, start_time |-> 0, withdrawn |-> 0]
  /\ first_start = 0
  /\ claimed = 0
-----------------------------------------------------------------------------
(* The token program.  A mint_to or a burn changes the supply of the token *)
(* and the vault counts it; a transfer changes neither.                    *)

MintTo(a, amount) ==
  /\ vault.total_supply + amount <= MAX_SUPPLY_ATOMIC
  /\ balance' = [balance EXCEPT ![a] = @ + amount]
  /\ supply' = supply + amount
  /\ vault' = [vault EXCEPT !.total_supply = @ + amount]
  /\ UNCHANGED <<pool, share, reputation, now, earned>>

Transfer(from, to, amount) ==
  /\ amount <= balance[from]
  /\ balance' = [balance EXCEPT ![from] = @ - amount, ![to] = @ + amount]
  /\ UNCHANGED <<pool, share, reputation, vault, supply, now, earned>>
-----------------------------------------------------------------------------
GovernanceMint(a, amount) ==
  /\ MintTo(a, amount)
  /\ UNCHANGED founderVars

ClaimOracleReward(a, amount) ==
  /\ amount > 0
  /\ Transfer("staking", a, amount)
  /\ UNCHANGED founderVars

WithdrawFund(f, a, amount) ==
  /\ amount > 0
  /\ Transfer(f, a, amount)
  /\ UNCHANGED founderVars

\* Defect: the vault does not hear of the burn.
BurnUncounted(amount) ==
  /\ amount > 0
  /\ amount <= balance["buyback"]
  /\ balance' = [balance EXCEPT !["buyback"] = @ - amount]
  /\ supply' = supply - amount
  /\ UNCHANGED <<pool, share, reputation, vault, now, earned, founderVars>>

\* checked_sub: a burn of more than the vault has counted would be refused.
BuybackAndBurn(amount) ==
  /\ amount > 0
  /\ amount <= balance["buyback"]
  /\ amount <= vault.total_supply
  /\ balance' = [balance EXCEPT !["buyback"] = @ - amount]
  /\ supply' = supply - amount
  /\ vault' = [vault EXCEPT !.total_supply = @ - amount]
  /\ UNCHANGED <<pool, share, reputation, now, earned, founderVars>>
-----------------------------------------------------------------------------
(* The founder.                                                            *)

AllocateFounder ==
  /\ ~founder_minted
  /\ MintTo("founder", FOUNDER_ALLOCATION_ATOMIC)
  /\ founder_minted' = TRUE
  /\ UNCHANGED <<vesting, first_start, claimed>>

vested_at(start_time, at) ==
  LET since_start == SaturatingSub(at, start_time)
  IN  IF since_start < FOUNDER_VESTING_CLIFF THEN 0
      ELSE (FOUNDER_ALLOCATION_ATOMIC
              * AtMost(since_start - FOUNDER_VESTING_CLIFF, FOUNDER_VESTING_RELEASE))
             \div FOUNDER_VESTING_RELEASE

\* Defect: what was withdrawn is forgotten, and the clock goes on.
InitializeKeepingClock ==
  /\ vesting' = [exists |-> TRUE, withdrawn |-> 0,
                 start_time |-> IF vesting.exists THEN vesting.start_time ELSE now]
  /\ first_start' = IF vesting.exists THEN first_start ELSE now
  /\ UNCHANGED <<poolVars, founder_minted, claimed>>

\* May be called again: the clock starts anew and what was withdrawn is forgotten.
InitializeFounderVesting ==
  /\ vesting' = [exists |-> TRUE, start_time |-> now, withdrawn |-> 0]
  /\ first_start' = IF vesting.exists THEN first_start ELSE now
  /\ UNCHANGED <<poolVars, founder_minted, claimed>>

ClaimVested(to) ==
  LET vested    == vested_at(vesting.start_time, now)
      claimable == vested - vesting.withdrawn
  IN  /\ vesting.exists
      /\ claimable > 0
      /\ Transfer("founder", to, claimable)
      /\ vesting' = [vesting EXCEPT !.withdrawn = vested]
      /\ claimed' = claimed + claimable
      /\ UNCHANGED <<founder_minted, first_start>>
-----------------------------------------------------------------------------
Founder ==
  \/ AllocateFounder
  \/ InitializeFounderVesting
  \/ \E a \in Payees : ClaimVested(a)

Treasury ==
  \/ \E a \in Payees, amount \in ProposalAmounts : GovernanceMint(a, amount)
  \/ \E amount \in Amounts :
       \/ BuybackAndBurn(amount)
       \/ \E a \in Payees : \/ ClaimOracleReward(a, amount)
                           \/ \E f \in Funds : WithdrawFund(f, a, amount)

LedgerNext ==
  \/ PoolNext /\ UNCHANGED founderVars
  \/ Founder
  \/ Treasury

LedgerSpec == LedgerInit /\ [][LedgerNext]_ledgerVars
-----------------------------------------------------------------------------
(* Properties.                                                             *)

Vesting == [exists : BOOLEAN, start_time : 0 .. now, withdrawn : Nat]

\* The accounts keep their types: no balance and no counter ever goes below zero or past
\* its word.
LedgerTypeOK ==
  /\ PoolTypeOK
  /\ founder_minted \in BOOLEAN
  /\ vesting \in Vesting
  /\ first_start \in 0 .. now /\ claimed \in Nat

\* instructions/vesting.rs:80: initialising the vesting again restarts the clock and forgets what was
\* withdrawn.  All the same the founder never gets ahead of the schedule that began with the
\* first initialisation, however often the later ones come between the claims.
VestingNeverAheadOfFirstStart ==
  claimed * FOUNDER_VESTING_RELEASE
    <= FOUNDER_ALLOCATION_ATOMIC * SaturatingSub(now - first_start, FOUNDER_VESTING_CLIFF)
=============================================================================
