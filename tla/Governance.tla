----------------------------- MODULE Governance -----------------------------
(***************************************************************************)
(* Emission by vote (instructions/governance.rs, state/governance.rs): an  *)
(* authority creates proposals, at most one of them open; three to five    *)
(* members vote; an approved proposal is minted once, after a timelock.    *)
(* The authority may replace the members, and hand over its role, at any   *)
(* time.  The supply is the one of the vault, which other instructions     *)
(* move as well.                                                           *)
(***************************************************************************)
EXTENDS Sums

CONSTANTS
  Wallets,                     \* keys that sign
  NoWallet,                    \* Pubkey::default()
  EXPECTED_DEPLOYER,           \* the key that may initialize
  TokenAccounts,               \* SRC token accounts
  Owner,                       \* the wallet that owns each of them
  GOVERNANCE_MIN_MEMBERS,
  GOVERNANCE_MEMBER_MAX,
  PROPOSAL_AMOUNT_MAX_ATOMIC,
  TIMELOCK_DELAY,
  MaxSupply,                   \* vault.max_supply
  MaxProposals,                \* bound on the proposals ever created
  MaxTime                      \* bound on the clock

ASSUME GovernanceAssumption ==
  /\ EXPECTED_DEPLOYER \in Wallets
  /\ NoWallet \notin Wallets
  /\ IsFiniteSet(TokenAccounts)
  /\ Owner \in [TokenAccounts -> Wallets]
  /\ {GOVERNANCE_MIN_MEMBERS, GOVERNANCE_MEMBER_MAX, PROPOSAL_AMOUNT_MAX_ATOMIC,
      TIMELOCK_DELAY, MaxSupply, MaxProposals, MaxTime} \subseteq Nat
  /\ GOVERNANCE_MIN_MEMBERS > 0

VARIABLES
  governance,  \* the GovernanceState account
  proposal,    \* the Proposal accounts, by id
  supply,      \* vault.total_supply
  received,    \* tokens minted by proposals into each token account
  now          \* the clock

vars == <<governance, proposal, supply, received, now>>

Ids == 1 .. MaxProposals

Amounts == 1 .. PROPOSAL_AMOUNT_MAX_ATOMIC

\* "None" is an account that does not exist yet.
ProposalStatus ==
  {"None", "Pending", "Approved", "Rejected", "Cancelled", "Executed"}

MemberLists ==
  {ms \in SUBSET Wallets : Cardinality(ms) \in GOVERNANCE_MIN_MEMBERS .. GOVERNANCE_MEMBER_MAX}

GovernanceState ==
  [authority : Wallets \cup {NoWallet}, members : SUBSET Wallets,
   proposal_count : 0 .. MaxProposals, active_proposal_id : 0 .. MaxProposals]

\* voted_members is a vector that nothing reads by position: a set.
Proposal ==
  [status : ProposalStatus, proposer : Wallets \cup {NoWallet}, amount_atomic : Nat,
   approved_at : Nat, executed_at : Nat, yes_votes : Nat, no_votes : Nat,
   member_snapshot_count : Nat, voted_members : SUBSET Wallets]

NoProposal ==
  [status |-> "None", proposer |-> NoWallet, amount_atomic |-> 0, approved_at |-> 0,
   executed_at |-> 0, yes_votes |-> 0, no_votes |-> 0, member_snapshot_count |-> 0,
   voted_members |-> {}]

Init ==
  /\ governance = [authority |-> NoWallet, members |-> {}, proposal_count |-> 0,
                   active_proposal_id |-> 0]
  /\ proposal = [id \in Ids |-> NoProposal]
  /\ supply = 0
  /\ received = [t \in TokenAccounts |-> 0]
  /\ now = 0
-----------------------------------------------------------------------------
(* The authority and the members.                                          *)

InitializeGovernance(members) ==
  /\ governance.authority = NoWallet
  /\ members \in MemberLists
  /\ governance' = [authority |-> EXPECTED_DEPLOYER, members |-> members,
                    proposal_count |-> 0, active_proposal_id |-> 0]
  /\ UNCHANGED <<proposal, supply, received, now>>

UpdateMembers(signer, members) ==
  /\ governance.authority = signer
  /\ members \in MemberLists
  /\ governance' = [governance EXCEPT !.members = members]
  /\ UNCHANGED <<proposal, supply, received, now>>

SetGovernanceAuthority(signer, new) ==
  /\ governance.authority = signer
  /\ governance' = [governance EXCEPT !.authority = new]
  /\ UNCHANGED <<proposal, supply, received, now>>
-----------------------------------------------------------------------------
(* Proposals.                                                              *)

NewProposal(proposer, amount) ==
  [NoProposal EXCEPT !.status = "Pending", !.proposer = proposer,
                     !.amount_atomic = amount,
                     !.member_snapshot_count = Cardinality(governance.members)]

\* The open proposal, if there is one, is passed along and cancelled.
CreateProposal(signer, amount) ==
  LET id   == governance.proposal_count + 1
      open == governance.active_proposal_id
  IN  /\ governance.authority = signer
      /\ id \in Ids
      /\ open # 0 => proposal[open].status = "Pending"
      /\ proposal' = [i \in Ids |->
                        IF i = id THEN NewProposal(signer, amount)
                        ELSE IF i = open THEN [proposal[i] EXCEPT !.status = "Cancelled"]
                        ELSE proposal[i]]
      /\ governance' = [governance EXCEPT !.proposal_count = id,
                                          !.active_proposal_id = id]
      /\ UNCHANGED <<supply, received, now>>

\* Defect: participation is not asked for.
QuorumWithoutParticipation(p) == p.yes_votes > p.no_votes

QuorumMet(p) ==
  /\ p.yes_votes > p.no_votes
  /\ p.yes_votes + p.no_votes > p.member_snapshot_count \div 2

AllVoted(p) == p.yes_votes + p.no_votes >= p.member_snapshot_count

\* The proposal after a vote, before the quorum is looked at.
Counted(p, voter, yes) ==
  [p EXCEPT !.yes_votes = IF yes THEN @ + 1 ELSE @,
            !.no_votes = IF yes THEN @ ELSE @ + 1,
            !.voted_members = @ \cup {voter}]

\* The vote that decides also closes the proposal.
Decided(p) ==
  IF QuorumMet(p) THEN [p EXCEPT !.status = "Approved", !.approved_at = now]
  ELSE IF AllVoted(p) THEN [p EXCEPT !.status = "Rejected"]
  ELSE p

\* Defects: a member votes again; an approval leaves the proposal open.
VoteAgain(voter, id, yes) ==
  LET p == Decided(Counted(proposal[id], voter, yes))
  IN  /\ voter \in governance.members
      /\ id = governance.active_proposal_id
      /\ proposal[id].status = "Pending"
      /\ proposal' = [proposal EXCEPT ![id] = p]
      /\ governance' = IF p.status = "Pending" THEN governance
                       ELSE [governance EXCEPT !.active_proposal_id = 0]
      /\ UNCHANGED <<supply, received, now>>

VoteLeavingOpen(voter, id, yes) ==
  /\ voter \in governance.members
  /\ id = governance.active_proposal_id
  /\ proposal[id].status = "Pending"
  /\ voter \notin proposal[id].voted_members
  /\ proposal' = [proposal EXCEPT ![id] = Decided(Counted(@, voter, yes))]
  /\ UNCHANGED <<governance, supply, received, now>>

Vote(voter, id, yes) ==
  LET p == Decided(Counted(proposal[id], voter, yes))
  IN  /\ voter \in governance.members
      /\ id = governance.active_proposal_id
      /\ proposal[id].status = "Pending"
      /\ voter \notin proposal[id].voted_members
      /\ proposal' = [proposal EXCEPT ![id] = p]
      /\ governance' = IF p.status = "Pending" THEN governance
                       ELSE [governance EXCEPT !.active_proposal_id = 0]
      /\ UNCHANGED <<supply, received, now>>
-----------------------------------------------------------------------------
(* Execution.  Anyone may send it; the destination is any token account of *)
(* the proposer.                                                           *)

\* Defect: the timelock is not added.
ExecutableAtOnce(p) == p.status = "Approved" /\ now >= p.approved_at

Executable(p) == p.status = "Approved" /\ now >= p.approved_at + TIMELOCK_DELAY

\* Defect: an execution that can be repeated.
RepeatableMint(id, destination) ==
  LET p == proposal[id]
  IN  /\ Executable(p)
      /\ Owner[destination] = p.proposer
      /\ supply + p.amount_atomic <= MaxSupply
      /\ supply' = supply + p.amount_atomic
      /\ received' = [received EXCEPT ![destination] = @ + p.amount_atomic]
      /\ proposal' = [proposal EXCEPT ![id].executed_at = now]
      /\ UNCHANGED <<governance, now>>

GovernanceMint(id, destination) ==
  LET p == proposal[id]
  IN  /\ Executable(p)
      /\ Owner[destination] = p.proposer
      /\ supply + p.amount_atomic <= MaxSupply
      /\ supply' = supply + p.amount_atomic
      /\ received' = [received EXCEPT ![destination] = @ + p.amount_atomic]
      /\ proposal' = [proposal EXCEPT ![id].status = "Executed", ![id].executed_at = now]
      /\ UNCHANGED <<governance, now>>

\* mint_energy adds to the supply within the cap, buyback_and_burn takes from it.
OtherSupplyChange ==
  /\ supply' \in {supply + 1, supply - 1} \cap (0 .. MaxSupply)
  /\ UNCHANGED <<governance, proposal, received, now>>

Tick ==
  /\ now < MaxTime
  /\ now' = now + 1
  /\ UNCHANGED <<governance, proposal, supply, received>>
-----------------------------------------------------------------------------
Next ==
  \/ \E ms \in MemberLists : InitializeGovernance(ms)
  \/ \E w \in Wallets, ms \in MemberLists : UpdateMembers(w, ms)
  \/ \E w, new \in Wallets : SetGovernanceAuthority(w, new)
  \/ \E w \in Wallets, amount \in Amounts : CreateProposal(w, amount)
  \/ \E w \in Wallets, id \in Ids, yes \in BOOLEAN : Vote(w, id, yes)
  \/ \E id \in Ids, t \in TokenAccounts : GovernanceMint(id, t)
  \/ OtherSupplyChange
  \/ Tick

Spec == Init /\ [][Next]_vars
-----------------------------------------------------------------------------
(* Properties.                                                             *)

\* The accounts keep their types, and the voters of a proposal never outgrow the space
\* for GOVERNANCE_MEMBER_MAX keys its account was created with, although the members may
\* be replaced while it is open.
TypeOK ==
  /\ governance \in GovernanceState
  /\ proposal \in [Ids -> Proposal]
  /\ supply \in Nat
  /\ received \in [TokenAccounts -> Nat]
  /\ now \in Nat
  /\ \A id \in Ids :
       /\ Cardinality(proposal[id].voted_members) <= proposal[id].member_snapshot_count
       /\ proposal[id].member_snapshot_count <= GOVERNANCE_MEMBER_MAX

\* At most one proposal is open, and it is the one governance points at: it can always
\* be cancelled for the next one, which create_proposal refuses unless it is Pending.
OneOpenProposal ==
  \A id \in Ids :
    proposal[id].status = "Pending" <=> id = governance.active_proposal_id

\* Whatever happens to the members during a vote, each count is a different wallet, and
\* no vote comes after the one that decides.
VotesAreDistinct ==
  \A id \in Ids :
    LET p == proposal[id]
    IN  /\ p.yes_votes + p.no_votes = Cardinality(p.voted_members)
        /\ p.status = "Pending" => ~QuorumMet(p) /\ ~AllVoted(p)

\* What was approved had more voters than half of the members it was created under, and
\* more of them for it than against it.
ApprovalHasMajority ==
  \A id \in Ids :
    LET p == proposal[id]
    IN  p.status \in {"Approved", "Executed"} =>
          /\ 2 * Cardinality(p.voted_members) > p.member_snapshot_count
          /\ 2 * p.yes_votes > Cardinality(p.voted_members)

\* An emission happens no sooner than the timelock after the vote that decided it.
TimelockIsRespected ==
  \A id \in Ids :
    LET p == proposal[id]
    IN  p.status = "Executed" => p.executed_at >= p.approved_at + TIMELOCK_DELAY

\* The tokens a wallet received, in all of its token accounts, are the amounts of its
\* executed proposals: each was minted exactly once, to its proposer, whatever the role
\* of the authority, the members and the timelocks of other proposals did meanwhile.
ReceivedBy(w) == [t \in TokenAccounts |-> IF Owner[t] = w THEN received[t] ELSE 0]

ExecutedFor(w) ==
  [id \in Ids |-> IF proposal[id].status = "Executed" /\ proposal[id].proposer = w
                  THEN proposal[id].amount_atomic ELSE 0]

PayoutsMatchExecutions ==
  \A w \in Wallets : Total(ReceivedBy(w), TokenAccounts) = Total(ExecutedFor(w), Ids)

\* What holders may rely on: every payment is a grant that carried its vote, made once, in
\* full, to who asked, after the delay.  The roles, the member list, the proposal being
\* pointed at, the cap and the choice of a token account stay inside.
GrantOf(p) ==
  [stage      |-> IF p.status \in {"Rejected", "Cancelled"} THEN "Closed" ELSE p.status,
   to         |-> p.proposer,
   amount     |-> p.amount_atomic,
   electorate |-> p.member_snapshot_count,
   voters     |-> p.voted_members,
   favour     |-> p.yes_votes,
   since      |-> p.approved_at]

PaidTo(w) == Total(ReceivedBy(w), TokenAccounts)

Promise ==
  INSTANCE EmissionPromise WITH
    Nobody      <- NoWallet,
    Grants      <- Ids,
    Electorates <- GOVERNANCE_MIN_MEMBERS .. GOVERNANCE_MEMBER_MAX,
    Delay       <- TIMELOCK_DELAY,
    grant       <- [id \in Ids |-> GrantOf(proposal[id])],
    paid        <- [w \in Wallets |-> PaidTo(w)],
    clock       <- now

ImplementsEmissionPromise == Promise!PromiseSpec

\* A closed proposal keeps its votes and its amount, and only an approved one moves on,
\* by being executed: no change of members, authority or open proposal undoes it.
ClosedStays(id) ==
  proposal[id].status \notin {"None", "Pending"} =>
    \/ proposal'[id] = proposal[id]
    \/ /\ proposal[id].status = "Approved"
       /\ proposal'[id] = [proposal[id] EXCEPT !.status = "Executed", !.executed_at = now]

ClosedIsFinal == [][\A id \in Ids : ClosedStays(id)]_vars
=============================================================================
