-------------------------- MODULE GovernanceProofs --------------------------
(***************************************************************************)
(* Proofs about Governance, for any number of wallets, members, proposals  *)
(* and token accounts, any timelock and any cap.  Every proposal is Sound  *)
(* by itself, the numbering ties the proposals to the governance account,  *)
(* and the two together give the properties; the payouts need the sums     *)
(* that come with EmissionProofs too.                                      *)
(***************************************************************************)
EXTENDS Governance, EmissionProofs

\* What every proposal keeps, whatever its status: the votes are the voters, they fit
\* the snapshot, and each status was reached the way it should be.
Sound(p) ==
  /\ p \in Proposal
  /\ IsFiniteSet(p.voted_members)
  /\ p.yes_votes + p.no_votes = Cardinality(p.voted_members)
  /\ Cardinality(p.voted_members) <= p.member_snapshot_count
  /\ p.member_snapshot_count <= GOVERNANCE_MEMBER_MAX
  /\ p.status = "Pending" => ~QuorumMet(p) /\ ~AllVoted(p)
  /\ p.status \in {"Approved", "Executed"} =>
       /\ 2 * Cardinality(p.voted_members) > p.member_snapshot_count
       /\ 2 * p.yes_votes > Cardinality(p.voted_members)
  /\ p.status = "Executed" => p.executed_at >= p.approved_at + TIMELOCK_DELAY

\* Ids are given out in order, and governance has valid members once it has an authority.
Numbering ==
  /\ governance.authority = NoWallet => governance.proposal_count = 0
  /\ governance.authority # NoWallet => governance.members \in MemberLists
  /\ \A id \in Ids : proposal[id].status = "None" <=> id > governance.proposal_count

StateTypes ==
  /\ governance \in GovernanceState
  /\ proposal \in [Ids -> Proposal]
  /\ supply \in Nat
  /\ received \in [TokenAccounts -> Nat]
  /\ now \in Nat

Inv ==
  /\ StateTypes
  /\ Numbering
  /\ OneOpenProposal
  /\ \A id \in Ids : Sound(proposal[id])
-----------------------------------------------------------------------------
(* One proposal at a time.                                                 *)

LEMMA NothingIsSound == Sound(NoProposal)
<1>1. NoProposal \in Proposal
  BY DEF NoProposal, Proposal, ProposalStatus
<1>2. IsFiniteSet({}) /\ Cardinality({}) = 0
  BY FS_EmptySet
<1> QED
  BY <1>1, <1>2, GovernanceAssumption DEF Sound, NoProposal

\* A proposal starts under members that exist, so it is not decided by nobody's vote.
LEMMA NewIsSound ==
  ASSUME governance.members \in MemberLists, NEW w \in Wallets, NEW amount \in Amounts
  PROVE  Sound(NewProposal(w, amount)) /\ NewProposal(w, amount).status = "Pending"
<1> DEFINE p == NewProposal(w, amount)
<1>1. Cardinality(governance.members) \in GOVERNANCE_MIN_MEMBERS .. GOVERNANCE_MEMBER_MAX
  BY DEF MemberLists
<1>2. Cardinality(governance.members) \in Nat \ {0}
        /\ Cardinality(governance.members) <= GOVERNANCE_MEMBER_MAX
  BY <1>1, GovernanceAssumption
<1>3. amount \in Nat
  BY GovernanceAssumption DEF Amounts
<1>4. NoProposal \in Proposal /\ NoProposal.voted_members = {}
        /\ NoProposal.yes_votes = 0 /\ NoProposal.no_votes = 0
  BY DEF NoProposal, Proposal, ProposalStatus
<1>5. /\ p \in Proposal
      /\ p.status = "Pending"
      /\ p.voted_members = {}
      /\ p.yes_votes = 0
      /\ p.no_votes = 0
      /\ p.member_snapshot_count = Cardinality(governance.members)
  <2> HIDE DEF NoProposal
  <2> QED
    BY <1>2, <1>3, <1>4 DEF NewProposal, Proposal, ProposalStatus
<1>6. IsFiniteSet({}) /\ Cardinality({}) = 0
  BY FS_EmptySet
<1>7. ~QuorumMet(p) /\ ~AllVoted(p)
  BY <1>2, <1>5 DEF QuorumMet, AllVoted
<1> HIDE DEF p
<1>8. Sound(p)
  BY <1>2, <1>5, <1>6, <1>7 DEF Sound
<1> QED
  BY <1>5, <1>8 DEF p

LEMMA CancelledIsSound ==
  ASSUME NEW p, Sound(p), p.status = "Pending"
  PROVE  Sound([p EXCEPT !.status = "Cancelled"])
<1> DEFINE q == [p EXCEPT !.status = "Cancelled"]
<1>1. q \in Proposal
  BY DEF Sound, Proposal, ProposalStatus
<1>2. /\ q.status = "Cancelled"
      /\ q.voted_members = p.voted_members
      /\ q.yes_votes = p.yes_votes
      /\ q.no_votes = p.no_votes
      /\ q.member_snapshot_count = p.member_snapshot_count
  BY DEF Sound, Proposal
<1> QED
  BY <1>1, <1>2 DEF Sound

\* A vote of a wallet that has not voted yet: one more voter, one more vote.
LEMMA CountedIsOneMore ==
  ASSUME NEW p, Sound(p), NEW w \in Wallets \ p.voted_members, NEW yes \in BOOLEAN
  PROVE  LET q == Counted(p, w, yes)
         IN  /\ q \in Proposal
             /\ q.status = p.status
             /\ IsFiniteSet(q.voted_members)
             /\ q.yes_votes + q.no_votes = Cardinality(q.voted_members)
             /\ Cardinality(q.voted_members) = Cardinality(p.voted_members) + 1
             /\ q.member_snapshot_count = p.member_snapshot_count
<1> DEFINE q == Counted(p, w, yes)
<1>1. p \in Proposal /\ p.voted_members \cup {w} \in SUBSET Wallets
  BY DEF Sound, Proposal
<1>2. /\ IsFiniteSet(p.voted_members \cup {w})
      /\ Cardinality(p.voted_members \cup {w}) = Cardinality(p.voted_members) + 1
  BY FS_AddElement DEF Sound
<1>3. /\ q \in Proposal
      /\ q.status = p.status
      /\ q.voted_members = p.voted_members \cup {w}
      /\ q.member_snapshot_count = p.member_snapshot_count
      /\ q.yes_votes + q.no_votes = p.yes_votes + p.no_votes + 1
  <2>1. p.yes_votes \in Nat /\ p.no_votes \in Nat
    BY <1>1 DEF Proposal
  <2>2. CASE yes
    <3>1. q = [p EXCEPT !.yes_votes = p.yes_votes + 1, !.no_votes = p.no_votes,
                        !.voted_members = p.voted_members \cup {w}]
      BY <2>2 DEF Counted
    <3> HIDE DEF q
    <3>2. p.yes_votes + 1 \in Nat /\ p.no_votes \in Nat
      BY <2>1
    <3>3. q.yes_votes = p.yes_votes + 1 /\ q.no_votes = p.no_votes
      BY <1>1, <3>1 DEF Proposal
    <3>4. /\ q \in Proposal
          /\ q.status = p.status
          /\ q.voted_members = p.voted_members \cup {w}
          /\ q.member_snapshot_count = p.member_snapshot_count
      BY <1>1, <3>1, <3>2 DEF Proposal
    <3> QED
      BY <2>1, <3>3, <3>4
  <2>3. CASE ~yes
    <3>1. q = [p EXCEPT !.yes_votes = p.yes_votes, !.no_votes = p.no_votes + 1,
                        !.voted_members = p.voted_members \cup {w}]
      BY <2>3 DEF Counted
    <3> HIDE DEF q
    <3>2. p.yes_votes \in Nat /\ p.no_votes + 1 \in Nat
      BY <2>1
    <3>3. q.yes_votes = p.yes_votes /\ q.no_votes = p.no_votes + 1
      BY <1>1, <3>1 DEF Proposal
    <3>4. /\ q \in Proposal
          /\ q.status = p.status
          /\ q.voted_members = p.voted_members \cup {w}
          /\ q.member_snapshot_count = p.member_snapshot_count
      BY <1>1, <3>1, <3>2 DEF Proposal
    <3> QED
      BY <2>1, <3>3, <3>4
  <2> QED
    BY <2>2, <2>3
<1> HIDE DEF q
<1>4. /\ q \in Proposal
      /\ q.status = p.status
      /\ IsFiniteSet(q.voted_members)
      /\ q.yes_votes + q.no_votes = Cardinality(q.voted_members)
      /\ Cardinality(q.voted_members) = Cardinality(p.voted_members) + 1
      /\ q.member_snapshot_count = p.member_snapshot_count
  BY <1>2, <1>3 DEF Sound
<1> QED
  BY <1>4 DEF q

\* The vote that makes the quorum leaves a majority of a sufficient part of the members.
LEMMA QuorumIsMajority ==
  ASSUME NEW p \in Proposal, QuorumMet(p),
         p.yes_votes + p.no_votes = Cardinality(p.voted_members)
  PROVE  /\ 2 * Cardinality(p.voted_members) > p.member_snapshot_count
         /\ 2 * p.yes_votes > Cardinality(p.voted_members)
<1>1. p.yes_votes \in Nat /\ p.no_votes \in Nat /\ p.member_snapshot_count \in Nat
  BY DEF Proposal
<1>2. p.yes_votes > p.no_votes
        /\ p.yes_votes + p.no_votes > p.member_snapshot_count \div 2
  BY DEF QuorumMet
<1>3. 2 * (p.member_snapshot_count \div 2) + 1 >= p.member_snapshot_count
  BY <1>1
<1> QED
  BY <1>1, <1>2, <1>3

LEMMA VotedIsSound ==
  ASSUME now \in Nat, NEW p, Sound(p), p.status = "Pending",
         NEW w \in Wallets \ p.voted_members, NEW yes \in BOOLEAN
  PROVE  /\ Sound(Decided(Counted(p, w, yes)))
         /\ Decided(Counted(p, w, yes)).status \in {"Pending", "Approved", "Rejected"}
<1> DEFINE q == Counted(p, w, yes)
<1>1. /\ q \in Proposal
      /\ q.status = "Pending"
      /\ IsFiniteSet(q.voted_members)
      /\ q.yes_votes + q.no_votes = Cardinality(q.voted_members)
      /\ Cardinality(q.voted_members) = Cardinality(p.voted_members) + 1
      /\ q.member_snapshot_count = p.member_snapshot_count
  BY CountedIsOneMore
<1>2. Cardinality(p.voted_members) + 1 <= p.member_snapshot_count
  <2>1. ~(p.yes_votes + p.no_votes >= p.member_snapshot_count)
    BY DEF Sound, AllVoted
  <2> QED
    BY <2>1, FS_CardinalityType DEF Sound, Proposal
<1>3. q.member_snapshot_count <= GOVERNANCE_MEMBER_MAX
  BY <1>1 DEF Sound
<1> HIDE DEF q
<1>4. CASE QuorumMet(q)
  <2> DEFINE r == [q EXCEPT !.status = "Approved", !.approved_at = now]
  <2>1. Decided(q) = r
    BY <1>4 DEF Decided
  <2>2. /\ r \in Proposal
        /\ r.status = "Approved"
        /\ r.voted_members = q.voted_members
        /\ r.yes_votes = q.yes_votes
        /\ r.no_votes = q.no_votes
        /\ r.member_snapshot_count = q.member_snapshot_count
    BY <1>1 DEF Proposal, ProposalStatus
  <2>3. /\ 2 * Cardinality(q.voted_members) > q.member_snapshot_count
        /\ 2 * q.yes_votes > Cardinality(q.voted_members)
    BY <1>1, <1>4, QuorumIsMajority
  <2> HIDE DEF r
  <2>4. Sound(r)
    BY <1>1, <1>2, <1>3, <2>2, <2>3 DEF Sound
  <2> QED
    BY <2>1, <2>2, <2>4 DEF q
<1>5. CASE ~QuorumMet(q) /\ AllVoted(q)
  <2> DEFINE r == [q EXCEPT !.status = "Rejected"]
  <2>1. Decided(q) = r
    BY <1>5 DEF Decided
  <2>2. /\ r \in Proposal
        /\ r.status = "Rejected"
        /\ r.voted_members = q.voted_members
        /\ r.yes_votes = q.yes_votes
        /\ r.no_votes = q.no_votes
        /\ r.member_snapshot_count = q.member_snapshot_count
    BY <1>1 DEF Proposal, ProposalStatus
  <2> HIDE DEF r
  <2>3. Sound(r)
    BY <1>1, <1>2, <1>3, <2>2 DEF Sound
  <2> QED
    BY <2>1, <2>2, <2>3 DEF q
<1>6. CASE ~QuorumMet(q) /\ ~AllVoted(q)
  <2>1. Decided(q) = q
    BY <1>6 DEF Decided
  <2>2. Sound(q)
    BY <1>1, <1>2, <1>3, <1>6 DEF Sound
  <2> QED
    BY <1>1, <2>1, <2>2 DEF q
<1> QED
  BY <1>4, <1>5, <1>6

LEMMA ExecutedIsSound ==
  ASSUME now \in Nat, NEW p, Sound(p), Executable(p)
  PROVE  Sound([p EXCEPT !.status = "Executed", !.executed_at = now])
<1> DEFINE q == [p EXCEPT !.status = "Executed", !.executed_at = now]
<1>1. q \in Proposal
  BY DEF Sound, Proposal, ProposalStatus
<1>2. /\ q.status = "Executed"
      /\ q.executed_at = now
      /\ q.approved_at = p.approved_at
      /\ q.voted_members = p.voted_members
      /\ q.yes_votes = p.yes_votes
      /\ q.no_votes = p.no_votes
      /\ q.member_snapshot_count = p.member_snapshot_count
  BY DEF Sound, Proposal
<1>3. p.status = "Approved" /\ now >= p.approved_at + TIMELOCK_DELAY
  BY DEF Executable
<1> HIDE DEF q
<1>4. Sound(q)
  BY <1>1, <1>2, <1>3 DEF Sound
<1> QED
  BY <1>4 DEF q
-----------------------------------------------------------------------------
(* One step.                                                               *)

LEMMA InitInv == Init => Inv
<1> SUFFICES ASSUME Init PROVE Inv
  OBVIOUS
<1>1. NoProposal \in Proposal /\ NoProposal.status = "None"
  BY DEF NoProposal, Proposal, ProposalStatus
<1>2. /\ StateTypes
      /\ governance.authority = NoWallet
      /\ governance.proposal_count = 0
      /\ governance.active_proposal_id = 0
  BY <1>1, GovernanceAssumption DEF Init, StateTypes, GovernanceState
<1>3. \A id \in Ids : proposal[id] = NoProposal /\ id \in Nat \ {0}
  BY GovernanceAssumption DEF Init, Ids
<1>4. Numbering /\ OneOpenProposal
  BY <1>1, <1>2, <1>3 DEF Numbering, OneOpenProposal
<1> QED
  BY <1>2, <1>3, <1>4, NothingIsSound DEF Inv

LEMMA InitializeInv ==
  ASSUME Inv, NEW ms \in MemberLists, InitializeGovernance(ms)
  PROVE  Inv'
<1>1. /\ governance' \in GovernanceState
      /\ governance'.authority \in Wallets
      /\ governance'.members = ms
      /\ governance'.proposal_count = 0
      /\ governance'.active_proposal_id = 0
  BY GovernanceAssumption DEF InitializeGovernance, GovernanceState, MemberLists
<1>2. governance.proposal_count = 0 /\ proposal' = proposal
  BY DEF Inv, Numbering, InitializeGovernance
<1>3. \A id \in Ids : id \in Nat \ {0} /\ proposal[id].status = "None"
  BY <1>2, GovernanceAssumption DEF Inv, Numbering, Ids
<1>4. Numbering' /\ OneOpenProposal'
  BY <1>1, <1>2, <1>3, GovernanceAssumption DEF Numbering, OneOpenProposal
<1>5. StateTypes'
  BY <1>1, <1>2 DEF Inv, InitializeGovernance, StateTypes
<1>6. \A id \in Ids : Sound(proposal[id])'
  BY <1>2 DEF Inv
<1> QED
  BY <1>4, <1>5, <1>6 DEF Inv

\* The authority changes neither the proposals nor their numbers.
LEMMA RolesInv ==
  ASSUME Inv, NEW w \in Wallets,
         \/ \E ms \in MemberLists : UpdateMembers(w, ms)
         \/ \E new \in Wallets : SetGovernanceAuthority(w, new)
  PROVE  Inv'
<1>1. /\ governance.authority # NoWallet
      /\ governance' \in GovernanceState
      /\ governance'.authority # NoWallet
      /\ governance'.members \in MemberLists
      /\ governance'.proposal_count = governance.proposal_count
      /\ governance'.active_proposal_id = governance.active_proposal_id
      /\ UNCHANGED <<proposal, supply, received, now>>
  <2>1. governance \in GovernanceState /\ governance.authority = w /\ w # NoWallet
    BY GovernanceAssumption DEF Inv, StateTypes, UpdateMembers, SetGovernanceAuthority
  <2>2. CASE \E ms \in MemberLists : UpdateMembers(w, ms)
    BY <2>1, <2>2 DEF UpdateMembers, GovernanceState, MemberLists
  <2>3. CASE \E new \in Wallets : SetGovernanceAuthority(w, new)
    <3>1. governance.members \in MemberLists
      BY <2>1 DEF Inv, Numbering
    <3>2. PICK new \in Wallets : SetGovernanceAuthority(w, new)
      BY <2>3
    <3> QED
      BY <2>1, <3>1, <3>2, GovernanceAssumption DEF SetGovernanceAuthority, GovernanceState
  <2> QED
    BY <2>2, <2>3
<1>2. Numbering' /\ OneOpenProposal' /\ StateTypes'
  BY <1>1 DEF Inv, Numbering, OneOpenProposal, StateTypes
<1>3. \A id \in Ids : Sound(proposal[id])'
  BY <1>1 DEF Inv
<1> QED
  BY <1>2, <1>3 DEF Inv

LEMMA CreateInv ==
  ASSUME Inv, NEW w \in Wallets, NEW amount \in Amounts, CreateProposal(w, amount)
  PROVE  Inv'
<1> DEFINE new  == governance.proposal_count + 1
           open == governance.active_proposal_id
           p    == NewProposal(w, amount)
<1>1. /\ governance \in GovernanceState
      /\ governance.authority = w
      /\ w # NoWallet
      /\ new \in Ids
      /\ open # 0 => proposal[open].status = "Pending"
      /\ UNCHANGED <<supply, received, now>>
  BY GovernanceAssumption DEF Inv, StateTypes, CreateProposal
<1>2. governance.members \in MemberLists
  BY <1>1 DEF Inv, Numbering
<1>3. /\ governance' \in GovernanceState
      /\ governance'.authority = w
      /\ governance'.members = governance.members
      /\ governance'.proposal_count = new
      /\ governance'.active_proposal_id = new
  <2>1. governance' = [governance EXCEPT !.proposal_count = new, !.active_proposal_id = new]
    BY DEF CreateProposal
  <2>2. new \in 0 .. MaxProposals
    BY <1>1, GovernanceAssumption DEF Ids
  <2> HIDE DEF new
  <2> QED
    BY <1>1, <2>1, <2>2 DEF GovernanceState
<1>4. /\ proposal' = [i \in Ids |->
                        IF i = new THEN p
                        ELSE IF i = open THEN [proposal[i] EXCEPT !.status = "Cancelled"]
                        ELSE proposal[i]]
  BY DEF CreateProposal
<1>5. Sound(p) /\ p.status = "Pending"
  BY <1>2, NewIsSound
<1>6. \A id \in Ids : id \in Nat \ {0}
  BY GovernanceAssumption DEF Ids
<1>7. governance.proposal_count \in Nat /\ open \in Nat
  BY <1>1 DEF GovernanceState
<1>8. proposal[new].status = "None"
  BY <1>1, <1>7 DEF Inv, Numbering
<1>9. new # open
  BY <1>1, <1>6, <1>8
<1> HIDE DEF p
<1>10. \A id \in Ids :
        /\ Sound(proposal'[id])
        /\ id = new => proposal'[id].status = "Pending"
        /\ id # new => /\ proposal'[id].status # "Pending"
                       /\ proposal'[id].status = "None" <=> proposal[id].status = "None"
  <2> SUFFICES ASSUME NEW id \in Ids
               PROVE  /\ Sound(proposal'[id])
                      /\ id = new => proposal'[id].status = "Pending"
                      /\ id # new => /\ proposal'[id].status # "Pending"
                                     /\ proposal'[id].status = "None"
                                          <=> proposal[id].status = "None"
    OBVIOUS
  <2>1. CASE id = new
    BY <1>4, <1>5, <2>1
  <2>2. CASE id # new /\ id = open
    <3> DEFINE q == [proposal[id] EXCEPT !.status = "Cancelled"]
    <3>1. proposal'[id] = q
      BY <1>4, <2>2
    <3>2. Sound(proposal[id]) /\ proposal[id].status = "Pending"
      BY <1>1, <1>6, <2>2 DEF Inv
    <3>3. Sound(q)
      BY <3>2, CancelledIsSound
    <3>4. q.status = "Cancelled"
      BY <3>2 DEF Sound, Proposal
    <3> HIDE DEF q
    <3> QED
      BY <2>2, <3>1, <3>2, <3>3, <3>4
  <2>3. CASE id # new /\ id # open
    BY <1>4, <2>3 DEF Inv, OneOpenProposal
  <2> QED
    BY <2>1, <2>2, <2>3
<1>11. Numbering'
  <2>1. \A id \in Ids : proposal'[id].status = "None" <=> id > new
    BY <1>6, <1>7, <1>10 DEF Inv, Numbering
  <2> QED
    BY <1>1, <1>2, <1>3, <2>1 DEF Numbering
<1>12. OneOpenProposal'
  BY <1>3, <1>10 DEF OneOpenProposal
<1>13. StateTypes'
  <2>1. \A id \in Ids : proposal'[id] \in Proposal
    BY <1>10 DEF Sound
  <2>2. proposal' \in [Ids -> Proposal]
    BY <1>4, <2>1
  <2> QED
    BY <1>1, <1>3, <2>2 DEF Inv, StateTypes
<1> QED
  BY <1>10, <1>11, <1>12, <1>13 DEF Inv

\* An action on one proposal that exists: it stays Sound, and only its being open may
\* change, together with what governance points at.
LEMMA OneProposalInv ==
  ASSUME Inv, NEW id \in Ids, NEW p,
         Sound(p), p.status # "None", proposal[id].status # "None",
         proposal' = [proposal EXCEPT ![id] = p],
         governance' \in GovernanceState,
         governance'.authority = governance.authority,
         governance'.members = governance.members,
         governance'.proposal_count = governance.proposal_count,
         \A i \in Ids : proposal'[i].status = "Pending"
                         <=> i = governance'.active_proposal_id
  PROVE  /\ Numbering'
         /\ OneOpenProposal'
         /\ proposal' \in [Ids -> Proposal]
         /\ \A i \in Ids : Sound(proposal[i])'
<1>1. proposal \in [Ids -> Proposal]
  BY DEF Inv, StateTypes
<1>2. /\ proposal'[id] = p
      /\ \A i \in Ids \ {id} : proposal'[i] = proposal[i]
  BY <1>1
<1>3. Numbering'
  BY <1>2 DEF Inv, Numbering
<1>4. OneOpenProposal'
  BY DEF OneOpenProposal
<1>5. proposal' \in [Ids -> Proposal]
  BY <1>1 DEF Sound
<1>6. \A i \in Ids : Sound(proposal[i])'
  BY <1>2 DEF Inv
<1> QED
  BY <1>3, <1>4, <1>5, <1>6

LEMMA VoteInv ==
  ASSUME Inv, NEW w \in Wallets, NEW id \in Ids, NEW yes \in BOOLEAN, Vote(w, id, yes)
  PROVE  Inv'
<1> DEFINE p == Decided(Counted(proposal[id], w, yes))
<1>1. /\ id = governance.active_proposal_id
      /\ proposal[id].status = "Pending"
      /\ w \in Wallets \ proposal[id].voted_members
      /\ proposal' = [proposal EXCEPT ![id] = p]
      /\ governance' = IF p.status = "Pending" THEN governance
                       ELSE [governance EXCEPT !.active_proposal_id = 0]
      /\ UNCHANGED <<supply, received, now>>
  BY DEF Vote
<1>2. /\ governance \in GovernanceState
      /\ now \in Nat
      /\ proposal \in [Ids -> Proposal]
      /\ Sound(proposal[id])
  BY DEF Inv, StateTypes
<1>3. Sound(p) /\ p.status \in {"Pending", "Approved", "Rejected"}
  BY <1>1, <1>2, VotedIsSound
<1> HIDE DEF p
<1>4. /\ governance' \in GovernanceState
      /\ governance'.authority = governance.authority
      /\ governance'.members = governance.members
      /\ governance'.proposal_count = governance.proposal_count
      /\ governance'.active_proposal_id = IF p.status = "Pending" THEN id ELSE 0
  BY <1>1, <1>2, GovernanceAssumption DEF GovernanceState
<1>5. \A i \in Ids : i # 0
  BY GovernanceAssumption DEF Ids
<1>6. \A i \in Ids : proposal'[i].status = "Pending" <=> i = governance'.active_proposal_id
  BY <1>1, <1>2, <1>4, <1>5 DEF Inv, OneOpenProposal
<1>7. /\ Numbering'
      /\ OneOpenProposal'
      /\ proposal' \in [Ids -> Proposal]
      /\ \A i \in Ids : Sound(proposal[i])'
  BY <1>1, <1>3, <1>4, <1>6, OneProposalInv
<1>8. StateTypes'
  BY <1>1, <1>4, <1>7 DEF Inv, StateTypes
<1> QED
  BY <1>7, <1>8 DEF Inv

LEMMA MintInv ==
  ASSUME Inv, NEW id \in Ids, NEW t \in TokenAccounts, GovernanceMint(id, t)
  PROVE  Inv'
<1> DEFINE p == [proposal[id] EXCEPT !.status = "Executed", !.executed_at = now]
<1>1. /\ Executable(proposal[id])
      /\ supply + proposal[id].amount_atomic <= MaxSupply
      /\ supply' = supply + proposal[id].amount_atomic
      /\ received' = [received EXCEPT ![t] = @ + proposal[id].amount_atomic]
      /\ UNCHANGED <<governance, now>>
  BY DEF GovernanceMint
<1>2. /\ proposal \in [Ids -> Proposal]
      /\ Sound(proposal[id])
      /\ supply \in Nat /\ now \in Nat
      /\ received \in [TokenAccounts -> Nat]
      /\ governance \in GovernanceState
  BY DEF Inv, StateTypes
<1>3. proposal' = [proposal EXCEPT ![id] = p]
  BY <1>2 DEF GovernanceMint
<1>4. Sound(p)
  BY <1>1, <1>2, ExecutedIsSound
<1>5. p.status = "Executed" /\ proposal[id].status = "Approved"
  BY <1>1, <1>2 DEF Executable, Proposal
<1> HIDE DEF p
<1>6. \A i \in Ids : proposal'[i].status = "Pending" <=> i = governance'.active_proposal_id
  BY <1>1, <1>2, <1>3, <1>5 DEF Inv, OneOpenProposal
<1>7. /\ Numbering'
      /\ OneOpenProposal'
      /\ proposal' \in [Ids -> Proposal]
      /\ \A i \in Ids : Sound(proposal[i])'
  BY <1>1, <1>2, <1>3, <1>4, <1>5, <1>6, OneProposalInv
<1>8. proposal[id].amount_atomic \in Nat
  BY <1>2 DEF Proposal
<1>9. received' \in [TokenAccounts -> Nat]
  BY <1>1, <1>2, <1>8
<1>10. StateTypes'
  BY <1>1, <1>2, <1>7, <1>8, <1>9 DEF StateTypes
<1> QED
  BY <1>7, <1>10 DEF Inv

\* Neither the clock nor the rest of the program touches governance.
LEMMA EnvironmentInv ==
  ASSUME Inv, OtherSupplyChange \/ Tick \/ UNCHANGED vars
  PROVE  Inv'
<1>1. UNCHANGED <<governance, proposal, received>>
  BY DEF OtherSupplyChange, Tick, vars
<1>2. now' \in Nat
  BY DEF Inv, StateTypes, OtherSupplyChange, Tick, vars
<1>3. supply' \in Nat
  BY GovernanceAssumption
     DEF Inv, StateTypes, OtherSupplyChange, Tick, vars
<1>4. StateTypes' /\ Numbering' /\ OneOpenProposal'
  BY <1>1, <1>2, <1>3 DEF Inv, StateTypes, Numbering, OneOpenProposal
<1>5. \A i \in Ids : Sound(proposal[i])'
  BY <1>1 DEF Inv
<1> QED
  BY <1>4, <1>5 DEF Inv

LEMMA NextInv == Inv /\ [Next]_vars => Inv'
<1> SUFFICES ASSUME Inv, [Next]_vars PROVE Inv'
  OBVIOUS
<1>1. CASE \E ms \in MemberLists : InitializeGovernance(ms)
  BY <1>1, InitializeInv
<1>2. CASE \E w \in Wallets, ms \in MemberLists : UpdateMembers(w, ms)
  BY <1>2, RolesInv
<1>3. CASE \E w, new \in Wallets : SetGovernanceAuthority(w, new)
  BY <1>3, RolesInv
<1>4. CASE \E w \in Wallets, amount \in Amounts : CreateProposal(w, amount)
  BY <1>4, CreateInv
<1>5. CASE \E w \in Wallets, id \in Ids, yes \in BOOLEAN : Vote(w, id, yes)
  BY <1>5, VoteInv
<1>6. CASE \E id \in Ids, t \in TokenAccounts : GovernanceMint(id, t)
  BY <1>6, MintInv
<1>7. CASE OtherSupplyChange \/ Tick \/ UNCHANGED vars
  BY <1>7, EnvironmentInv
<1> QED
  BY <1>1, <1>2, <1>3, <1>4, <1>5, <1>6, <1>7 DEF Next
-----------------------------------------------------------------------------
(* What was minted and what was executed.                                  *)

LEMMA PayoutsStart == Init => PayoutsMatchExecutions
<1> SUFFICES ASSUME Init, NEW w \in Wallets
             PROVE  Total(ReceivedBy(w), TokenAccounts) = Total(ExecutedFor(w), Ids)
  BY DEF PayoutsMatchExecutions
<1>1. \A t \in TokenAccounts : ReceivedBy(w)[t] = 0
  BY DEF Init, ReceivedBy
<1>2. \A id \in Ids : ExecutedFor(w)[id] = 0
  BY DEF Init, NoProposal, ExecutedFor
<1>3. IsFiniteSet(Ids)
  BY FS_Interval, GovernanceAssumption DEF Ids
<1>4. IsFiniteSet(TokenAccounts)
  BY GovernanceAssumption
<1> HIDE DEF ReceivedBy, ExecutedFor
<1>5. Total(ReceivedBy(w), TokenAccounts) = 0
  BY <1>1, <1>4, SumOfZeros
<1>6. Total(ExecutedFor(w), Ids) = 0
  BY <1>2, <1>3, SumOfZeros
<1> QED
  BY <1>5, <1>6

\* The one action that executes pays: the same amount enters both sums, or neither.
LEMMA MintKeepsPayouts ==
  ASSUME Inv, PayoutsMatchExecutions, NEW id \in Ids, NEW t \in TokenAccounts,
         GovernanceMint(id, t)
  PROVE  PayoutsMatchExecutions'
<1> SUFFICES ASSUME NEW w \in Wallets
             PROVE  Total(ReceivedBy(w)', TokenAccounts) = Total(ExecutedFor(w)', Ids)
  BY DEF PayoutsMatchExecutions
<1> DEFINE n   == IF Owner[t] = w THEN proposal[id].amount_atomic ELSE 0
           r   == ReceivedBy(w)
           rr  == ReceivedBy(w)'
           x   == ExecutedFor(w)
           xx  == ExecutedFor(w)'
<1>1. /\ proposal \in [Ids -> Proposal]
      /\ received \in [TokenAccounts -> Nat]
      /\ IsFiniteSet(TokenAccounts) /\ IsFiniteSet(Ids)
  <2>1. IsFiniteSet(Ids)
    BY FS_Interval, GovernanceAssumption DEF Ids
  <2> QED
    BY <2>1, GovernanceAssumption DEF Inv, StateTypes
<1>2. /\ proposal[id].status = "Approved"
      /\ Owner[t] = proposal[id].proposer
      /\ received' = [received EXCEPT ![t] = @ + proposal[id].amount_atomic]
      /\ proposal' = [proposal EXCEPT ![id].status = "Executed", ![id].executed_at = now]
  BY DEF GovernanceMint, Executable
<1>3. proposal[id] \in Proposal /\ proposal[id].amount_atomic \in Nat
  BY <1>1 DEF Proposal
<1>4. n \in Int
  BY <1>3
<1>5. Grown(r, rr, TokenAccounts, t, n) /\ Whole(r, TokenAccounts)
  <2>1. \A a \in TokenAccounts \ {t} : rr[a] = r[a]
    BY <1>1, <1>2 DEF ReceivedBy
  <2>2. rr[t] = r[t] + n
    BY <1>1, <1>2, <1>3 DEF ReceivedBy
  <2>3. Whole(r, TokenAccounts)
    BY <1>1 DEF ReceivedBy, Whole
  <2> QED
    BY <2>1, <2>2, <2>3 DEF Grown
<1>6. Grown(x, xx, Ids, id, n) /\ Whole(x, Ids)
  <2>1. \A i \in Ids \ {id} : xx[i] = x[i]
    BY <1>1, <1>2 DEF ExecutedFor
  <2>2. x[id] = 0
    BY <1>2 DEF ExecutedFor
  <2>3. /\ proposal'[id].status = "Executed"
        /\ proposal'[id].proposer = proposal[id].proposer
        /\ proposal'[id].amount_atomic = proposal[id].amount_atomic
    BY <1>1, <1>2, <1>3 DEF Proposal
  <2>4. xx[id] = n
    BY <1>2, <2>3 DEF ExecutedFor
  <2>5. Whole(x, Ids)
    <3>1. \A i \in Ids : proposal[i].amount_atomic \in Nat
      BY <1>1 DEF Proposal
    <3> QED
      BY <3>1 DEF ExecutedFor, Whole
  <2> QED
    BY <1>4, <2>1, <2>2, <2>4, <2>5 DEF Grown
<1>7. Total(r, TokenAccounts) = Total(x, Ids)
  BY DEF PayoutsMatchExecutions
<1> HIDE DEF n, r, rr, x, xx
<1>8. Total(rr, TokenAccounts) = Total(r, TokenAccounts) + n
  BY <1>1, <1>4, <1>5, SumGrows
<1>9. Total(xx, Ids) = Total(x, Ids) + n
  BY <1>1, <1>4, <1>6, SumGrows
<1> QED
  BY <1>7, <1>8, <1>9 DEF rr, xx

\* No other action executes a proposal or touches an executed one.
LEMMA OthersKeepExecutions ==
  ASSUME Inv, [Next]_vars, \A i \in Ids, t \in TokenAccounts : ~GovernanceMint(i, t)
  PROVE  /\ received' = received
         /\ \A id \in Ids : \/ proposal'[id] = proposal[id]
                           \/ /\ proposal[id].status # "Executed"
                              /\ proposal'[id].status # "Executed"
<1>1. proposal \in [Ids -> Proposal] /\ governance \in GovernanceState /\ now \in Nat
  BY DEF Inv, StateTypes
<1>2. ASSUME NEW w \in Wallets, NEW amount \in Amounts, CreateProposal(w, amount)
      PROVE  /\ received' = received
             /\ \A id \in Ids : \/ proposal'[id] = proposal[id]
                               \/ /\ proposal[id].status # "Executed"
                                  /\ proposal'[id].status # "Executed"
  <2> DEFINE new  == governance.proposal_count + 1
             open == governance.active_proposal_id
  <2>1. new \in Ids /\ proposal[new].status = "None"
    BY <1>1, <1>2 DEF Inv, Numbering, GovernanceState, CreateProposal
  <2>2. /\ received' = received
        /\ proposal' = [i \in Ids |->
                          IF i = new THEN NewProposal(w, amount)
                          ELSE IF i = open THEN [proposal[i] EXCEPT !.status = "Cancelled"]
                          ELSE proposal[i]]
    BY <1>2 DEF CreateProposal
  <2>3. NewProposal(w, amount).status = "Pending"
    BY DEF NewProposal, NoProposal
  <2>4. ASSUME NEW id \in Ids, id = open, id # new
        PROVE  /\ proposal[id].status = "Pending"
               /\ [proposal[id] EXCEPT !.status = "Cancelled"].status = "Cancelled"
    BY <1>1, <2>4 DEF Inv, OneOpenProposal, Proposal
  <2> HIDE DEF new, open
  <2> QED
    BY <2>1, <2>2, <2>3, <2>4
<1>3. ASSUME NEW w \in Wallets, NEW i \in Ids, NEW yes \in BOOLEAN, Vote(w, i, yes)
      PROVE  /\ received' = received
             /\ \A id \in Ids : \/ proposal'[id] = proposal[id]
                               \/ /\ proposal[id].status # "Executed"
                                  /\ proposal'[id].status # "Executed"
  <2> DEFINE p == Decided(Counted(proposal[i], w, yes))
  <2>1. /\ proposal[i].status = "Pending" /\ w \notin proposal[i].voted_members
        /\ proposal' = [proposal EXCEPT ![i] = p]
        /\ received' = received
    BY <1>3 DEF Vote
  <2>2. Sound(proposal[i])
    BY DEF Inv
  <2>3. p.status \in {"Pending", "Approved", "Rejected"}
    BY <1>1, <2>1, <2>2, VotedIsSound
  <2> HIDE DEF p
  <2> QED
    BY <1>1, <2>1, <2>3
<1> QED
  BY <1>2, <1>3
     DEF Next, vars, InitializeGovernance, UpdateMembers, SetGovernanceAuthority,
         OtherSupplyChange, Tick

LEMMA PayoutsStep ==
  ASSUME Inv, PayoutsMatchExecutions, [Next]_vars
  PROVE  PayoutsMatchExecutions'
<1>1. CASE \E i \in Ids, t \in TokenAccounts : GovernanceMint(i, t)
  BY <1>1, MintKeepsPayouts
<1>2. CASE \A i \in Ids, t \in TokenAccounts : ~GovernanceMint(i, t)
  <2>1. /\ received' = received
        /\ \A id \in Ids : \/ proposal'[id] = proposal[id]
                          \/ /\ proposal[id].status # "Executed"
                             /\ proposal'[id].status # "Executed"
    BY <1>2, OthersKeepExecutions
  <2>2. ASSUME NEW w \in Wallets
        PROVE  ReceivedBy(w)' = ReceivedBy(w) /\ ExecutedFor(w)' = ExecutedFor(w)
    BY <2>1 DEF ReceivedBy, ExecutedFor
  <2> QED
    BY <2>2 DEF PayoutsMatchExecutions
<1> QED
  BY <1>1, <1>2
-----------------------------------------------------------------------------
(* The theorems.                                                           *)

THEOREM GovernanceInvariant == Spec => []Inv
  BY InitInv, NextInv, PTL DEF Spec

\* Every reachable state has its types, and voters never outgrow their account.
THEOREM GovernanceTypeCorrect == Spec => []TypeOK
<1>1. Inv => TypeOK
  BY DEF Inv, StateTypes, TypeOK, Sound
<1> QED
  BY <1>1, GovernanceInvariant, PTL

\* The open proposal is unique and is the one that can be voted on and cancelled.
THEOREM ProposalIsUnique == Spec => []OneOpenProposal
<1>1. Inv => OneOpenProposal
  BY DEF Inv
<1> QED
  BY <1>1, GovernanceInvariant, PTL

\* Votes are distinct wallets under any change of members, and stop at the decision.
THEOREM VotingIsSound == Spec => []VotesAreDistinct
<1>1. Inv => VotesAreDistinct
  BY DEF Inv, Sound, VotesAreDistinct
<1> QED
  BY <1>1, GovernanceInvariant, PTL

\* Whatever is approved or executed had its majority.
THEOREM ApprovalIsMajority == Spec => []ApprovalHasMajority
<1>1. Inv => ApprovalHasMajority
  BY DEF Inv, Sound, ApprovalHasMajority
<1> QED
  BY <1>1, GovernanceInvariant, PTL

\* No emission before its timelock.
THEOREM TimelockHolds == Spec => []TimelockIsRespected
<1>1. Inv => TimelockIsRespected
  BY DEF Inv, Sound, TimelockIsRespected
<1> QED
  BY <1>1, GovernanceInvariant, PTL

\* Every wallet was minted exactly what its executed proposals ask for.
THEOREM PayoutsHold == Spec => []PayoutsMatchExecutions
<1>1. Inv /\ PayoutsMatchExecutions /\ [Next]_vars => PayoutsMatchExecutions'
  BY PayoutsStep
<1> QED
  BY <1>1, PayoutsStart, GovernanceInvariant, PTL DEF Spec

\* A closed proposal is frozen, an approved one apart, that may be executed.
THEOREM ClosingIsFinal == Spec => ClosedIsFinal
<1>1. ASSUME Inv, [Next]_vars
      PROVE  [\A id \in Ids : ClosedStays(id)]_vars
  <2> SUFFICES ASSUME NEW id \in Ids, proposal[id].status \notin {"None", "Pending"}
               PROVE  \/ proposal'[id] = proposal[id]
                      \/ /\ proposal[id].status = "Approved"
                         /\ proposal'[id] = [proposal[id] EXCEPT !.status = "Executed",
                                                                 !.executed_at = now]
    BY DEF ClosedStays
  <2>1. proposal \in [Ids -> Proposal]
    BY <1>1 DEF Inv, StateTypes
  <2>2. CASE UNCHANGED proposal
    BY <2>2
  <2>3. ASSUME NEW w \in Wallets, NEW amount \in Amounts, CreateProposal(w, amount)
        PROVE  proposal'[id] = proposal[id]
    <3>1. governance.proposal_count \in Nat /\ governance.proposal_count + 1 \in Ids
      BY <1>1, <2>3 DEF Inv, StateTypes, GovernanceState, CreateProposal
    <3>2. id # governance.proposal_count + 1
      BY <1>1, <3>1 DEF Inv, Numbering
    <3>3. id # governance.active_proposal_id
      BY <1>1 DEF Inv, OneOpenProposal
    <3> QED
      BY <2>3, <3>2, <3>3 DEF CreateProposal
  <2>4. ASSUME NEW w \in Wallets, NEW i \in Ids, NEW yes \in BOOLEAN, Vote(w, i, yes)
        PROVE  proposal'[id] = proposal[id]
    <3>1. i # id
      BY <2>4 DEF Vote
    <3> QED
      BY <2>1, <2>4, <3>1 DEF Vote
  <2>5. ASSUME NEW i \in Ids, NEW t \in TokenAccounts, GovernanceMint(i, t)
        PROVE  \/ proposal'[id] = proposal[id]
               \/ /\ proposal[id].status = "Approved"
                  /\ proposal'[id] = [proposal[id] EXCEPT !.status = "Executed",
                                                          !.executed_at = now]
    BY <2>1, <2>5 DEF GovernanceMint, Executable
  <2> QED
    BY <1>1, <2>2, <2>3, <2>4, <2>5
       DEF Next, vars, InitializeGovernance, UpdateMembers, SetGovernanceAuthority,
           OtherSupplyChange, Tick
<1> QED
  BY <1>1, GovernanceInvariant, PTL DEF Spec, ClosedIsFinal
-----------------------------------------------------------------------------
(* Governance implements EmissionPromise: every action is one step of the  *)
(* promise, or none.                                                       *)

GrantView == [id \in Ids |-> GrantOf(proposal[id])]

PaidView == [w \in Wallets |-> PaidTo(w)]

\* Counting is the same in both modules.
LEMMA SameCount == \A S : Promise!Cardinality(S) = Cardinality(S)
BY DEF Cardinality, Promise!Cardinality

\* A grant shows the fields of its proposal; two closed statuses look alike.
LEMMA GrantShows ==
  ASSUME NEW p
  PROVE  /\ GrantOf(p).stage = IF p.status \in {"Rejected", "Cancelled"} THEN "Closed"
                               ELSE p.status
         /\ GrantOf(p).to = p.proposer
         /\ GrantOf(p).amount = p.amount_atomic
         /\ GrantOf(p).electorate = p.member_snapshot_count
         /\ GrantOf(p).voters = p.voted_members
         /\ GrantOf(p).favour = p.yes_votes
         /\ GrantOf(p).since = p.approved_at
BY DEF GrantOf

LEMMA NothingPaid ==
  ASSUME Init, NEW w \in Wallets
  PROVE  PaidTo(w) = 0
<1>1. \A t \in TokenAccounts : ReceivedBy(w)[t] = 0
  BY DEF Init, ReceivedBy
<1>2. IsFiniteSet(TokenAccounts)
  BY GovernanceAssumption
<1> HIDE DEF ReceivedBy
<1> QED
  BY <1>1, <1>2, SumOfZeros DEF PaidTo

LEMMA PromiseStarts == Init => Promise!PromiseInit
<1> SUFFICES ASSUME Init PROVE Promise!PromiseInit
  OBVIOUS
<1>1. GrantOf(NoProposal) = Promise!Blank
  BY DEF GrantOf, NoProposal, Promise!Blank
<1>2. GrantView = [g \in Ids |-> Promise!Blank]
  BY <1>1 DEF Init, GrantView
<1>3. PaidView = [w \in Wallets |-> 0]
  BY NothingPaid DEF PaidView
<1> QED
  BY <1>2, <1>3 DEF Init, Promise!PromiseInit, GrantView, PaidView

\* What the other actions leave alone.
LEMMA NothingReceived ==
  ASSUME received' = received
  PROVE  PaidView' = PaidView
BY DEF PaidView, PaidTo, ReceivedBy

\* A grant, field by field, and what changes in it.
Grant(stage, to, amount, electorate, voters, favour, since) ==
  [stage |-> stage, to |-> to, amount |-> amount, electorate |-> electorate,
   voters |-> voters, favour |-> favour, since |-> since]

LEMMA GrantOfShown ==
  ASSUME NEW p, p.status \notin {"Rejected", "Cancelled"}
  PROVE  GrantOf(p) = Grant(p.status, p.proposer, p.amount_atomic, p.member_snapshot_count,
                            p.voted_members, p.yes_votes, p.approved_at)
BY DEF GrantOf, Grant

LEMMA GrantOfClosed ==
  ASSUME NEW p, p.status \in {"Rejected", "Cancelled"}
  PROVE  GrantOf(p) = Grant("Closed", p.proposer, p.amount_atomic, p.member_snapshot_count,
                            p.voted_members, p.yes_votes, p.approved_at)
BY DEF GrantOf, Grant

\* What the promise says of a grant that is asked for.
Asked(w, a, n) ==
  [Promise!Blank EXCEPT !.stage = "Pending", !.to = w, !.amount = a, !.electorate = n]

AskedView(g, w, a, n, lapsed) ==
  [x \in Ids |-> IF x = g THEN Asked(w, a, n)
                 ELSE IF x \in lapsed THEN [GrantView[x] EXCEPT !.stage = "Closed"]
                 ELSE GrantView[x]]

LEMMA NewProposalAsks ==
  ASSUME NEW w \in Wallets, NEW amount \in Amounts
  PROVE  GrantOf(NewProposal(w, amount)) = Asked(w, amount, Cardinality(governance.members))
<1> DEFINE p == NewProposal(w, amount)
           n == Cardinality(governance.members)
<1> HIDE DEF n
<1>1. /\ p.status = "Pending" /\ p.proposer = w /\ p.amount_atomic = amount
      /\ p.member_snapshot_count = n /\ p.voted_members = {} /\ p.yes_votes = 0
      /\ p.approved_at = 0
  BY DEF NewProposal, NoProposal, n
<1> HIDE DEF p
<1>2. GrantOf(p) = Grant("Pending", w, amount, n, {}, 0, 0)
  BY <1>1, GrantOfShown
<1>3. Asked(w, amount, n) = Grant("Pending", w, amount, n, {}, 0, 0)
  <2>1. Promise!Blank = Grant("None", NoWallet, 0, 0, {}, 0, 0)
    BY DEF Promise!Blank, Grant
  <2>2. [Grant("None", NoWallet, 0, 0, {}, 0, 0) EXCEPT !.stage = "Pending"]
          = Grant("Pending", NoWallet, 0, 0, {}, 0, 0)
    BY DEF Grant
  <2>3. [Grant("Pending", NoWallet, 0, 0, {}, 0, 0) EXCEPT !.to = w]
          = Grant("Pending", w, 0, 0, {}, 0, 0)
    BY DEF Grant
  <2>4. [Grant("Pending", w, 0, 0, {}, 0, 0) EXCEPT !.amount = amount]
          = Grant("Pending", w, amount, 0, {}, 0, 0)
    BY DEF Grant
  <2>5. [Grant("Pending", w, amount, 0, {}, 0, 0) EXCEPT !.electorate = n]
          = Grant("Pending", w, amount, n, {}, 0, 0)
    BY DEF Grant
  <2> QED
    BY <2>1, <2>2, <2>3, <2>4, <2>5 DEF Asked
<1> QED
  BY <1>2, <1>3 DEF p, n

LEMMA CancelledCloses ==
  ASSUME NEW p \in Proposal
  PROVE  GrantOf([p EXCEPT !.status = "Cancelled"]) = [GrantOf(p) EXCEPT !.stage = "Closed"]
BY DEF GrantOf, Proposal

LEMMA CreateAsks ==
  ASSUME Inv, NEW w \in Wallets, NEW amount \in Amounts, CreateProposal(w, amount)
  PROVE  Promise!PromiseNext
<1> DEFINE new    == governance.proposal_count + 1
           open   == governance.active_proposal_id
           n      == Cardinality(governance.members)
           lapsed == IF open \in Ids THEN {open} ELSE {}
           p      == NewProposal(w, amount)
<1>1. /\ proposal \in [Ids -> Proposal]
      /\ governance \in GovernanceState
      /\ governance.authority = w /\ w # NoWallet
      /\ new \in Ids
      /\ UNCHANGED <<received, now>>
  BY GovernanceAssumption DEF Inv, StateTypes, CreateProposal
<1>2. governance.members \in MemberLists
  BY <1>1 DEF Inv, Numbering
<1>3. n \in GOVERNANCE_MIN_MEMBERS .. GOVERNANCE_MEMBER_MAX
  BY <1>2 DEF MemberLists
<1>4. proposal[new].status = "None"
  BY <1>1 DEF Inv, Numbering, GovernanceState
<1>5. open \in Ids => proposal[open].status = "Pending"
  BY DEF Inv, OneOpenProposal
<1>6. proposal' = [i \in Ids |->
                     IF i = new THEN p
                     ELSE IF i = open THEN [proposal[i] EXCEPT !.status = "Cancelled"]
                     ELSE proposal[i]]
  BY DEF CreateProposal
<1>7. GrantOf(p) = Asked(w, amount, n)
  BY NewProposalAsks
<1> HIDE DEF p, new, n
<1>8. GrantView[new].stage = "None"
  BY <1>1, <1>4, GrantShows DEF GrantView
<1>9. lapsed \in SUBSET {x \in Ids : GrantView[x].stage = "Pending"}
  BY <1>5, GrantShows DEF GrantView
<1>10. GrantView' = AskedView(new, w, amount, n, lapsed)
  <2>1. ASSUME NEW x \in Ids
        PROVE  GrantOf(proposal'[x]) =
                 IF x = new THEN Asked(w, amount, n)
                 ELSE IF x \in lapsed THEN [GrantView[x] EXCEPT !.stage = "Closed"]
                 ELSE GrantView[x]
    <3>1. CASE x = new
      BY <1>6, <1>7, <3>1
    <3>2. CASE x # new /\ x = open
      <4>1. proposal'[x] = [proposal[x] EXCEPT !.status = "Cancelled"]
        BY <1>6, <3>2
      <4>2. proposal[x] \in Proposal
        BY <1>1
      <4>3. x \in lapsed
        BY <3>2
      <4> QED
        BY <3>2, <4>1, <4>2, <4>3, CancelledCloses DEF GrantView
    <3>3. CASE x # new /\ x # open
      BY <1>6, <3>3 DEF GrantView
    <3> QED
      BY <3>1, <3>2, <3>3
  <2>2. GrantView' = [x \in Ids |-> GrantOf(proposal'[x])]
    BY DEF GrantView
  <2> HIDE DEF lapsed
  <2> QED
    BY <2>1, <2>2 DEF AskedView
<1>11. PaidView' = PaidView
  BY <1>1, NothingReceived
<1> HIDE DEF lapsed
<1>12. \E ww \in Wallets, a \in Amounts, m \in GOVERNANCE_MIN_MEMBERS .. GOVERNANCE_MEMBER_MAX,
          l \in SUBSET {x \in Ids : GrantView[x].stage = "Pending"} :
         GrantView' = AskedView(new, ww, a, m, l)
  BY <1>3, <1>9, <1>10
<1>13. Promise!Ask(new)
  BY <1>1, <1>8, <1>11, <1>12 DEF Promise!Ask, Asked, AskedView, GrantView, PaidView
<1> QED
  BY <1>1, <1>13 DEF Promise!PromiseNext

\* The quorum of the code, in votes, is the majority of the promise, in voters.
LEMMA QuorumCarries ==
  ASSUME NEW p \in Proposal, p.yes_votes + p.no_votes = Cardinality(p.voted_members)
  PROVE  /\ QuorumMet(p) <=> Promise!Carried(GrantOf(p))
         /\ AllVoted(p) <=> Promise!Full(GrantOf(p))
<1>1. p.yes_votes \in Nat /\ p.no_votes \in Nat /\ p.member_snapshot_count \in Nat
  BY DEF Proposal
<1> DEFINE s == p.member_snapshot_count
           y == p.yes_votes
           n == p.no_votes
<1> HIDE DEF s, y, n
<1>2. y > n /\ y + n > s \div 2 <=> 2 * (y + n) > s /\ 2 * y > y + n
  BY <1>1 DEF s, y, n
<1>3. Promise!Carried(GrantOf(p)) <=> 2 * (y + n) > s /\ 2 * y > y + n
  BY GrantShows, SameCount DEF Promise!Carried, s, y, n
<1>4. QuorumMet(p) <=> y > n /\ y + n > s \div 2
  BY DEF QuorumMet, s, y, n
<1>5. AllVoted(p) <=> Promise!Full(GrantOf(p))
  BY GrantShows, SameCount DEF AllVoted, Promise!Full
<1> QED
  BY <1>2, <1>3, <1>4, <1>5

LEMMA CountedIsBallot ==
  ASSUME NEW p \in Proposal, p.status = "Pending", NEW w \in Wallets, NEW yes \in BOOLEAN
  PROVE  GrantOf(Counted(p, w, yes)) = Promise!Cast(GrantOf(p), w, yes)
<1> DEFINE q == Counted(p, w, yes)
           v == p.voted_members \cup {w}
           f == IF yes THEN p.yes_votes + 1 ELSE p.yes_votes
<1>1. /\ q.status = p.status /\ q.proposer = p.proposer
      /\ q.amount_atomic = p.amount_atomic
      /\ q.member_snapshot_count = p.member_snapshot_count
      /\ q.voted_members = v
      /\ q.yes_votes = f
      /\ q.approved_at = p.approved_at
  BY DEF Counted, Proposal
<1> HIDE DEF q
<1>2. GrantOf(q) = Grant("Pending", p.proposer, p.amount_atomic, p.member_snapshot_count,
                         v, f, p.approved_at)
  BY <1>1, GrantOfShown
<1>3. GrantOf(p) = Grant("Pending", p.proposer, p.amount_atomic, p.member_snapshot_count,
                         p.voted_members, p.yes_votes, p.approved_at)
  BY GrantOfShown
<1>4. GrantOf(p).voters \cup {w} = v
  BY GrantShows
<1>5. (IF yes THEN GrantOf(p).favour + 1 ELSE GrantOf(p).favour) = f
  BY GrantShows
<1> HIDE DEF v, f
<1>6. [Grant("Pending", p.proposer, p.amount_atomic, p.member_snapshot_count,
             p.voted_members, p.yes_votes, p.approved_at) EXCEPT !.voters = v]
        = Grant("Pending", p.proposer, p.amount_atomic, p.member_snapshot_count,
                v, p.yes_votes, p.approved_at)
  BY DEF Grant
<1>7. [Grant("Pending", p.proposer, p.amount_atomic, p.member_snapshot_count,
             v, p.yes_votes, p.approved_at) EXCEPT !.favour = f]
        = Grant("Pending", p.proposer, p.amount_atomic, p.member_snapshot_count,
                v, f, p.approved_at)
  BY DEF Grant
<1>8. [GrantOf(p) EXCEPT !.voters = v].favour = GrantOf(p).favour
  BY <1>3 DEF Grant
<1>9. [[GrantOf(p) EXCEPT !.voters = v] EXCEPT !.favour = f] = GrantOf(q)
  BY <1>2, <1>3, <1>6, <1>7
<1>10. Promise!Cast(GrantOf(p), w, yes)
         = [[GrantOf(p) EXCEPT !.voters = v] EXCEPT !.favour = f]
  BY <1>4, <1>5, <1>8 DEF Promise!Cast
<1> QED
  BY <1>9, <1>10 DEF q

LEMMA DecidedIsOutcome ==
  ASSUME NEW q \in Proposal, q.status = "Pending",
         q.yes_votes + q.no_votes = Cardinality(q.voted_members)
  PROVE  GrantOf(Decided(q)) = Promise!Outcome(GrantOf(q))
<1>1. /\ QuorumMet(q) <=> Promise!Carried(GrantOf(q))
      /\ AllVoted(q) <=> Promise!Full(GrantOf(q))
  BY QuorumCarries
<1>2. CASE QuorumMet(q)
  <2> DEFINE r == [q EXCEPT !.status = "Approved", !.approved_at = now]
  <2>1. /\ r.status = "Approved" /\ r.proposer = q.proposer
        /\ r.amount_atomic = q.amount_atomic
        /\ r.member_snapshot_count = q.member_snapshot_count
        /\ r.voted_members = q.voted_members /\ r.yes_votes = q.yes_votes
        /\ r.approved_at = now
    BY DEF Proposal
  <2> HIDE DEF r
  <2>2. GrantOf(r) = Grant("Approved", q.proposer, q.amount_atomic, q.member_snapshot_count,
                           q.voted_members, q.yes_votes, now)
    BY <2>1, GrantOfShown
  <2>3. GrantOf(q) = Grant("Pending", q.proposer, q.amount_atomic, q.member_snapshot_count,
                           q.voted_members, q.yes_votes, q.approved_at)
    BY GrantOfShown
  <2>4. [Grant("Pending", q.proposer, q.amount_atomic, q.member_snapshot_count,
               q.voted_members, q.yes_votes, q.approved_at) EXCEPT !.stage = "Approved"]
          = Grant("Approved", q.proposer, q.amount_atomic, q.member_snapshot_count,
                  q.voted_members, q.yes_votes, q.approved_at)
    BY DEF Grant
  <2>5. [Grant("Approved", q.proposer, q.amount_atomic, q.member_snapshot_count,
               q.voted_members, q.yes_votes, q.approved_at) EXCEPT !.since = now]
          = Grant("Approved", q.proposer, q.amount_atomic, q.member_snapshot_count,
                  q.voted_members, q.yes_votes, now)
    BY DEF Grant
  <2>6. [[GrantOf(q) EXCEPT !.stage = "Approved"] EXCEPT !.since = now] = GrantOf(r)
    BY <2>2, <2>3, <2>4, <2>5
  <2> QED
    BY <1>1, <1>2, <2>6 DEF Decided, Promise!Outcome, r
<1>3. CASE ~QuorumMet(q) /\ AllVoted(q)
  <2>1. GrantOf([q EXCEPT !.status = "Rejected"]) = [GrantOf(q) EXCEPT !.stage = "Closed"]
    BY DEF GrantOf, Proposal
  <2> QED
    BY <1>1, <1>3, <2>1 DEF Decided, Promise!Outcome
<1>4. CASE ~QuorumMet(q) /\ ~AllVoted(q)
  BY <1>1, <1>4 DEF Decided, Promise!Outcome
<1> QED
  BY <1>2, <1>3, <1>4

LEMMA VoteIsBallot ==
  ASSUME Inv, NEW w \in Wallets, NEW id \in Ids, NEW yes \in BOOLEAN, Vote(w, id, yes)
  PROVE  Promise!Ballot(id)
<1> DEFINE p == proposal[id]
           q == Counted(p, w, yes)
<1>1. /\ proposal \in [Ids -> Proposal]
      /\ Sound(p)
      /\ p.status = "Pending"
      /\ w \in Wallets \ p.voted_members
      /\ proposal' = [proposal EXCEPT ![id] = Decided(q)]
      /\ UNCHANGED <<received, now>>
  BY DEF Inv, StateTypes, Vote
<1> HIDE DEF p
<1>2. /\ q \in Proposal /\ q.status = "Pending"
      /\ q.yes_votes + q.no_votes = Cardinality(q.voted_members)
  BY <1>1, CountedIsOneMore
<1>3. p \in Proposal
  BY <1>1 DEF p
<1>4. GrantOf(q) = Promise!Cast(GrantOf(p), w, yes)
  BY <1>1, <1>3, CountedIsBallot
<1> HIDE DEF q
<1>5. GrantOf(Decided(q)) = Promise!Outcome(GrantOf(q))
  BY <1>2, DecidedIsOutcome
<1>6. GrantView[id] = GrantOf(p)
  BY DEF GrantView, p
<1>7. GrantView[id].stage = "Pending" /\ w \in Wallets \ GrantView[id].voters
  BY <1>1, <1>6, GrantShows
<1>8. GrantView' = [GrantView EXCEPT ![id] = GrantOf(Decided(q))]
  BY <1>1 DEF GrantView
<1>9. \E ww \in Wallets \ GrantView[id].voters, y \in BOOLEAN :
        GrantView' = [GrantView EXCEPT ![id] = Promise!Outcome(Promise!Cast(GrantView[id], ww, y))]
  BY <1>4, <1>5, <1>6, <1>7, <1>8
<1>10. PaidView' = PaidView
  BY <1>1, NothingReceived
<1> QED
  BY <1>1, <1>7, <1>9, <1>10 DEF Promise!Ballot, GrantView, PaidView

\* What an execution adds to the payments is the amount, to the wallet that asked.
LEMMA MintPays ==
  ASSUME Inv, NEW id \in Ids, NEW t \in TokenAccounts, GovernanceMint(id, t)
  PROVE  PaidView' = [PaidView EXCEPT ![proposal[id].proposer] =
                        @ + proposal[id].amount_atomic]
<1> DEFINE a == proposal[id].amount_atomic
           o == proposal[id].proposer
<1>1. /\ proposal \in [Ids -> Proposal]
      /\ received \in [TokenAccounts -> Nat]
      /\ IsFiniteSet(TokenAccounts)
      /\ Owner \in [TokenAccounts -> Wallets]
  BY GovernanceAssumption DEF Inv, StateTypes
<1>2. /\ Owner[t] = o
      /\ received' = [received EXCEPT ![t] = @ + a]
      /\ a \in Nat
  BY <1>1 DEF GovernanceMint, Proposal
<1> HIDE DEF a, o
<1>3. ASSUME NEW w \in Wallets
      PROVE  PaidTo(w)' = IF w = o THEN PaidTo(w) + a ELSE PaidTo(w)
  <2> DEFINE n  == IF w = o THEN a ELSE 0
             r  == ReceivedBy(w)
             rr == ReceivedBy(w)'
  <2>1. n \in Int
    BY <1>2
  <2>2. \A b \in TokenAccounts \ {t} : rr[b] = r[b]
    BY <1>1, <1>2 DEF ReceivedBy
  <2>3. rr[t] = r[t] + n
    BY <1>1, <1>2 DEF ReceivedBy
  <2>4. Grown(r, rr, TokenAccounts, t, n) /\ Whole(r, TokenAccounts)
    BY <1>1, <2>2, <2>3 DEF Grown, Whole, ReceivedBy
  <2> HIDE DEF n, r, rr
  <2>5. Total(r, TokenAccounts) \in Int /\ Total(rr, TokenAccounts) = Total(r, TokenAccounts) + n
    BY <1>1, <2>1, <2>4, SumGrows
  <2>6. PaidTo(w)' = PaidTo(w) + n /\ PaidTo(w) \in Int
    BY <2>5 DEF PaidTo, r, rr
  <2> QED
    BY <2>6 DEF n
<1>4. o \in Wallets
  BY <1>1, <1>2
<1>5. PaidView' = [PaidView EXCEPT ![o] = @ + a]
  BY <1>3, <1>4 DEF PaidView
<1> QED
  BY <1>5 DEF a, o

LEMMA MintIsPay ==
  ASSUME Inv, NEW id \in Ids, NEW t \in TokenAccounts, GovernanceMint(id, t)
  PROVE  Promise!Pay(id)
<1> DEFINE p == proposal[id]
           q == [p EXCEPT !.status = "Executed", !.executed_at = now]
<1>1. /\ proposal \in [Ids -> Proposal] /\ p \in Proposal
      /\ p.status = "Approved"
      /\ now >= p.approved_at + TIMELOCK_DELAY
      /\ proposal' = [proposal EXCEPT ![id] = q]
      /\ now' = now
  BY DEF Inv, StateTypes, GovernanceMint, Executable
<1>2. GrantOf(q) = [GrantOf(p) EXCEPT !.stage = "Executed"]
  BY <1>1 DEF GrantOf, Proposal
<1>3. PaidView' = [PaidView EXCEPT ![p.proposer] = @ + p.amount_atomic]
  BY MintPays
<1> HIDE DEF p, q
<1>4. GrantView[id] = GrantOf(p)
  BY DEF GrantView, p
<1>5. /\ GrantView[id].stage = "Approved"
      /\ now >= GrantView[id].since + TIMELOCK_DELAY
      /\ GrantView[id].to = p.proposer
      /\ GrantView[id].amount = p.amount_atomic
  BY <1>1, <1>4, GrantShows
<1>6. GrantView' = [GrantView EXCEPT ![id].stage = "Executed"]
  <2>1. GrantView' = [GrantView EXCEPT ![id] = GrantOf(q)]
    BY <1>1 DEF GrantView
  <2> QED
    BY <1>2, <1>4, <2>1
<1>7. PaidView' = [PaidView EXCEPT ![GrantView[id].to] = @ + GrantView[id].amount]
  BY <1>3, <1>5
<1> QED
  BY <1>1, <1>5, <1>6, <1>7 DEF Promise!Pay, GrantView, PaidView

\* The other actions move what the promise does not show, or its clock.
LEMMA OthersAreSteps ==
  ASSUME Inv, \/ \E ms \in MemberLists : InitializeGovernance(ms)
              \/ \E w \in Wallets, ms \in MemberLists : UpdateMembers(w, ms)
              \/ \E w, new \in Wallets : SetGovernanceAuthority(w, new)
              \/ OtherSupplyChange
              \/ Tick
              \/ UNCHANGED vars
  PROVE  [Promise!PromiseNext]_(Promise!promiseVars)
<1>1. proposal' = proposal /\ received' = received
  BY DEF InitializeGovernance, UpdateMembers, SetGovernanceAuthority, OtherSupplyChange,
         Tick, vars
<1>2. now' = now \/ now' > now
  BY DEF InitializeGovernance, UpdateMembers, SetGovernanceAuthority, OtherSupplyChange,
         Tick, vars, Inv, StateTypes
<1>3. GrantView' = GrantView /\ PaidView' = PaidView
  BY <1>1, NothingReceived DEF GrantView
<1>4. CASE now' = now
  BY <1>3, <1>4 DEF Promise!promiseVars, GrantView, PaidView
<1>5. CASE now' > now
  <2>1. Promise!Pass
    BY <1>3, <1>5 DEF Promise!Pass, GrantView, PaidView
  <2> QED
    BY <2>1 DEF Promise!PromiseNext
<1> QED
  BY <1>2, <1>4, <1>5

LEMMA StepIsPromised ==
  ASSUME Inv, [Next]_vars
  PROVE  [Promise!PromiseNext]_(Promise!promiseVars)
<1>1. CASE \E w \in Wallets, amount \in Amounts : CreateProposal(w, amount)
  BY <1>1, CreateAsks
<1>2. CASE \E w \in Wallets, id \in Ids, yes \in BOOLEAN : Vote(w, id, yes)
  BY <1>2, VoteIsBallot DEF Promise!PromiseNext
<1>3. CASE \E id \in Ids, t \in TokenAccounts : GovernanceMint(id, t)
  BY <1>3, MintIsPay DEF Promise!PromiseNext
<1>4. CASE \/ \E ms \in MemberLists : InitializeGovernance(ms)
           \/ \E w \in Wallets, ms \in MemberLists : UpdateMembers(w, ms)
           \/ \E w, new \in Wallets : SetGovernanceAuthority(w, new)
           \/ OtherSupplyChange
           \/ Tick
           \/ UNCHANGED vars
  BY <1>4, OthersAreSteps
<1> QED
  BY <1>1, <1>2, <1>3, <1>4 DEF Next

\* Governance keeps what it promises to the holders, for any number of wallets, members,
\* proposals and token accounts, and any timelock: each payment is a grant carried by a
\* majority of distinct voters, made once, in full, after the delay, to who asked.
THEOREM GovernanceRefinesPromise == Spec => ImplementsEmissionPromise
<1>1. Inv /\ [Next]_vars => [Promise!PromiseNext]_(Promise!promiseVars)
  BY StepIsPromised
<1> QED
  BY <1>1, PromiseStarts, GovernanceInvariant, PTL
     DEF Spec, ImplementsEmissionPromise, Promise!PromiseSpec
=============================================================================
