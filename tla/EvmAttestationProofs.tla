------------------------ MODULE EvmAttestationProofs ------------------------
(***************************************************************************)
(* Proofs about EvmAttestation, for any number of accounts, oracles,       *)
(* attestations and payloads, any timelock, cap and thresholds.  The       *)
(* properties need to know of the changes that wait: what is scheduled was *)
(* announced a timelock before it is due, and a threshold that waits is    *)
(* within its bounds; and of the votes: each has its place among them.     *)
(***************************************************************************)
EXTENDS EvmAttestation, FiniteSetTheorems, TLAPS

\* Trust in an oracle has been public for the whole timelock.
LongAnnounced(o) == announcedAt[o] # 0 /\ announcedAt[o] + TIMELOCK <= now

Announced ==
  /\ \A o \in Oracles : pendingTrust[o][TRUE] # 0 =>
       announcedAt[o] # 0 /\ announcedAt[o] + TIMELOCK <= pendingTrust[o][TRUE]
  /\ \A o \in trustedOracles : LongAnnounced(o)
  /\ \A a \in Attestations : \A o \in oracleVoted[a] : LongAnnounced(o)

ThresholdsWaitInBounds ==
  \A t \in Thresholds : pendingThreshold[t] # 0 => t \in 1 .. MAX_THRESHOLD

\* The votes for an attestation and their places.
VotesOf(a) ==
  /\ attestation[a].confirmations = Cardinality(oracleVoted[a])
  /\ oracleVoted[a] = {b.oracle : b \in ballots[a]}
  /\ \A b \in ballots[a] :
       /\ 1 <= b.nth /\ b.nth <= attestation[a].confirmations
       /\ b.payload = attestation[a].payload
       /\ b.nth >= b.threshold
            <=> attestation[a].finalized /\ b.nth = attestation[a].confirmations
  /\ attestation[a].finalized => \E b \in ballots[a] : b.nth >= b.threshold

Votes == \A a \in Attestations : VotesOf(a)

Inv ==
  /\ TypeOK
  /\ ThresholdsWaitInBounds
  /\ Announced
  /\ OracleCountIsExact
  /\ Votes
-----------------------------------------------------------------------------
LEMMA NothingHappenedYet == Init => Inv
<1> SUFFICES ASSUME Init PROVE Inv
  OBVIOUS
<1>1. TypeOK
  BY EvmAssumption DEF Init, TypeOK, Attestation
<1>2. IsFiniteSet({}) /\ Cardinality({}) = 0
  BY FS_EmptySet
<1>3. OracleCountIsExact
  BY <1>2, EvmAssumption DEF Init, OracleCountIsExact
<1>4. ThresholdsWaitInBounds /\ Announced
  BY DEF Init, ThresholdsWaitInBounds, Announced
<1>5. Votes
  <2> SUFFICES ASSUME NEW a \in Attestations PROVE VotesOf(a)
    BY DEF Votes
  <2>1. oracleVoted[a] = {} /\ ballots[a] = {}
    BY DEF Init
  <2>2. attestation[a].confirmations = 0 /\ attestation[a].finalized = FALSE
    BY DEF Init
  <2> QED
    BY <1>2, <2>1, <2>2 DEF VotesOf
<1> QED
  BY <1>1, <1>3, <1>4, <1>5 DEF Inv
-----------------------------------------------------------------------------
(* What a step leaves alone.                                               *)

LEMMA TimelockIsNatural == TIMELOCK \in Nat
BY EvmAssumption

LEMMA TimesAreNatural ==
  ASSUME TypeOK
  PROVE  /\ now \in Nat
         /\ \A o \in Oracles : announcedAt[o] \in Nat /\ announcedAt[o] <= now
         /\ \A o \in Oracles : \A trusted \in BOOLEAN : pendingTrust[o][trusted] \in Nat
<1>1. now \in Nat
  BY EvmAssumption DEF TypeOK
<1>2. \A o \in Oracles : announcedAt[o] \in 0 .. now
  BY DEF TypeOK
<1>3. \A o \in Oracles : announcedAt[o] \in Nat /\ announcedAt[o] <= now
  BY <1>1, <1>2
<1>4. \A o \in Oracles : \A trusted \in BOOLEAN : pendingTrust[o][trusted] \in Nat
  BY DEF TypeOK
<1> QED
  BY <1>1, <1>3, <1>4

LEMMA SameVotes == Votes /\ UNCHANGED voting => Votes'
BY DEF Votes, VotesOf, voting

\* Time only passes, and the votes and the trusted oracles stay accountable.
LEMMA SameAccountability ==
  ASSUME TypeOK, Announced, TypeOK', now' >= now,
         UNCHANGED <<voting, trustedOracles, pendingTrust, announcedAt>>
  PROVE  Announced'
<1>1. \A o \in Oracles : LongAnnounced(o) => LongAnnounced(o)'
  BY EvmAssumption DEF LongAnnounced, TypeOK
<1> QED
  BY <1>1 DEF Announced, TypeOK, voting
-----------------------------------------------------------------------------
(* One lemma for each operation.                                           *)

LEMMA SchedulingTrust ==
  ASSUME Inv, NEW s \in Owners, NEW o \in Oracles, NEW trusted \in BOOLEAN,
         ScheduleSetTrustedOracle(s, o, trusted)
  PROVE  Inv'
<1> USE DEF ScheduleSetTrustedOracle
<1>1. TypeOK'
  <2>1. announcedAt' \in [Oracles -> 0 .. now]
    BY EvmAssumption DEF Inv, TypeOK
  <2>2. now + TIMELOCK \in Nat
    BY EvmAssumption DEF Inv, TypeOK
  <2>3. pendingTrust' \in [Oracles -> [BOOLEAN -> Nat]]
    BY <2>2 DEF Inv, TypeOK
  <2> QED
    BY <2>1, <2>3 DEF Inv, TypeOK, voting
<1>2. Announced'
  <2>0. now' = now
    OBVIOUS
  <2>4. now \in Nat /\ \A q \in Oracles : announcedAt'[q] \in Nat
    <3>1. announcedAt'[o] \in {announcedAt[o], now}
            /\ \A q \in Oracles \ {o} : announcedAt'[q] = announcedAt[q]
      BY DEF Inv, TypeOK
    <3> QED
      BY <3>1, TimesAreNatural DEF Inv
  <2>1. \A q \in Oracles : announcedAt[q] # 0 => announcedAt'[q] = announcedAt[q]
    BY DEF Inv, TypeOK
  <2>2. ASSUME NEW q \in Oracles, pendingTrust'[q][TRUE] # 0
        PROVE  announcedAt'[q] # 0 /\ announcedAt'[q] + TIMELOCK <= pendingTrust'[q][TRUE]
    <3>1. CASE q = o /\ trusted
      <4>1. pendingTrust'[q][TRUE] = now + TIMELOCK
        BY <3>1 DEF Inv, TypeOK
      <4>2. announcedAt'[q] # 0 /\ announcedAt'[q] <= now
        BY <3>1 DEF Inv, TypeOK
      <4>3. announcedAt'[q] \in Nat /\ now \in Nat
        BY <2>0, <2>4 DEF Inv
      <4> HIDE DEF ScheduleSetTrustedOracle
      <4> QED
        BY <4>1, <4>2, <4>3, TimelockIsNatural
    <3>2. CASE ~(q = o /\ trusted)
      <4>1. pendingTrust'[q][TRUE] = pendingTrust[q][TRUE]
        BY <3>2 DEF Inv, TypeOK
      <4> QED
        BY <2>1, <2>2, <4>1 DEF Inv, Announced
    <3> QED
      BY <3>1, <3>2
  <2>3. \A q \in Oracles : LongAnnounced(q) => LongAnnounced(q)'
    BY <2>1 DEF LongAnnounced
  <2> QED
    BY <2>2, <2>3 DEF Inv, Announced, TypeOK, voting
<1>3. OracleCountIsExact' /\ ThresholdsWaitInBounds'
  BY DEF Inv, OracleCountIsExact, ThresholdsWaitInBounds
<1>4. Votes'
  BY SameVotes DEF Inv
<1> QED
  BY <1>1, <1>2, <1>3, <1>4 DEF Inv

\* The counter follows the set, whether or not the change is already in force.
LEMMA ExecutingTrust ==
  ASSUME Inv, NEW o \in Oracles, NEW trusted \in BOOLEAN, ExecuteSetTrustedOracle(o, trusted)
  PROVE  Inv'
<1> USE DEF ExecuteSetTrustedOracle
<1>1. OracleCountIsExact'
  <2>1. IsFiniteSet(trustedOracles)
    BY EvmAssumption, FS_Subset DEF Inv, TypeOK
  <2>2. Cardinality(trustedOracles) \in Nat
    BY <2>1, FS_CardinalityType
  <2>3. CASE trusted
    <3>1. Cardinality(trustedOracles \cup {o})
            = IF o \in trustedOracles THEN Cardinality(trustedOracles)
              ELSE Cardinality(trustedOracles) + 1
      BY <2>1, FS_AddElement
    <3> QED
      BY <2>2, <2>3, <3>1, EvmAssumption DEF Inv, OracleCountIsExact, CountAfter
  <2>4. CASE ~trusted
    <3>1. Cardinality(trustedOracles \ {o})
            = IF o \in trustedOracles THEN Cardinality(trustedOracles) - 1
              ELSE Cardinality(trustedOracles)
      BY <2>1, FS_RemoveElement
    <3> QED
      BY <2>2, <2>4, <3>1, EvmAssumption DEF Inv, OracleCountIsExact, CountAfter
  <2> QED
    BY <2>3, <2>4
<1>2. TypeOK'
  <2>1. oracleCount' \in Int
    BY DEF Inv, TypeOK, CountAfter
  <2>2. pendingTrust' \in [Oracles -> [BOOLEAN -> Nat]]
    BY DEF Inv, TypeOK
  <2>3. trustedOracles' \subseteq Oracles
    BY DEF Inv, TypeOK
  <2> QED
    BY <2>1, <2>2, <2>3 DEF Inv, TypeOK, voting
<1>3. Announced'
  <2>1. ASSUME trusted PROVE LongAnnounced(o)
    <3>1. pendingTrust[o][TRUE] # 0 /\ now >= pendingTrust[o][TRUE]
      BY <2>1 DEF Due
    <3>2. pendingTrust[o][TRUE] \in Nat /\ announcedAt[o] \in Nat /\ now \in Nat
      BY TimesAreNatural DEF Inv
    <3>3. pendingTrust[o][TRUE] # 0 =>
            announcedAt[o] # 0 /\ announcedAt[o] + TIMELOCK <= pendingTrust[o][TRUE]
      BY DEF Inv, Announced
    <3> HIDE DEF ExecuteSetTrustedOracle
    <3>4. announcedAt[o] # 0 /\ announcedAt[o] + TIMELOCK <= pendingTrust[o][TRUE]
      BY <3>1, <3>3
    <3>5. announcedAt[o] + TIMELOCK <= now
      <4> DEFINE due == pendingTrust[o][TRUE]
      <4>1. due \in Nat /\ now >= due /\ announcedAt[o] + TIMELOCK <= due
        BY <3>1, <3>2, <3>4
      <4> HIDE DEF due
      <4> QED
        BY <3>2, <4>1, TimelockIsNatural
    <3> QED
      BY <3>4, <3>5 DEF LongAnnounced
  <2>2. \A q \in Oracles : pendingTrust'[q][TRUE] # 0 => pendingTrust'[q][TRUE] = pendingTrust[q][TRUE]
    BY DEF Inv, TypeOK
  <2>3. trustedOracles' = IF trusted THEN trustedOracles \cup {o} ELSE trustedOracles \ {o}
    OBVIOUS
  <2> QED
    BY <2>1, <2>2, <2>3 DEF Inv, Announced, LongAnnounced, voting
<1>4. ThresholdsWaitInBounds'
  BY DEF Inv, ThresholdsWaitInBounds
<1>5. Votes'
  BY SameVotes DEF Inv
<1> QED
  BY <1>1, <1>2, <1>3, <1>4, <1>5 DEF Inv

\* The threshold and the owner do not touch the oracles or the votes.
LEMMA ChangingThreshold ==
  ASSUME Inv, NEW t \in Thresholds,
         (\E s \in Owners : ScheduleSetThreshold(s, t)) \/ ExecuteSetThreshold(t)
  PROVE  Inv'
<1>1. TypeOK' /\ ThresholdsWaitInBounds'
  <2>1. CASE \E s \in Owners : ScheduleSetThreshold(s, t)
    <3>1. t \in 1 .. MAX_THRESHOLD
      BY <2>1, EvmAssumption DEF ScheduleSetThreshold
    <3>2. now + TIMELOCK \in Nat
      BY EvmAssumption DEF Inv, TypeOK
    <3>3. pendingThreshold' = [pendingThreshold EXCEPT ![t] = now + TIMELOCK]
      BY <2>1 DEF ScheduleSetThreshold
    <3>4. ThresholdsWaitInBounds'
      BY <3>1, <3>3 DEF Inv, TypeOK, ThresholdsWaitInBounds
    <3> QED
      BY <2>1, <3>2, <3>3, <3>4 DEF ScheduleSetThreshold, Inv, TypeOK, voting
  <2>2. CASE ExecuteSetThreshold(t)
    <3>1. t \in 1 .. MAX_THRESHOLD
      BY <2>2 DEF ExecuteSetThreshold, Due, Inv, ThresholdsWaitInBounds
    <3> QED
      BY <2>2, <3>1 DEF ExecuteSetThreshold, Inv, TypeOK, ThresholdsWaitInBounds, voting
  <2> QED
    BY <2>1, <2>2
<1>2. UNCHANGED <<voting, trustedOracles, oracleCount, pendingTrust, announcedAt, now>>
  BY DEF ScheduleSetThreshold, ExecuteSetThreshold
<1>3. Announced'
  BY <1>1, <1>2, SameAccountability DEF Inv, TypeOK
<1> QED
  BY <1>1, <1>2, <1>3, SameVotes DEF Inv, OracleCountIsExact

LEMMA ChangingOwner ==
  ASSUME Inv, NEW s \in Owners,
         (\E n \in Owners \cup {NoAddress} : TransferOwnership(s, n)) \/ AcceptOwnership(s)
  PROVE  Inv'
<1>1. UNCHANGED <<voting, trustedOracles, oracleCount, oracleThreshold, pendingTrust,
                  pendingThreshold, announcedAt, now>>
  BY DEF TransferOwnership, AcceptOwnership
<1>2. owner' \in Owners /\ pendingOwner' \in Owners \cup {NoAddress}
  BY DEF TransferOwnership, AcceptOwnership, Inv, TypeOK
<1>3. TypeOK'
  BY <1>1, <1>2 DEF Inv, TypeOK, voting
<1>4. Announced'
  BY <1>1, <1>3, SameAccountability DEF Inv, TypeOK
<1> QED
  BY <1>1, <1>3, <1>4, SameVotes DEF Inv, OracleCountIsExact, ThresholdsWaitInBounds

\* The new vote comes last: it alone can be the one that reaches the threshold.
LEMMA VotingKeepsVotes ==
  ASSUME Inv, NEW o \in Oracles, NEW a \in Attestations, NEW p \in Payloads,
         SubmitAttestation(o, a, p)
  PROVE  VotesOf(a)'
<1> DEFINE n == attestation[a].confirmations
           payload == IF n = 0 THEN p ELSE attestation[a].payload
           reached == n + 1 >= oracleThreshold
           vote == [oracle |-> o, payload |-> p, threshold |-> oracleThreshold, nth |-> n + 1]
<1>1. VotesOf(a) /\ n \in Nat /\ ~attestation[a].finalized /\ o \notin oracleVoted[a]
  BY DEF SubmitAttestation, Inv, Votes, TypeOK, Attestation
<1>2. attestation'[a] = [payload |-> payload, confirmations |-> n + 1, finalized |-> reached]
  BY DEF SubmitAttestation, Inv, TypeOK
<1>3. ballots'[a] = ballots[a] \cup {vote} /\ oracleVoted'[a] = oracleVoted[a] \cup {o}
  BY DEF SubmitAttestation, Inv, TypeOK
<1>4. Cardinality(oracleVoted'[a]) = n + 1
  <2>1. IsFiniteSet(oracleVoted[a])
    BY EvmAssumption, FS_Subset DEF Inv, TypeOK
  <2> QED
    BY <1>1, <1>3, <2>1, FS_AddElement DEF VotesOf
<1>5. oracleVoted'[a] = {b.oracle : b \in ballots'[a]}
  <2>1. vote.oracle = o
    OBVIOUS
  <2> HIDE DEF vote
  <2>2. oracleVoted[a] = {b.oracle : b \in ballots[a]}
    BY <1>1 DEF VotesOf
  <2> QED
    BY <1>3, <2>1, <2>2
<1>6. /\ attestation'[a].confirmations = n + 1
      /\ attestation'[a].finalized <=> reached
      /\ attestation'[a].payload = payload
  <2> HIDE DEF n, payload, reached
  <2> QED
    BY <1>2
<1>7. vote.nth = n + 1 /\ vote.threshold = oracleThreshold /\ vote.payload = p
  OBVIOUS
<1>8. payload = p
  BY DEF SubmitAttestation, Matching
<1>9. ASSUME NEW b \in ballots'[a]
      PROVE  /\ 1 <= b.nth /\ b.nth <= n + 1
             /\ b.payload = payload
             /\ b.nth >= b.threshold <=> reached /\ b.nth = n + 1
  <2>1. CASE b = vote
    BY <1>1, <1>7, <1>8, <2>1
  <2>2. CASE b \in ballots[a]
    <3>1. b.nth \in Nat /\ b.threshold \in Nat
      BY <2>2, EvmAssumption DEF Inv, TypeOK, Ballot
    <3>2. /\ 1 <= b.nth /\ b.nth <= n
          /\ b.payload = attestation[a].payload
          /\ ~(b.nth >= b.threshold)
      BY <1>1, <2>2 DEF VotesOf
    <3>3. n # 0
      BY <3>1, <3>2, <1>1
    <3> QED
      BY <1>1, <3>1, <3>2, <3>3
  <2> QED
    BY <1>3, <2>1, <2>2
<1>10. reached => \E b \in ballots'[a] : b.nth >= b.threshold
  BY <1>3, <1>7
<1> HIDE DEF n, payload, reached, vote
<1> QED
  BY <1>4, <1>5, <1>6, <1>9, <1>10 DEF VotesOf

LEMMA VotingKeepsInv ==
  ASSUME Inv, NEW o \in Oracles, NEW a \in Attestations, NEW p \in Payloads,
         SubmitAttestation(o, a, p)
  PROVE  Inv'
<1>1. UNCHANGED <<governance, now>>
  BY DEF SubmitAttestation
<1>2. TypeOK'
  <2>1. attestation' \in [Attestations -> Attestation]
    BY DEF SubmitAttestation, Inv, TypeOK, Attestation
  <2>2. oracleVoted' \in [Attestations -> SUBSET Oracles]
    BY DEF SubmitAttestation, Inv, TypeOK
  <2>3. attestation[a].confirmations + 1 \in Nat
    BY DEF Inv, TypeOK, Attestation
  <2>4. [oracle |-> o, payload |-> p, threshold |-> oracleThreshold,
         nth |-> attestation[a].confirmations + 1] \in Ballot
    BY <2>3 DEF Inv, TypeOK, Ballot
  <2>5. ballots' \in [Attestations -> SUBSET Ballot]
    BY <2>4 DEF SubmitAttestation, Inv, TypeOK
  <2> QED
    BY <1>1, <2>1, <2>2, <2>5 DEF Inv, TypeOK, governance
<1>3. Votes'
  <2>1. \A c \in Attestations : c # a =>
          UNCHANGED <<attestation[c], oracleVoted[c], ballots[c]>>
    BY DEF SubmitAttestation, Inv, TypeOK
  <2>2. \A c \in Attestations : c # a => VotesOf(c)'
    BY <2>1 DEF Inv, Votes, VotesOf
  <2> QED
    BY <2>2, VotingKeepsVotes DEF Votes
<1>4. Announced'
  <2>1. \A c \in Attestations : \A q \in oracleVoted'[c] :
          q \in oracleVoted[c] \/ q \in trustedOracles
    BY DEF SubmitAttestation, Inv, TypeOK
  <2> QED
    BY <1>1, <2>1 DEF Inv, Announced, LongAnnounced, governance
<1> QED
  BY <1>1, <1>2, <1>3, <1>4 DEF Inv, governance, OracleCountIsExact, ThresholdsWaitInBounds

LEMMA TimePasses == Inv /\ Tick => Inv'
<1> SUFFICES ASSUME Inv, Tick PROVE Inv'
  OBVIOUS
<1>1. TypeOK'
  <2>1. now' \in 1 .. MaxTime /\ 0 .. now \subseteq 0 .. now'
    BY EvmAssumption DEF Tick, Inv, TypeOK
  <2>2. announcedAt' \in [Oracles -> 0 .. now']
    BY <2>1 DEF Tick, Inv, TypeOK, governance
  <2> QED
    BY <2>1, <2>2 DEF Tick, Inv, TypeOK, governance, voting
<1>2. Announced'
  <2>1. now' >= now
    BY DEF Tick, Inv, TypeOK
  <2> QED
    BY <1>1, <2>1, SameAccountability DEF Tick, Inv, governance
<1> QED
  BY <1>1, <1>2, SameVotes DEF Tick, Inv, governance, OracleCountIsExact, ThresholdsWaitInBounds
-----------------------------------------------------------------------------
\* Every call of the contract, and the passing of time, keeps the invariant.
THEOREM EvmInvariant == Spec => []Inv
<1>1. Inv /\ [Next]_vars => Inv'
  <2> SUFFICES ASSUME Inv, [Next]_vars PROVE Inv'
    OBVIOUS
  <2>1. CASE UNCHANGED vars
    <3>1. UNCHANGED <<governance, voting, now>>
      BY <2>1 DEF vars
    <3>2. TypeOK'
      BY <3>1 DEF Inv, TypeOK, governance, voting
    <3>3. Announced'
      BY <3>1 DEF Inv, Announced, LongAnnounced, governance, voting
    <3> QED
      BY <3>1, <3>2, <3>3, SameVotes
         DEF Inv, governance, OracleCountIsExact, ThresholdsWaitInBounds
  <2>2. CASE Next
    BY <2>2, SchedulingTrust, ExecutingTrust, ChangingThreshold, ChangingOwner,
       VotingKeepsInv, TimePasses DEF Next
  <2> QED
    BY <2>1, <2>2
<1> QED
  BY NothingHappenedYet, <1>1, PTL DEF Spec

\* The accounts and the history keep their types.
THEOREM EvmTypeCorrect == Spec => []TypeOK
<1>1. Inv => TypeOK
  BY DEF Inv
<1> QED
  BY EvmInvariant, <1>1, PTL

\* Exactly the vote that finds the threshold reached finalizes an attestation, and the votes
\* counted are of distinct oracles for one payload.
THEOREM QuorumHolds == Spec => []QuorumIsDistinct
<1>1. Inv => QuorumIsDistinct
  BY DEF Inv, Votes, VotesOf, QuorumIsDistinct
<1> QED
  BY EvmInvariant, <1>1, PTL

\* Nobody is trusted, and nobody's vote counts, before the timelock of its announcement.
THEOREM VotersHold == Spec => []VotersWereAnnounced
<1>1. Inv => VotersWereAnnounced
  BY DEF Inv, TypeOK, Announced, LongAnnounced, VotersWereAnnounced
<1> QED
  BY EvmInvariant, <1>1, PTL

\* The counter of trusted oracles is their number, and within the cap.
THEOREM OracleCountHolds == Spec => []OracleCountIsExact
<1>1. Inv => OracleCountIsExact
  BY DEF Inv
<1> QED
  BY EvmInvariant, <1>1, PTL
=============================================================================
