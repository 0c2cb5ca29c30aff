--------------------------- MODULE EvmAttestation ---------------------------
(***************************************************************************)
(* The attestation contract of the EVM side, onchain/src/                  *)
(* EnrgOracleAttestation.sol: attestations confirmed by k distinct trusted *)
(* oracles, a set of oracles and a threshold that change behind a          *)
(* timelock, and an owner that is replaced in two steps.                   *)
(*                                                                         *)
(* A payload stands for (deviceId, allowed, maxPowerW, issuedAt); the      *)
(* keys under which changes wait are the changes themselves.  A call that  *)
(* reverts is no step.                                                     *)
(***************************************************************************)
EXTENDS Integers, FiniteSets

CONSTANTS
  Owners, Deployer,       \* the accounts ownership may pass to
  NoAddress,              \* address(0), which nobody sends from
  Oracles,                \* the addresses trust may be scheduled for
  Attestations, Payloads, NoPayload,
  Thresholds,             \* arguments of scheduleSetThreshold
  TIMELOCK, MAX_ORACLES, MAX_THRESHOLD,
  MaxTime                 \* bound on block.timestamp

ASSUME EvmAssumption ==
  /\ IsFiniteSet(Oracles) /\ Deployer \in Owners
  /\ NoAddress \notin Owners \cup Oracles
  /\ NoPayload \notin Payloads
  /\ Thresholds \subseteq Nat
  /\ {TIMELOCK, MAX_ORACLES, MAX_THRESHOLD, MaxTime} \subseteq Nat \ {0}

VARIABLES
  owner, pendingOwner,
  trustedOracles, oracleCount, oracleThreshold,
  pendingTrust,      \* pendingOracleUpdateAt of (oracle, trusted); 0: none
  pendingThreshold,  \* pendingOracleUpdateAt of a threshold; 0: none
  attestation,       \* payload, confirmations and finalized of each identifier
  oracleVoted,       \* the oracles that voted for each identifier
  now,               \* block.timestamp
  announcedAt,       \* history: when trust in an oracle was first scheduled; 0: never
  ballots            \* history: every vote, its payload, the threshold in force and its place

governance == <<owner, pendingOwner, trustedOracles, oracleCount, oracleThreshold,
                pendingTrust, pendingThreshold, announcedAt>>
voting == <<attestation, oracleVoted, ballots>>
vars == <<governance, voting, now>>

Init ==
  /\ owner = Deployer /\ pendingOwner = NoAddress
  /\ trustedOracles = {} /\ oracleCount = 0
  /\ oracleThreshold = 1
  /\ pendingTrust = [o \in Oracles |-> [trusted \in BOOLEAN |-> 0]]
  /\ pendingThreshold = [t \in Thresholds |-> 0]
  /\ attestation = [a \in Attestations |->
                      [payload |-> NoPayload, confirmations |-> 0, finalized |-> FALSE]]
  /\ oracleVoted = [a \in Attestations |-> {}]
  /\ now = 1
  /\ announcedAt = [o \in Oracles |-> 0]
  /\ ballots = [a \in Attestations |-> {}]
-----------------------------------------------------------------------------
(* The set of oracles.  The owner schedules, anybody executes.             *)

\* Scheduling again moves the date; nothing withdraws a scheduled change.
ScheduleSetTrustedOracle(sender, o, trusted) ==
  /\ sender = owner
  /\ pendingTrust' = [pendingTrust EXCEPT ![o][trusted] = now + TIMELOCK]
  /\ announcedAt' = IF trusted /\ announcedAt[o] = 0
                    THEN [announcedAt EXCEPT ![o] = now] ELSE announcedAt
  /\ UNCHANGED <<owner, pendingOwner, trustedOracles, oracleCount, oracleThreshold,
                 pendingThreshold, voting, now>>

\* Defect: an oracle that is trusted already is counted again.
CountAfterBlindly(o, trusted) == IF trusted THEN oracleCount + 1 ELSE oracleCount - 1

CountAfter(o, trusted) ==
  IF trusted /\ o \notin trustedOracles THEN oracleCount + 1
  ELSE IF ~trusted /\ o \in trustedOracles THEN oracleCount - 1
  ELSE oracleCount

\* Defect: a change that was never scheduled may be executed.
DueWithoutSchedule(executeAt) == now >= executeAt

Due(executeAt) == executeAt # 0 /\ now >= executeAt

ExecuteSetTrustedOracle(o, trusted) ==
  /\ Due(pendingTrust[o][trusted])
  /\ trusted /\ o \notin trustedOracles => oracleCount < MAX_ORACLES
  /\ pendingTrust' = [pendingTrust EXCEPT ![o][trusted] = 0]
  /\ oracleCount' = CountAfter(o, trusted)
  /\ trustedOracles' = IF trusted THEN trustedOracles \cup {o} ELSE trustedOracles \ {o}
  /\ UNCHANGED <<owner, pendingOwner, oracleThreshold, pendingThreshold, announcedAt,
                 voting, now>>
-----------------------------------------------------------------------------
(* The threshold, and the owner.                                           *)

ScheduleSetThreshold(sender, t) ==
  /\ sender = owner
  /\ t # 0 /\ t <= MAX_THRESHOLD
  /\ pendingThreshold' = [pendingThreshold EXCEPT ![t] = now + TIMELOCK]
  /\ UNCHANGED <<owner, pendingOwner, trustedOracles, oracleCount, oracleThreshold,
                 pendingTrust, announcedAt, voting, now>>

ExecuteSetThreshold(t) ==
  /\ Due(pendingThreshold[t])
  /\ pendingThreshold' = [pendingThreshold EXCEPT ![t] = 0]
  /\ oracleThreshold' = t
  /\ UNCHANGED <<owner, pendingOwner, trustedOracles, oracleCount, pendingTrust,
                 announcedAt, voting, now>>

TransferOwnership(sender, newOwner) ==
  /\ sender = owner
  /\ pendingOwner' = newOwner
  /\ UNCHANGED <<owner, trustedOracles, oracleCount, oracleThreshold, pendingTrust,
                 pendingThreshold, announcedAt, voting, now>>

AcceptOwnership(sender) ==
  /\ sender = pendingOwner
  /\ owner' = pendingOwner
  /\ pendingOwner' = NoAddress
  /\ UNCHANGED <<trustedOracles, oracleCount, oracleThreshold, pendingTrust,
                 pendingThreshold, announcedAt, voting, now>>
-----------------------------------------------------------------------------
(* submitAttestation.  The first vote fixes the payload.  A vote is never  *)
(* taken back, and the threshold is looked at only when a vote arrives.    *)

\* Defect: the vote is not compared with the payload.
AnyPayload(a, p) == TRUE

Matching(a, p) == attestation[a].confirmations = 0 \/ attestation[a].payload = p

SubmitAttestation(sender, a, p) ==
  /\ sender \in trustedOracles
  /\ ~attestation[a].finalized
  /\ sender \notin oracleVoted[a]
  /\ Matching(a, p)
  /\ attestation' = [attestation EXCEPT ![a] =
       [payload       |-> IF @.confirmations = 0 THEN p ELSE @.payload,
        confirmations |-> @.confirmations + 1,
        finalized     |-> @.confirmations + 1 >= oracleThreshold]]
  /\ oracleVoted' = [oracleVoted EXCEPT ![a] = @ \cup {sender}]
  /\ ballots' = [ballots EXCEPT ![a] = @ \cup
       {[oracle |-> sender, payload |-> p, threshold |-> oracleThreshold,
         nth |-> attestation[a].confirmations + 1]}]
  /\ UNCHANGED <<governance, now>>

Tick == now < MaxTime /\ now' = now + 1 /\ UNCHANGED <<governance, voting>>

Next ==
  \/ \E s \in Owners, o \in Oracles, trusted \in BOOLEAN :
       ScheduleSetTrustedOracle(s, o, trusted)
  \/ \E o \in Oracles, trusted \in BOOLEAN : ExecuteSetTrustedOracle(o, trusted)
  \/ \E s \in Owners, t \in Thresholds : ScheduleSetThreshold(s, t)
  \/ \E t \in Thresholds : ExecuteSetThreshold(t)
  \/ \E s \in Owners : \/ \E n \in Owners \cup {NoAddress} : TransferOwnership(s, n)
                       \/ AcceptOwnership(s)
  \/ \E o \in Oracles, a \in Attestations, p \in Payloads : SubmitAttestation(o, a, p)
  \/ Tick

Spec == Init /\ [][Next]_vars
-----------------------------------------------------------------------------
(* Properties.                                                             *)

Attestation == [payload : Payloads \cup {NoPayload}, confirmations : Nat, finalized : BOOLEAN]
Ballot == [oracle : Oracles, payload : Payloads, threshold : 1 .. MAX_THRESHOLD, nth : Nat]

\* Every account and history variable has its type.
TypeOK ==
  /\ owner \in Owners /\ pendingOwner \in Owners \cup {NoAddress}
  /\ trustedOracles \subseteq Oracles /\ oracleCount \in Int
  /\ oracleThreshold \in 1 .. MAX_THRESHOLD
  /\ pendingTrust \in [Oracles -> [BOOLEAN -> Nat]]
  /\ pendingThreshold \in [Thresholds -> Nat]
  /\ attestation \in [Attestations -> Attestation]
  /\ oracleVoted \in [Attestations -> SUBSET Oracles]
  /\ now \in 1 .. MaxTime
  /\ announcedAt \in [Oracles -> 0 .. now]
  /\ ballots \in [Attestations -> SUBSET Ballot]

\* EnrgOracleAttestation.sol:11: votes are of distinct oracles and all for the payload the
\* attestation holds, and it is finalized by the first vote that finds as many of them as the
\* threshold asks for at that moment, and by no other: in whatever order votes, changes of
\* the threshold and changes of the oracles came.
QuorumIsDistinct ==
  \A a \in Attestations :
    /\ attestation[a].confirmations = Cardinality(oracleVoted[a])
    /\ oracleVoted[a] = {b.oracle : b \in ballots[a]}
    /\ \A b \in ballots[a] :
         /\ b.payload = attestation[a].payload
         /\ b.nth >= b.threshold
              <=> attestation[a].finalized /\ b.nth = attestation[a].confirmations
    /\ attestation[a].finalized => \E b \in ballots[a] : b.nth >= b.threshold

\* EnrgOracleAttestation.sol:99: whoever the owner was and however often a change was
\* scheduled, revoked and scheduled again, nobody is trusted, and nobody's vote counts,
\* before trust in it has been public for the whole timelock.
VotersWereAnnounced ==
  \A o \in trustedOracles \cup UNION {oracleVoted[a] : a \in Attestations} :
    announcedAt[o] # 0 /\ announcedAt[o] + TIMELOCK <= now

\* EnrgOracleAttestation.sol:53: the counter that the cap is compared with is the number of
\* trusted oracles, also when a change is executed that is already in force, and is kept.
OracleCountIsExact ==
  oracleCount = Cardinality(trustedOracles) /\ oracleCount <= MAX_ORACLES
=============================================================================
