# ENRG: formal model of the protocol core

This directory models the ENRG protocol: a Solana program that mints SRC tokens for
energy proofs signed by devices and attested by oracles, the oracle API server that
verifies and queues the proofs, the firmware that sends them, and the contract that
confirms attestations on an EVM chain. The modules are written from the source;
`PROJECT.json` maps every definition to the lines it stands for. Paths below are relative
to `src/`; `enrg-mvp` abbreviates `programs/enrg-mvp/src`.

## Inventory

| component | state | operations | hard behaviour |
|---|---|---|---|
| Oracle registry, deposits, k-of-n quorum (`instructions/oracle_registry.rs`, `oracle_quorum.rs`, `state/oracle_attestation.rs`) | OracleRegistry, OracleQuorumConfig, one OracleStake per oracle, one OracleAttestation per (device, nonce), one OracleVote per oracle and attestation | initialize / add / remove oracle, role rotations, configure the quorum, deposit, slash, vote, claim a reward, the gate of `mint_energy` | votes, reconfiguration, removal and rewards interleave; optional configuration account; u8 counter; no second vote |
| Device life cycle (`device_lifecycle.rs`, `state/producer.rs`, `owner_devices.rs`) | one EnergyProducer per device key, one OwnerDevices counter per owner | register, claim, provision, activate, quarantine, maintenance, release, revoke, rotate key, set tier | counters kept incrementally by a subset of the transitions, optional counter account, rotation copies state |
| Energy mint path (`mint.rs`, `policy_engine.rs`, `tier.rs`, `math.rs`, `programs/enrg-profile`) | nonce, energy and tier month of the device; profile of the owner; network window and supply of the vault; policy | mint_energy, set_device_tier, policy updates, initialize_profile, update_metadata | replay, windows of two programs read at different moments, optional accounts, caps that policy switches |
| Governance (`governance.rs`, `state/governance.rs`) | members, proposals, votes, timelock | create, vote, execute an emission, change members, hand over the role | membership changes during a vote, several timelocks at once, double execution |
| Oracle API server (`server.js`, `storage.js`, `policy.js`) | energies in memory and on disk, proof table, mint queue and its keys, worker, timers, rows still to drain | submit a proof, queue worker, retry, crash, drain row by row | awaits between check and use, crash between two writes, retries reorder nonces, late transactions, a worker that begins while the drain awaits |
| Energy pool (`pool.rs`, `state/pool.rs`) | total energy, threshold and members of a pool; contribution of each member | create, join, contribution of a mint, distribute | a reset that is never written back, groups of remaining accounts passed twice, weighted rounding with a remainder |
| Reputation (`reputation.rs`, `state/reputation.rs`) | score, energy, first and last report, anomalies of each owner | initialize, report an anomaly, update after a mint, bonus in a pool | slowed growth after an anomaly, in any order of energy, time and anomalies |
| Supply: premine, vesting, funds, buyback, rewards (`init_founder.rs`, `vesting.rs`, `funds.rs`, `buyback.rs`, `claim_oracle_reward`) | token accounts, supply of the token and the counter in the vault; founder flag and vesting account | premine, initialise vesting, claim, withdraw, burn, governed emission, oracle reward | one counter moved by five instructions beside the token's own, repeated initialisation |
| EVM attestation contract (`onchain/src/EnrgOracleAttestation.sol`) | owner and pending owner, trusted set and its counter, threshold, scheduled changes, confirmations | schedule and execute a change of the set or the threshold, submit an attestation, hand over ownership in two steps (there is no cancel) | timelock, changes between confirmations, opposite changes scheduled together |
| Device firmware (`firmware/esp32_proof_sender`) | nonce and energy baseline in flash, baseline and rated power in RAM, meter | boot, read, sign, send, acknowledge, refuse, time out, set the nonce | lost acknowledgements, power loss between two writes, a meter that is reset |
| Manifest registry and Merkle proofs (`manifest_registry.rs`, `merkle_proof_verification.rs`, `oracle/registry/app.js`) | manifests, snapshot root | publish, update, verify | root, snapshot and proof of different moments; not modelled |

How they interact. The firmware reads the meter, signs a report (key, energy, nonce, time)
and posts it to an oracle server, which checks nonce and signature against the chain and
its own memory, stores the proof and queues it; the board moves its energy baseline only
when it reads the acknowledgement. The worker votes for the (device, nonce) attestation and
then sends `mint_energy`, which insists on a finalized attestation when the quorum is
required, updates the device record, calls `enrg-profile` for the owner's window (a CPI),
computes the reward from supply and windows, splits it over five token accounts, and, with
the optional accounts, adds to a pool contribution and a reputation. Premine, mint, pool,
governance and buyback move the same vault counter. The registry of oracles gates both the
votes and the signature of a mint. The EVM contract keeps an oracle set of its own.

What must hold, component by component: an attestation is accepted only with two distinct
oracles behind one hash, for good; a wallet never exceeds its devices, and revoked keys
stay dead; a report is minted once, below the genesis peg, the tier limit and the cap; a
proposal is carried by a majority of distinct members and paid once after its timelock;
the server neither claims a mint that did not happen nor loses a proof it accepted; energy
is paid at most when minted and once more through a pool, and a penalty is never outgrown;
the vault counts the token; the founder is never ahead of the first schedule; the EVM
contract accepts nobody unannounced; the board never signs a nonce twice and neither
invents nor silently loses energy.

## Modules

| module | models | depends on |
|---|---|---|
| `AttestationPromise` | what the quorum promises: oracles sign once, at most one accepted hash, final, with two signers | |
| `OracleQuorum` | every instruction of the registry and the quorum, and the gate through which `mint_energy` reads an attestation | implements `AttestationPromise` |
| `DeviceLifecycle` | every transition of a device record and the counters of its owner | |
| `Sums` | what the program adds up in loops | |
| `EmissionMath` | `math.rs` and the five-way split, in the integer arithmetic of the code | extends `Sums` |
| `EmissionCurve` | the formulas along a history of growing supply and windows, with what must hold of them | extends `EmissionMath` |
| `EnergyMint` | `mint_energy`, tiers, profiles, policies and vault | extends `DeviceLifecycle` and `EmissionMath`, composed of the actions of `DeviceSpec` |
| `EnergyPool` | pools, contributions, weighted distribution, reputation, and what `mint_energy` does to them | extends `EmissionMath` |
| `TokenLedger` | every other instruction that moves the token: premine, vesting, funds, burns, governed emissions, oracle rewards | extends `EnergyPool` |
| `EmissionPromise` | what emission by vote promises to the holders: only grants carried by a majority of distinct voters are paid, once, in full, after a delay, to who asked | |
| `Governance` | members, proposals, votes and the timelocked emission | extends `Sums`, implements `EmissionPromise` |
| `MintingPromise` | what server and chain promise to the owner of a device: stored proofs stay, only they are minted, in the order of nonces, and nothing else is called minted | |
| `OracleServer` | handlers, mint queue, worker, timers, restart and drain, split at every `await` | implements `MintingPromise` |
| `EvmAttestation` | every function of the contract | |
| `DeviceFirmware` | board, meter, channel and the part of the server that answers | |
| `MC*` | the bounded instances; `MCEmissionMath` also compares the logarithm with the exponential it should invert | the module they instantiate; `MCEmissionMath` extends `EmissionCurve` |
| `*Proofs` | the theorems; `EnergyMintProofs` holds those of `DeviceLifecycle` too, `TokenLedgerProofs` those of `EnergyPool`, and `EmissionProofs` what they and `GovernanceProofs` need about the formulas and about sums | the module they are about |

Conventions. A Solana transaction is atomic and a failed one changes nothing, so an
instruction is one action whose guard collects every check of the handler: a failing
instruction is a disabled action, and so is a reverted call of the EVM contract. An account
that a caller may omit is a Boolean parameter (`withConfig`, `withOwner`, `withPolicy`) or a
null value (`NoPool`). An account that does not exist is a record with `exists = FALSE` or
the state `Unregistered`. Instructions name their signer. The definitions commented `Defect`
appear in no action: each is a plausible bug in the definition that follows it, put there
by the mutation checks that `PROJECT.json` lists to show that the property can fail.
Variables commented as history record what the code does not store and guard nothing.

Details that are easy to overlook:

- `OracleQuorum.SubmitOracleAttestation` evaluates finalization after every vote, with the
  configured threshold or, without the optional account, with the default of two.
  `SaturatingInc` is the u8 of the counter, with `U8Max` for 255.
- `DeviceLifecycle.RevokeDevice` decrements `active_count` only with the owner's account;
  `RotateDeviceKey` copies the record and touches no counter.
- `EnergyMint.MintEnergy` computes the reward from the profile as it was loaded, before the
  CPI adds the report, and from the network window after it (`mint.rs:184`). What the
  quotient of a reward exceeds an `u64` by, `as u64` cuts off (`math.rs:169`): `WORD` stands
  for 2^64.
- `EnergyPool.MintEnergy` takes whether the policy of the moment keeps the cap as an input
  (`capped`); without it a reward need only fit an `u64`.
- `EnergyPool.DistributePool` takes any sequence of groups the caller passes, a member twice
  included, and gives the last one what rounding left; `Emptied` resets the total of the
  pool and, as the code does, no contribution.
- `OracleServer.TimerFires` bypasses the queue limit and the set of keys, as the timer does;
  `LandLate` is a transaction that the server gave up on; `CanMint` is false for an entry
  that a restart parsed from `proof_json` (see the findings).
- `OracleServer.Drain` looks at one row of the rows that were accepted when the server came
  up. Only the mark of an expired row is awaited (`server.js:854`), so only there the worker
  and the timers run before the drain is over (`EventLoopFree`), and the mark restores the
  status the row was loaded with. The server listens after the drain. `Loaded` are the oldest
  of the accepted rows, up to the 10000 of `loadPendingProofs` (`LoadLimits`).
- `OracleQuorum.MintEnergy` is the gate of `mint_energy` alone: what the instruction does to
  device, profile and vault is `EnergyMint`'s.
- `DeviceFirmware` keeps three baselines apart: in flash, in RAM, and the one that the report
  under way will set (`ram.total`).
  `Clamped` cuts a report at the rated power, and the acknowledgement moves the baseline
  past what was cut.

## Runs

| run | question | bounds |
|---|---|---|
| `quorum` | is the quorum sound, is none missed, does the gate let through attested reports only, and is the abstract promise kept? | 1 key, 4 oracles of which 3 at a time, 1 attestation, 2 hashes, thresholds 1 to 4 of at most 3, deposits and rewards 0 or 1, counter up to 3; about 248,000 states |
| `device_lifecycle` | are counters, owners and progress consistent? | 3 device keys, 2 wallets, 2 devices for a wallet, claim nonces 1 to 3, proof nonces 1 to 2 |
| `emission_math` | do the formulas keep their bounds under rounding? | scale 10,000 for 10^18, 40 atoms of supply, networks of 3 and 20, device windows to 22, energies 1, 7, 50, a word of 80 values for `u64`, tolerance 30, 20 terms of the series |
| `emission_log` | finding | as `emission_math` |
| `mint` | are energy, supply, limits and windows consistent? | 2 keys of 1 wallet, limit 1, claim nonces 1 to 2, proof nonces 1 to 3, reports of 2, cap 22 atoms, limits 3 and 5, a month of 2 ticks, 3 ticks, tiers Basic and Industrial, rated power 0 or 2, 2 policies; about 544,000 states |
| `governance` | is every emission decided by a majority and paid once, and does every step keep the promise to the holders? | 3 wallets, lists of 2 or 3, 2 proposals, amount 1, timelock 1, 2 ticks, supply 1; about 861,000 states |
| `server` | is a proof ever lost, stranded or overstated, is the queue worked off, and does every step keep the promise to the owner of the device? | 1 device, 2 handlers, 2 nonces, 2 rows of which a restart loads 1 or 2, queue of 1, 2 attempts, 2 restarts; about 184,000 states |
| `server_restart` | finding | 1 proof, 1 restart, nothing fails outside |
| `pool` | is energy paid for too often, a penalty outgrown? | 2 owners with a device each, 1 pool of at most 2, reports of 1 and 2, 3 Wh in all, 1 tick, 1 anomaly, scores 20 to 23; about 126,000 states |
| `ledger` | does every instruction that moves the token keep the count, and the founder the schedule? | 1 device in 1 pool, 1 Wh, premine of 9, cliff 1, release 2, 4 ticks, emissions of 250 under a cap of 510, withdrawals and burns of 12; about 203,000 states |
| `evm` | are quorums distinct, voters announced, oracles counted? | 2 owners, 3 oracles of which 2 at a time, 1 attestation, 2 payloads, thresholds 0 to 4 of at most 3, timelock 1, 3 ticks, at most 3 changes waiting at once; about 1.6 million states |
| `firmware` | is energy or a nonce lost or doubled, and is everything delivered in the end? | meter from 1 to 4, rated power 0 (none) or 1, nonces set to 1 or 3, a server that begins at 0 or 2, 3 mishaps; about 857,000 states |

Why the bounds are enough. Three oracles at a time and two hashes give a majority, a
dissenter and a conflict; the fourth votes after one was removed, so the counter, which ends
at three there, saturates below the number of agreeing votes; a threshold above two needs all
three, and the invalid ones 1 and 4 exercise the validation. Three keys make a chain of two rotations,
or a rotation next to a device of another owner, and two devices fill a wallet. Two nonces
and two handlers make a duplicate as well as an overtaking retry, a queue of one is full
with the first entry, two attempts make one retry, and two restarts interrupt each other.
Two rows are enough for an expired one in front of one that is still to be looked at, and
for one beyond what a restart loads.
Two proposals wait out their timelocks together and there is supply for one. A month of
two ticks in three lets a window end. Two members with different reputations make the
weights of a distribution unequal, the numbers of `pool` leave a remainder, and a pool that
is distributed twice meets the contributions of the first time. Four ticks hold a cliff,
half a release, a second initialisation and a claim of each. In `evm`, two oracles fill the cap
and the third is refused until one is revoked, so that a vote may come from an oracle that
is no longer trusted; two payloads conflict; in three ticks a threshold is scheduled,
executed, and raised or lowered again by another one while votes are outstanding; the
constraint `FewWaiting` of its instance leaves out the states in which four or more changes
wait. In `emission_math` the word is small enough for a reward to be cut by `as u64`. Three mishaps put a lost answer behind a power loss behind a reset. The scale of
`emission_math` keeps the rounding of the code with arguments small enough for TLC's 32-bit
integers; the tolerance is the error of twenty truncated terms and of the price, which is rounded to
whole watt-hours. The theorems cover every
value of the bounds, except for the properties listed as only model-checked below.

Symmetry is declared where only safety is checked (`device_lifecycle`, `mint`, `governance`,
`evm`, `quorum`), for sets whose members no definition names; the admin, the deployer and the default
key are kept out of them.

`CHECK_DEADLOCK FALSE` stands where the system may really stop: when every device is
revoked or every nonce is used (`device_lifecycle`, `mint`), when the bounded arguments are
enumerated (`emission_math`), when the bounded rows and restarts are used up and the queue
is empty (`server`), and when the bounded energy, time or tokens are spent (`pool`, `ledger`,
`evm`). `quorum`, `governance` and `firmware` do without it.

Fairness. `OracleQuorum` assumes none: `server.js` votes only when it is configured to, skips
the vote without a deposit and gives up after `MINT_MAX_ATTEMPTS`, so that a quorum is reached
is nothing the code guarantees. What it guarantees is `AgreementIsFinal`: a quorum of agreeing
votes is never missed, whatever comes between them. `OracleServer.Spec` assumes that the event loop runs the worker (`Take`,
`Record`), each timer and the drain, and that a sent transaction is confirmed, refused or
times out (`Mint`, bounded by the timeouts of `sendVersioned`). Clients, restarts, the
database and late transactions are under no fairness. `DeviceFirmware.FairSpec` assumes that
the board is switched on again with its counter readable, that its loop goes round, each
round ending by an answer or the read timeout, and that the server handles what reaches it;
what goes wrong is bounded in number and may come at any time.

## Properties worth reading

- `VotesCountAgreeing`, `FinalizedHasQuorum`: the counter is the number of vote accounts,
  and no history of reconfigurations finalizes below two distinct signers.
- `AgreementIsFinal`, `MintedIsAttested`: finalization is evaluated only when a vote arrives
  and nobody votes twice, so an attestation that misses its quorum would have missed it for
  good; and what the gate let through stays backed by two signers, whatever follows.
- `VotersAreAccountable`: a vote outlives the registration of its oracle, never the deposit.
- `ActiveDevicesAreCounted`, `ActivationIsNeverRefused`: the counter of active devices
  drifts, but only upwards and never far enough to refuse a device.
- `RotationsAreChains`: key rotation keeps nonce, energy and owner along chains that never
  merge or return.
- `SupplyIsBacked`: although a reward reads two windows of two moments, tokens never exceed
  the genesis peg, and the accounts hold what the vault counts.
- `NetworkWindowCoversMonth`: the window of the network is no sliding window, but it never
  falls below the energy of the last thirty days.
- `VotesAreDistinct`, `PayoutsMatchExecutions`, `ImplementsEmissionPromise`: with members and
  role changing hands. A payment is judged by the ballot of its proposal alone, so a change
  of members neither approves anything nor lets anybody vote twice.
- `ImplementsMintingPromise`: relates three places that nothing keeps in step, the table of
  proofs, the chain and the statuses, across every `await` and restart.
- `AcceptedIsHeld`, `NothingMintsUnrecorded`: through duplicates, retries, errors of the
  database, restarts and a drain that the worker overtakes. The first lists what the code does
  leave behind: a row too old to be minted, and one that was never queued, met a full queue or
  a database error, or lay beyond what the last restart loaded.
- `EnergyIsRewardedTwiceAtMost`: contributions are never reset, members may be passed twice
  and mints and distributions see different supplies; still the total of the pool alone
  bounds what the energy may be paid a second time.
- `PenaltyIsNeverForgotten`: half of the gap is made good at every mint, as often as the owner
  likes, and integer division decides whether the gap ever closes.
- `VestingNeverAheadOfFirstStart`: initialising again forgets what was withdrawn and restarts
  the clock; the second makes up for the first.
- `QuorumIsDistinct`, `VotersWereAnnounced`: the threshold and the oracles move while an
  attestation collects confirmations, and an announced change outlives its owner.
- `EnergyIsAccounted` of `DeviceFirmware`: relates the meter, flash, RAM, the channel and the
  server, with power loss between any two of their writes.

## Findings

Two runs show a disagreement between the source and what it says of itself:

1. `emission_log`: below a share of one half, `ln_1p_fp` starts its series with the wrong
   sign after the first term and computes 2u - ln(1 + u) (`math.rs:55`).
2. `server_restart`: a proof that a restart takes back from `proof_json` holds its device
   key as a string and can never be minted (`server.js:844`).

Met while modelling, without a run of their own:

- Quorum. A contradictory vote may finalize an attestation: `is_finalized` is evaluated after
  it too, so once the threshold is lowered to the votes already cast, the conflicting vote
  closes the quorum (`oracle_quorum.rs:131`, against the comment at
  `state/oracle_attestation.rs:51`). Lowering the threshold finalizes nothing by itself. A
  voter that omits the configuration is judged by the default of two
  (`oracle_quorum.rs:130`). A vote for a conflicting hash is rewarded too. `slash_oracle`
  never succeeds: a system transfer out of an account that carries data is refused
  (`oracle_quorum.rs:261`; the rule of the system program is the constant
  `DataAccountMayPay`, an external assumption). The gate compares with the hash of the
  device message (`state/oracle.rs:77`), where the comment above it names the oracle message
  (`mint.rs:95`).
- Devices. `active_count` is not the number of Active devices after a revocation without the
  optional account (`device_lifecycle.rs:527`). Revocation and rotation are accepted from
  states that `can_transition_to` forbids.
- Mint. Without the optional policy account a report is judged by the defaults, a pause
  included (`mint.rs:128`). `enforce_supply_cap` off lets the supply pass the cap. No product
  of `math.rs` overflows 128 bits up to the cap (`NothingOverflows`); from about 2.54 times the
  cap a term of the exponential does, `fp_mul` answers 0 (`math.rs:20`), the series is cut
  there and the price falls to about half. What is left of the series is
  still at least one, so the genesis peg holds there too. The
  multiplier drops when a share passes one half, and two windows of different owners may
  make a share exceed the network, which the code clamps.
- Governance. The `destination` of a proposal is recorded and never compared. After
  `update_members` a proposal may stay open with nobody left to vote, and only the authority
  can cancel it.
- Server. Two concurrent submissions of one nonce are counted twice and stored as two rows. A
  crash between `saveEnergy` and `saveProof` leaves the nonce used and no proof
  (`server.js:1484`). The drain writes the status back to every row of an expired row's
  nonce, so the late duplicate of a minted proof turns the minted row into an accepted one.
  Rows too old to be minted stay accepted (`server.js:854`) and are loaded again, oldest
  first and 10000 at most, by every restart (`storage.js:286`): once there are that many, no
  proof behind them is put back into the queue, against `server.js:1529` ("Proofs are NEVER
  lost [...] so a restart drains the queue"). A restart also queues rows that the handler did
  not mean to mint (off-chain pools, energy below `MINT_MIN_ENERGY`).
- Pool and reputation. Contributions are not reset by a distribution (`pool.rs:305`, against
  `state/pool.rs:50`). `join_pool` asks nobody for consent. The comment at
  `instructions/reputation.rs:113` promises a ceiling that nothing stores.
- Vesting. `initialize_founder_vesting` may be called again and forgets what was withdrawn
  (`vesting.rs:80`). The premine lies in a token account that the founder's wallet owns
  (`init_founder.rs:11`, `vesting.rs:119`), so a plain transfer of the token program moves it:
  `VestingNeverAheadOfFirstStart` is about claims only.
- EVM contract. Lowering the threshold finalizes nothing by itself, and confirmations of
  oracles that lost trust stay counted.
- Firmware (`esp32_proof_sender_v3.ino`). What is cut at the rated power is acknowledged with
  the report and lost (853). A meter that cannot be read at the first boot reports its
  counter from before the commissioning (944). A counter reset clears the baseline in RAM
  only (914). A lost acknowledgement makes the server count the energy twice.
- Merkle proofs. The position in the tree is a `u8` and addresses no leaf beyond the 256th.

## Proofs

`tlapm` proves the following for every value of the constants, from the assumptions named in
the modules (`KeysAssumption`, `QuorumAssumption`, `DeviceAssumption`, `EmissionAssumption`,
`CurveAssumption`, `MintAssumption`, `GovernanceAssumption`, `OracleServerAssumption`, `PoolAssumption`,
`AccountsAssumption` of both its modules, `ReputationAssumption`, `LedgerAssumption`,
`EvmAssumption`, `FirmwareAssumption`: the constants have their types, null values are in no
set, bounds are natural numbers, the sets that are counted or summed over are finite, and no
owner is a fund).

- `OracleQuorumProofs`: `TypeCorrect`, `CounterIsExact`, `QuorumSafety`, `Irrevocability`,
  `RewardSafety`, `Accountability`, `QuorumIsNotMissed`, `GateHolds`, `QuorumRefinesPromise`.
  `FinalizedHasQuorum` is not inductive. `QuorumInv` adds that zero votes means that nobody
  voted and a positive counter that the canonical hash is fixed, that the counter agrees
  with the vote accounts, that a finalized attestation has two votes, that a configured
  threshold is at least two, and that the flag is dissent from the canonical hash.
  `QuorumIsNotMissed` adds that an attestation still open has fewer votes than the highest
  threshold there was, which is no lower than any in force and fits the counter; a gated mint
  met a finalized attestation, whose hash never changes and whose votes are never withdrawn.
  `RewardInv` ties payments to the claims. `AccountableInv` adds that
  every deposit that exists covers the minimum or was slashed.
- `EmissionProofs`: `RewardBelowPeg`, `PriceNeverFalls`, `CuttingNeverPays`,
  `SplitLosesNothing`, `RewardsStayBelowPeg`, `DifficultyIsBounded`, `NothingOverflows`,
  `ExpEndsAtZero`, `LogEndsAtZero`, for every scale and every number of terms of the series.
  The induction they need is written without an operator parameter: the least number that a
  set leaves out would have a predecessor in it. It gives the series their values (`SeriesExists`), keeps
  what every term keeps, and shows that the exponential is at least one and grows with its
  argument, term by term, rounding included. The logarithm is never negative although its
  signs are wrong, since no term is larger than the one before it. The same induction, on the
  size of a finite set, gives the laws of `Total`: a value that changes moves the sum by as
  much (`SumMoves`), sums of bounded, split or classified values (`SumBounds`, `SumAdds`,
  `SumOfClasses`), and a reward that is credited in five parts adds up (`CreditsAddUp`).
  How well the series meets ten at the full supply no proof can compute: `DifficultyIsBounded`
  assumes it (`Accurate`). With the scale of the code the series ends 14 parts in 10^18 short
  of ten, and a test of `math.rs` (309) asserts the price that follows, within one; the run
  checks the same at the scale of TLC.
  The early exits of the loops, which the model's series do not have, change no value
  (`ExpEndsAtZero`, `LogEndsAtZero`). `NothingOverflows` compares every product with the
  widths of the code (`Widths`): the terms of the exponential of at most 3 stay below 4.5 and
  their sum below 27, whatever the number of terms, the powers of the logarithm only fall,
  and a sum of 200 of them leaves room in 128 bits.
- `EnergyMintProofs`, on the registry: `RotationSafety`, `RevocationIsFinal`,
  `DeviceTypeCorrect`, `CountersAreSound`, `ClaimsHold`, `ActivationGranted`. `ShapeInv` says
  what a record may look like (revoked is a state, absent records are blank, every record
  beyond Registered is owned or revoked) and contains the chains. `CountInv` bounds the drift
  from both sides: the counter is at least the number of Active devices and at most the number
  of current records that are Active or revoked. The upper bound is what makes an activation
  succeed.
- `EnergyMintProofs`, on the mint path: `MintingDevicesAreCounted` and `MintingKeepsProgress`
  carry what is proved of the registry over, since the mint path is composed of the registry's
  own actions (the lemma `MintImplementsRegistry`); `MintTypeCorrect`, `TierLimitHolds`, `CapHolds` from `MintInv`,
  which adds that a policy without a limit leaves its trace in `relaxed`; and
  `EnergyAccounting`, `SupplyBacking`, `WindowCoverage` from `TotalsInv`, which adds to the
  three that balances are natural and that nothing was accepted after the last update of the
  network window. A rotation moves energy from the old key to the new one and leaves the sum;
  the peg is `RewardBelowPeg`, whatever pair of windows the reward read.
- `GovernanceProofs`: `GovernanceTypeCorrect`, `ProposalIsUnique`, `VotingIsSound`,
  `ApprovalIsMajority`, `TimelockHolds`, `PayoutsHold`, `ClosingIsFinal`,
  `GovernanceRefinesPromise`. `Inv` says that ids are given out
  in order, that the open proposal is the active one, and that every proposal is `Sound` by
  itself: its counters are its voters, they fit the snapshot, its status was reached by a
  majority. The payouts follow since an execution adds one amount to both sums and no other
  action executes a proposal or touches an executed one. In the refinement a proposal is a
  grant (`GrantOf`) and a wallet's accounts are one balance (`PaidTo`). A vote is `Ballot`
  because `Inv` makes the counters of a proposal its voters, so the sum of the two
  counters that the code compares is the number of distinct wallets that the promise counts;
  an execution is `Pay` because the sum over accounts moves by the amount; a creation is `Ask`,
  the proposal it replaces lapses.
- `OracleServerProofs`: `ServerTypeCorrect`, `MintedHolds`, `RecordsHold`, `AcceptedHolds`,
  `EnergyIsCounted`, `ServerRefinesPromise`, for any finite number of handlers and any number of devices, rows,
  attempts and restarts. Beside the types, an invariant for each: `ChainInv`, the worker that
  reports success and every row marked minted have been on chain; `RecordInv`, every key that is
  minted, in the queue, at a timer, with the worker, in a transaction that may still land or
  with a handler past the writing of its row has a row; `HoldInv`, a key that is refused as already queued is in the queue, so whoever
  relies on it is right to let go; `EnergyInv`, the energy in memory counts the rows and, one
  by one, the additions that handlers have still to store, since the row follows the
  addition. `ServerRefinesPromise` needs one more, `NoncesBelow`: what is minted lies at or
  below the nonce of its device on chain, so a mint, which raises that nonce, comes after all
  others of the device. `RecordInv` makes the mint one of a stored proof, `ChainInv` the
  mark of a row one of a minted proof, and every other step withdraws a claim or is invisible.
- `TokenLedgerProofs`: `PenaltyHolds`, `LedgerKeepsPenalties`, `VestingHolds`,
  `PoolCountsTheToken`, `TwiceAtMost`, `LedgerCountsTheToken`, `LedgerPaysTwiceAtMost`,
  `PoolTypeCorrect`, `LedgerTypeCorrect`. `ReputationInv` says that merit only grows and a
  penalised score is below it: a first penalty takes at least a point because the base score
  is at least 20, and half of a gap, rounded down, leaves a gap. `BooksInv` is the count of
  the token and the bound on what was earned, with the types of what they sum. A distribution
  keeps it because the shares, rounded down, fit in the scale together, what they take fits in
  the reward, and the last group takes exactly what is left, so that no subtraction saturates
  (`PayoutsAddUp`); and because emptying the total of the pool pays for the whole reward at
  the peg. `RangeInv` are the bounds of the types: nothing falls below zero, and the counted supply
  fits an `u64` although a policy may switch the cap off. `VestingInv` splits what
  was claimed: the part before the clock in force was covered by the time until that clock
  started, the rest by the time since, and two schedules in a row release no more than one.
- `EvmAttestationProofs`: `EvmTypeCorrect`, `QuorumHolds`, `VotersHold`, `OracleCountHolds`.
  `Announced` carries the timelock through the scheduled change to the trusted oracle and
  from there to its votes; `ThresholdsWaitInBounds` says that a scheduled threshold was
  checked when it was scheduled, since its execution checks nothing; `Votes` gives each
  confirmation its place in the order of voting, with the threshold of its moment.
- `DeviceFirmwareProofs`: `FirmwareTypeCorrect`, `NoncesHold`, `EnergyHolds`. `Energy` measures
  what is unreported from each of the three baselines and says how they lie to one another;
  `ServerBalance` splits what the server holds into what was acknowledged, what it took
  without the board hearing of it, and an answer that is there and not yet read; `NoncesRise` places every nonce that was signed below the one
  in flash, from the moment it is stored.

Only model-checked: liveness (`QueueIsWorkedOff`, `EnergyIsDelivered`;
neither fairness nor ENABLED is in the prover's reach), and that the constants of a scale are
`Accurate`, which is the value of a recursive function. Every other property of a passing run
is stated by a theorem.

## Not modelled

- In `EnergyMint`: signatures and freshness (inputs: any report may reach the state changes),
  the quorum gate, which is `OracleQuorum`'s, the handover of the policy authority, the
  legacy `record_production` an owner signs, the version and proof counters. The optional
  pool and reputation accounts are `EnergyPool`'s.
- In `EnergyPool`: the mint path's device, tier and policy checks (any owner's device may
  mint), `ers_premium_access` and the percentile, which nothing reads.
- In `TokenLedger`: the one-shot creation of token, vault, funds and configuration, which it
  starts from, and the authorities of the treasury; how a governed emission or an oracle
  reward is decided is `Governance`'s and `OracleQuorum`'s.
- In `OracleServer`: device registration, off-chain pools, statistics, metering of requests.
- In `DeviceFirmware`: Wi-Fi, portal, update over the air, the transport of the manifest, the
  aggregation window (off by default); the server is reduced to its nonce and its energy.
- In `Governance`: titles and the recorded destination, which nothing reads.
- Manifests and Merkle proofs: the program stores a root and records a path that was verified
  against it; nothing else in it reads either, and what decides is the hashing, which a model
  could only repeat. The registry server is a process over files.
- Staking: no instruction of the program creates the StakeInfo account that `stake` and
  `unstake` require, so no state in which either runs can be reached.
- Proof-of-intelligence commitments are one instruction that creates an account once.
  Signature checks, SDKs, scripts, secure element driver, legacy and demo code, and the
  vendored library are stateless, device I/O or third party; `PROJECT.json` gives the reason
  for each.
- 128-bit overflow, which TLC's integers cannot reach: `NothingOverflows` excludes it up to
  the cap. The model's products do not fall back to 0 beyond it.

## Plan

Built: quorum, device registry, emission, mint path, governance, server, pool and reputation,
ledger, EVM contract and firmware, each with its runs and its theorems. What is left:

1. `EnergyMint` and `TokenLedger` on one vault: the peg of `SupplyIsBacked` beside emissions,
   burns and the premine.
2. `DeviceFirmware` over the handlers of `OracleServer` in place of its reduced server.
3. The publication of manifests, should anything in the program come to depend on the root.
