---------------------------- MODULE OracleServer ----------------------------
(***************************************************************************)
(* The oracle server (server.js, storage.js): concurrent handlers of       *)
(* /proof/submit admit proofs and store them, one worker mints them from a *)
(* queue, failed mints come back through timers, and a restart rebuilds    *)
(* the queue from the stored proofs, row by row.                           *)
(*                                                                         *)
(* Every await of the code is a point where another handler, the worker or *)
(* a timer may run; a handler is split there and nowhere else.  A proof is *)
(* identified by its device and nonce; its energy is one unit.  Signature, *)
(* freshness and registry checks only decide whether a request goes on.    *)
(***************************************************************************)
EXTENDS Integers, FiniteSets, SequencesExt

CONSTANTS
  Devices, Requests,   \* devices, handlers in flight at once
  MINT_QUEUE_MAX,
  MINT_MAX_ATTEMPTS,
  LoadLimits,          \* what `limit` of loadPendingProofs may be; 10000 in the code
  RpcMayFail,          \* may a mint fail for reasons outside the server?
  StorageMayFail,      \* may the database throw?
  MaxNonce,            \* bound on the nonces of a device
  MaxRows,             \* bound on the rows stored, those on their way included
  MaxCrashes           \* bound on the restarts

ASSUME OracleServerAssumption ==
  /\ {MINT_QUEUE_MAX, MINT_MAX_ATTEMPTS, MaxNonce} \cup LoadLimits \subseteq Nat \ {0}
  /\ {MaxRows, MaxCrashes} \subseteq Nat
  /\ {RpcMayFail, StorageMayFail} \subseteq BOOLEAN
  /\ IsFiniteSet(Requests)

VARIABLES
  request,       \* the handlers, by slot
  energyStore,   \* in memory: accumulated energy and last nonce of each device
  energyTable,   \* the same on disk
  proofs,        \* the table of proofs, in the order of their ids
  mintQueue,
  mintQueueIds,  \* keys that are not enqueued again
  worker,        \* what the worker is at
  timers,        \* entries that come back after their backoff
  drain,         \* what the start after a crash has still to look at
  chain,         \* nonce of each device's record on chain
  minted,        \* proofs minted on chain
  inFlight,      \* proofs whose transaction was given up on and may still land
  parked,        \* proofs left in the table for the next restart: never queued, queue full,
                 \* database error, or beyond the rows that the last restart loaded
  expired,       \* rows that a restart found older than a proof may be to be minted
  crashes

handling == <<request, energyStore, energyTable>>
minting  == <<mintQueue, mintQueueIds, worker, timers, drain>>
onChain  == <<chain, minted, inFlight>>
restarts == <<expired, crashes>>
vars == <<handling, proofs, minting, onChain, parked, restarts>>

Nonces == 1 .. MaxNonce
Keys == Devices \X Nonces
NoKey == <<>>

NoRequest == [pc |-> "idle", key |-> NoKey, chainNonce |-> 0, energy |-> 0]
NoWork == [phase |-> "idle", key |-> NoKey, attempts |-> 0, restored |-> FALSE]
Entry(key, attempts, restored) == [key |-> key, attempts |-> attempts, restored |-> restored]
KeysOf(entries) == {entries[i].key : i \in DOMAIN entries}
Drained == [rows |-> {}, atAwait |-> FALSE]

\* The worker and the timers run only while the drain awaits the database, or is over.
EventLoopFree == drain.rows = {} \/ drain.atAwait
NothingStored == [d \in Devices |-> [energy |-> 0, nonce |-> 0]]

Init ==
  /\ request = [r \in Requests |-> NoRequest]
  /\ energyStore = NothingStored
  /\ energyTable = NothingStored
  /\ proofs = <<>>
  /\ mintQueue = <<>> /\ mintQueueIds = {} /\ worker = NoWork /\ timers = <<>>
  /\ drain = Drained
  /\ chain = [d \in Devices |-> 0] /\ minted = {} /\ inFlight = {}
  /\ parked = {} /\ expired = {}
  /\ crashes = 0
-----------------------------------------------------------------------------
(* Storage: a status is set on every row of the proof.                     *)

StatusSet(key, status) ==
  [i \in DOMAIN proofs |->
     IF proofs[i].key = key THEN [proofs[i] EXCEPT !.status = status] ELSE proofs[i]]
-----------------------------------------------------------------------------
(* POST /proof/submit.                                                     *)

At(r, pc) == request[r].pc = pc
Goto(r, pc) == request' = [request EXCEPT ![r].pc = pc]
Unsaved(r) == request[r].pc \notin {"idle", "stored", "marked"}
Reply(r) == request' = [request EXCEPT ![r] = NoRequest]

\* The record of the device is read from the chain.  The server listens after the drain.
FetchProducer(r, key) ==
  /\ At(r, "idle") /\ drain.rows = {}
  /\ Len(proofs) + Cardinality({q \in Requests : Unsaved(q)}) < MaxRows
  /\ request' = [request EXCEPT ![r] = [pc |-> "fetched", key |-> key, energy |-> 0,
                                        chainNonce |-> chain[key[1]]]]
  /\ UNCHANGED <<energyStore, energyTable, proofs, minting, onChain, parked, restarts>>

\* The nonce is checked against the chain and the memory, then the signature is awaited.
CheckNonce(r) ==
  LET key == request[r].key
  IN  /\ At(r, "fetched")
      /\ key[2] > request[r].chainNonce
      /\ key[2] > energyStore[key[1]].nonce
      /\ Goto(r, "verifying")
      /\ UNCHANGED <<energyStore, energyTable, proofs, minting, onChain, parked, restarts>>

\* Any of the checks may fail.
Refuse(r) ==
  /\ At(r, "fetched") \/ At(r, "verifying")
  /\ Reply(r)
  /\ UNCHANGED <<energyStore, energyTable, proofs, minting, onChain, parked, restarts>>

\* Defect: the total is written back without being read again after the await.
AccumulateStale(r) ==
  LET key == request[r].key
      new == energyTable[key[1]].energy + 1
  IN  /\ At(r, "verifying")
      /\ energyStore' = [energyStore EXCEPT ![key[1]] = [energy |-> new, nonce |-> key[2]]]
      /\ request' = [request EXCEPT ![r].pc = "accumulated", ![r].energy = new]
      /\ UNCHANGED <<energyTable, proofs, minting, onChain, parked, restarts>>

\* The energy is read again after the await, added to and written back in one go.
Accumulate(r) ==
  LET key == request[r].key
      new == energyStore[key[1]].energy + 1
  IN  /\ At(r, "verifying")
      /\ energyStore' = [energyStore EXCEPT ![key[1]] = [energy |-> new, nonce |-> key[2]]]
      /\ request' = [request EXCEPT ![r].pc = "accumulated", ![r].energy = new]
      /\ UNCHANGED <<energyTable, proofs, minting, onChain, parked, restarts>>

\* Defect: the proof is queued before its row is written.
EnqueueUnstored(r) ==
  /\ At(r, "accumulated")
  /\ request[r].key \notin mintQueueIds
  /\ Len(mintQueue) < MINT_QUEUE_MAX
  /\ mintQueue' = Append(mintQueue, Entry(request[r].key, 0, FALSE))
  /\ mintQueueIds' = mintQueueIds \cup {request[r].key}
  /\ Reply(r)
  /\ UNCHANGED <<energyStore, energyTable, proofs, worker, timers, drain, onChain, parked,
                 restarts>>

SaveEnergy(r) ==
  LET key == request[r].key
  IN  /\ At(r, "accumulated")
      /\ energyTable' = [energyTable EXCEPT ![key[1]] =
                           [energy |-> request[r].energy, nonce |-> key[2]]]
      /\ Goto(r, "energySaved")
      /\ UNCHANGED <<energyStore, proofs, minting, onChain, parked, restarts>>

SaveProof(r) ==
  /\ At(r, "energySaved")
  /\ proofs' = Append(proofs, [key |-> request[r].key, status |-> "accepted"])
  /\ Goto(r, "stored")
  /\ UNCHANGED <<energyStore, energyTable, minting, onChain, parked, restarts>>

\* A proof for an off-chain pool, or with a legacy signature, is not queued.
ReplyUnqueued(r) ==
  /\ At(r, "stored")
  /\ Reply(r)
  /\ parked' = parked \cup {request[r].key}
  /\ UNCHANGED <<energyStore, energyTable, proofs, minting, onChain, restarts>>

MarkAccepted(r) ==
  /\ At(r, "stored")
  /\ proofs' = StatusSet(request[r].key, "accepted")
  /\ Goto(r, "marked")
  /\ UNCHANGED <<energyStore, energyTable, minting, onChain, parked, restarts>>

\* Too little energy for a transaction of its own, queued, already queued, or queue full.
EnqueueMint(r) ==
  LET key == request[r].key
  IN  /\ At(r, "marked")
      /\ Reply(r)
      /\ \/ /\ parked' = parked \cup {key}
            /\ UNCHANGED <<mintQueue, mintQueueIds>>
         \/ /\ key \notin mintQueueIds
            /\ Len(mintQueue) < MINT_QUEUE_MAX
            /\ mintQueue' = Append(mintQueue, Entry(key, 0, FALSE))
            /\ mintQueueIds' = mintQueueIds \cup {key}
            /\ UNCHANGED parked
         \/ /\ key \in mintQueueIds
            /\ UNCHANGED <<mintQueue, mintQueueIds, parked>>
         \/ /\ key \notin mintQueueIds
            /\ Len(mintQueue) >= MINT_QUEUE_MAX
            /\ parked' = parked \cup {key}
            /\ UNCHANGED <<mintQueue, mintQueueIds>>
      /\ UNCHANGED <<energyStore, energyTable, proofs, worker, timers, drain, onChain, restarts>>

\* The database throws: the handler replies 500 and stops where it is.
HandlerFails(r) ==
  /\ StorageMayFail
  /\ request[r].pc \in {"accumulated", "energySaved", "stored"}
  /\ Reply(r)
  /\ parked' = IF At(r, "stored") THEN parked \cup {request[r].key} ELSE parked
  /\ UNCHANGED <<energyStore, energyTable, proofs, minting, onChain, restarts>>
-----------------------------------------------------------------------------
(* The worker.                                                             *)

Take ==
  /\ EventLoopFree
  /\ worker.phase = "idle" /\ mintQueue # <<>>
  /\ worker' = [phase |-> "minting", key |-> Head(mintQueue).key,
                attempts |-> Head(mintQueue).attempts, restored |-> Head(mintQueue).restored]
  /\ mintQueue' = Tail(mintQueue)
  /\ mintQueueIds' = mintQueueIds \ {Head(mintQueue).key}
  /\ UNCHANGED <<handling, proofs, timers, drain, onChain, parked, restarts>>

\* Defect: any proof will do, whatever was minted before.
CanMintAgain == ~worker.restored

\* What the program asks of the nonce, and what the code asks of the proof: one that was
\* parsed from proof_json holds the device key as a string, which has no toBuffer().
CanMint == worker.key[2] > chain[worker.key[1]] /\ ~worker.restored

\* The transaction is executed and its confirmation arrives.
MintExecuted ==
  /\ worker.phase = "minting"
  /\ CanMint
  /\ chain' = [chain EXCEPT ![worker.key[1]] = worker.key[2]]
  /\ minted' = minted \cup {worker.key}
  /\ worker' = [worker EXCEPT !.phase = "succeeded"]
  /\ UNCHANGED <<handling, proofs, mintQueue, mintQueueIds, timers, drain, inFlight, parked,
                 restarts>>

\* No confirmation within the timeouts of sendVersioned.
MintTimesOut ==
  /\ worker.phase = "minting"
  /\ CanMint /\ RpcMayFail
  /\ inFlight' = inFlight \cup {worker.key}
  /\ worker' = [worker EXCEPT !.phase = "failed"]
  /\ UNCHANGED <<handling, proofs, mintQueue, mintQueueIds, timers, drain, chain, minted, parked,
                 restarts>>

\* A transaction lands that the server has given up on, at any time or never.
LandLate(key) ==
  /\ key \in inFlight
  /\ inFlight' = inFlight \ {key}
  /\ key[2] > chain[key[1]]
  /\ chain' = [chain EXCEPT ![key[1]] = key[2]]
  /\ minted' = minted \cup {key}
  /\ UNCHANGED <<handling, proofs, minting, parked, restarts>>

MintFailed ==
  /\ worker.phase = "minting"
  /\ ~CanMint \/ RpcMayFail
  /\ worker' = [worker EXCEPT !.phase = "failed"]
  /\ UNCHANGED <<handling, proofs, mintQueue, mintQueueIds, timers, drain, onChain, parked,
                 restarts>>

\* Defect: whatever the outcome, the row says minted.
RecordSuccessAnyway ==
  /\ worker.phase \in {"succeeded", "failed"}
  /\ proofs' = StatusSet(worker.key, "minted")
  /\ worker' = NoWork
  /\ UNCHANGED <<handling, mintQueue, mintQueueIds, timers, drain, onChain, parked, restarts>>

RecordSuccess ==
  /\ worker.phase = "succeeded"
  /\ proofs' = StatusSet(worker.key, "minted")
  /\ worker' = NoWork
  /\ UNCHANGED <<handling, mintQueue, mintQueueIds, timers, drain, onChain, parked, restarts>>

\* Defect: the attempts are not counted.
RetryForEver ==
  /\ worker.phase = "failed"
  /\ proofs' = StatusSet(worker.key, "accepted")
  /\ timers' = Append(timers, Entry(worker.key, worker.attempts, worker.restored))
  /\ worker' = NoWork
  /\ UNCHANGED <<handling, mintQueue, mintQueueIds, drain, onChain, parked, restarts>>

\* The entry comes back after its backoff.
Retry ==
  /\ worker.phase = "failed"
  /\ worker.attempts + 1 < MINT_MAX_ATTEMPTS
  /\ proofs' = StatusSet(worker.key, "accepted")
  /\ timers' = Append(timers, Entry(worker.key, worker.attempts + 1, worker.restored))
  /\ worker' = NoWork
  /\ UNCHANGED <<handling, mintQueue, mintQueueIds, drain, onChain, parked, restarts>>

GiveUp ==
  /\ worker.phase = "failed"
  /\ worker.attempts + 1 >= MINT_MAX_ATTEMPTS
  /\ proofs' = StatusSet(worker.key, "deferred")
  /\ worker' = NoWork
  /\ UNCHANGED <<handling, mintQueue, mintQueueIds, timers, drain, onChain, parked, restarts>>

\* The database throws while the outcome is recorded: the entry is written off as deferred,
\* if the database allows that much.
RecordFails ==
  /\ StorageMayFail
  /\ worker.phase \in {"succeeded", "failed"}
  /\ \/ proofs' = StatusSet(worker.key, "deferred") /\ UNCHANGED parked
     \/ UNCHANGED proofs /\ parked' = parked \cup {worker.key}
  /\ worker' = NoWork
  /\ UNCHANGED <<handling, mintQueue, mintQueueIds, timers, drain, onChain, restarts>>

\* A timer enqueues its entry whatever the set of keys and the length of the queue.
TimerFires(key) ==
  /\ EventLoopFree
  /\ \E i \in DOMAIN timers :
       /\ timers[i].key = key
       /\ mintQueue' = Append(mintQueue, timers[i])
       /\ timers' = RemoveAt(timers, i)
  /\ UNCHANGED <<handling, proofs, mintQueueIds, worker, drain, onChain, parked, restarts>>
-----------------------------------------------------------------------------
(* A crash loses the memory.  The start that follows loads the energies    *)
(* and the accepted proofs, and looks at these, oldest first.  Marking an  *)
(* expired one is awaited, and the worker may begin meanwhile.             *)

Accepted == {i \in DOMAIN proofs : proofs[i].status = "accepted"}
KeysAt(rows) == {proofs[i].key : i \in rows}

\* The oldest of the accepted rows, as many as loadPendingProofs returns.
Loaded(limit) == {i \in Accepted : Cardinality({j \in Accepted : j <= i}) <= limit}

\* What is too old to be minted stays so.  Without the stored proofs the server starts with
\* an empty queue.
CrashAndRestart ==
  /\ crashes < MaxCrashes
  /\ \/ \E limit \in LoadLimits :
           /\ drain' = [rows |-> Loaded(limit), atAwait |-> FALSE]
           /\ parked' = KeysAt(Accepted \ Loaded(limit))
           /\ \E old \in SUBSET Loaded(limit) : expired' = expired \cup old
     \/ /\ StorageMayFail
        /\ drain' = Drained
        /\ parked' = KeysAt(Accepted)
        /\ UNCHANGED expired
  /\ request' = [r \in Requests |-> NoRequest]
  /\ energyStore' = energyTable
  /\ mintQueue' = <<>> /\ mintQueueIds' = {} /\ worker' = NoWork /\ timers' = <<>>
  /\ crashes' = crashes + 1
  /\ UNCHANGED <<energyTable, proofs, onChain>>

Looked(i, awaiting) ==
  LET left == drain.rows \ {i}
  IN  drain' = [rows |-> left, atAwait |-> awaiting /\ left # {}]

\* Defect: the loop ends at the first row that is too old.
StopAtExpired(i) ==
  /\ i \in expired
  /\ drain' = Drained
  /\ proofs' = StatusSet(proofs[i].key, "accepted")
  /\ UNCHANGED <<mintQueue, mintQueueIds, parked>>

\* A row that is too old is marked with the status it was loaded with, if the database allows.
MarkExpired(i) ==
  /\ i \in expired
  /\ Looked(i, TRUE)
  /\ \/ proofs' = StatusSet(proofs[i].key, "accepted")
     \/ StorageMayFail /\ UNCHANGED proofs
  /\ UNCHANGED <<mintQueue, mintQueueIds, parked>>

\* Queued, already queued, or queue full.
RestoreRow(i) ==
  LET key == proofs[i].key
  IN  /\ i \notin expired
      /\ Looked(i, FALSE)
      /\ \/ /\ key \notin mintQueueIds
            /\ Len(mintQueue) < MINT_QUEUE_MAX
            /\ mintQueue' = Append(mintQueue, Entry(key, 0, TRUE))
            /\ mintQueueIds' = mintQueueIds \cup {key}
            /\ UNCHANGED parked
         \/ /\ key \in mintQueueIds
            /\ UNCHANGED <<mintQueue, mintQueueIds, parked>>
         \/ /\ key \notin mintQueueIds
            /\ Len(mintQueue) >= MINT_QUEUE_MAX
            /\ parked' = parked \cup {key}
            /\ UNCHANGED <<mintQueue, mintQueueIds>>
      /\ UNCHANGED proofs

Drain ==
  /\ \E i \in drain.rows :
       /\ \A j \in drain.rows : i <= j
       /\ MarkExpired(i) \/ RestoreRow(i)
  /\ UNCHANGED <<handling, worker, timers, onChain, restarts>>
-----------------------------------------------------------------------------
Handler(r) ==
  \/ \E key \in Keys : FetchProducer(r, key)
  \/ CheckNonce(r) \/ Refuse(r) \/ Accumulate(r) \/ SaveEnergy(r) \/ SaveProof(r)
  \/ ReplyUnqueued(r) \/ MarkAccepted(r) \/ EnqueueMint(r) \/ HandlerFails(r)

Mint == MintExecuted \/ MintTimesOut \/ MintFailed

Record == EventLoopFree /\ (RecordSuccess \/ Retry \/ GiveUp \/ RecordFails)

Next ==
  \/ \E r \in Requests : Handler(r)
  \/ Take \/ Mint \/ Record
  \/ \E key \in Keys : TimerFires(key) \/ LandLate(key)
  \/ CrashAndRestart \/ Drain

\* The event loop runs the worker, the timers and the drain; a transaction is confirmed or
\* fails.
Spec ==
  /\ Init /\ [][Next]_vars
  /\ WF_vars(Take) /\ WF_vars(Mint) /\ WF_vars(Record) /\ WF_vars(Drain)
  /\ \A key \in Keys : WF_vars(TimerFires(key))
-----------------------------------------------------------------------------
(* Properties.                                                             *)

Statuses == {"accepted", "minted", "deferred"}
Entries == [key : Keys, attempts : 0 .. MINT_MAX_ATTEMPTS - 1, restored : BOOLEAN]
EnergyRecords == [energy : Nat, nonce : 0 .. MaxNonce]

TypeOK ==
  /\ \A r \in Requests :
       /\ request[r].pc \in {"idle", "fetched", "verifying", "accumulated", "energySaved",
                             "stored", "marked"}
       /\ request[r].pc # "idle" => request[r].key \in Keys
  /\ energyStore \in [Devices -> EnergyRecords]
  /\ energyTable \in [Devices -> EnergyRecords]
  /\ proofs \in Seq([key : Keys, status : Statuses])
  /\ mintQueue \in Seq(Entries) /\ timers \in Seq(Entries)
  /\ mintQueueIds \subseteq Keys
  /\ chain \in [Devices -> 0 .. MaxNonce]
  /\ drain \in [rows : SUBSET DOMAIN proofs, atAwait : BOOLEAN]
  /\ expired \subseteq DOMAIN proofs

\* The worker, the queue or a timer has the proof.
Pending(key) ==
  worker.key = key \/ key \in KeysOf(mintQueue) \cup KeysOf(timers)

\* A handler has stored the proof and is about to queue it.
AboutToQueue(key) ==
  \E r \in Requests : request[r].key = key /\ (At(r, "stored") \/ At(r, "marked"))

\* The drain has still to look at a row of the proof.
AboutToDrain(key) == key \in KeysAt(drain.rows)

Rows(key) == {i \in DOMAIN proofs : proofs[i].key = key}

\* A row that says minted is on chain: late transactions, crashes and duplicates may
\* understate what was minted, never overstate it.
MintedRowsAreOnChain ==
  \A i \in DOMAIN proofs : proofs[i].status = "minted" => proofs[i].key \in minted

\* What is minted, or may still be, has its row: a crash forgets no proof that the chain
\* has seen.
NothingMintsUnrecorded ==
  \A key \in Keys : key \in minted \/ Pending(key) => Rows(key) # {}

\* An accepted proof that no restart found too old to be minted is in somebody's hands,
\* unless the code left it for the next restart: it was never queued, met a full queue or a
\* database error, or lay beyond the rows the last restart loaded.  No interleaving of
\* handlers, retries, duplicates and restarts strands another one.
AcceptedIsHeld ==
  \A i \in DOMAIN proofs :
    LET key == proofs[i].key
    IN  proofs[i].status = "accepted" => \/ key \in KeysAt(expired) \cup parked \/ Pending(key)
                                           \/ AboutToQueue(key) \/ AboutToDrain(key)

\* Until a restart the energy of a device counts every stored proof, however the handlers
\* interleave around their awaits: no addition is lost to another one.
EnergyCountsProofs ==
  (crashes = 0) =>
    \A d \in Devices :
      energyStore[d].energy >= Cardinality({i \in DOMAIN proofs : proofs[i].key[1] = d})

\* What the owner of a device may rely on: whatever is stored stays stored, mints are of
\* stored proofs and in the order of the nonces of a device, and a row that says minted
\* tells the truth, through every retry, late transaction, database error and restart.
Promise ==
  INSTANCE MintingPromise WITH
    Proofs   <- Keys,
    recorded <- KeysAt(DOMAIN proofs),
    claimed  <- KeysAt({i \in DOMAIN proofs : proofs[i].status = "minted"})

ImplementsMintingPromise == Promise!PromiseSpec

\* The worker gets to every queued proof, and gives up on it in the end.
QueueIsWorkedOff == \A key \in Keys : Pending(key) ~> ~Pending(key)

\* server.js:752 and 1529: proofs are stored "so the queue resumes after a restart", "so a
\* restart drains the queue".  With nothing wrong outside the server a proof queued by a
\* restart is minted, or its nonce was used before.
RestartResumesQueue ==
  \A key \in Keys :
    (\E i \in DOMAIN mintQueue : mintQueue[i].key = key /\ mintQueue[i].restored)
      ~> (chain[key[1]] >= key[2])
=============================================================================
