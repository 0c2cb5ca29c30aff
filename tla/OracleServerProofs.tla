------------------------- MODULE OracleServerProofs -------------------------
(***************************************************************************)
(* Proofs about OracleServer, for any devices, handlers, queue, attempts   *)
(* and crashes: the rows never overstate the chain, the chain sees nothing *)
(* without a row, no accepted proof is stranded and no energy is lost.     *)
(***************************************************************************)
EXTENDS OracleServer, FiniteSetTheorems, TLAPS

Row == [key : Keys, status : Statuses]
Request ==
  [pc : {"idle", "fetched", "verifying", "accumulated", "energySaved", "stored", "marked"},
   key : Keys \cup {NoKey}, chainNonce : Nat, energy : Nat]
Work ==
  [phase : {"idle", "minting", "succeeded", "failed"}, key : Keys \cup {NoKey},
   attempts : 0 .. MINT_MAX_ATTEMPTS - 1, restored : BOOLEAN]

RequestTypes ==
  /\ request \in [Requests -> Request]
  /\ \A r \in Requests : request[r].pc # "idle" => request[r].key \in Keys
EnergyTypes ==
  /\ energyStore \in [Devices -> EnergyRecords]
  /\ energyTable \in [Devices -> EnergyRecords]
RowTypes ==
  /\ proofs \in Seq(Row)
  /\ drain \in [rows : SUBSET Nat, atAwait : BOOLEAN]
  /\ drain.rows \subseteq DOMAIN proofs
  /\ expired \subseteq DOMAIN proofs
QueueTypes ==
  /\ mintQueue \in Seq(Entries) /\ timers \in Seq(Entries)
  /\ mintQueueIds \subseteq Keys
WorkTypes ==
  /\ worker \in Work
  /\ IF worker.phase = "idle" THEN worker.key = NoKey ELSE worker.key \in Keys
ChainTypes ==
  /\ chain \in [Devices -> 0 .. MaxNonce]
  /\ inFlight \subseteq Keys /\ minted \subseteq Keys
  /\ crashes \in Nat

Types == RequestTypes /\ EnergyTypes /\ RowTypes /\ QueueTypes /\ WorkTypes /\ ChainTypes
-----------------------------------------------------------------------------
(* Keys, rows and queues.                                                  *)

LEMMA Limits ==
  /\ MINT_QUEUE_MAX \in Nat \ {0} /\ MINT_MAX_ATTEMPTS \in Nat \ {0} /\ MaxNonce \in Nat \ {0}
  /\ MaxRows \in Nat /\ MaxCrashes \in Nat
BY OracleServerAssumption DEF OracleServerAssumption

LEMMA KeyParts ==
  ASSUME NEW key \in Keys
  PROVE  key[1] \in Devices /\ key[2] \in 1 .. MaxNonce /\ key # NoKey
<1>1. PICK d \in Devices, n \in Nonces : key = <<d, n>>
  BY DEF Keys
<1>2. <<d, n>> # <<>>
  OBVIOUS
<1>3. QED
  BY <1>1, <1>2 DEF Nonces, NoKey

\* Setting a status keeps the rows and their keys.
LEMMA StatusSetEffect ==
  ASSUME RowTypes, NEW key, NEW status \in Statuses
  PROVE  /\ StatusSet(key, status) \in Seq(Row)
         /\ DOMAIN StatusSet(key, status) = DOMAIN proofs
         /\ \A i \in DOMAIN proofs :
              /\ StatusSet(key, status)[i].key = proofs[i].key
              /\ StatusSet(key, status)[i].status =
                   IF proofs[i].key = key THEN status ELSE proofs[i].status
<1>1. proofs \in Seq(Row) /\ DOMAIN proofs = 1 .. Len(proofs) /\ Len(proofs) \in Nat
  BY DEF RowTypes
<1>2. \A i \in 1 .. Len(proofs) :
        /\ proofs[i] \in Row
        /\ [proofs[i] EXCEPT !.status = status] \in Row
        /\ [proofs[i] EXCEPT !.status = status].key = proofs[i].key
        /\ [proofs[i] EXCEPT !.status = status].status = status
  <2>1. \A i \in 1 .. Len(proofs) : proofs[i] \in Row
    BY <1>1
  <2>2. ASSUME NEW row \in Row
        PROVE  /\ [row EXCEPT !.status = status] \in Row
               /\ [row EXCEPT !.status = status].key = row.key
               /\ [row EXCEPT !.status = status].status = status
    BY DEF Row
  <2>3. QED
    BY <2>1, <2>2
<1>3. StatusSet(key, status) = [i \in 1 .. Len(proofs) |->
        IF proofs[i].key = key THEN [proofs[i] EXCEPT !.status = status] ELSE proofs[i]]
  BY <1>1 DEF StatusSet
<1>4. StatusSet(key, status) \in [1 .. Len(proofs) -> Row]
  BY <1>2, <1>3
<1>5. StatusSet(key, status) \in Seq(Row)
  BY <1>1, <1>4
<1>6. QED
  BY <1>1, <1>2, <1>3, <1>5

\* A new row comes last and leaves the others in place.
LEMMA AppendRow ==
  ASSUME RowTypes, NEW row \in Row
  PROVE  /\ Append(proofs, row) \in Seq(Row)
         /\ DOMAIN Append(proofs, row) = DOMAIN proofs \cup {Len(proofs) + 1}
         /\ Len(proofs) + 1 \notin DOMAIN proofs
         /\ \A i \in DOMAIN proofs : Append(proofs, row)[i] = proofs[i]
         /\ Append(proofs, row)[Len(proofs) + 1] = row
BY DEF RowTypes

LEMMA KeysOfAppend ==
  ASSUME NEW queue \in Seq(Entries), NEW e \in Entries
  PROVE  /\ Append(queue, e) \in Seq(Entries)
         /\ KeysOf(Append(queue, e)) = KeysOf(queue) \cup {e.key}
<1>1. /\ DOMAIN Append(queue, e) = DOMAIN queue \cup {Len(queue) + 1}
      /\ \A i \in DOMAIN queue : Append(queue, e)[i] = queue[i]
      /\ Append(queue, e)[Len(queue) + 1] = e
  OBVIOUS
<1>2. QED
  BY <1>1 DEF KeysOf

LEMMA KeysOfTail ==
  ASSUME NEW queue \in Seq(Entries), queue # <<>>
  PROVE  /\ Head(queue) \in Entries /\ Tail(queue) \in Seq(Entries)
         /\ KeysOf(queue) = KeysOf(Tail(queue)) \cup {Head(queue).key}
<1>1. /\ Len(queue) \in Nat /\ Len(queue) > 0 /\ DOMAIN queue = 1 .. Len(queue)
      /\ Head(queue) = queue[1]
      /\ Head(queue) \in Entries /\ Tail(queue) \in Seq(Entries)
  OBVIOUS
<1>2. /\ DOMAIN Tail(queue) = 1 .. Len(queue) - 1
      /\ \A i \in 1 .. Len(queue) - 1 : Tail(queue)[i] = queue[i + 1]
  OBVIOUS
<1>3. KeysOf(Tail(queue)) = {queue[i].key : i \in 2 .. Len(queue)}
  <2>1. \A i \in 2 .. Len(queue) : i - 1 \in 1 .. Len(queue) - 1 /\ (i - 1) + 1 = i
    BY <1>1
  <2>2. \A i \in 1 .. Len(queue) - 1 : i + 1 \in 2 .. Len(queue)
    BY <1>1
  <2>3. ASSUME NEW i \in 2 .. Len(queue) PROVE queue[i].key \in KeysOf(Tail(queue))
    <3>1. Tail(queue)[i - 1] = queue[i] /\ i - 1 \in DOMAIN Tail(queue)
      BY <1>2, <2>1
    <3>2. QED
      BY <3>1 DEF KeysOf
  <2>4. ASSUME NEW i \in DOMAIN Tail(queue)
        PROVE  Tail(queue)[i].key \in {queue[j].key : j \in 2 .. Len(queue)}
    <3>1. Tail(queue)[i] = queue[i + 1] /\ i + 1 \in 2 .. Len(queue)
      BY <1>2, <2>2
    <3>2. QED
      BY <3>1
  <2>5. QED
    BY <2>3, <2>4 DEF KeysOf
<1>4. 1 .. Len(queue) = 2 .. Len(queue) \cup {1}
  BY <1>1
<1>5. QED
  BY <1>1, <1>3, <1>4 DEF KeysOf

LEMMA KeysOfRemoveAt ==
  ASSUME NEW queue \in Seq(Entries), NEW i \in DOMAIN queue
  PROVE  /\ RemoveAt(queue, i) \in Seq(Entries)
         /\ KeysOf(queue) = KeysOf(RemoveAt(queue, i)) \cup {queue[i].key}
<1>1. Len(queue) \in Nat /\ DOMAIN queue = 1 .. Len(queue) /\ i \in 1 .. Len(queue)
  OBVIOUS
<1> DEFINE rest == RemoveAt(queue, i)
<1>2. /\ rest \in Seq(Entries)
      /\ Len(rest) = Len(queue) - 1
      /\ \A j \in 1 .. Len(queue) - 1 : rest[j] = IF j < i THEN queue[j] ELSE queue[j + 1]
  <2>1. rest = SubSeq(queue, 1, i - 1) \o SubSeq(queue, i + 1, Len(queue))
    BY DEF RemoveAt
  <2> HIDE DEF rest
  <2> DEFINE before == SubSeq(queue, 1, i - 1)
             after  == SubSeq(queue, i + 1, Len(queue))
  <2>2. /\ before \in Seq(Entries) /\ Len(before) = i - 1
        /\ \A j \in 1 .. i - 1 : before[j] = queue[j]
    BY <1>1
  <2>3. /\ after \in Seq(Entries) /\ Len(after) = Len(queue) - i
        /\ \A j \in 1 .. Len(queue) - i : after[j] = queue[i + j]
    BY <1>1
  <2> HIDE DEF before, after
  <2>4. rest = before \o after
    BY <2>1 DEF before, after
  <2>5. /\ rest \in Seq(Entries) /\ Len(rest) = Len(before) + Len(after)
        /\ \A j \in 1 .. Len(before) + Len(after) :
             rest[j] = IF j <= Len(before) THEN before[j] ELSE after[j - Len(before)]
    <3>1. before \in Seq(Entries) /\ after \in Seq(Entries)
      BY <2>2, <2>3
    <3>2. QED
      BY <2>4, <3>1
  <2>6. Len(before) + Len(after) = Len(queue) - 1
    BY <1>1, <2>2, <2>3
  <2>7. ASSUME NEW j \in 1 .. Len(queue) - 1
        PROVE  rest[j] = IF j < i THEN queue[j] ELSE queue[j + 1]
    <3>1. CASE j < i
      <4>1. j \in 1 .. i - 1 /\ j <= Len(before)
        BY <1>1, <2>2, <3>1
      <4>2. QED
        BY <2>2, <2>5, <2>6, <3>1, <4>1
    <3>2. CASE j >= i
      <4>1. /\ ~(j <= Len(before)) /\ j - Len(before) = j - (i - 1)
            /\ j - (i - 1) \in 1 .. Len(queue) - i /\ i + (j - (i - 1)) = j + 1
        BY <1>1, <2>2, <3>2
      <4>2. after[j - (i - 1)] = queue[j + 1]
        BY <2>3, <4>1
      <4>3. QED
        BY <1>1, <2>5, <2>6, <3>2, <4>1, <4>2
    <3>3. QED
      BY <1>1, <3>1, <3>2
  <2>8. QED
    BY <2>5, <2>6, <2>7
<1> HIDE DEF rest
<1>3. DOMAIN rest = 1 .. Len(queue) - 1
  BY <1>2
<1>4. KeysOf(rest) \subseteq KeysOf(queue)
  BY <1>1, <1>2, <1>3 DEF KeysOf
<1>5. ASSUME NEW j \in 1 .. Len(queue), j # i
      PROVE  queue[j].key \in KeysOf(rest)
  <2>1. CASE j < i
    BY <1>1, <1>2, <1>3, <2>1 DEF KeysOf
  <2>2. CASE j > i
    <3>1. j - 1 \in 1 .. Len(queue) - 1 /\ ~(j - 1 < i) /\ (j - 1) + 1 = j
      BY <1>1, <2>2
    <3>2. QED
      BY <1>2, <1>3, <3>1 DEF KeysOf
  <2>3. QED
    BY <1>1, <1>5, <2>1, <2>2
<1>6. queue[i].key \in KeysOf(queue)
  BY DEF KeysOf
<1>7. KeysOf(queue) \subseteq KeysOf(rest) \cup {queue[i].key}
  BY <1>1, <1>5 DEF KeysOf
<1>8. QED
  BY <1>2, <1>4, <1>6, <1>7 DEF rest
-----------------------------------------------------------------------------
(* Types.                                                                  *)

LEMMA InitTypes == Init => Types
<1> SUFFICES ASSUME Init PROVE Types
  OBVIOUS
<1>1. RequestTypes
  BY DEF Init, RequestTypes, Request, NoRequest
<1>2. EnergyTypes
  BY Limits DEF Init, EnergyTypes, EnergyRecords, NothingStored
<1>3. RowTypes
  BY DEF Init, RowTypes, Drained
<1>4. QueueTypes
  BY DEF Init, QueueTypes
<1>5. WorkTypes
  BY Limits DEF Init, WorkTypes, Work, NoWork
<1>6. ChainTypes
  BY Limits DEF Init, ChainTypes
<1>7. QED
  BY <1>1, <1>2, <1>3, <1>4, <1>5, <1>6 DEF Types

\* What a step of a handler does to its own slot, and to nobody else's.
LEMMA RequestStep ==
  ASSUME RequestTypes, NEW r \in Requests, NEW new \in Request,
         new.pc # "idle" => new.key \in Keys,
         request' = [request EXCEPT ![r] = new]
  PROVE  /\ RequestTypes'
         /\ request'[r] = new
         /\ \A q \in Requests \ {r} : request'[q] = request[q]
BY DEF RequestTypes

LEMMA HandlerStep ==
  ASSUME Types, NEW r \in Requests, Handler(r)
  PROVE  /\ RequestTypes'
         /\ \A q \in Requests \ {r} : request'[q] = request[q]
<1>1. request \in [Requests -> Request] /\ request[r] \in Request
  BY DEF Types, RequestTypes
<1>2. request[r].pc # "idle" => request[r].key \in Keys
  BY DEF Types, RequestTypes
<1>3. ASSUME NEW pc \in {"verifying", "energySaved", "stored", "marked"}, Goto(r, pc),
             request[r].pc # "idle"
      PROVE  RequestTypes' /\ \A q \in Requests \ {r} : request'[q] = request[q]
  <2> DEFINE new == [request[r] EXCEPT !.pc = pc]
  <2>1. new \in Request /\ new.key \in Keys
    BY <1>1, <1>2, <1>3 DEF Request
  <2>2. request' = [request EXCEPT ![r] = new]
    BY <1>3 DEF Goto
  <2> HIDE DEF new
  <2>3. QED
    BY <2>1, <2>2, RequestStep DEF Types
<1>4. ASSUME Reply(r)
      PROVE  RequestTypes' /\ \A q \in Requests \ {r} : request'[q] = request[q]
  <2>1. NoRequest \in Request /\ NoRequest.pc = "idle"
    BY DEF NoRequest, Request
  <2>2. QED
    BY <1>4, <2>1, RequestStep DEF Types, Reply
<1>5. ASSUME NEW key \in Keys, FetchProducer(r, key)
      PROVE  RequestTypes' /\ \A q \in Requests \ {r} : request'[q] = request[q]
  <2> DEFINE new == [pc |-> "fetched", key |-> key, energy |-> 0, chainNonce |-> chain[key[1]]]
  <2>1. new \in Request /\ new.key = key
    BY KeyParts DEF Types, ChainTypes, Request
  <2>2. request' = [request EXCEPT ![r] = new]
    BY <1>5 DEF FetchProducer
  <2> HIDE DEF new
  <2>3. QED
    BY <2>1, <2>2, RequestStep DEF Types
<1>6. ASSUME Accumulate(r)
      PROVE  RequestTypes' /\ \A q \in Requests \ {r} : request'[q] = request[q]
  <2> DEFINE total == energyStore[request[r].key[1]].energy + 1
             new == [request[r] EXCEPT !.pc = "accumulated", !.energy = total]
  <2>1. request[r].key \in Keys
    BY <1>2, <1>6 DEF Accumulate, At
  <2>2. total \in Nat
    BY <2>1, KeyParts DEF Types, EnergyTypes, EnergyRecords
  <2>3. request' = [request EXCEPT ![r] = new]
    BY <1>1, <1>6 DEF Accumulate
  <2> HIDE DEF total
  <2>4. new \in Request /\ new.key \in Keys
    BY <1>1, <2>1, <2>2 DEF Request
  <2> HIDE DEF new
  <2>5. QED
    BY <2>3, <2>4, RequestStep DEF Types
<1>7. QED
  BY <1>3, <1>4, <1>5, <1>6
  DEF Handler, CheckNonce, Refuse, SaveEnergy, SaveProof, ReplyUnqueued, MarkAccepted,
      EnqueueMint, HandlerFails, At

\* What a step may do to the table of proofs: nothing, a new row, or a status.
LEMMA RowSteps ==
  ASSUME Types, [Next]_vars
  PROVE  \/ UNCHANGED proofs
         \/ \E key \in Keys, status \in Statuses : proofs' = StatusSet(key, status)
         \/ \E key \in Keys : proofs' = Append(proofs, [key |-> key, status |-> "accepted"])
<1>1. CASE UNCHANGED vars
  BY <1>1 DEF vars
<1>2. ASSUME NEW r \in Requests, SaveProof(r)
      PROVE  \E key \in Keys : proofs' = Append(proofs, [key |-> key, status |-> "accepted"])
  BY <1>2 DEF SaveProof, At, Types, RequestTypes
<1>3. ASSUME NEW r \in Requests, MarkAccepted(r)
      PROVE  \E key \in Keys, status \in Statuses : proofs' = StatusSet(key, status)
  BY <1>3 DEF MarkAccepted, At, Types, RequestTypes, Statuses
<1>4. ASSUME NEW r \in Requests, Handler(r), ~SaveProof(r), ~MarkAccepted(r)
      PROVE  UNCHANGED proofs
  BY <1>4 DEF Handler, FetchProducer, CheckNonce, Refuse, Accumulate, SaveEnergy,
              ReplyUnqueued, EnqueueMint, HandlerFails
<1>5. ASSUME Record
      PROVE  \/ UNCHANGED proofs
             \/ \E key \in Keys, status \in Statuses : proofs' = StatusSet(key, status)
  <2>1. worker.phase # "idle" => worker.key \in Keys
    BY DEF Types, WorkTypes
  <2>2. QED
    BY <1>5, <2>1 DEF Record, RecordSuccess, Retry, GiveUp, RecordFails, Statuses
<1>6. ASSUME Drain
      PROVE  \/ UNCHANGED proofs
             \/ \E key \in Keys, status \in Statuses : proofs' = StatusSet(key, status)
  <2>1. PICK i \in drain.rows : MarkExpired(i) \/ RestoreRow(i)
    BY <1>6 DEF Drain
  <2>2. proofs[i] \in Row
    BY <2>1 DEF Types, RowTypes
  <2>3. proofs[i].key \in Keys
    BY <2>2 DEF Row
  <2>4. QED
    BY <2>1, <2>3 DEF MarkExpired, RestoreRow, Statuses
<1>7. ASSUME \/ Take \/ Mint \/ CrashAndRestart
             \/ \E key \in Keys : TimerFires(key) \/ LandLate(key)
      PROVE  UNCHANGED proofs
  BY <1>7 DEF Take, Mint, MintExecuted, MintTimesOut, MintFailed, CrashAndRestart,
              TimerFires, LandLate
<1>8. QED
  BY <1>1, <1>2, <1>3, <1>4, <1>5, <1>6, <1>7 DEF Next

\* Rows are never removed and never change their proof.
LEMMA RowsStay ==
  ASSUME Types, [Next]_vars
  PROVE  /\ proofs' \in Seq(Row)
         /\ DOMAIN proofs \subseteq DOMAIN proofs'
         /\ \A i \in DOMAIN proofs : proofs'[i].key = proofs[i].key
<1> DEFINE Claim == /\ proofs' \in Seq(Row)
                    /\ DOMAIN proofs \subseteq DOMAIN proofs'
                    /\ \A i \in DOMAIN proofs : proofs'[i].key = proofs[i].key
<1>1. RowTypes
  BY DEF Types
<1>2. CASE UNCHANGED proofs
  BY <1>1, <1>2 DEF RowTypes
<1>3. ASSUME NEW key \in Keys, NEW status \in Statuses, proofs' = StatusSet(key, status)
      PROVE  Claim
  BY <1>1, <1>3, StatusSetEffect
<1>4. ASSUME NEW key \in Keys, proofs' = Append(proofs, [key |-> key, status |-> "accepted"])
      PROVE  Claim
  <2>1. [key |-> key, status |-> "accepted"] \in Row
    BY DEF Row, Statuses
  <2>2. QED
    BY <1>1, <1>4, <2>1, AppendRow
<1>5. QED
  BY <1>2, <1>3, <1>4, RowSteps

LEMMA RowTypesStep ==
  ASSUME Types, [Next]_vars
  PROVE  RowTypes'
<1>1. /\ drain \in [rows : SUBSET Nat, atAwait : BOOLEAN] /\ drain.rows \subseteq DOMAIN proofs
      /\ proofs \in Seq(Row) /\ expired \subseteq DOMAIN proofs
  BY DEF Types, RowTypes
<1>2. ASSUME NEW rows \in SUBSET DOMAIN proofs, NEW atAwait \in BOOLEAN,
             drain' = [rows |-> rows, atAwait |-> atAwait], expired' \subseteq DOMAIN proofs
      PROVE  RowTypes'
  <2>1. rows \subseteq Nat
    BY <1>1
  <2>2. QED
    BY <1>2, <2>1, RowsStay DEF RowTypes
<1>3. CASE UNCHANGED <<drain, expired>>
  BY <1>1, <1>3, RowsStay DEF RowTypes
<1>4. CASE CrashAndRestart
  <2>1. \A limit : Loaded(limit) \in SUBSET DOMAIN proofs
    BY DEF Loaded, Accepted
  <2>2. ASSUME NEW limit \in LoadLimits, drain' = [rows |-> Loaded(limit), atAwait |-> FALSE],
               NEW old \in SUBSET Loaded(limit), expired' = expired \cup old
        PROVE  RowTypes'
    <3>1. expired' \subseteq DOMAIN proofs
      BY <1>1, <2>1, <2>2
    <3>2. QED
      BY <1>2, <2>1, <2>2, <3>1
  <2>3. CASE drain' = Drained /\ UNCHANGED expired
    BY <1>1, <1>2, <2>3 DEF Drained
  <2>4. QED
    BY <1>4, <2>2, <2>3 DEF CrashAndRestart
<1>5. CASE Drain
  <2>1. PICK i \in drain.rows : MarkExpired(i) \/ RestoreRow(i)
    BY <1>5 DEF Drain
  <2>2. PICK atAwait \in BOOLEAN : Looked(i, atAwait)
    BY <2>1 DEF MarkExpired, RestoreRow
  <2>3. drain.rows \ {i} \in SUBSET DOMAIN proofs /\ UNCHANGED expired
    BY <1>1, <1>5 DEF Drain, restarts
  <2> DEFINE waits == atAwait /\ drain.rows \ {i} # {}
  <2>4. drain' = [rows |-> drain.rows \ {i}, atAwait |-> waits] /\ waits \in BOOLEAN
    BY <2>2 DEF Looked
  <2> HIDE DEF waits
  <2>5. QED
    BY <1>1, <1>2, <2>3, <2>4
<1>6. CASE ~CrashAndRestart /\ ~Drain
  <2>1. UNCHANGED <<drain, expired>>
    BY <1>6 DEF Next, vars, minting, restarts, Handler, FetchProducer, CheckNonce, Refuse,
         Accumulate, SaveEnergy, SaveProof, ReplyUnqueued, MarkAccepted, EnqueueMint, HandlerFails, Take,
         Mint, MintExecuted, MintTimesOut, MintFailed, Record, RecordSuccess, Retry, GiveUp,
         RecordFails, TimerFires, LandLate
  <2>2. QED
    BY <1>3, <2>1
<1>7. QED
  BY <1>4, <1>5, <1>6

LEMMA EnergyTypesStep ==
  ASSUME Types, [Next]_vars
  PROVE  EnergyTypes'
<1>1. EnergyTypes
  BY DEF Types
<1>2. ASSUME NEW r \in Requests, Accumulate(r)
      PROVE  EnergyTypes'
  <2> DEFINE total == energyStore[request[r].key[1]].energy + 1
  <2>1. request[r].key \in Keys
    BY <1>2 DEF Accumulate, At, Types, RequestTypes
  <2>2. total \in Nat /\ request[r].key[2] \in 0 .. MaxNonce
    BY <1>1, <2>1, KeyParts, Limits DEF EnergyTypes, EnergyRecords
  <2>3. energyStore' = [energyStore EXCEPT ![request[r].key[1]] =
                          [energy |-> total, nonce |-> request[r].key[2]]]
    BY <1>2 DEF Accumulate
  <2>4. energyTable' = energyTable
    BY <1>2 DEF Accumulate
  <2> HIDE DEF total
  <2>5. QED
    BY <1>1, <2>2, <2>3, <2>4 DEF EnergyTypes, EnergyRecords
<1>3. ASSUME NEW r \in Requests, SaveEnergy(r)
      PROVE  EnergyTypes'
  <2>1. request[r].key \in Keys /\ request[r].energy \in Nat
    BY <1>3 DEF SaveEnergy, At, Types, RequestTypes, Request
  <2>2. request[r].key[2] \in 0 .. MaxNonce
    BY <2>1, KeyParts, Limits
  <2>3. QED
    BY <1>1, <1>3, <2>1, <2>2 DEF SaveEnergy, EnergyTypes, EnergyRecords
<1>4. CASE CrashAndRestart
  BY <1>1, <1>4 DEF CrashAndRestart, EnergyTypes
<1>5. CASE UNCHANGED <<energyStore, energyTable>>
  BY <1>1, <1>5 DEF EnergyTypes
<1>6. \/ UNCHANGED <<energyStore, energyTable>>
      \/ CrashAndRestart
      \/ \E r \in Requests : Accumulate(r) \/ SaveEnergy(r)
  BY DEF Next, vars, handling, Handler, FetchProducer, CheckNonce, Refuse,
         SaveProof, ReplyUnqueued, MarkAccepted, EnqueueMint, HandlerFails, Take,
         Mint, MintExecuted, MintTimesOut, MintFailed, Record, RecordSuccess, Retry, GiveUp,
         RecordFails, TimerFires, LandLate, Drain
<1>7. QED
  BY <1>2, <1>3, <1>4, <1>5, <1>6

\* The entries the queues are made of: from a request, from a row, from a timer, from a retry.
LEMMA QueueTypesStep ==
  ASSUME Types, [Next]_vars
  PROVE  QueueTypes'
<1>1. QueueTypes
  BY DEF Types
<1>2. \A key \in Keys, restored \in BOOLEAN : Entry(key, 0, restored) \in Entries
  BY Limits DEF Entry, Entries
<1>3. ASSUME NEW key \in Keys, NEW restored \in BOOLEAN,
             mintQueue' = Append(mintQueue, Entry(key, 0, restored)),
             mintQueueIds' = mintQueueIds \cup {key}, UNCHANGED timers
      PROVE  QueueTypes'
  BY <1>1, <1>2, <1>3, KeysOfAppend DEF QueueTypes
<1>4. ASSUME NEW r \in Requests, EnqueueMint(r)
      PROVE  QueueTypes'
  <2>1. request[r].key \in Keys /\ UNCHANGED timers
    BY <1>4 DEF EnqueueMint, At, Types, RequestTypes
  <2>2. CASE UNCHANGED <<mintQueue, mintQueueIds>>
    BY <1>1, <2>1, <2>2 DEF QueueTypes
  <2>3. QED
    BY <1>3, <1>4, <2>1, <2>2 DEF EnqueueMint
<1>5. CASE Take
  <2>1. Tail(mintQueue) \in Seq(Entries) /\ UNCHANGED timers
    BY <1>1, <1>5, KeysOfTail DEF Take, QueueTypes
  <2>2. QED
    BY <1>1, <1>5, <2>1 DEF Take, QueueTypes
<1>6. CASE Retry
  <2>1. worker.key \in Keys /\ worker \in Work
    BY <1>6 DEF Retry, Types, WorkTypes
  <2>2. Entry(worker.key, worker.attempts + 1, worker.restored) \in Entries
    BY <1>6, <2>1, Limits DEF Retry, Work, Entry, Entries
  <2>3. QED
    BY <1>1, <1>6, <2>2, KeysOfAppend DEF Retry, QueueTypes
<1>7. ASSUME NEW key \in Keys, TimerFires(key)
      PROVE  QueueTypes'
  <2>1. PICK i \in DOMAIN timers : /\ mintQueue' = Append(mintQueue, timers[i])
                                  /\ timers' = RemoveAt(timers, i)
    BY <1>7 DEF TimerFires
  <2>2. timers[i] \in Entries
    BY <1>1 DEF QueueTypes
  <2>3. timers' \in Seq(Entries) /\ mintQueue' \in Seq(Entries)
    BY <1>1, <2>1, <2>2, KeysOfAppend, KeysOfRemoveAt DEF QueueTypes
  <2>4. QED
    BY <1>1, <1>7, <2>3 DEF TimerFires, QueueTypes
<1>8. CASE CrashAndRestart
  BY <1>8 DEF CrashAndRestart, QueueTypes
<1>9. CASE Drain
  <2>1. PICK i \in drain.rows : MarkExpired(i) \/ RestoreRow(i)
    BY <1>9 DEF Drain
  <2>2. proofs[i] \in Row /\ UNCHANGED timers
    BY <1>9, <2>1 DEF Types, RowTypes, Drain
  <2>3. proofs[i].key \in Keys
    BY <2>2 DEF Row
  <2>4. CASE UNCHANGED <<mintQueue, mintQueueIds>>
    BY <1>1, <2>2, <2>4 DEF QueueTypes
  <2>5. QED
    BY <1>3, <2>1, <2>2, <2>3, <2>4 DEF MarkExpired, RestoreRow
<1>10. CASE UNCHANGED <<mintQueue, mintQueueIds, timers>>
  BY <1>1, <1>10 DEF QueueTypes
<1>11. \/ UNCHANGED <<mintQueue, mintQueueIds, timers>>
       \/ Take \/ Retry \/ CrashAndRestart \/ Drain
       \/ \E r \in Requests : EnqueueMint(r)
       \/ \E key \in Keys : TimerFires(key)
  BY DEF Next, vars, minting, Handler, FetchProducer, CheckNonce, Refuse, Accumulate,
         SaveEnergy, SaveProof, ReplyUnqueued, MarkAccepted, HandlerFails,
         Mint, MintExecuted, MintTimesOut, MintFailed, Record, RecordSuccess, GiveUp,
         RecordFails, LandLate
<1>12. QED
  BY <1>4, <1>5, <1>6, <1>7, <1>8, <1>9, <1>10, <1>11

LEMMA WorkTypesStep ==
  ASSUME Types, [Next]_vars
  PROVE  WorkTypes'
<1>1. WorkTypes
  BY DEF Types
<1>2. CASE Take
  <2>1. Head(mintQueue) \in Entries
    BY <1>2, KeysOfTail DEF Take, Types, QueueTypes
  <2>2. QED
    BY <1>2, <2>1 DEF Take, WorkTypes, Work, Entries
<1>3. CASE Mint
  <2>1. worker.key \in Keys /\ worker.phase = "minting"
    BY <1>1, <1>3 DEF Mint, MintExecuted, MintTimesOut, MintFailed, WorkTypes
  <2>2. worker' = [worker EXCEPT !.phase = "succeeded"] \/ worker' = [worker EXCEPT !.phase = "failed"]
    BY <1>3 DEF Mint, MintExecuted, MintTimesOut, MintFailed
  <2>3. QED
    BY <1>1, <2>1, <2>2 DEF WorkTypes, Work
<1>4. CASE worker' = NoWork
  BY <1>4, Limits DEF NoWork, WorkTypes, Work
<1>5. CASE UNCHANGED worker
  BY <1>1, <1>5 DEF WorkTypes
<1>6. Take \/ Mint \/ worker' = NoWork \/ UNCHANGED worker
  BY DEF Next, vars, minting, Handler, FetchProducer, CheckNonce, Refuse, Accumulate,
         SaveEnergy, SaveProof, ReplyUnqueued, MarkAccepted, EnqueueMint, HandlerFails,
         Record, RecordSuccess, Retry, GiveUp, RecordFails, TimerFires, LandLate,
         CrashAndRestart, Drain
<1>7. QED
  BY <1>2, <1>3, <1>4, <1>5, <1>6

LEMMA ChainTypesStep ==
  ASSUME Types, [Next]_vars
  PROVE  ChainTypes'
<1>1. ChainTypes
  BY DEF Types
<1>2. ASSUME NEW key \in Keys, chain' = [chain EXCEPT ![key[1]] = key[2]],
             minted' = minted \cup {key}, inFlight' \subseteq inFlight, UNCHANGED crashes
      PROVE  ChainTypes'
  <2>1. key[1] \in Devices /\ key[2] \in 0 .. MaxNonce
    BY KeyParts, Limits
  <2>2. QED
    BY <1>1, <1>2, <2>1 DEF ChainTypes
<1>3. CASE MintExecuted
  BY <1>2, <1>3 DEF MintExecuted, Types, WorkTypes, restarts
<1>4. CASE MintTimesOut
  BY <1>1, <1>4 DEF MintTimesOut, Types, WorkTypes, ChainTypes, restarts
<1>5. ASSUME NEW key \in Keys, LandLate(key)
      PROVE  ChainTypes'
  BY <1>2, <1>5 DEF LandLate, restarts
<1>6. CASE CrashAndRestart
  BY <1>1, <1>6 DEF CrashAndRestart, ChainTypes, onChain
<1>7. CASE UNCHANGED <<onChain, crashes>>
  BY <1>1, <1>7 DEF ChainTypes, onChain
<1>8. \/ UNCHANGED <<onChain, crashes>>
      \/ MintExecuted \/ MintTimesOut \/ CrashAndRestart
      \/ \E key \in Keys : LandLate(key)
  BY DEF Next, vars, restarts, Handler, FetchProducer, CheckNonce, Refuse, Accumulate,
         SaveEnergy, SaveProof, ReplyUnqueued, MarkAccepted, EnqueueMint, HandlerFails,
         Take, Mint, MintFailed, Record, RecordSuccess, Retry, GiveUp, RecordFails, TimerFires,
         Drain
<1>9. QED
  BY <1>3, <1>4, <1>5, <1>6, <1>7, <1>8

LEMMA TypesStep ==
  ASSUME Types, [Next]_vars
  PROVE  Types'
<1>1. RequestTypes'
  <2>1. ASSUME NEW r \in Requests, Handler(r) PROVE RequestTypes'
    BY <2>1, HandlerStep
  <2>2. CASE CrashAndRestart
    BY <2>2 DEF CrashAndRestart, RequestTypes, Request, NoRequest
  <2>3. CASE UNCHANGED request
    BY <2>3 DEF Types, RequestTypes
  <2>4. UNCHANGED request \/ CrashAndRestart \/ \E r \in Requests : Handler(r)
    BY DEF Next, vars, handling, Take, Mint, MintExecuted, MintTimesOut, MintFailed, Record,
           RecordSuccess, Retry, GiveUp, RecordFails, TimerFires, LandLate, Drain
  <2>5. QED
    BY <2>1, <2>2, <2>3, <2>4
<1>2. QED
  BY <1>1, RowTypesStep, EnergyTypesStep, QueueTypesStep, WorkTypesStep, ChainTypesStep DEF Types

LEMMA TypesInvariant == Spec => []Types
<1>1. QED
  BY InitTypes, TypesStep, PTL DEF Spec

\* Handlers, queue, worker, timers, drain and tables keep their types.
THEOREM ServerTypeCorrect == Spec => []TypeOK
<1>1. Types => TypeOK
  BY DEF Types, TypeOK, RequestTypes, EnergyTypes, RowTypes, QueueTypes, ChainTypes, Request, Row
<1>2. QED
  BY <1>1, TypesInvariant, PTL
-----------------------------------------------------------------------------
(* Rows against the chain.                                                 *)

\* A success that is still to be recorded has happened.
SuccessIsOnChain == worker.phase = "succeeded" => worker.key \in minted

ChainInv == SuccessIsOnChain /\ MintedRowsAreOnChain

LEMMA MintedGrows ==
  ASSUME [Next]_vars
  PROVE  minted \subseteq minted'
BY DEF Next, vars, onChain, Handler, FetchProducer, CheckNonce, Refuse, Accumulate,
       SaveEnergy, SaveProof, ReplyUnqueued, MarkAccepted, EnqueueMint, HandlerFails,
       Take, Mint, MintExecuted, MintTimesOut, MintFailed, Record, RecordSuccess, Retry, GiveUp,
       RecordFails, TimerFires, LandLate, CrashAndRestart, Drain

\* Only a recorded success writes "minted" into the table.
LEMMA MintedStatus ==
  ASSUME Types, [Next]_vars, NEW i \in DOMAIN proofs', proofs'[i].status = "minted"
  PROVE  \/ i \in DOMAIN proofs /\ proofs[i].status = "minted"
         \/ RecordSuccess /\ i \in DOMAIN proofs /\ proofs[i].key = worker.key
<1>1. RowTypes
  BY DEF Types
<1>2. CASE UNCHANGED proofs
  BY <1>2
<1>3. ASSUME NEW key, NEW status \in Statuses, proofs' = StatusSet(key, status),
             status # "minted"
      PROVE  i \in DOMAIN proofs /\ proofs[i].status = "minted"
  BY <1>1, <1>3, StatusSetEffect
<1>4. ASSUME NEW key \in Keys, proofs' = Append(proofs, [key |-> key, status |-> "accepted"])
      PROVE  i \in DOMAIN proofs /\ proofs[i].status = "minted"
  <2>1. [key |-> key, status |-> "accepted"] \in Row
    BY DEF Row, Statuses
  <2>2. QED
    BY <1>1, <1>4, <2>1, AppendRow
<1>5. CASE RecordSuccess
  <2>1. "minted" \in Statuses /\ proofs' = StatusSet(worker.key, "minted")
    BY <1>5 DEF RecordSuccess, Statuses
  <2>2. QED
    BY <1>1, <1>5, <2>1, StatusSetEffect
<1>6. ASSUME NEW r \in Requests, SaveProof(r)
      PROVE  \E key \in Keys : proofs' = Append(proofs, [key |-> key, status |-> "accepted"])
  BY <1>6 DEF SaveProof, At, Types, RequestTypes
<1>7. \/ UNCHANGED proofs
      \/ RecordSuccess
      \/ \E r \in Requests : SaveProof(r)
      \/ \E status \in Statuses \ {"minted"} : \E key : proofs' = StatusSet(key, status)
  <2>1. "accepted" \in Statuses /\ "deferred" \in Statuses
    BY DEF Statuses
  <2>2. "accepted" # "minted" /\ "deferred" # "minted"
    OBVIOUS
  <2>3. ASSUME NEW r \in Requests, MarkAccepted(r)
        PROVE  proofs' = StatusSet(request[r].key, "accepted")
    BY <2>3 DEF MarkAccepted
  <2>4. ASSUME Record, ~RecordSuccess
        PROVE  UNCHANGED proofs \/ \E status \in {"accepted", "deferred"} :
                                    proofs' = StatusSet(worker.key, status)
    BY <2>4 DEF Record, Retry, GiveUp, RecordFails
  <2>5. ASSUME Drain
        PROVE  UNCHANGED proofs \/ \E key : proofs' = StatusSet(key, "accepted")
    BY <2>5 DEF Drain, MarkExpired, RestoreRow
  <2>6. \/ UNCHANGED proofs
        \/ RecordSuccess \/ (Record /\ ~RecordSuccess) \/ Drain
        \/ \E r \in Requests : SaveProof(r) \/ MarkAccepted(r)
    BY DEF Next, vars, Handler, FetchProducer, CheckNonce, Refuse, Accumulate,
           SaveEnergy, ReplyUnqueued, EnqueueMint, HandlerFails, Record,
           Take, Mint, MintExecuted, MintTimesOut, MintFailed, TimerFires, LandLate,
           CrashAndRestart
  <2>7. QED
    BY <2>1, <2>2, <2>3, <2>4, <2>5, <2>6
<1>8. QED
  BY <1>2, <1>3, <1>4, <1>5, <1>6, <1>7

LEMMA ChainInvariant == Spec => []ChainInv
<1>1. Init => ChainInv
  BY DEF Init, ChainInv, SuccessIsOnChain, MintedRowsAreOnChain, NoWork
<1>2. Types /\ ChainInv /\ [Next]_vars => ChainInv'
  <2> SUFFICES ASSUME Types, ChainInv, [Next]_vars PROVE ChainInv'
    OBVIOUS
  <2>1. SuccessIsOnChain'
    <3>1. CASE MintExecuted
      BY <3>1 DEF MintExecuted, SuccessIsOnChain, Types, WorkTypes, Work
    <3>2. CASE worker'.phase # "succeeded"
      BY <3>2 DEF SuccessIsOnChain
    <3>3. CASE UNCHANGED worker
      BY <3>3, MintedGrows DEF ChainInv, SuccessIsOnChain
    <3>4. ASSUME MintTimesOut \/ MintFailed PROVE worker'.phase = "failed"
      BY <3>4 DEF MintTimesOut, MintFailed, Types, WorkTypes, Work
    <3>5. ASSUME Take PROVE worker'.phase = "minting"
      BY <3>5 DEF Take
    <3>6. worker' = NoWork \/ UNCHANGED worker \/ Take \/ Mint
      BY DEF Next, vars, minting, Handler, FetchProducer, CheckNonce, Refuse, Accumulate,
             SaveEnergy, SaveProof, ReplyUnqueued, MarkAccepted, EnqueueMint, HandlerFails,
             Record, RecordSuccess, Retry, GiveUp, RecordFails, TimerFires, LandLate,
             CrashAndRestart, Drain
    <3>7. QED
      BY <3>1, <3>2, <3>3, <3>4, <3>5, <3>6 DEF Mint, NoWork
  <2>2. ASSUME NEW i \in DOMAIN proofs', proofs'[i].status = "minted"
        PROVE  proofs'[i].key \in minted'
    <3>1. i \in DOMAIN proofs => proofs'[i].key = proofs[i].key
      BY RowsStay
    <3>2. CASE i \in DOMAIN proofs /\ proofs[i].status = "minted"
      BY <3>1, <3>2, MintedGrows DEF ChainInv, MintedRowsAreOnChain
    <3>3. CASE RecordSuccess /\ i \in DOMAIN proofs /\ proofs[i].key = worker.key
      BY <3>1, <3>3, MintedGrows DEF RecordSuccess, ChainInv, SuccessIsOnChain
    <3>4. QED
      BY <2>2, <3>2, <3>3, MintedStatus
  <2>3. QED
    BY <2>1, <2>2 DEF ChainInv, MintedRowsAreOnChain
<1>3. QED
  BY <1>1, <1>2, TypesInvariant, PTL DEF Spec

\* However transactions are late, retried or forgotten: a row that says minted is on chain.
THEOREM MintedHolds == Spec => []MintedRowsAreOnChain
<1>1. ChainInv => MintedRowsAreOnChain
  BY DEF ChainInv
<1>2. QED
  BY <1>1, ChainInvariant, PTL
-----------------------------------------------------------------------------
(* What the moves between the queues do to the keys in them.               *)

LEMMA EntriesOfKeys ==
  \A key \in Keys, restored \in BOOLEAN :
    Entry(key, 0, restored) \in Entries /\ Entry(key, 0, restored).key = key
BY Limits DEF Entry, Entries

LEMMA EnqueueMove ==
  ASSUME Types, NEW r \in Requests, EnqueueMint(r)
  PROVE  /\ request[r].pc = "marked" /\ request[r].key \in Keys
         /\ request'[r].pc = "idle"
         /\ UNCHANGED <<timers, worker, drain, proofs>>
         /\ parked \subseteq parked'
         /\ \/ request[r].key \in parked' /\ UNCHANGED <<mintQueue, mintQueueIds>>
            \/ request[r].key \in mintQueueIds /\ UNCHANGED <<mintQueue, mintQueueIds>>
            \/ /\ KeysOf(mintQueue') = KeysOf(mintQueue) \cup {request[r].key}
               /\ mintQueueIds' = mintQueueIds \cup {request[r].key}
<1>1. request[r].pc = "marked" /\ request[r].key \in Keys
  BY DEF EnqueueMint, At, Types, RequestTypes
<1>2. request'[r].pc = "idle"
  BY DEF EnqueueMint, Reply, NoRequest, Types, RequestTypes
<1>3. UNCHANGED <<timers, worker, drain, proofs>> /\ parked \subseteq parked'
  BY DEF EnqueueMint
<1>4. ASSUME mintQueue' = Append(mintQueue, Entry(request[r].key, 0, FALSE))
      PROVE  KeysOf(mintQueue') = KeysOf(mintQueue) \cup {request[r].key}
  BY <1>1, <1>4, EntriesOfKeys, KeysOfAppend DEF Types, QueueTypes
<1>5. QED
  BY <1>1, <1>2, <1>3, <1>4 DEF EnqueueMint

LEMMA TakeMove ==
  ASSUME Types, Take
  PROVE  /\ KeysOf(mintQueue) = KeysOf(mintQueue') \cup {worker'.key}
         /\ worker'.key \in Keys
         /\ mintQueueIds' = mintQueueIds \ {worker'.key}
         /\ UNCHANGED <<request, timers, drain, proofs, parked>>
<1>1. mintQueue \in Seq(Entries) /\ mintQueue # <<>>
  BY DEF Take, Types, QueueTypes
<1>2. worker'.key = Head(mintQueue).key /\ mintQueue' = Tail(mintQueue)
  BY DEF Take
<1>3. Head(mintQueue).key \in Keys
  BY <1>1, KeysOfTail DEF Entries
<1>4. QED
  BY <1>1, <1>2, <1>3, KeysOfTail DEF Take, handling

LEMMA TimerMove ==
  ASSUME Types, NEW key \in Keys, TimerFires(key)
  PROVE  /\ KeysOf(mintQueue') = KeysOf(mintQueue) \cup {key}
         /\ KeysOf(timers) = KeysOf(timers') \cup {key}
         /\ UNCHANGED <<request, mintQueueIds, worker, drain, proofs, parked>>
<1>1. PICK i \in DOMAIN timers : /\ timers[i].key = key
                                /\ mintQueue' = Append(mintQueue, timers[i])
                                /\ timers' = RemoveAt(timers, i)
  BY DEF TimerFires
<1>2. mintQueue \in Seq(Entries) /\ timers \in Seq(Entries) /\ timers[i] \in Entries
  BY DEF Types, QueueTypes
<1>3. QED
  BY <1>1, <1>2, KeysOfAppend, KeysOfRemoveAt DEF TimerFires, handling

LEMMA RetryMove ==
  ASSUME Types, Retry
  PROVE  /\ KeysOf(timers') = KeysOf(timers) \cup {worker.key}
         /\ worker.key \in Keys /\ worker' = NoWork
         /\ proofs' = StatusSet(worker.key, "accepted")
         /\ UNCHANGED <<request, mintQueue, mintQueueIds, drain, parked>>
<1>1. worker.key \in Keys /\ worker \in Work
  BY DEF Retry, Types, WorkTypes
<1>2. /\ Entry(worker.key, worker.attempts + 1, worker.restored) \in Entries
      /\ Entry(worker.key, worker.attempts + 1, worker.restored).key = worker.key
  BY <1>1, Limits DEF Retry, Work, Entry, Entries
<1>3. QED
  BY <1>1, <1>2, KeysOfAppend DEF Retry, Types, QueueTypes, handling

\* A row of the drain is left to the table or goes into the queue.
LEMMA DrainMove ==
  ASSUME Types, Drain
  PROVE  \E i \in drain.rows :
           /\ proofs[i].key \in Keys /\ i \in DOMAIN proofs
           /\ drain'.rows = drain.rows \ {i}
           /\ UNCHANGED <<request, worker, timers>>
           /\ parked \subseteq parked'
           /\ \/ /\ proofs[i].key \in KeysAt(expired) \cup parked'
                 /\ UNCHANGED <<mintQueue, mintQueueIds>>
                 /\ UNCHANGED proofs \/ proofs' = StatusSet(proofs[i].key, "accepted")
              \/ /\ proofs[i].key \in mintQueueIds
                 /\ UNCHANGED <<mintQueue, mintQueueIds, proofs>>
              \/ /\ KeysOf(mintQueue') = KeysOf(mintQueue) \cup {proofs[i].key}
                 /\ mintQueueIds' = mintQueueIds \cup {proofs[i].key}
                 /\ UNCHANGED proofs
<1>1. PICK i \in drain.rows : MarkExpired(i) \/ RestoreRow(i)
  BY DEF Drain
<1>2. i \in DOMAIN proofs /\ proofs[i] \in Row /\ mintQueue \in Seq(Entries)
  BY DEF Types, RowTypes, QueueTypes
<1>3. proofs[i].key \in Keys
  BY <1>2 DEF Row
<1>4. drain'.rows = drain.rows \ {i} /\ parked \subseteq parked'
  <2>1. PICK atAwait \in BOOLEAN : Looked(i, atAwait)
    BY <1>1 DEF MarkExpired, RestoreRow
  <2>2. drain'.rows = drain.rows \ {i}
    BY <2>1 DEF Looked
  <2>3. parked \subseteq parked'
    BY <1>1 DEF MarkExpired, RestoreRow
  <2>4. QED
    BY <2>2, <2>3
<1>5. UNCHANGED <<request, worker, timers>>
  BY DEF Drain, handling
<1>6. CASE MarkExpired(i)
  <2>1. i \in expired /\ UNCHANGED <<mintQueue, mintQueueIds>>
    BY <1>6 DEF MarkExpired
  <2>2. proofs[i].key \in KeysAt(expired)
    BY <2>1 DEF KeysAt
  <2>3. UNCHANGED proofs \/ proofs' = StatusSet(proofs[i].key, "accepted")
    BY <1>6 DEF MarkExpired
  <2>4. QED
    BY <1>2, <1>3, <1>4, <1>5, <2>1, <2>2, <2>3
<1>7. CASE RestoreRow(i)
  <2>1. ASSUME mintQueue' = Append(mintQueue, Entry(proofs[i].key, 0, TRUE))
        PROVE  KeysOf(mintQueue') = KeysOf(mintQueue) \cup {proofs[i].key}
    BY <1>2, <1>3, <2>1, EntriesOfKeys, KeysOfAppend
  <2>2. QED
    BY <1>2, <1>3, <1>4, <1>5, <1>7, <2>1 DEF RestoreRow
<1>8. QED
  BY <1>1, <1>6, <1>7
-----------------------------------------------------------------------------
(* Everything that is or may be minted has a row.                          *)

Recorded == KeysAt(DOMAIN proofs)
SavedBy(r) == request[r].pc \in {"stored", "marked"}

RecordInv ==
  /\ minted \cup inFlight \cup KeysOf(mintQueue) \cup KeysOf(timers) \subseteq Recorded
  /\ worker.phase # "idle" => worker.key \in Recorded
  /\ \A r \in Requests : SavedBy(r) => request[r].key \in Recorded

LEMMA RecordedGrows ==
  ASSUME Types, [Next]_vars
  PROVE  Recorded \subseteq Recorded'
BY RowsStay DEF Recorded, KeysAt

\* Whose hands a step may put a proof into, and from whose.
LEMMA QueuesRecorded ==
  ASSUME Types, RecordInv, [Next]_vars
  PROVE  KeysOf(mintQueue') \cup KeysOf(timers') \subseteq Recorded
<1>1. KeysOf(mintQueue) \cup KeysOf(timers) \subseteq Recorded
  BY DEF RecordInv
<1>2. ASSUME NEW r \in Requests, EnqueueMint(r)
      PROVE  KeysOf(mintQueue') \cup KeysOf(timers') \subseteq Recorded
  <2>1. request[r].key \in Recorded
    BY <1>2, EnqueueMove DEF RecordInv, SavedBy
  <2>2. QED
    BY <1>1, <1>2, <2>1, EnqueueMove
<1>3. CASE Take
  BY <1>1, <1>3, TakeMove
<1>4. ASSUME NEW key \in Keys, TimerFires(key)
      PROVE  KeysOf(mintQueue') \cup KeysOf(timers') \subseteq Recorded
  BY <1>1, <1>4, TimerMove
<1>5. CASE Retry
  <2>1. worker.key \in Recorded
    BY <1>5 DEF Retry, RecordInv
  <2>2. QED
    BY <1>1, <1>5, <2>1, RetryMove
<1>6. CASE CrashAndRestart
  BY <1>6 DEF CrashAndRestart, KeysOf
<1>7. CASE Drain
  <2>1. \A i \in DOMAIN proofs : proofs[i].key \in Recorded
    BY DEF Recorded, KeysAt
  <2>2. QED
    BY <1>1, <1>7, <2>1, DrainMove
<1>8. CASE UNCHANGED <<mintQueue, timers>>
  BY <1>1, <1>8
<1>9. \/ UNCHANGED <<mintQueue, timers>>
      \/ Take \/ Retry \/ CrashAndRestart \/ Drain
      \/ \E r \in Requests : EnqueueMint(r)
      \/ \E key \in Keys : TimerFires(key)
  BY DEF Next, vars, minting, Handler, FetchProducer, CheckNonce, Refuse, Accumulate,
         SaveEnergy, SaveProof, ReplyUnqueued, MarkAccepted, HandlerFails,
         Mint, MintExecuted, MintTimesOut, MintFailed, Record, RecordSuccess, GiveUp,
         RecordFails, LandLate
<1>10. QED
  BY <1>2, <1>3, <1>4, <1>5, <1>6, <1>7, <1>8, <1>9

LEMMA ChainRecorded ==
  ASSUME Types, RecordInv, [Next]_vars
  PROVE  minted' \cup inFlight' \subseteq Recorded
<1>1. minted \cup inFlight \subseteq Recorded
  BY DEF RecordInv
<1>2. CASE MintExecuted \/ MintTimesOut
  BY <1>1, <1>2 DEF MintExecuted, MintTimesOut, RecordInv
<1>3. ASSUME NEW key \in Keys, LandLate(key)
      PROVE  minted' \cup inFlight' \subseteq Recorded
  BY <1>1, <1>3 DEF LandLate
<1>4. MintExecuted \/ MintTimesOut \/ UNCHANGED <<minted, inFlight>>
        \/ \E key \in Keys : LandLate(key)
  BY DEF Next, vars, onChain, Handler, FetchProducer, CheckNonce, Refuse, Accumulate,
         SaveEnergy, SaveProof, ReplyUnqueued, MarkAccepted, EnqueueMint, HandlerFails,
         Take, Mint, MintFailed, Record, RecordSuccess, Retry, GiveUp, RecordFails, TimerFires,
         CrashAndRestart, Drain
<1>5. QED
  BY <1>1, <1>2, <1>3, <1>4

LEMMA WorkRecorded ==
  ASSUME Types, RecordInv, [Next]_vars, worker'.phase # "idle"
  PROVE  worker'.key \in Recorded
<1>1. CASE Take
  BY <1>1, TakeMove DEF RecordInv
<1>2. CASE Mint
  BY <1>2 DEF Mint, MintExecuted, MintTimesOut, MintFailed, RecordInv, Types, WorkTypes, Work
<1>3. worker' # NoWork
  BY DEF NoWork
<1>4. CASE UNCHANGED worker
  BY <1>4 DEF RecordInv
<1>5. Take \/ Mint \/ worker' = NoWork \/ UNCHANGED worker
  BY DEF Next, vars, minting, Handler, FetchProducer, CheckNonce, Refuse, Accumulate,
         SaveEnergy, SaveProof, ReplyUnqueued, MarkAccepted, EnqueueMint, HandlerFails,
         Record, RecordSuccess, Retry, GiveUp, RecordFails, TimerFires, LandLate,
         CrashAndRestart, Drain
<1>6. QED
  BY <1>1, <1>2, <1>3, <1>4, <1>5

LEMMA RequestsRecorded ==
  ASSUME Types, RecordInv, [Next]_vars, NEW q \in Requests, SavedBy(q)'
  PROVE  request'[q].key \in Recorded'
<1>1. request \in [Requests -> Request] /\ request[q] \in Request
  BY DEF Types, RequestTypes
<1>2. CASE request'[q] = request[q]
  BY <1>2, RecordedGrows DEF RecordInv, SavedBy
<1>3. CASE SaveProof(q)
  <2>1. request'[q].key = request[q].key /\ request[q].key \in Keys
    BY <1>1, <1>3 DEF SaveProof, Goto, At, Types, RequestTypes, Request
  <2>2. [key |-> request[q].key, status |-> "accepted"] \in Row /\ RowTypes
    BY <2>1 DEF Row, Statuses, Types
  <2>3. proofs' = Append(proofs, [key |-> request[q].key, status |-> "accepted"])
    BY <1>3 DEF SaveProof
  <2>4. /\ Len(proofs) + 1 \in DOMAIN proofs'
        /\ proofs'[Len(proofs) + 1].key = request[q].key
    BY <2>2, <2>3, AppendRow
  <2>5. QED
    BY <2>1, <2>4 DEF Recorded, KeysAt
<1>4. CASE MarkAccepted(q)
  <2>1. request'[q].key = request[q].key /\ SavedBy(q)
    BY <1>1, <1>4 DEF MarkAccepted, Goto, At, SavedBy, Request
  <2>2. QED
    BY <2>1, RecordedGrows DEF RecordInv
<1>5. CASE CrashAndRestart
  BY <1>5 DEF CrashAndRestart, NoRequest, SavedBy
<1>6. ASSUME Handler(q), ~SaveProof(q), ~MarkAccepted(q)
      PROVE  ~SavedBy(q)'
  <2>1. CASE Reply(q)
    BY <1>1, <2>1 DEF Reply, NoRequest, SavedBy
  <2>2. ASSUME NEW pc \in {"verifying", "energySaved"}, Goto(q, pc)
        PROVE  ~SavedBy(q)'
    BY <1>1, <2>2 DEF Goto, Request, SavedBy
  <2>3. ASSUME NEW key \in Keys, FetchProducer(q, key)
        PROVE  ~SavedBy(q)'
    BY <1>1, <2>3 DEF FetchProducer, SavedBy
  <2>4. CASE Accumulate(q)
    BY <1>1, <2>4 DEF Accumulate, Request, SavedBy
  <2>5. QED
    BY <1>6, <2>1, <2>2, <2>3, <2>4
    DEF Handler, CheckNonce, Refuse, SaveEnergy, ReplyUnqueued, EnqueueMint, HandlerFails
<1>7. \/ UNCHANGED request \/ CrashAndRestart \/ \E r \in Requests : Handler(r)
  BY DEF Next, vars, handling, Take, Mint, MintExecuted, MintTimesOut, MintFailed, Record,
         RecordSuccess, Retry, GiveUp, RecordFails, TimerFires, LandLate, Drain
<1>8. ASSUME NEW r \in Requests, Handler(r), r # q
      PROVE  request'[q] = request[q]
  BY <1>8, HandlerStep
<1>9. QED
  BY <1>2, <1>3, <1>4, <1>5, <1>6, <1>7, <1>8

LEMMA RecordInvariant == Spec => []RecordInv
<1>1. Init => RecordInv
  BY DEF Init, RecordInv, NoWork, NoRequest, KeysOf, SavedBy
<1>2. Types /\ RecordInv /\ [Next]_vars => RecordInv'
  <2> SUFFICES ASSUME Types, RecordInv, [Next]_vars PROVE RecordInv'
    OBVIOUS
  <2>1. (minted \cup inFlight \cup KeysOf(mintQueue) \cup KeysOf(timers))' \subseteq Recorded'
    BY QueuesRecorded, ChainRecorded, RecordedGrows
  <2>2. worker'.phase # "idle" => worker'.key \in Recorded'
    BY WorkRecorded, RecordedGrows
  <2>3. QED
    BY <2>1, <2>2, RequestsRecorded DEF RecordInv
<1>3. QED
  BY <1>1, <1>2, TypesInvariant, PTL DEF Spec

\* No crash, retry or duplicate makes the chain see a proof that the table does not hold.
THEOREM RecordsHold == Spec => []NothingMintsUnrecorded
<1>1. Types /\ RecordInv => NothingMintsUnrecorded
  <2> SUFFICES ASSUME Types, RecordInv, NEW key \in Keys, key \in minted \/ Pending(key)
               PROVE  Rows(key) # {}
    BY DEF NothingMintsUnrecorded
  <2>1. worker.key = key => worker.phase # "idle"
    BY KeyParts DEF Types, WorkTypes
  <2>2. key \in Recorded
    BY <2>1 DEF RecordInv, Pending
  <2>3. QED
    BY <2>2 DEF Recorded, KeysAt, Rows
<1>2. QED
  BY <1>1, RecordInvariant, TypesInvariant, PTL
-----------------------------------------------------------------------------
(* Every accepted proof is in somebody's hands.                            *)

\* What the code left for the next restart, or found too old.
LeftOver == KeysAt(expired) \cup parked

HeldKey(key) ==
  key \in LeftOver \/ Pending(key) \/ AboutToQueue(key) \/ AboutToDrain(key)

HoldInv ==
  /\ mintQueueIds \subseteq KeysOf(mintQueue)
  /\ \A i \in DOMAIN proofs : proofs[i].status = "accepted" => HeldKey(proofs[i].key)

\* Rows that were found too old stay so.
LEMMA LeftOverStays ==
  ASSUME Types, [Next]_vars, parked \subseteq parked'
  PROVE  LeftOver \subseteq LeftOver'
<1>1. expired \subseteq expired'
  BY DEF Next, vars, restarts, Handler, FetchProducer, CheckNonce, Refuse, Accumulate,
         SaveEnergy, SaveProof, ReplyUnqueued, MarkAccepted, EnqueueMint, HandlerFails, Take,
         Mint, MintExecuted, MintTimesOut, MintFailed, Record, RecordSuccess, Retry, GiveUp,
         RecordFails, TimerFires, LandLate, CrashAndRestart, Drain
<1>2. expired \subseteq DOMAIN proofs
  BY DEF Types, RowTypes
<1>3. KeysAt(expired) \subseteq KeysAt(expired)'
  BY <1>1, <1>2, RowsStay DEF KeysAt
<1>4. QED
  BY <1>3 DEF LeftOver

LEMMA DrainHold ==
  ASSUME Types, [Next]_vars, UNCHANGED drain, NEW key, AboutToDrain(key)
  PROVE  AboutToDrain(key)'
BY RowsStay DEF AboutToDrain, KeysAt, Types, RowTypes

\* A handler lets go of no proof but its own.
LEMMA RequestHold ==
  ASSUME Types, NEW r \in Requests, Handler(r), NEW key, AboutToQueue(key)
  PROVE  AboutToQueue(key)' \/ (SavedBy(r) /\ request[r].key = key)
<1>1. PICK q \in Requests : request[q].key = key /\ SavedBy(q)
  BY DEF AboutToQueue, SavedBy, At
<1>2. CASE q = r
  BY <1>1, <1>2
<1>3. CASE q # r
  BY <1>1, <1>3, HandlerStep DEF AboutToQueue, SavedBy, At
<1>4. QED
  BY <1>2, <1>3

\* Rows that a status leaves accepted were so before, or got it from the step.
LEMMA RowAfterStatus ==
  ASSUME Types, NEW key, NEW status \in Statuses, proofs' = StatusSet(key, status),
         NEW i \in DOMAIN proofs', proofs'[i].status = "accepted"
  PROVE  /\ i \in DOMAIN proofs /\ proofs'[i].key = proofs[i].key
         /\ IF proofs[i].key = key THEN status = "accepted" ELSE proofs[i].status = "accepted"
BY StatusSetEffect DEF Types

LEMMA HandlerHolds ==
  ASSUME Types, HoldInv, NEW r \in Requests, Handler(r), [Next]_vars,
         NEW i \in DOMAIN proofs', proofs'[i].status = "accepted",
         NEW key, key = proofs'[i].key
  PROVE  HeldKey(key)'
<1>1. /\ request \in [Requests -> Request] /\ request[r] \in Request
      /\ request[r].pc # "idle" => request[r].key \in Keys
  BY DEF Types, RequestTypes
<1>2. ASSUME HeldKey(key), UNCHANGED minting, parked \subseteq parked',
             SavedBy(r) /\ request[r].key = key => HeldKey(key)'
      PROVE  HeldKey(key)'
  <2>1. UNCHANGED <<mintQueue, timers, worker, drain>>
    BY <1>2 DEF minting
  <2>2. Pending(key) => Pending(key)'
    BY <2>1 DEF Pending
  <2>3. AboutToDrain(key) => AboutToDrain(key)'
    BY <2>1, DrainHold
  <2>4. AboutToQueue(key) => HeldKey(key)'
    BY <1>2, RequestHold DEF HeldKey
  <2>5. key \in LeftOver => key \in LeftOver'
    BY <1>2, LeftOverStays
  <2>6. QED
    BY <1>2, <2>2, <2>3, <2>4, <2>5 DEF HeldKey
<1>3. ASSUME UNCHANGED proofs PROVE HeldKey(key)
  BY <1>3 DEF HoldInv
<1>4. ASSUME ~SavedBy(r), UNCHANGED <<proofs, minting>>, parked \subseteq parked'
      PROVE  HeldKey(key)'
  BY <1>2, <1>3, <1>4
<1>5. CASE SaveProof(r)
  <2>1. request'[r].key = request[r].key /\ request'[r].pc = "stored" /\ request[r].key \in Keys
    BY <1>1, <1>5 DEF SaveProof, Goto, At, Request
  <2>2. key = request[r].key => HeldKey(key)'
    BY <2>1 DEF AboutToQueue, At, HeldKey
  <2>3. ~SavedBy(r) /\ UNCHANGED minting /\ UNCHANGED parked
    BY <1>5 DEF SaveProof, At, SavedBy
  <2>4. [key |-> request[r].key, status |-> "accepted"] \in Row /\ RowTypes
    BY <2>1 DEF Row, Statuses, Types
  <2>5. proofs' = Append(proofs, [key |-> request[r].key, status |-> "accepted"])
    BY <1>5 DEF SaveProof
  <2>6. \/ i \in DOMAIN proofs /\ proofs'[i] = proofs[i]
        \/ proofs'[i].key = request[r].key
    BY <2>4, <2>5, AppendRow
  <2>7. CASE i \in DOMAIN proofs /\ proofs'[i] = proofs[i]
    <3>1. HeldKey(key)
      BY <2>7 DEF HoldInv
    <3>2. QED
      BY <1>2, <2>3, <3>1
  <2>8. QED
    BY <2>2, <2>6, <2>7
<1>6. CASE MarkAccepted(r)
  <2>1. request'[r].key = request[r].key /\ request'[r].pc = "marked"
    BY <1>1, <1>6 DEF MarkAccepted, Goto, Request
  <2>2. key = request[r].key => HeldKey(key)'
    BY <2>1 DEF AboutToQueue, At, HeldKey
  <2>3. /\ UNCHANGED minting /\ UNCHANGED parked
        /\ proofs' = StatusSet(request[r].key, "accepted") /\ "accepted" \in Statuses
    BY <1>6 DEF MarkAccepted, Statuses
  <2>4. /\ i \in DOMAIN proofs /\ proofs'[i].key = proofs[i].key
        /\ proofs[i].key # request[r].key => proofs[i].status = "accepted"
    BY <2>3, RowAfterStatus
  <2>5. CASE proofs[i].key # request[r].key
    <3>1. HeldKey(key)
      BY <2>4, <2>5 DEF HoldInv
    <3>2. QED
      BY <1>2, <2>3, <2>4, <2>5, <3>1
  <2>6. CASE key = request[r].key
    BY <2>2, <2>6
  <2>7. QED
    BY <2>4, <2>5, <2>6
<1>7. ASSUME ReplyUnqueued(r) \/ HandlerFails(r)
      PROVE  HeldKey(key)'
  <2>1. /\ UNCHANGED <<proofs, minting>> /\ parked \subseteq parked'
        /\ SavedBy(r) => request[r].key \in parked'
    BY <1>7 DEF ReplyUnqueued, HandlerFails, At, SavedBy
  <2>2. SavedBy(r) => request[r].key \in LeftOver'
    BY <2>1 DEF LeftOver
  <2>3. QED
    BY <1>2, <1>3, <2>1, <2>2 DEF HeldKey
<1>8. CASE EnqueueMint(r)
  <2>1. HeldKey(key) /\ UNCHANGED <<timers, worker, drain, proofs>> /\ parked \subseteq parked'
    BY <1>3, <1>8, EnqueueMove
  <2>2. KeysOf(mintQueue) \subseteq KeysOf(mintQueue')
    BY <1>8, EnqueueMove
  <2>3. request[r].key \in parked' \/ request[r].key \in KeysOf(mintQueue')
    BY <1>8, <2>2, EnqueueMove DEF HoldInv
  <2>4. Pending(key) => Pending(key)'
    BY <2>1, <2>2 DEF Pending
  <2>5. AboutToDrain(key) => AboutToDrain(key)'
    BY <2>1, DrainHold
  <2>6. AboutToQueue(key) => AboutToQueue(key)' \/ request[r].key = key
    BY RequestHold
  <2>7. request[r].key = key => HeldKey(key)'
    BY <2>3 DEF HeldKey, Pending, LeftOver
  <2>8. key \in LeftOver => key \in LeftOver'
    BY <2>1, LeftOverStays
  <2>9. QED
    BY <2>1, <2>4, <2>5, <2>6, <2>7, <2>8 DEF HeldKey
<1>9. ASSUME \/ \E k \in Keys : FetchProducer(r, k)
             \/ CheckNonce(r) \/ Refuse(r) \/ Accumulate(r) \/ SaveEnergy(r)
      PROVE  HeldKey(key)'
  <2>1. ~SavedBy(r) /\ UNCHANGED <<proofs, minting, parked>>
    BY <1>9 DEF FetchProducer, CheckNonce, Refuse, Accumulate, SaveEnergy, At, SavedBy
  <2>2. QED
    BY <1>4, <2>1
<1>10. QED
  BY <1>5, <1>6, <1>7, <1>8, <1>9 DEF Handler

\* Where the worker, a timer or the drain moves a proof, it stays held, unless its outcome is
\* recorded in the table.
LEMMA OthersHold ==
  ASSUME Types, HoldInv, [Next]_vars, \A r \in Requests : ~Handler(r),
         NEW i \in DOMAIN proofs', proofs'[i].status = "accepted",
         NEW key, key = proofs'[i].key
  PROVE  HeldKey(key)'
<1>1. ASSUME UNCHANGED proofs PROVE HeldKey(key)
  BY <1>1 DEF HoldInv
<1>2. ASSUME UNCHANGED request, AboutToQueue(key)
      PROVE  AboutToQueue(key)'
  BY <1>2 DEF AboutToQueue, At
<1>3. ASSUME UNCHANGED <<request, drain>>, parked \subseteq parked', HeldKey(key),
             Pending(key) => HeldKey(key)'
      PROVE  HeldKey(key)'
  BY <1>2, <1>3, DrainHold, LeftOverStays DEF HeldKey
<1>4. CASE Take
  <2>1. Pending(key) => Pending(key)'
    <3>1. key \in KeysOf(mintQueue) => Pending(key)'
      BY <1>4, TakeMove DEF Pending
    <3>2. key \in KeysOf(timers) => Pending(key)'
      BY <1>4, TakeMove DEF Pending
    <3>3. key \in Keys /\ worker.key = NoKey
      <4>1. proofs'[i] \in Row
        BY RowsStay
      <4>2. QED
        BY <1>4, <4>1 DEF Take, Types, WorkTypes, Row
    <3>4. QED
      BY <3>1, <3>2, <3>3, KeyParts DEF Pending
  <2>2. QED
    BY <1>1, <1>3, <1>4, <2>1, TakeMove DEF HeldKey
<1>5. CASE Mint
  <2>1. /\ UNCHANGED <<request, drain, proofs, parked, mintQueue, timers>>
        /\ worker'.key = worker.key
    BY <1>5 DEF Mint, MintExecuted, MintTimesOut, MintFailed, handling, Types, WorkTypes, Work
  <2>2. Pending(key) => Pending(key)'
    BY <2>1 DEF Pending
  <2>3. QED
    BY <1>1, <1>3, <2>1, <2>2 DEF HeldKey
<1>6. CASE Retry
  <2>1. /\ proofs' = StatusSet(worker.key, "accepted") /\ "accepted" \in Statuses
        /\ UNCHANGED <<request, mintQueue, drain, parked>>
        /\ KeysOf(timers') = KeysOf(timers) \cup {worker.key}
    BY <1>6, RetryMove DEF Statuses
  <2>2. key = worker.key => HeldKey(key)'
    BY <2>1 DEF HeldKey, Pending
  <2>3. /\ i \in DOMAIN proofs /\ key = proofs[i].key
        /\ key # worker.key => proofs[i].status = "accepted"
    BY <2>1, RowAfterStatus
  <2>4. CASE key # worker.key
    <3>1. HeldKey(key)
      BY <2>3, <2>4 DEF HoldInv
    <3>2. Pending(key) => Pending(key)'
      BY <2>1, <2>4 DEF Pending
    <3>3. QED
      BY <1>3, <2>1, <3>1, <3>2 DEF HeldKey
  <2>5. QED
    BY <2>2, <2>4
<1>7. CASE RecordSuccess \/ GiveUp \/ RecordFails
  <2>1. UNCHANGED <<request, mintQueue, timers, drain>> /\ parked \subseteq parked'
    BY <1>7 DEF RecordSuccess, GiveUp, RecordFails, handling
  <2>2. CASE UNCHANGED proofs /\ worker.key \in parked'
    <3>1. Pending(key) => HeldKey(key)'
      BY <2>1, <2>2 DEF HeldKey, Pending, LeftOver
    <3>2. QED
      BY <1>1, <1>3, <2>1, <2>2, <3>1
  <2>3. ASSUME NEW status \in Statuses \ {"accepted"}, proofs' = StatusSet(worker.key, status)
        PROVE  HeldKey(key)'
    <3>1. /\ i \in DOMAIN proofs /\ key = proofs[i].key /\ key # worker.key
          /\ proofs[i].status = "accepted"
      BY <2>3, RowAfterStatus
    <3>2. HeldKey(key)
      BY <3>1 DEF HoldInv
    <3>3. Pending(key) => Pending(key)'
      BY <2>1, <3>1 DEF Pending
    <3>4. QED
      BY <1>3, <2>1, <3>2, <3>3 DEF HeldKey
  <2>4. \/ UNCHANGED proofs /\ worker.key \in parked'
        \/ \E status \in Statuses \ {"accepted"} : proofs' = StatusSet(worker.key, status)
    BY <1>7 DEF RecordSuccess, GiveUp, RecordFails, Statuses
  <2>5. QED
    BY <2>2, <2>3, <2>4
<1>8. ASSUME NEW k \in Keys, TimerFires(k)
      PROVE  HeldKey(key)'
  <2>1. Pending(key) => Pending(key)'
    BY <1>8, TimerMove DEF Pending
  <2>2. QED
    BY <1>1, <1>3, <1>8, <2>1, TimerMove DEF HeldKey
<1>9. ASSUME UNCHANGED vars \/ \E k \in Keys : LandLate(k)
      PROVE  HeldKey(key)'
  <2>1. UNCHANGED <<request, drain, proofs, parked, mintQueue, timers, worker>>
    BY <1>9 DEF LandLate, vars, handling, minting
  <2>2. Pending(key) => Pending(key)'
    BY <2>1 DEF Pending
  <2>3. QED
    BY <1>1, <1>3, <2>1, <2>2 DEF HeldKey
<1>10. CASE CrashAndRestart
  <2>1. UNCHANGED proofs /\ i \in Accepted /\ key = proofs[i].key
    BY <1>10 DEF CrashAndRestart, Accepted
  <2>2. ASSUME NEW limit \in LoadLimits, drain' = [rows |-> Loaded(limit), atAwait |-> FALSE],
               parked' = KeysAt(Accepted \ Loaded(limit))
        PROVE  HeldKey(key)'
    <3>1. CASE i \in Loaded(limit)
      BY <2>1, <2>2, <3>1 DEF HeldKey, AboutToDrain, KeysAt
    <3>2. CASE i \notin Loaded(limit)
      BY <2>1, <2>2, <3>2 DEF HeldKey, LeftOver, KeysAt
    <3>3. QED
      BY <3>1, <3>2
  <2>3. CASE parked' = KeysAt(Accepted)
    BY <2>1, <2>3 DEF HeldKey, LeftOver, KeysAt
  <2>4. QED
    BY <1>10, <2>2, <2>3 DEF CrashAndRestart
<1>11. CASE Drain
  <2>1. PICK j \in drain.rows :
           /\ proofs[j].key \in Keys /\ j \in DOMAIN proofs
           /\ drain'.rows = drain.rows \ {j}
           /\ UNCHANGED <<request, worker, timers>>
           /\ parked \subseteq parked'
           /\ \/ /\ proofs[j].key \in KeysAt(expired) \cup parked'
                 /\ UNCHANGED <<mintQueue, mintQueueIds>>
                 /\ UNCHANGED proofs \/ proofs' = StatusSet(proofs[j].key, "accepted")
              \/ /\ proofs[j].key \in mintQueueIds
                 /\ UNCHANGED <<mintQueue, mintQueueIds, proofs>>
              \/ /\ KeysOf(mintQueue') = KeysOf(mintQueue) \cup {proofs[j].key}
                 /\ mintQueueIds' = mintQueueIds \cup {proofs[j].key}
                 /\ UNCHANGED proofs
    BY <1>11, DrainMove
  <2> DEFINE drained == proofs[j].key
  <2>2. KeysOf(mintQueue) \subseteq KeysOf(mintQueue')
    BY <2>1
  <2>3. key = drained => HeldKey(key)'
    <3>1. drained \in KeysAt(expired) \cup parked' \/ drained \in KeysOf(mintQueue')
      BY <2>1, <2>2 DEF HoldInv
    <3>2. KeysAt(expired) \subseteq LeftOver'
      BY <2>1, LeftOverStays DEF LeftOver
    <3>3. parked' \subseteq LeftOver'
      BY DEF LeftOver
    <3>4. QED
      BY <3>1, <3>2, <3>3 DEF HeldKey, Pending
  <2>4. CASE key # drained
    <3>1. HeldKey(key)
      <4>1. CASE UNCHANGED proofs
        BY <1>1, <4>1
      <4>2. CASE proofs' = StatusSet(drained, "accepted")
        <5>1. "accepted" \in Statuses
          BY DEF Statuses
        <5>2. i \in DOMAIN proofs /\ key = proofs[i].key /\ proofs[i].status = "accepted"
          BY <2>4, <4>2, <5>1, RowAfterStatus
        <5>3. QED
          BY <5>2 DEF HoldInv
      <4>3. QED
        BY <2>1, <4>1, <4>2
    <3>2. Pending(key) => Pending(key)'
      BY <2>1, <2>2 DEF Pending
    <3>3. AboutToDrain(key) => AboutToDrain(key)'
      <4>1. SUFFICES ASSUME AboutToDrain(key) PROVE AboutToDrain(key)'
        OBVIOUS
      <4>2. PICK n \in drain.rows : key = proofs[n].key
        BY <4>1 DEF AboutToDrain, KeysAt
      <4>3. n \in drain'.rows /\ n \in DOMAIN proofs
        BY <2>1, <2>4, <4>2 DEF Types, RowTypes
      <4>4. proofs'[n].key = key
        BY <4>2, <4>3, RowsStay
      <4>5. QED
        BY <4>3, <4>4 DEF AboutToDrain, KeysAt
    <3>4. key \in LeftOver => key \in LeftOver'
      BY <2>1, LeftOverStays
    <3>5. QED
      BY <1>2, <2>1, <3>1, <3>2, <3>3, <3>4 DEF HeldKey
  <2>5. QED
    BY <2>3, <2>4
<1>12. QED
  BY <1>4, <1>5, <1>6, <1>7, <1>8, <1>9, <1>10, <1>11 DEF Next, Record

\* The keys that are not enqueued again are keys of the queue.
LEMMA IdsStep ==
  ASSUME Types, HoldInv, [Next]_vars
  PROVE  mintQueueIds' \subseteq KeysOf(mintQueue')
<1>1. mintQueueIds \subseteq KeysOf(mintQueue)
  BY DEF HoldInv
<1>2. ASSUME NEW r \in Requests, EnqueueMint(r)
      PROVE  mintQueueIds' \subseteq KeysOf(mintQueue')
  BY <1>1, <1>2, EnqueueMove
<1>3. CASE Take
  BY <1>1, <1>3, TakeMove
<1>4. ASSUME NEW key \in Keys, TimerFires(key)
      PROVE  mintQueueIds' \subseteq KeysOf(mintQueue')
  BY <1>1, <1>4, TimerMove
<1>5. CASE CrashAndRestart
  BY <1>5 DEF CrashAndRestart
<1>6. CASE Drain
  BY <1>1, <1>6, DrainMove
<1>7. CASE UNCHANGED <<mintQueue, mintQueueIds>>
  BY <1>1, <1>7
<1>8. \/ UNCHANGED <<mintQueue, mintQueueIds>>
      \/ Take \/ CrashAndRestart \/ Drain
      \/ \E r \in Requests : EnqueueMint(r)
      \/ \E key \in Keys : TimerFires(key)
  BY DEF Next, vars, minting, Handler, FetchProducer, CheckNonce, Refuse, Accumulate,
         SaveEnergy, SaveProof, ReplyUnqueued, MarkAccepted, HandlerFails,
         Mint, MintExecuted, MintTimesOut, MintFailed, Record, RecordSuccess, Retry, GiveUp,
         RecordFails, LandLate
<1>9. QED
  BY <1>2, <1>3, <1>4, <1>5, <1>6, <1>7, <1>8

\* Whatever number of rows a restart loads and whichever it finds too old: an accepted proof
\* that is not too old is in somebody's hands, or waits in the table for the next restart for
\* one of the code's own reasons.
THEOREM AcceptedHolds == Spec => []AcceptedIsHeld
<1>1. Init => HoldInv
  BY DEF Init, HoldInv
<1>2. Types /\ HoldInv /\ [Next]_vars => HoldInv'
  <2> SUFFICES ASSUME Types, HoldInv, [Next]_vars PROVE HoldInv'
    OBVIOUS
  <2>1. ASSUME NEW i \in DOMAIN proofs', proofs'[i].status = "accepted",
               NEW key, key = proofs'[i].key
        PROVE  HeldKey(key)'
    BY <2>1, HandlerHolds, OthersHold
  <2>2. QED
    BY <2>1, IdsStep DEF HoldInv
<1>3. HoldInv => AcceptedIsHeld
  BY DEF HoldInv, AcceptedIsHeld, HeldKey, LeftOver
<1>4. QED
  BY <1>1, <1>2, <1>3, TypesInvariant, PTL DEF Spec
-----------------------------------------------------------------------------
(* The energy of a device: every row is in it, and every row on its way.   *)

RowsOf(d) == {i \in DOMAIN proofs : proofs[i].key[1] = d}
Adding(r) == request[r].pc \in {"accumulated", "energySaved"}
Underway(d) == {r \in Requests : Adding(r) /\ request[r].key[1] = d}

EnergyInv ==
  crashes = 0 =>
    \A d \in Devices :
      energyStore[d].energy >= Cardinality(RowsOf(d)) + Cardinality(Underway(d))

LEMMA Countable ==
  ASSUME Types, NEW d
  PROVE  /\ IsFiniteSet(RowsOf(d)) /\ Cardinality(RowsOf(d)) \in Nat
         /\ IsFiniteSet(Underway(d)) /\ Cardinality(Underway(d)) \in Nat
<1>1. Len(proofs) \in Nat /\ DOMAIN proofs = 1 .. Len(proofs)
  BY DEF Types, RowTypes
<1>2. IsFiniteSet(1 .. Len(proofs)) /\ IsFiniteSet(Requests)
  BY <1>1, FS_Interval, OracleServerAssumption DEF OracleServerAssumption
<1>3. RowsOf(d) \subseteq 1 .. Len(proofs) /\ Underway(d) \subseteq Requests
  BY <1>1 DEF RowsOf, Underway
<1>4. QED
  BY <1>2, <1>3, FS_Subset, FS_CardinalityType

\* A status changes no row's device, and no step but SaveProof adds a row.
LEMMA RowsOfStep ==
  ASSUME Types, [Next]_vars, \A r \in Requests : ~SaveProof(r), NEW d
  PROVE  RowsOf(d)' = RowsOf(d)
<1>1. CASE UNCHANGED proofs
  BY <1>1 DEF RowsOf
<1>2. ASSUME NEW key, NEW status \in Statuses, proofs' = StatusSet(key, status)
      PROVE  RowsOf(d)' = RowsOf(d)
  BY <1>2, StatusSetEffect DEF RowsOf, Types
<1>3. ASSUME NEW r \in Requests, Handler(r)
      PROVE  UNCHANGED proofs \/ \E key : proofs' = StatusSet(key, "accepted")
  BY <1>3 DEF Handler, FetchProducer, CheckNonce, Refuse, Accumulate, SaveEnergy,
         ReplyUnqueued, MarkAccepted, EnqueueMint, HandlerFails
<1>4. ASSUME Record \/ Drain
      PROVE  UNCHANGED proofs \/ \E status \in Statuses : \E key : proofs' = StatusSet(key, status)
  <2>1. ASSUME Drain PROVE UNCHANGED proofs \/ \E key : proofs' = StatusSet(key, "accepted")
    BY <2>1 DEF Drain, MarkExpired, RestoreRow
  <2>2. ASSUME Record
        PROVE  UNCHANGED proofs \/ \E status \in Statuses : proofs' = StatusSet(worker.key, status)
    BY <2>2 DEF Record, RecordSuccess, Retry, GiveUp, RecordFails, Statuses
  <2>3. QED
    BY <1>4, <2>1, <2>2 DEF Statuses
<1>5. \/ UNCHANGED proofs \/ Record \/ Drain \/ \E r \in Requests : Handler(r)
  BY DEF Next, vars, Take, Mint, MintExecuted, MintTimesOut, MintFailed, TimerFires, LandLate,
         CrashAndRestart
<1>6. "accepted" \in Statuses
  BY DEF Statuses
<1>7. QED
  BY <1>1, <1>2, <1>3, <1>4, <1>5, <1>6

LEMMA AccumulateKeepsEnergy ==
  ASSUME Types, EnergyInv, [Next]_vars, crashes' = 0, NEW r \in Requests, Accumulate(r),
         NEW d \in Devices
  PROVE  energyStore'[d].energy >= Cardinality(RowsOf(d)') + Cardinality(Underway(d)')
<1>1. /\ request \in [Requests -> Request] /\ request[r].key \in Keys /\ ~Adding(r)
      /\ energyStore \in [Devices -> EnergyRecords]
  BY DEF Types, RequestTypes, EnergyTypes, Accumulate, At, Adding
<1>2. /\ request'[r].pc = "accumulated" /\ request'[r].key = request[r].key
      /\ \A q \in Requests \ {r} : request'[q] = request[q]
  BY <1>1 DEF Accumulate, Request
<1>3. energyStore[d].energy \in Nat
  BY <1>1 DEF EnergyRecords
<1>4. energyStore[d].energy >= Cardinality(RowsOf(d)) + Cardinality(Underway(d))
  BY DEF EnergyInv, Accumulate, restarts
<1>5. RowsOf(d)' = RowsOf(d)
  BY DEF Accumulate, RowsOf
<1>6. CASE d = request[r].key[1]
  <2>1. Underway(d)' = Underway(d) \cup {r} /\ r \notin Underway(d)
    BY <1>1, <1>2, <1>6 DEF Underway, Adding
  <2>2. Cardinality(Underway(d)') = Cardinality(Underway(d)) + 1
    BY <2>1, Countable, FS_AddElement
  <2>3. energyStore'[d].energy = energyStore[d].energy + 1
    BY <1>1, <1>6 DEF Accumulate
  <2>4. QED
    BY <1>3, <1>4, <1>5, <2>2, <2>3, Countable
<1>7. CASE d # request[r].key[1]
  <2>1. Underway(d)' = Underway(d)
    BY <1>1, <1>2, <1>7 DEF Underway, Adding
  <2>2. energyStore'[d] = energyStore[d]
    BY <1>1, <1>7 DEF Accumulate
  <2>3. QED
    BY <1>4, <1>5, <2>1, <2>2
<1>8. QED
  BY <1>6, <1>7

LEMMA SaveProofKeepsEnergy ==
  ASSUME Types, EnergyInv, [Next]_vars, crashes' = 0, NEW r \in Requests, SaveProof(r),
         NEW d \in Devices
  PROVE  energyStore'[d].energy >= Cardinality(RowsOf(d)') + Cardinality(Underway(d)')
<1>1. /\ request \in [Requests -> Request] /\ request[r].key \in Keys
      /\ request[r].pc = "energySaved"
  BY DEF Types, RequestTypes, SaveProof, At
<1>2. /\ request'[r].pc = "stored"
      /\ \A q \in Requests \ {r} : request'[q] = request[q]
  BY <1>1 DEF SaveProof, Goto, Request
<1>3. energyStore'[d].energy >= Cardinality(RowsOf(d)) + Cardinality(Underway(d))
  BY DEF EnergyInv, SaveProof, restarts
<1>4. energyStore'[d].energy \in Nat
  BY DEF SaveProof, Types, EnergyTypes, EnergyRecords
<1>5. [key |-> request[r].key, status |-> "accepted"] \in Row /\ RowTypes
  BY <1>1 DEF Row, Statuses, Types
<1>6. proofs' = Append(proofs, [key |-> request[r].key, status |-> "accepted"])
  BY DEF SaveProof
<1>7. /\ DOMAIN proofs' = DOMAIN proofs \cup {Len(proofs) + 1}
      /\ Len(proofs) + 1 \notin DOMAIN proofs
      /\ \A i \in DOMAIN proofs : proofs'[i] = proofs[i]
      /\ proofs'[Len(proofs) + 1].key = request[r].key
  BY <1>5, <1>6, AppendRow
<1>8. CASE d = request[r].key[1]
  <2>1. RowsOf(d)' = RowsOf(d) \cup {Len(proofs) + 1} /\ Len(proofs) + 1 \notin RowsOf(d)
    BY <1>7, <1>8 DEF RowsOf
  <2>2. Cardinality(RowsOf(d)') = Cardinality(RowsOf(d)) + 1
    BY <2>1, Countable, FS_AddElement
  <2>3. Underway(d)' = Underway(d) \ {r} /\ r \in Underway(d)
    BY <1>1, <1>2, <1>8 DEF Underway, Adding
  <2>4. Cardinality(Underway(d)') = Cardinality(Underway(d)) - 1
    BY <2>3, Countable, FS_RemoveElement
  <2>5. QED
    BY <1>3, <1>4, <2>2, <2>4, Countable
<1>9. CASE d # request[r].key[1]
  <2>1. RowsOf(d)' = RowsOf(d)
    BY <1>7, <1>9 DEF RowsOf
  <2>2. Underway(d)' = Underway(d)
    BY <1>1, <1>2, <1>9 DEF Underway, Adding
  <2>3. QED
    BY <1>3, <2>1, <2>2
<1>10. QED
  BY <1>8, <1>9

\* The other steps add to no energy and begin no addition.
LEMMA OthersKeepEnergy ==
  ASSUME Types, EnergyInv, [Next]_vars, crashes' = 0, NEW d \in Devices,
         \A r \in Requests : ~Accumulate(r) /\ ~SaveProof(r)
  PROVE  energyStore'[d].energy >= Cardinality(RowsOf(d)') + Cardinality(Underway(d)')
<1>1. /\ request \in [Requests -> Request]
      /\ energyStore[d].energy \in Nat
  BY DEF Types, RequestTypes, EnergyTypes, EnergyRecords
<1>2. ~CrashAndRestart
  BY DEF CrashAndRestart, Types, ChainTypes
<1>3. energyStore' = energyStore /\ crashes' = crashes
  BY <1>2 DEF Next, vars, handling, restarts, Handler, FetchProducer, CheckNonce, Refuse,
         SaveEnergy, SaveProof, ReplyUnqueued, MarkAccepted, EnqueueMint, HandlerFails, Take,
         Mint, MintExecuted, MintTimesOut, MintFailed, Record, RecordSuccess, Retry, GiveUp,
         RecordFails, TimerFires, LandLate, Drain
<1>4. Underway(d)' \subseteq Underway(d)
  <2> SUFFICES ASSUME NEW q \in Requests, Adding(q)', request'[q].key[1] = d
               PROVE  Adding(q) /\ request[q].key[1] = d
    BY DEF Underway
  <2>1. CASE request'[q] = request[q]
    BY <2>1 DEF Adding
  <2>2. CASE SaveEnergy(q)
    BY <1>1, <2>2 DEF SaveEnergy, Goto, At, Request, Adding
  <2>3. ASSUME Handler(q), ~SaveEnergy(q)
        PROVE  ~Adding(q)'
    <3>1. CASE Reply(q)
      BY <1>1, <3>1 DEF Reply, NoRequest, Adding
    <3>2. ASSUME NEW pc \in {"verifying", "marked"}, Goto(q, pc)
          PROVE  ~Adding(q)'
      BY <1>1, <3>2 DEF Goto, Request, Adding
    <3>3. ASSUME NEW key \in Keys, FetchProducer(q, key)
          PROVE  ~Adding(q)'
      BY <1>1, <3>3 DEF FetchProducer, Adding
    <3>4. QED
      BY <2>3, <3>1, <3>2, <3>3
      DEF Handler, CheckNonce, Refuse, ReplyUnqueued, MarkAccepted, EnqueueMint, HandlerFails
  <2>4. ASSUME NEW r \in Requests, Handler(r), r # q
        PROVE  request'[q] = request[q]
    BY <2>4, HandlerStep
  <2>5. UNCHANGED request \/ \E r \in Requests : Handler(r)
    BY <1>2 DEF Next, vars, handling, Take, Mint, MintExecuted, MintTimesOut, MintFailed, Record,
           RecordSuccess, Retry, GiveUp, RecordFails, TimerFires, LandLate, Drain
  <2>6. QED
    BY <2>1, <2>2, <2>3, <2>4, <2>5
<1>5. Cardinality(Underway(d)') <= Cardinality(Underway(d)) /\ Cardinality(Underway(d)') \in Nat
  BY <1>4, Countable, FS_Subset, FS_CardinalityType
<1>6. RowsOf(d)' = RowsOf(d)
  BY RowsOfStep
<1>7. energyStore[d].energy >= Cardinality(RowsOf(d)) + Cardinality(Underway(d))
  BY <1>3 DEF EnergyInv
<1>8. QED
  BY <1>1, <1>3, <1>5, <1>6, <1>7, Countable

\* Before a restart, the energy of a device counts every stored proof, however many handlers
\* interleave around their awaits.
THEOREM EnergyIsCounted == Spec => []EnergyCountsProofs
<1>1. Init => EnergyInv
  <2> SUFFICES ASSUME Init, NEW d \in Devices
               PROVE  energyStore[d].energy >= Cardinality(RowsOf(d)) + Cardinality(Underway(d))
    BY DEF EnergyInv
  <2>1. RowsOf(d) = {} /\ Underway(d) = {}
    BY DEF Init, RowsOf, Underway, Adding, NoRequest
  <2>2. energyStore[d].energy = 0
    BY DEF Init, NothingStored
  <2>3. QED
    BY <2>1, <2>2, FS_EmptySet
<1>2. Types /\ EnergyInv /\ [Next]_vars => EnergyInv'
  <2> SUFFICES ASSUME Types, EnergyInv, [Next]_vars, crashes' = 0, NEW d \in Devices
               PROVE  energyStore'[d].energy >= Cardinality(RowsOf(d)') + Cardinality(Underway(d)')
    BY DEF EnergyInv
  <2>1. QED
    BY AccumulateKeepsEnergy, SaveProofKeepsEnergy, OthersKeepEnergy
<1>3. Types /\ EnergyInv => EnergyCountsProofs
  <2> SUFFICES ASSUME Types, EnergyInv, crashes = 0, NEW d \in Devices
               PROVE  energyStore[d].energy >=
                        Cardinality({i \in DOMAIN proofs : proofs[i].key[1] = d})
    BY DEF EnergyCountsProofs
  <2>1. energyStore[d].energy >= Cardinality(RowsOf(d)) + Cardinality(Underway(d))
    BY DEF EnergyInv
  <2>2. energyStore[d].energy \in Nat
    BY DEF Types, EnergyTypes, EnergyRecords
  <2>3. energyStore[d].energy >= Cardinality(RowsOf(d))
    BY <2>1, <2>2, Countable
  <2>4. QED
    BY <2>3 DEF RowsOf
<1>4. QED
  BY <1>1, <1>2, <1>3, TypesInvariant, PTL DEF Spec
-----------------------------------------------------------------------------
(* OracleServer implements MintingPromise.                                 *)

\* The record of a device on chain is at least every nonce minted for it.
NoncesBelow == \A k \in minted : k[2] <= chain[k[1]]

LEMMA NoncesBelowInvariant == Spec => []NoncesBelow
<1>1. Init => NoncesBelow
  BY DEF Init, NoncesBelow
<1>2. ASSUME Types, NoncesBelow, [Next]_vars
      PROVE  NoncesBelow'
  <2>1. ASSUME NEW key \in Keys, key[2] > chain[key[1]],
               chain' = [chain EXCEPT ![key[1]] = key[2]], minted' = minted \cup {key}
        PROVE  NoncesBelow'
    <3>1. /\ chain \in [Devices -> 0 .. MaxNonce] /\ MaxNonce \in Nat
          /\ key[1] \in Devices /\ key[2] \in 1 .. MaxNonce
      BY <1>2, KeyParts, Limits DEF Types, ChainTypes
    <3>2. ASSUME NEW k \in minted'
          PROVE  k[2] <= chain'[k[1]]
      <4>1. CASE k = key
        BY <2>1, <3>1, <4>1
      <4>2. CASE k \in minted
        <5>1. k \in Keys /\ k[2] <= chain[k[1]]
          BY <1>2, <4>2 DEF Types, ChainTypes, NoncesBelow
        <5>2. k[1] \in Devices /\ k[2] \in 1 .. MaxNonce
          BY <5>1, KeyParts
        <5>3. CASE k[1] = key[1]
          BY <2>1, <3>1, <5>1, <5>2, <5>3
        <5>4. CASE k[1] # key[1]
          BY <2>1, <3>1, <5>1, <5>2, <5>4
        <5>5. QED
          BY <5>3, <5>4
      <4>3. QED
        BY <2>1, <3>2, <4>1, <4>2
    <3>3. QED
      BY <3>2 DEF NoncesBelow
  <2>2. CASE MintExecuted
    BY <1>2, <2>1, <2>2 DEF MintExecuted, CanMint, Types, WorkTypes
  <2>3. ASSUME NEW key \in Keys, LandLate(key)
        PROVE  NoncesBelow'
    BY <2>1, <2>3 DEF LandLate
  <2>4. CASE UNCHANGED <<chain, minted>>
    BY <1>2, <2>4 DEF NoncesBelow
  <2>5. \/ UNCHANGED <<chain, minted>>
        \/ MintExecuted
        \/ \E key \in Keys : LandLate(key)
    BY <1>2 DEF Next, vars, onChain, Handler, FetchProducer, CheckNonce, Refuse, Accumulate,
           SaveEnergy, SaveProof, ReplyUnqueued, MarkAccepted, EnqueueMint, HandlerFails,
           Take, Mint, MintTimesOut, MintFailed, Record, RecordSuccess, Retry, GiveUp,
           RecordFails, TimerFires, CrashAndRestart, Drain
  <2>6. QED
    BY <2>2, <2>3, <2>4, <2>5
<1>3. QED
  BY <1>1, <1>2, TypesInvariant, PTL DEF Spec

Claimed == KeysAt({i \in DOMAIN proofs : proofs[i].status = "minted"})

\* A new row is a proof stored, and claims nothing.
LEMMA SaveStores ==
  ASSUME Types, NEW r \in Requests, SaveProof(r)
  PROVE  Promise!Store(request[r].key) /\ request[r].key \in Keys
<1> DEFINE key == request[r].key
           row == [key |-> key, status |-> "accepted"]
           n   == Len(proofs) + 1
<1>1. key \in Keys /\ proofs' = Append(proofs, row) /\ RowTypes
  BY DEF SaveProof, At, Types, RequestTypes
<1>2. row \in Row /\ row.key = key /\ row.status # "minted"
  BY <1>1 DEF Row, Statuses
<1> HIDE DEF row, n, key
<1>3. /\ DOMAIN proofs' = DOMAIN proofs \cup {n} /\ n \notin DOMAIN proofs
      /\ \A i \in DOMAIN proofs : proofs'[i] = proofs[i]
      /\ proofs'[n] = row
  BY <1>1, <1>2, AppendRow DEF n
<1>4. Recorded' = Recorded \cup {key}
  BY <1>2, <1>3 DEF Recorded, KeysAt
<1>5. {i \in DOMAIN proofs' : proofs'[i].status = "minted"}
        = {i \in DOMAIN proofs : proofs[i].status = "minted"}
  BY <1>2, <1>3
<1>6. Claimed' = Claimed
  BY <1>3, <1>5 DEF Claimed, KeysAt
<1>7. minted' = minted
  BY DEF SaveProof, onChain
<1>8. QED
  BY <1>1, <1>4, <1>6, <1>7 DEF Promise!Store, Recorded, Claimed, key

\* A status, on every row of a proof, is a claim made or taken back.
LEMMA StatusClaims ==
  ASSUME Types, NEW key \in Recorded, NEW status \in Statuses,
         proofs' = StatusSet(key, status)
  PROVE  /\ Recorded' = Recorded
         /\ Claimed' = IF status = "minted" THEN Claimed \cup {key} ELSE Claimed \ {key}
<1>1. /\ DOMAIN proofs' = DOMAIN proofs
      /\ \A i \in DOMAIN proofs :
           /\ proofs'[i].key = proofs[i].key
           /\ proofs'[i].status = IF proofs[i].key = key THEN status ELSE proofs[i].status
  BY StatusSetEffect DEF Types
<1>2. Recorded' = Recorded
  BY <1>1 DEF Recorded, KeysAt
<1>3. PICK j \in DOMAIN proofs : proofs[j].key = key
  BY DEF Recorded, KeysAt
<1>4. \A k : k \in Claimed <=> \E i \in DOMAIN proofs : proofs[i].status = "minted"
                                                      /\ proofs[i].key = k
  BY DEF Claimed, KeysAt
<1>5. \A k : k \in Claimed' <=> \E i \in DOMAIN proofs : proofs'[i].status = "minted"
                                                       /\ proofs[i].key = k
  <2>1. \A k : k \in Claimed' <=> \E i \in DOMAIN proofs' : proofs'[i].status = "minted"
                                                          /\ proofs'[i].key = k
    BY DEF Claimed, KeysAt
  <2>2. QED
    BY <1>1, <2>1
<1>6. CASE status = "minted"
  <2>1. \A k : k \in Claimed' <=> k \in Claimed \/ k = key
    BY <1>1, <1>3, <1>4, <1>5, <1>6
  <2>2. QED
    BY <1>2, <1>6, <2>1
<1>7. CASE status # "minted"
  <2>1. \A k : k \in Claimed' <=> k \in Claimed /\ k # key
    BY <1>1, <1>4, <1>5, <1>7
  <2>2. QED
    BY <1>2, <1>7, <2>1
<1>8. QED
  BY <1>6, <1>7

LEMMA SuccessClaims ==
  ASSUME Types, RecordInv, ChainInv, RecordSuccess
  PROVE  Promise!Claim(worker.key) /\ worker.key \in Keys
<1>1. /\ worker.phase = "succeeded" /\ worker.key \in Keys
      /\ worker.key \in Recorded /\ worker.key \in minted
      /\ proofs' = StatusSet(worker.key, "minted")
      /\ minted' = minted
  BY DEF RecordSuccess, Types, WorkTypes, RecordInv, ChainInv, SuccessIsOnChain, onChain
<1>2. "minted" \in Statuses
  BY DEF Statuses
<1>3. Recorded' = Recorded /\ Claimed' = Claimed \cup {worker.key}
  BY <1>1, <1>2, StatusClaims
<1>4. QED
  BY <1>1, <1>3 DEF Promise!Claim, Recorded, Claimed

LEMMA OtherStatusWithdraws ==
  ASSUME Types, NEW key \in Recorded, NEW status \in {"accepted", "deferred"},
         proofs' = StatusSet(key, status), UNCHANGED minted
  PROVE  Promise!Withdraw(key) /\ key \in Keys
<1>1. status \in Statuses /\ status # "minted"
  BY DEF Statuses
<1>2. Recorded' = Recorded /\ Claimed' = Claimed \ {key}
  BY <1>1, StatusClaims
<1>3. key \in Keys
  <2>1. PICK i \in DOMAIN proofs : proofs[i].key = key
    BY DEF Recorded, KeysAt
  <2>2. proofs[i] \in Row
    BY DEF Types, RowTypes
  <2>3. QED
    BY <2>1, <2>2 DEF Row
<1>4. QED
  BY <1>2, <1>3 DEF Promise!Withdraw, Recorded, Claimed

\* A transaction that is executed, in time or late, mints a stored proof in its turn.
LEMMA ChainMints ==
  ASSUME Types, NoncesBelow, NEW key \in Keys, key \in Recorded, key[2] > chain[key[1]],
         minted' = minted \cup {key}, UNCHANGED proofs
  PROVE  Promise!Mint(key)
<1>1. \A q \in minted : q[1] = key[1] => q[2] < key[2]
  <2> SUFFICES ASSUME NEW q \in minted, q[1] = key[1] PROVE q[2] < key[2]
    OBVIOUS
  <2>1. q \in Keys /\ q[2] <= chain[q[1]]
    BY DEF Types, ChainTypes, NoncesBelow
  <2>2. q[2] \in 1 .. MaxNonce /\ key[2] \in 1 .. MaxNonce /\ key[1] \in Devices
    BY <2>1, KeyParts
  <2>3. chain[key[1]] \in 0 .. MaxNonce /\ MaxNonce \in Nat
    BY <2>2, Limits DEF Types, ChainTypes
  <2>4. QED
    BY <2>1, <2>2, <2>3
<1>2. Recorded' = Recorded /\ Claimed' = Claimed
  BY DEF Recorded, Claimed, KeysAt
<1>3. QED
  BY <1>1, <1>2 DEF Promise!Mint, Recorded, Claimed

\* What a step does that the promise sees.
LEMMA SeenSteps ==
  ASSUME Types, RecordInv, [Next]_vars
  PROVE  \/ UNCHANGED <<proofs, minted>>
         \/ \E r \in Requests : SaveProof(r)
         \/ RecordSuccess
         \/ MintExecuted
         \/ \E key \in Keys : LandLate(key)
         \/ \E key \in Recorded, status \in {"accepted", "deferred"} :
              proofs' = StatusSet(key, status) /\ UNCHANGED minted
<1>1. ASSUME NEW r \in Requests, MarkAccepted(r)
      PROVE  /\ proofs' = StatusSet(request[r].key, "accepted")
             /\ request[r].key \in Recorded /\ UNCHANGED minted
  BY <1>1 DEF MarkAccepted, At, RecordInv, SavedBy, onChain
<1>2. ASSUME Record, ~RecordSuccess
      PROVE  /\ UNCHANGED minted
             /\ UNCHANGED proofs \/ \E status \in {"accepted", "deferred"} :
                                      proofs' = StatusSet(worker.key, status)
             /\ worker.key \in Recorded
  BY <1>2 DEF Record, Retry, GiveUp, RecordFails, RecordInv, onChain
<1>3. ASSUME Drain
      PROVE  /\ UNCHANGED minted
             /\ \/ UNCHANGED proofs
                \/ \E key \in Recorded : proofs' = StatusSet(key, "accepted")
  <2>1. PICK i \in drain.rows : MarkExpired(i) \/ RestoreRow(i)
    BY <1>3 DEF Drain
  <2>2. i \in DOMAIN proofs
    BY DEF Types, RowTypes
  <2>3. proofs[i].key \in Recorded
    BY <2>2 DEF Recorded, KeysAt
  <2>4. QED
    BY <1>3, <2>1, <2>3 DEF Drain, MarkExpired, RestoreRow, onChain
<1>4. \/ UNCHANGED <<proofs, minted>>
      \/ \E r \in Requests : SaveProof(r) \/ MarkAccepted(r)
      \/ RecordSuccess \/ (Record /\ ~RecordSuccess)
      \/ MintExecuted \/ Drain
      \/ \E key \in Keys : LandLate(key)
  BY DEF Next, vars, onChain, Handler, FetchProducer, CheckNonce, Refuse, Accumulate,
         SaveEnergy, ReplyUnqueued, EnqueueMint, HandlerFails,
         Take, Mint, MintTimesOut, MintFailed, Record, TimerFires, CrashAndRestart
<1>5. QED
  BY <1>1, <1>2, <1>3, <1>4

LEMMA ServerStepIsPromised ==
  ASSUME Types, RecordInv, ChainInv, NoncesBelow, [Next]_vars
  PROVE  [Promise!PromiseNext]_(Promise!promiseVars)
<1>1. CASE UNCHANGED <<proofs, minted>>
  BY <1>1 DEF Promise!promiseVars, KeysAt
<1>2. ASSUME NEW r \in Requests, SaveProof(r)
      PROVE  Promise!PromiseNext
  BY <1>2, SaveStores DEF Promise!PromiseNext
<1>3. CASE RecordSuccess
  BY <1>3, SuccessClaims DEF Promise!PromiseNext
<1>4. CASE MintExecuted
  <2>1. /\ worker.key \in Keys /\ worker.key \in Recorded
        /\ worker.key[2] > chain[worker.key[1]]
        /\ minted' = minted \cup {worker.key} /\ UNCHANGED proofs
    BY <1>4 DEF MintExecuted, CanMint, Types, WorkTypes, RecordInv
  <2>2. Promise!Mint(worker.key)
    BY <2>1, ChainMints
  <2>3. QED
    BY <2>1, <2>2 DEF Promise!PromiseNext
<1>5. ASSUME NEW key \in Keys, LandLate(key)
      PROVE  Promise!PromiseNext
  <2>1. /\ key \in Recorded /\ key[2] > chain[key[1]]
        /\ minted' = minted \cup {key} /\ UNCHANGED proofs
    BY <1>5 DEF LandLate, RecordInv
  <2>2. Promise!Mint(key)
    BY <2>1, ChainMints
  <2>3. QED
    BY <2>2 DEF Promise!PromiseNext
<1>6. ASSUME NEW key \in Recorded, NEW status \in {"accepted", "deferred"},
             proofs' = StatusSet(key, status), UNCHANGED minted
      PROVE  Promise!PromiseNext
  BY <1>6, OtherStatusWithdraws DEF Promise!PromiseNext
<1>7. QED
  BY <1>1, <1>2, <1>3, <1>4, <1>5, <1>6, SeenSteps

\* The server keeps what it promises to the owner of a device, for any devices, handlers,
\* queue, attempts, late transactions, database errors and crashes: a stored proof stays
\* stored, mints are of stored proofs in the order of their nonces, and no row says minted
\* of anything else.
THEOREM ServerRefinesPromise == Spec => ImplementsMintingPromise
<1>1. Init => Promise!PromiseInit
  BY DEF Init, Promise!PromiseInit, KeysAt
<1>2. Types /\ RecordInv /\ ChainInv /\ NoncesBelow /\ [Next]_vars
        => [Promise!PromiseNext]_(Promise!promiseVars)
  BY ServerStepIsPromised
<1>3. QED
  BY <1>1, <1>2, TypesInvariant, RecordInvariant, ChainInvariant, NoncesBelowInvariant, PTL
     DEF Spec, ImplementsMintingPromise, Promise!PromiseSpec
=============================================================================
