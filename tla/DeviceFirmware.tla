--------------------------- MODULE DeviceFirmware ---------------------------
(***************************************************************************)
(* The reports of a board (firmware/.../esp32_proof_sender_v3.ino, built   *)
(* with the PZEM meter, without aggregation): the delta of the meter since *)
(* the last acknowledged report, the nonce and the baseline in NVS, power  *)
(* loss at any point, and a network that loses requests and answers.  The  *)
(* server is /api/v1/proof/submit of server.js, reduced to the nonce and   *)
(* the energy it holds for the device; OracleServer has all of it.         *)
(*                                                                         *)
(* The meter has its own supply and counts on while the board is off.  A   *)
(* report that is skipped (clock not set, meter silent, nothing new)       *)
(* changes nothing and is no step.                                         *)
(***************************************************************************)
EXTENDS Integers, FiniteSets

CONSTANTS
  NoBaseline, NoProof,
  RatedPowers,            \* of the manifest at a boot; 0: unknown
  ENRG_MIN_START_NONCE,
  NonceTargets,           \* arguments of SETNONCE
  ServerNonces,           \* nonce of the device at the server when the board is flashed
  InitialMeter,           \* Wh on the meter when the board is flashed
  MaxMeter, MaxMishaps    \* bounds

\* What a report says, and its request on the way.
Report == [nonce : Nat, energy : Nat \ {0}]

Request == [nonce : Nat, energy : Nat \ {0}, admitted : BOOLEAN, waited : BOOLEAN]

ASSUME FirmwareAssumption ==
  /\ NoBaseline \notin Nat /\ NoProof \notin Report
  /\ (RatedPowers \cup NonceTargets \cup ServerNonces) \subseteq Nat
  /\ {ENRG_MIN_START_NONCE, InitialMeter, MaxMeter, MaxMishaps} \subseteq Nat

VARIABLES
  meter,     \* the counter of the PZEM
  nvs,       \* nonce and pzem_wh, which survive a power loss
  ram,       \* g_energy_baseline_wh, g_energy_total_wh, g_rated_power
  pc,        \* of loop: off, idle, signing, awaiting
  proof,     \* the report being sent
  answer,    \* of the server: none, ok, refused
  inFlight,  \* reports sent and not yet handled; waited: the board still waits for the answer
  server,    \* energyStore of the device
  mishaps,   \* number of faults and interventions so far
  produced, commissioned, wasReset, lowered, used, acknowledged, unconfirmed, cut   \* history

board == <<nvs, ram, pc, proof>>
\* produced: Wh metered since the board was flashed, and before.  commissioned: the part of it
\* that was on the meter when the first baseline was taken.  used: nonces sent.
\* acknowledged: Wh of reports whose 200 reached the board.  unconfirmed: Wh of reports that
\* the server took and whose 200 never arrived.  cut: Wh above the rated power in
\* acknowledged reports.
history == <<produced, commissioned, wasReset, lowered, used, acknowledged, unconfirmed, cut>>
vars == <<meter, board, answer, inFlight, server, mishaps, history>>

Larger(a, b) == IF a >= b THEN a ELSE b

Stored == IF nvs.pzem_wh = NoBaseline THEN 0 ELSE nvs.pzem_wh

Mishap == mishaps < MaxMishaps /\ mishaps' = mishaps + 1

Init ==
  /\ meter = InitialMeter
  /\ nvs = [nonce |-> 0, pzem_wh |-> NoBaseline]
  /\ ram = [baseline |-> 0, total |-> 0, rated |-> 0]
  /\ pc = "off" /\ proof = NoProof
  /\ answer = "none" /\ inFlight = {}
  /\ server \in [nonce : ServerNonces, energy : {0}]
  /\ mishaps = 0
  /\ produced = InitialMeter /\ commissioned = 0
  /\ wasReset = FALSE /\ lowered = FALSE /\ used = {}
  /\ acknowledged = 0 /\ unconfirmed = 0 /\ cut = 0
-----------------------------------------------------------------------------
(* The meter, and power.                                                   *)

Produce ==
  /\ produced < MaxMeter
  /\ meter' = meter + 1 /\ produced' = produced + 1
  /\ UNCHANGED <<board, answer, inFlight, server, mishaps, commissioned, wasReset, lowered,
                 used, acknowledged, unconfirmed, cut>>

\* By hand, or rolling over.
ResetMeter ==
  /\ Mishap
  /\ meter' = 0 /\ wasReset' = TRUE
  /\ UNCHANGED <<board, answer, inFlight, server, produced, commissioned, lowered, used,
                 acknowledged, unconfirmed, cut>>

NobodyWaits == {[m EXCEPT !.waited = FALSE] : m \in inFlight}

\* An answer that is there and not yet read is lost with the board.
LostWith(reply) == IF reply = "ok" THEN proof.energy ELSE 0

PowerLoss ==
  /\ Mishap
  /\ pc # "off" /\ pc' = "off"
  /\ ram' = [baseline |-> 0, total |-> 0, rated |-> 0]
  /\ proof' = NoProof /\ answer' = "none"
  /\ inFlight' = NobodyWaits
  /\ unconfirmed' = unconfirmed + LostWith(answer)
  /\ UNCHANGED <<meter, nvs, server, produced, commissioned, wasReset, lowered, used,
                 acknowledged, cut>>

\* setup: nonce_init_floor, energy_init and the manifest, which may not be there.
Boot(meterAnswers, rated) ==
  LET first == nvs.pzem_wh = NoBaseline
  IN  /\ pc = "off" /\ pc' = "idle"
      /\ IF meterAnswers THEN UNCHANGED mishaps ELSE Mishap
      /\ nvs' = [nonce   |-> Larger(nvs.nonce, ENRG_MIN_START_NONCE),
                 pzem_wh |-> IF first /\ meterAnswers THEN meter ELSE nvs.pzem_wh]
      /\ ram' = [baseline |-> IF first /\ meterAnswers THEN meter ELSE Stored,
                 total    |-> IF meterAnswers THEN meter ELSE 0,
                 rated    |-> rated]
      /\ commissioned' = IF first /\ meterAnswers THEN produced ELSE commissioned
      /\ UNCHANGED <<meter, proof, answer, inFlight, server, produced, wasReset, lowered, used,
                     acknowledged, unconfirmed, cut>>

SetNonce(target) ==
  /\ pc = "idle" /\ Mishap
  /\ target # 0
  /\ nvs' = [nvs EXCEPT !.nonce = target]
  /\ lowered' = (lowered \/ target < nvs.nonce)
  /\ UNCHANGED <<meter, ram, pc, proof, answer, inFlight, server, produced, commissioned,
                 wasReset, used, acknowledged, unconfirmed, cut>>
-----------------------------------------------------------------------------
(* send_proof.                                                             *)

\* A counter that went backwards was reset: all of it is new.
BaselineFor(total) == IF total < ram.baseline THEN 0 ELSE ram.baseline

\* Defect: a report above the rated power is dropped.
DroppedAbove(energy) == IF ram.rated > 0 /\ energy > ram.rated THEN 0 ELSE energy

Clamped(energy) == IF ram.rated > 0 /\ energy > ram.rated THEN ram.rated ELSE energy

\* Defect: the nonce is stored when the report has been acknowledged.
NonceInRam(nonce) == nvs

NonceStored(nonce) == [nvs EXCEPT !.nonce = nonce]

\* The meter is read and, if it counted anything, the next nonce is stored.
PrepareReport ==
  LET baseline == BaselineFor(meter)
      energy   == Clamped(meter - baseline)
  IN  /\ pc = "idle"
      /\ ram' = [ram EXCEPT !.baseline = baseline, !.total = meter]
      /\ \/ energy = 0 /\ UNCHANGED <<nvs, pc, proof>>
         \/ /\ energy # 0
            /\ nvs' = NonceStored(nvs.nonce + 1)
            /\ proof' = [nonce |-> nvs.nonce + 1, energy |-> energy]
            /\ pc' = "signing"
      /\ UNCHANGED <<meter, answer, inFlight, server, mishaps, history>>

SendReport ==
  /\ pc = "signing" /\ pc' = "awaiting"
  /\ inFlight' = inFlight \cup
       {[nonce |-> proof.nonce, energy |-> proof.energy, admitted |-> FALSE, waited |-> TRUE]}
  /\ used' = used \cup {proof.nonce}
  /\ UNCHANGED <<meter, nvs, ram, proof, answer, server, mishaps, produced, commissioned,
                 wasReset, lowered, acknowledged, unconfirmed, cut>>

\* No Wi-Fi: the nonce is burned, the energy stays unreported.
GiveUp ==
  /\ pc = "signing" /\ pc' = "idle"
  /\ Mishap
  /\ proof' = NoProof
  /\ UNCHANGED <<meter, nvs, ram, answer, inFlight, server, history>>

\* Defect: the baseline moves in memory only.
BaselineInRam ==
  /\ ram' = [ram EXCEPT !.baseline = ram.total]
  /\ UNCHANGED nvs

CommitBaseline ==
  /\ ram' = [ram EXCEPT !.baseline = ram.total]
  /\ nvs' = [nvs EXCEPT !.pzem_wh = ram.total]

\* The baseline moves to the counter that was read, also when less was reported.
ReceiveOk ==
  /\ pc = "awaiting" /\ answer = "ok"
  /\ CommitBaseline
  /\ pc' = "idle" /\ answer' = "none" /\ proof' = NoProof
  /\ acknowledged' = acknowledged + proof.energy
  /\ cut' = cut + (ram.total - ram.baseline) - proof.energy
  /\ UNCHANGED <<meter, inFlight, server, mishaps, produced, commissioned, wasReset, lowered,
                 used, unconfirmed>>

ReceiveRefusal ==
  /\ pc = "awaiting" /\ answer = "refused"
  /\ pc' = "idle" /\ answer' = "none" /\ proof' = NoProof
  /\ UNCHANGED <<meter, nvs, ram, inFlight, server, mishaps, history>>

\* The read window closes on an answer that is late, or never comes.
Timeout ==
  /\ pc = "awaiting" /\ answer = "none"
  /\ IF \E m \in inFlight : m.waited THEN Mishap ELSE UNCHANGED mishaps
  /\ pc' = "idle" /\ proof' = NoProof
  /\ inFlight' = NobodyWaits
  /\ UNCHANGED <<meter, nvs, ram, answer, server, history>>
-----------------------------------------------------------------------------
(* The network and the server.  The nonce is compared before the signature *)
(* is verified and stored after it.                                        *)

LoseRequest(m) ==
  /\ ~m.admitted /\ Mishap
  /\ inFlight' = inFlight \ {m}
  /\ UNCHANGED <<meter, board, answer, server, history>>

LoseAnswer ==
  /\ answer # "none" /\ Mishap
  /\ answer' = "none"
  /\ unconfirmed' = unconfirmed + LostWith(answer)
  /\ UNCHANGED <<meter, board, inFlight, server, produced, commissioned, wasReset, lowered,
                 used, acknowledged, cut>>

Admit(m) ==
  /\ ~m.admitted
  /\ \/ /\ m.nonce > server.nonce
        /\ inFlight' = (inFlight \ {m}) \cup {[m EXCEPT !.admitted = TRUE]}
        /\ UNCHANGED answer
     \/ /\ m.nonce <= server.nonce
        /\ inFlight' = inFlight \ {m}
        /\ answer' = IF m.waited THEN "refused" ELSE answer
  /\ UNCHANGED <<meter, board, server, mishaps, history>>

Accumulate(m) ==
  /\ m.admitted
  /\ server' = [nonce |-> m.nonce, energy |-> server.energy + m.energy]
  /\ inFlight' = inFlight \ {m}
  /\ answer' = IF m.waited THEN "ok" ELSE answer
  /\ unconfirmed' = IF m.waited THEN unconfirmed ELSE unconfirmed + m.energy
  /\ UNCHANGED <<meter, board, mishaps, produced, commissioned, wasReset, lowered, used,
                 acknowledged, cut>>

Loop == PrepareReport \/ SendReport \/ ReceiveOk \/ ReceiveRefusal \/ Timeout

Handle == \E m \in inFlight : Admit(m) \/ Accumulate(m)

Next ==
  \/ Produce \/ ResetMeter \/ PowerLoss
  \/ \E meterAnswers \in BOOLEAN, rated \in RatedPowers : Boot(meterAnswers, rated)
  \/ \E target \in NonceTargets : SetNonce(target)
  \/ Loop \/ GiveUp
  \/ LoseAnswer \/ \E m \in inFlight : LoseRequest(m)
  \/ Handle

Spec == Init /\ [][Next]_vars

\* The board is powered, its loop goes round, and the server handles what reaches it.
FairSpec ==
  /\ Spec
  /\ WF_vars(\E rated \in RatedPowers : Boot(TRUE, rated))
  /\ WF_vars(Loop)
  /\ WF_vars(Handle)
-----------------------------------------------------------------------------
(* Properties.                                                             *)

TypeOK ==
  /\ meter \in Nat
  /\ nvs \in [nonce : Nat, pzem_wh : Nat \cup {NoBaseline}]
  /\ ram \in [baseline : Nat, total : Nat, rated : Nat]
  /\ pc \in {"off", "idle", "signing", "awaiting"}
  /\ proof \in Report \cup {NoProof}
  /\ pc \in {"signing", "awaiting"} => proof # NoProof
  /\ answer \in {"none", "ok", "refused"} /\ (answer # "none" => pc = "awaiting")
  /\ inFlight \subseteq Request
  /\ server \in [nonce : Nat, energy : Nat]
  /\ mishaps \in Nat
  /\ {produced, commissioned, acknowledged, unconfirmed, cut} \subseteq Nat
  /\ wasReset \in BOOLEAN /\ lowered \in BOOLEAN /\ used \subseteq Nat

\* esp32_proof_sender_v3.ino:853: whatever is lost, late or cut off between the reading and
\* the baseline, the server holds no more than was metered since the board was commissioned
\* and what it took without the board hearing of it; and unless the meter was reset, what
\* the server does not hold is still to be reported or was above the rated power.
EnergyIsAccounted ==
  /\ server.energy <= produced - commissioned + unconfirmed
  /\ ~wasReset /\ nvs.pzem_wh # NoBaseline =>
       server.energy + cut + (meter - nvs.pzem_wh) >= produced - commissioned

\* esp32_proof_sender_v3.ino:782: power loss at any point, refusals and time-outs never make
\* the board send two reports under one nonce, unless somebody lowers the counter.
NonceIsUsedOnce ==
  ~lowered => /\ \A n \in used : n <= nvs.nonce
              /\ pc = "signing" => proof.nonce \notin used

\* Once nothing more goes wrong, everything on the meter is acknowledged, also by a server
\* that begins with a higher nonce than the board: each refused report burns a nonce.
EnergyIsDelivered == <>[](pc = "idle" /\ ram.baseline = meter)
=============================================================================
