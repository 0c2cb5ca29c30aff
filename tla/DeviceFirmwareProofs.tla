------------------------ MODULE DeviceFirmwareProofs ------------------------
(***************************************************************************)
(* Proofs about DeviceFirmware, for any rated powers, nonces and bounds:   *)
(* whatever the board, the meter and the network do, and however often.    *)
(*                                                                         *)
(* The energy is accounted for by what a baseline still lets the board     *)
(* report, Unreported: three baselines may become the one in force (that   *)
(* in NVS, that in memory, and the counter in the report being sent), and  *)
(* none of them may leave more to report than was metered and not          *)
(* acknowledged.                                                           *)
(***************************************************************************)
EXTENDS DeviceFirmware, TLAPS

Busy == pc \in {"signing", "awaiting"}

\* What the next report says under the baseline b, before it is clamped.
Unreported(b) == IF meter < b THEN meter ELSE meter - b

\* At most one report is waited for, that of the board, and only until its answer is there.
OneWaits ==
  /\ \A m \in inFlight : m.waited =>
       pc = "awaiting" /\ answer = "none" /\ m.energy = proof.energy
  /\ \A m, n \in inFlight : m.waited /\ n.waited => m = n

\* The server has what was acknowledged, what it took unheard, and what it is confirming.
ServerBalance == server.energy = acknowledged + unconfirmed + LostWith(answer)

Uncommissioned ==
  nvs.pzem_wh = NoBaseline => acknowledged = 0 /\ commissioned = 0 /\ cut = 0

\* Nothing is reported that was not metered.
NoneInvented ==
  /\ acknowledged + Unreported(Stored) <= produced - commissioned
  /\ pc # "off" => acknowledged + Unreported(ram.baseline) <= produced - commissioned
  /\ Busy => acknowledged + proof.energy + Unreported(ram.total) <= produced - commissioned

\* While the meter was not reset, nothing that was metered is forgotten.
NoneForgotten ==
  ~wasReset =>
    /\ acknowledged + cut + (meter - Stored) = produced - commissioned
    /\ Stored <= meter
    /\ pc # "off" => ram.baseline = Stored
    /\ Busy => ram.total <= meter

ReportFits == Busy => proof.energy <= ram.total - ram.baseline

\* The nonce of the report being signed was never sent.
NoncesRise ==
  ~lowered => /\ \A n \in used : n <= nvs.nonce
              /\ pc = "signing" => proof.nonce = nvs.nonce /\ proof.nonce \notin used

Energy == Uncommissioned /\ NoneInvented /\ NoneForgotten /\ ReportFits

Inv == TypeOK /\ OneWaits /\ ServerBalance /\ Energy /\ NoncesRise
-----------------------------------------------------------------------------
LEMMA NothingReportedYet == Init => Inv
<1> SUFFICES ASSUME Init PROVE Inv
  OBVIOUS
<1> USE FirmwareAssumption DEF Init
<1>1. TypeOK
  <2>1. server \in [nonce : Nat, energy : Nat]
    OBVIOUS
  <2> QED
    BY <2>1 DEF TypeOK
<1>2. OneWaits /\ NoncesRise
  BY DEF OneWaits, NoncesRise
<1>3. ServerBalance
  BY DEF ServerBalance, LostWith
<1>4. Energy
  BY DEF Energy, Uncommissioned, NoneInvented, NoneForgotten, ReportFits, Busy, Stored,
         Unreported
<1> QED
  BY <1>1, <1>2, <1>3, <1>4 DEF Inv
-----------------------------------------------------------------------------
(* What the invariant says of the state, in the form the steps use it.     *)

LEMMA Typed ==
  ASSUME TypeOK
  PROVE  /\ meter \in Nat /\ produced \in Nat /\ commissioned \in Nat
         /\ acknowledged \in Nat /\ unconfirmed \in Nat /\ cut \in Nat
         /\ ram.baseline \in Nat /\ ram.total \in Nat /\ ram.rated \in Nat
         /\ Stored \in Nat
         /\ Busy => proof \in Report /\ proof.energy \in Nat
         /\ answer # "none" => pc = "awaiting"
         /\ LostWith(answer) \in Nat
         /\ server.energy \in Nat
<1>1. /\ meter \in Nat /\ produced \in Nat /\ commissioned \in Nat
      /\ acknowledged \in Nat /\ unconfirmed \in Nat /\ cut \in Nat
      /\ ram.baseline \in Nat /\ ram.total \in Nat /\ ram.rated \in Nat
      /\ server.energy \in Nat
  BY DEF TypeOK
<1>2. Stored \in Nat
  BY DEF TypeOK, Stored
<1>3. Busy => proof \in Report
  BY DEF TypeOK, Busy, Report
<1>4. Busy => proof.energy \in Nat
  BY <1>3 DEF Report
<1>5. answer # "none" => pc = "awaiting"
  BY DEF TypeOK
<1>6. LostWith(answer) \in Nat
  BY <1>4, <1>5 DEF LostWith, Busy
<1> QED
  BY <1>1, <1>2, <1>3, <1>4, <1>5, <1>6
-----------------------------------------------------------------------------
(* The types.                                                              *)

LEMMA PreparedReport ==
  ASSUME TypeOK, PrepareReport
  PROVE  /\ BaselineFor(meter) \in Nat /\ BaselineFor(meter) <= meter
         /\ Clamped(meter - BaselineFor(meter)) \in Nat
         /\ Clamped(meter - BaselineFor(meter)) <= meter - BaselineFor(meter)
<1>1. BaselineFor(meter) \in Nat /\ BaselineFor(meter) <= meter
  BY Typed DEF BaselineFor
<1>2. meter - BaselineFor(meter) \in Nat
  BY <1>1, Typed
<1> QED
  BY <1>1, <1>2, Typed DEF Clamped

LEMMA StillRequests == TypeOK => NobodyWaits \subseteq Request
<1> SUFFICES ASSUME TypeOK, NEW m \in inFlight PROVE [m EXCEPT !.waited = FALSE] \in Request
  BY DEF NobodyWaits
<1> QED
  BY DEF TypeOK, Request

LEMMA NextKeepsTypes ==
  ASSUME Inv, Next
  PROVE  TypeOK'
<1> USE DEF Inv, history, board
<1>1. CASE Produce
  BY <1>1 DEF Produce, TypeOK
<1>2. CASE ResetMeter
  BY <1>2 DEF ResetMeter, Mishap, TypeOK
<1>3. CASE PowerLoss
  <2>1. unconfirmed' \in Nat
    BY <1>3, Typed DEF PowerLoss
  <2>2. inFlight' \subseteq Request
    BY <1>3, StillRequests DEF PowerLoss
  <2> QED
    BY <1>3, <2>1, <2>2 DEF PowerLoss, Mishap, TypeOK
<1>4. ASSUME NEW meterAnswers \in BOOLEAN, NEW rated \in RatedPowers, Boot(meterAnswers, rated)
      PROVE  TypeOK'
  <2>1. rated \in Nat /\ Larger(nvs.nonce, ENRG_MIN_START_NONCE) \in Nat
    BY FirmwareAssumption DEF TypeOK, Larger
  <2>2. mishaps' \in Nat
    BY <1>4 DEF Boot, Mishap, TypeOK
  <2>3. nvs' \in [nonce : Nat, pzem_wh : Nat \cup {NoBaseline}]
    BY <1>4, <2>1 DEF Boot, TypeOK
  <2>4. ram' \in [baseline : Nat, total : Nat, rated : Nat]
    BY <1>4, <2>1, Typed DEF Boot
  <2>5. commissioned' \in Nat
    BY <1>4, Typed DEF Boot
  <2>6. pc' = "idle" /\ answer = "none"
    BY <1>4 DEF Boot, TypeOK
  <2> QED
    BY <1>4, <2>2, <2>3, <2>4, <2>5, <2>6 DEF Boot, TypeOK
<1>5. ASSUME NEW target \in NonceTargets, SetNonce(target) PROVE TypeOK'
  <2>1. target \in Nat
    BY FirmwareAssumption
  <2> QED
    BY <1>5, <2>1 DEF SetNonce, Mishap, TypeOK
<1>6. CASE PrepareReport
  <2>1. ram' \in [baseline : Nat, total : Nat, rated : Nat]
    BY <1>6, PreparedReport, Typed DEF PrepareReport, TypeOK
  <2>2. CASE UNCHANGED <<nvs, pc, proof>>
    BY <1>6, <2>1, <2>2 DEF PrepareReport, TypeOK
  <2>3. CASE ~UNCHANGED <<nvs, pc, proof>>
    <3>1. nvs.nonce + 1 \in Nat
      BY DEF TypeOK
    <3>2. nvs' \in [nonce : Nat, pzem_wh : Nat \cup {NoBaseline}]
      BY <1>6, <2>3, <3>1 DEF PrepareReport, NonceStored, TypeOK
    <3>3. proof' \in Report /\ pc' = "signing"
      BY <1>6, <2>3, <3>1, PreparedReport DEF PrepareReport, Report
    <3>4. answer = "none"
      BY <1>6 DEF PrepareReport, TypeOK
    <3>5. proof' # NoProof
      BY <3>3, FirmwareAssumption
    <3> QED
      BY <1>6, <2>1, <3>2, <3>3, <3>4, <3>5 DEF PrepareReport, TypeOK
  <2> QED
    BY <2>2, <2>3
<1>7. CASE SendReport
  <2>1. proof \in Report
    BY <1>7, Typed DEF SendReport, Busy
  <2>2. proof.nonce \in Nat /\ proof.energy \in Nat \ {0}
    BY <2>1 DEF Report
  <2>3. [nonce |-> proof.nonce, energy |-> proof.energy, admitted |-> FALSE, waited |-> TRUE]
          \in Request
    BY <2>2 DEF Request
  <2>4. pc' = "awaiting" /\ UNCHANGED <<proof, answer>>
    BY <1>7 DEF SendReport
  <2>5. proof' # NoProof /\ inFlight' \subseteq Request /\ used' \subseteq Nat
    BY <1>7, <2>2, <2>3 DEF SendReport, TypeOK
  <2> QED
    BY <1>7, <2>4, <2>5 DEF SendReport, TypeOK
<1>8. CASE ReceiveOk
  <2>1. Busy
    BY <1>8 DEF ReceiveOk, Busy
  <2>2. cut' \in Nat /\ acknowledged' \in Nat
    <3>1. cut' = cut + ((ram.total - ram.baseline) - proof.energy)
      BY <1>8, <2>1, Typed DEF ReceiveOk
    <3>2. (ram.total - ram.baseline) - proof.energy \in Nat
      BY <2>1, Typed DEF Energy, ReportFits
    <3> QED
      BY <1>8, <2>1, <3>1, <3>2, Typed DEF ReceiveOk
  <2>3. nvs' \in [nonce : Nat, pzem_wh : Nat \cup {NoBaseline}]
    BY <1>8, Typed DEF ReceiveOk, CommitBaseline, TypeOK
  <2>4. ram' \in [baseline : Nat, total : Nat, rated : Nat]
    BY <1>8, Typed DEF ReceiveOk, CommitBaseline, TypeOK
  <2> QED
    BY <1>8, <2>2, <2>3, <2>4 DEF ReceiveOk, TypeOK
<1>9. CASE ReceiveRefusal
  BY <1>9 DEF ReceiveRefusal, TypeOK
<1>10. CASE Timeout
  <2>1. inFlight' \subseteq Request
    BY <1>10, StillRequests DEF Timeout
  <2>2. mishaps' \in Nat
    BY <1>10 DEF Timeout, Mishap, TypeOK
  <2> QED
    BY <1>10, <2>1, <2>2 DEF Timeout, TypeOK
<1>11. CASE GiveUp
  BY <1>11 DEF GiveUp, Mishap, TypeOK
<1>12. CASE LoseAnswer
  <2>1. unconfirmed' \in Nat
    BY <1>12, Typed DEF LoseAnswer
  <2> QED
    BY <1>12, <2>1 DEF LoseAnswer, Mishap, TypeOK
<1>13. ASSUME NEW m \in inFlight, LoseRequest(m) PROVE TypeOK'
  BY <1>13 DEF LoseRequest, Mishap, TypeOK
<1>14. ASSUME NEW m \in inFlight, Admit(m) PROVE TypeOK'
  <2>1. [m EXCEPT !.admitted = TRUE] \in Request
    BY DEF TypeOK, Request
  <2>2. inFlight' \subseteq inFlight \cup {[m EXCEPT !.admitted = TRUE]}
    BY <1>14 DEF Admit
  <2>4. answer' \in {"none", "ok", "refused"} /\ (answer' # "none" => pc = "awaiting")
    <3>1. CASE m.waited
      BY <1>14, <3>1 DEF Admit, TypeOK, OneWaits
    <3>2. CASE ~m.waited
      BY <1>14, <3>2 DEF Admit, TypeOK
    <3> QED
      BY <3>1, <3>2
  <2> QED
    BY <1>14, <2>1, <2>2, <2>4 DEF Admit, TypeOK
<1>15. ASSUME NEW m \in inFlight, Accumulate(m) PROVE TypeOK'
  <2>1. m.nonce \in Nat /\ m.energy \in Nat
    BY DEF TypeOK, Request
  <2>2. answer' \in {"none", "ok", "refused"} /\ (answer' # "none" => pc = "awaiting")
    BY <1>15 DEF Accumulate, TypeOK, OneWaits
  <2>3. unconfirmed' \in Nat /\ server' \in [nonce : Nat, energy : Nat]
    BY <1>15, <2>1, Typed DEF Accumulate
  <2> QED
    BY <1>15, <2>2, <2>3 DEF Accumulate, TypeOK
<1> QED
  BY <1>1, <1>2, <1>3, <1>4, <1>5, <1>6, <1>7, <1>8, <1>9, <1>10, <1>11, <1>12, <1>13, <1>14,
     <1>15 DEF Next, Loop, Handle
-----------------------------------------------------------------------------
(* Who waits for which answer.                                             *)

LEMMA NobodyIsWaitedFor == TypeOK => \A m \in NobodyWaits : ~m.waited
<1> SUFFICES ASSUME TypeOK, NEW m \in inFlight PROVE ~[m EXCEPT !.waited = FALSE].waited
  BY DEF NobodyWaits
<1> QED
  BY DEF TypeOK, Request

LEMMA AdmitRefuses ==
  ASSUME TypeOK, NEW m \in inFlight, Admit(m), m.nonce <= server.nonce
  PROVE  /\ inFlight' = inFlight \ {m} /\ UNCHANGED <<pc, proof>>
         /\ ~m.waited => UNCHANGED answer
<1>1. ~(m.nonce > server.nonce)
  BY DEF TypeOK, Request
<1> QED
  BY <1>1 DEF Admit, board

LEMMA NextKeepsOneWaits ==
  ASSUME Inv, Next
  PROVE  OneWaits'
<1> USE DEF Inv, board
<1>1. ASSUME UNCHANGED <<inFlight, pc, answer, proof>> PROVE OneWaits'
  BY <1>1 DEF OneWaits
<1>2. ASSUME \A m \in inFlight' : ~m.waited PROVE OneWaits'
  BY <1>2 DEF OneWaits
<1>3. pc # "awaiting" \/ answer # "none" => \A m \in inFlight : ~m.waited
  BY DEF OneWaits
<1>4. CASE Produce \/ ResetMeter \/ \E target \in NonceTargets : SetNonce(target)
  BY <1>1, <1>4 DEF Produce, ResetMeter, SetNonce
<1>5. CASE PowerLoss \/ Timeout
  BY <1>2, <1>5, NobodyIsWaitedFor DEF PowerLoss, Timeout
<1>6. CASE \E meterAnswers \in BOOLEAN, rated \in RatedPowers : Boot(meterAnswers, rated)
  BY <1>2, <1>3, <1>6 DEF Boot
<1>7. CASE PrepareReport \/ GiveUp
  BY <1>2, <1>3, <1>7 DEF PrepareReport, GiveUp
<1>8. CASE ReceiveOk \/ ReceiveRefusal \/ LoseAnswer
  BY <1>2, <1>3, <1>8 DEF ReceiveOk, ReceiveRefusal, LoseAnswer
<1>9. CASE SendReport
  <2> DEFINE request == [nonce |-> proof.nonce, energy |-> proof.energy,
                         admitted |-> FALSE, waited |-> TRUE]
  <2>1. inFlight' = inFlight \cup {request} /\ pc' = "awaiting" /\ UNCHANGED <<answer, proof>>
    BY <1>9 DEF SendReport
  <2>2. (\A m \in inFlight : ~m.waited) /\ answer = "none"
    BY <1>3, <1>9 DEF SendReport, TypeOK
  <2>3. request.energy = proof.energy
    OBVIOUS
  <2> HIDE DEF request
  <2> QED
    BY <2>1, <2>2, <2>3 DEF OneWaits
<1>10. ASSUME NEW m \in inFlight, LoseRequest(m) PROVE OneWaits'
  BY <1>10 DEF LoseRequest, OneWaits
<1>11. ASSUME NEW m \in inFlight, inFlight' = inFlight \ {m}, UNCHANGED <<pc, proof>>,
              ~m.waited => UNCHANGED answer
       PROVE  OneWaits'
  <2>1. CASE m.waited
    BY <1>2, <1>11, <2>1 DEF OneWaits
  <2>2. CASE ~m.waited
    BY <1>11, <2>2 DEF OneWaits
  <2> QED
    BY <2>1, <2>2
<1>12. ASSUME NEW m \in inFlight, Admit(m) PROVE OneWaits'
  <2>1. CASE m.nonce <= server.nonce
    <3>1. inFlight' = inFlight \ {m} /\ UNCHANGED <<pc, proof>>
      BY <1>12, <2>1, AdmitRefuses
    <3>2. ~m.waited => UNCHANGED answer
      BY <1>12, <2>1, AdmitRefuses
    <3> QED
      BY <1>11, <3>1, <3>2
  <2>2. CASE ~(m.nonce <= server.nonce)
    <3> DEFINE q == [m EXCEPT !.admitted = TRUE]
    <3>1. inFlight' = (inFlight \ {m}) \cup {q} /\ UNCHANGED <<answer, pc, proof>>
      BY <1>12, <2>2 DEF Admit
    <3>2. q.energy = m.energy /\ q.waited = m.waited
      BY DEF TypeOK, Request
    <3> HIDE DEF q
    <3> QED
      BY <3>1, <3>2 DEF OneWaits
  <2> QED
    BY <2>1, <2>2
<1>13. ASSUME NEW m \in inFlight, Accumulate(m) PROVE OneWaits'
  <2>1. inFlight' = inFlight \ {m} /\ UNCHANGED <<pc, proof>>
    BY <1>13 DEF Accumulate
  <2>2. ~m.waited => UNCHANGED answer
    BY <1>13 DEF Accumulate
  <2> QED
    BY <1>11, <2>1, <2>2
<1> QED
  BY <1>4, <1>5, <1>6, <1>7, <1>8, <1>9, <1>10, <1>12, <1>13 DEF Next, Loop, Handle

\* The server takes the energy in one step and confirms it in the same one: whoever waits
\* gets the answer, and what nobody waits for is unconfirmed at once.
LEMMA NextKeepsBalance ==
  ASSUME Inv, Next
  PROVE  ServerBalance'
<1> USE DEF Inv, history, board
<1>1. ASSUME UNCHANGED <<server, acknowledged, unconfirmed, answer, proof>>
      PROVE  ServerBalance'
  BY <1>1 DEF ServerBalance, LostWith
<1>2. CASE Produce \/ ResetMeter \/ \E target \in NonceTargets : SetNonce(target)
  BY <1>1, <1>2 DEF Produce, ResetMeter, SetNonce
<1>3. CASE \E meterAnswers \in BOOLEAN, rated \in RatedPowers : Boot(meterAnswers, rated)
  BY <1>1, <1>3 DEF Boot
<1>4. CASE SendReport \/ \E m \in inFlight : LoseRequest(m)
  BY <1>1, <1>4 DEF SendReport, LoseRequest
<1>5. ASSUME server' = server, acknowledged' = acknowledged, LostWith(answer) = 0,
             unconfirmed' = unconfirmed, answer' # "ok"
      PROVE  ServerBalance'
  <2>1. LostWith(answer)' = 0
    BY <1>5 DEF LostWith
  <2> QED
    BY <1>5, <2>1 DEF ServerBalance
<1>6. CASE PrepareReport \/ GiveUp \/ Timeout \/ ReceiveRefusal
  <2>1. answer # "ok" /\ answer' # "ok"
    BY <1>6 DEF PrepareReport, GiveUp, Timeout, ReceiveRefusal, TypeOK
  <2>2. LostWith(answer) = 0
    BY <2>1 DEF LostWith
  <2>3. UNCHANGED <<server, acknowledged, unconfirmed>>
    BY <1>6 DEF PrepareReport, GiveUp, Timeout, ReceiveRefusal
  <2> QED
    BY <1>5, <2>1, <2>2, <2>3
<1>7. CASE PowerLoss \/ LoseAnswer
  <2>1. unconfirmed' = unconfirmed + LostWith(answer) /\ answer' = "none"
          /\ UNCHANGED <<server, acknowledged>>
    BY <1>7 DEF PowerLoss, LoseAnswer
  <2>2. LostWith(answer)' = 0
    BY <2>1 DEF LostWith
  <2> QED
    BY <2>1, <2>2, Typed DEF ServerBalance
<1>8. CASE ReceiveOk
  <2>1. acknowledged' = acknowledged + proof.energy /\ answer = "ok" /\ answer' = "none"
          /\ UNCHANGED <<server, unconfirmed>>
    BY <1>8 DEF ReceiveOk
  <2>2. LostWith(answer) = proof.energy /\ LostWith(answer)' = 0
    BY <2>1 DEF LostWith
  <2> QED
    BY <2>1, <2>2, Typed DEF ServerBalance
<1>9. ASSUME NEW m \in inFlight, Admit(m) PROVE ServerBalance'
  <2>1. CASE UNCHANGED answer
    BY <1>1, <1>9, <2>1 DEF Admit
  <2>2. CASE answer' # answer
    <3>1. m.waited /\ answer' = "refused"
      BY <1>9, <2>2 DEF Admit
    <3>2. LostWith(answer) = 0
      BY <3>1 DEF OneWaits, LostWith
    <3> QED
      BY <1>5, <1>9, <3>1, <3>2 DEF Admit
  <2> QED
    BY <2>1, <2>2
<1>10. ASSUME NEW m \in inFlight, Accumulate(m) PROVE ServerBalance'
  <2>1. m.energy \in Nat
    BY DEF TypeOK, Request
  <2>2. server'.energy = server.energy + m.energy /\ UNCHANGED <<acknowledged, proof>>
    BY <1>10 DEF Accumulate
  <2>3. CASE m.waited
    <3>1. LostWith(answer) = 0 /\ m.energy = proof.energy
      BY <2>3 DEF OneWaits, LostWith
    <3>2. answer' = "ok" /\ unconfirmed' = unconfirmed
      BY <1>10, <2>3 DEF Accumulate
    <3>3. LostWith(answer)' = m.energy
      BY <2>2, <3>1, <3>2 DEF LostWith
    <3> QED
      BY <2>1, <2>2, <3>1, <3>2, <3>3, Typed DEF ServerBalance
  <2>4. CASE ~m.waited
    <3>1. answer' = answer /\ unconfirmed' = unconfirmed + m.energy
      BY <1>10, <2>4 DEF Accumulate
    <3>2. LostWith(answer)' = LostWith(answer)
      BY <2>2, <3>1 DEF LostWith
    <3> QED
      BY <2>1, <2>2, <3>1, <3>2, Typed DEF ServerBalance
  <2> QED
    BY <2>3, <2>4
<1> QED
  BY <1>2, <1>3, <1>4, <1>6, <1>7, <1>8, <1>9, <1>10 DEF Next, Loop, Handle
-----------------------------------------------------------------------------
(* The energy: every step that touches the meter, a baseline or a report.  *)

LEMMA UnreportedIsNatural ==
  ASSUME meter \in Nat, NEW b \in Nat
  PROVE  Unreported(b) \in Nat
BY DEF Unreported

LEMMA NothingMoves ==
  ASSUME Energy, UNCHANGED <<meter, nvs.pzem_wh, ram, pc, proof, produced, commissioned,
                             wasReset, acknowledged, cut>>
  PROVE  Energy'
BY DEF Energy, Uncommissioned, NoneInvented, NoneForgotten, ReportFits, Busy, Stored, Unreported

\* A report that is over, or a board that is off, leaves the baselines where they were.
LEMMA ReportIsOver ==
  ASSUME Energy, pc' \in {"off", "idle"}, pc' = "idle" => pc # "off" /\ ram' = ram,
         UNCHANGED <<meter, nvs.pzem_wh, produced, commissioned, wasReset, acknowledged, cut>>
  PROVE  Energy'
<1>1. ~Busy'
  BY DEF Busy
<1>2. Stored' = Stored
  BY DEF Stored
<1>3. Uncommissioned' /\ ReportFits'
  BY <1>1 DEF Energy, Uncommissioned, ReportFits
<1>4. NoneInvented'
  BY <1>1, <1>2 DEF Energy, NoneInvented, Unreported
<1>5. NoneForgotten'
  BY <1>1, <1>2 DEF Energy, NoneForgotten
<1> QED
  BY <1>3, <1>4, <1>5 DEF Energy

\* A counter that goes on, or begins again, adds no more to a report than it counted.
LEMMA MeterKeepsEnergy ==
  ASSUME Inv, Produce \/ ResetMeter
  PROVE  Energy'
<1> USE DEF Inv
<1>1. UNCHANGED <<nvs, ram, pc, proof, commissioned, acknowledged, cut>>
  BY DEF Produce, ResetMeter, board
<1>2. Stored' = Stored /\ (Busy' <=> Busy)
  BY <1>1 DEF Stored, Busy
<1> DEFINE Then(b) == IF meter' < b THEN meter' ELSE meter' - b
<1>3. ASSUME NEW b \in Nat, NEW sofar \in Nat,
             sofar + Unreported(b) <= produced - commissioned
      PROVE  sofar + Then(b) <= produced' - commissioned
  <2>1. CASE Produce
    <3>1. meter' = meter + 1 /\ produced' = produced + 1
      BY <2>1 DEF Produce
    <3> QED
      BY <1>3, <3>1, Typed DEF Unreported
  <2>2. CASE ResetMeter
    <3>1. meter' = 0 /\ produced' = produced
      BY <2>2 DEF ResetMeter
    <3> QED
      BY <1>3, <3>1, Typed DEF Unreported
  <2> QED
    BY <2>1, <2>2
<1>4. /\ Unreported(Stored)' = Then(Stored)
      /\ Unreported(ram.baseline)' = Then(ram.baseline)
      /\ Unreported(ram.total)' = Then(ram.total)
  BY <1>1, <1>2 DEF Unreported
<1> HIDE DEF Then
<1>6. NoneInvented'
  <2>1. acknowledged + Then(Stored) <= produced' - commissioned
    BY <1>3, Typed DEF Energy, NoneInvented
  <2>2. pc # "off" => acknowledged + Then(ram.baseline) <= produced' - commissioned
    BY <1>3, Typed DEF Energy, NoneInvented
  <2>3. ASSUME Busy
        PROVE  acknowledged + proof.energy + Then(ram.total) <= produced' - commissioned
    <3>1. acknowledged + proof.energy \in Nat
      BY <2>3, Typed
    <3> QED
      BY <1>3, <2>3, <3>1, Typed DEF Energy, NoneInvented
  <2> QED
    BY <1>1, <1>2, <1>4, <2>1, <2>2, <2>3 DEF NoneInvented
<1>7. NoneForgotten'
  <2>1. CASE Produce
    <3>1. meter' = meter + 1 /\ produced' = produced + 1 /\ wasReset' = wasReset
      BY <2>1 DEF Produce
    <3> QED
      BY <1>1, <1>2, <3>1, Typed DEF Energy, NoneForgotten
  <2>2. CASE ResetMeter
    BY <2>2 DEF ResetMeter, NoneForgotten
  <2> QED
    BY <2>1, <2>2
<1> QED
  BY <1>1, <1>2, <1>6, <1>7 DEF Energy, Uncommissioned, ReportFits

\* The first baseline is the counter of the first boot that the meter answers; until then
\* the whole counter is to be reported.
LEMMA BootKeepsEnergy ==
  ASSUME Inv, NEW meterAnswers \in BOOLEAN, NEW rated \in RatedPowers,
         Boot(meterAnswers, rated)
  PROVE  Energy'
<1> USE DEF Inv
<1>1. /\ pc' = "idle" /\ ~Busy'
      /\ UNCHANGED <<meter, produced, wasReset, acknowledged, cut>>
  BY DEF Boot, Busy, history
<1>2. CASE nvs.pzem_wh = NoBaseline /\ meterAnswers
  <2>1. nvs'.pzem_wh = meter /\ ram'.baseline = meter /\ commissioned' = produced
    BY <1>2 DEF Boot
  <2>2. acknowledged = 0 /\ cut = 0 /\ Stored' = meter
    BY <1>2, <2>1, Typed, FirmwareAssumption DEF Energy, Uncommissioned, Stored
  <2>3. Unreported(meter)' = 0
    BY <1>1, Typed DEF Unreported
  <2>4. Uncommissioned'
    BY <2>1, Typed, FirmwareAssumption DEF Uncommissioned
  <2>5. NoneInvented'
    <3>1. Unreported(Stored)' = 0 /\ Unreported(ram.baseline)' = 0
      BY <1>1, <2>1, <2>2, Typed DEF Unreported
    <3> QED
      BY <1>1, <2>1, <2>2, <3>1, Typed DEF NoneInvented
  <2>6. NoneForgotten'
    BY <1>1, <2>1, <2>2, Typed DEF NoneForgotten
  <2> QED
    BY <1>1, <2>4, <2>5, <2>6 DEF Energy, ReportFits
<1>3. CASE ~(nvs.pzem_wh = NoBaseline /\ meterAnswers)
  <2>1. nvs'.pzem_wh = nvs.pzem_wh /\ ram'.baseline = Stored /\ commissioned' = commissioned
    BY <1>3 DEF Boot
  <2>2. Stored' = Stored
    BY <2>1 DEF Stored
  <2>3. NoneInvented'
    BY <1>1, <2>1, <2>2 DEF Energy, NoneInvented, Unreported
  <2>4. NoneForgotten'
    BY <1>1, <2>1, <2>2 DEF Energy, NoneForgotten
  <2> QED
    BY <1>1, <2>1, <2>3, <2>4 DEF Energy, Uncommissioned, ReportFits
<1> QED
  BY <1>2, <1>3

LEMMA ReportKeepsEnergy ==
  ASSUME Inv, PrepareReport
  PROVE  Energy'
<1> USE DEF Inv
<1> DEFINE baseline == BaselineFor(meter)
           energy == Clamped(meter - baseline)
<1>1. /\ baseline \in Nat /\ baseline <= meter
      /\ energy \in Nat /\ energy <= meter - baseline
  BY PreparedReport
<1>2. /\ ram'.baseline = baseline /\ ram'.total = meter
      /\ UNCHANGED <<meter, produced, commissioned, wasReset, acknowledged, cut>>
      /\ pc = "idle" /\ pc' # "off" /\ nvs'.pzem_wh = nvs.pzem_wh
      /\ Busy' => proof'.energy = energy
  BY DEF PrepareReport, NonceStored, TypeOK, Busy, history
<1>3. Stored' = Stored
  BY <1>2 DEF Stored
<1>4. Unreported(baseline) = Unreported(ram.baseline) /\ Unreported(baseline) = meter - baseline
  BY <1>1, Typed DEF Unreported, BaselineFor
<1> HIDE DEF baseline, energy
<1>5. NoneInvented'
  <2>1. acknowledged + Unreported(ram.baseline) <= produced - commissioned
    BY <1>2 DEF Energy, NoneInvented
  <2>2. Unreported(ram.baseline)' = meter - baseline /\ Unreported(ram.total)' = 0
    BY <1>1, <1>2, Typed DEF Unreported
  <2>3. Unreported(Stored)' = Unreported(Stored)
    BY <1>2, <1>3 DEF Unreported
  <2>4. Busy' => (acknowledged + proof.energy + Unreported(ram.total))' <= produced - commissioned
    BY <1>1, <1>2, <1>4, <2>1, <2>2, Typed
  <2>5. (acknowledged + Unreported(ram.baseline))' <= produced - commissioned
    BY <1>1, <1>2, <1>4, <2>1, <2>2, Typed
  <2>6. (acknowledged + Unreported(Stored))' <= produced - commissioned
    BY <1>2, <2>3 DEF Energy, NoneInvented
  <2> QED
    BY <1>2, <2>4, <2>5, <2>6 DEF NoneInvented
<1>6. NoneForgotten'
  <2> SUFFICES ASSUME ~wasReset' PROVE /\ (acknowledged + cut + (meter - Stored) = produced - commissioned)'
                                       /\ (Stored <= meter)'
                                       /\ (ram.baseline = Stored)'
                                       /\ (ram.total <= meter)'
    BY DEF NoneForgotten
  <2>1. ram.baseline = Stored /\ Stored <= meter
    BY <1>2 DEF Energy, NoneForgotten
  <2>2. baseline = ram.baseline
    BY <2>1, Typed DEF baseline, BaselineFor
  <2> QED
    BY <1>2, <1>3, <2>1, <2>2, Typed DEF Energy, NoneForgotten
<1>7. ReportFits'
  BY <1>1, <1>2 DEF ReportFits
<1> QED
  BY <1>2, <1>5, <1>6, <1>7 DEF Energy, Uncommissioned

LEMMA AcknowledgedEnergy ==
  ASSUME Inv, ReceiveOk
  PROVE  Energy'
<1> USE DEF Inv
<1>1. /\ Busy /\ pc # "off" /\ pc' = "idle" /\ ~Busy'
      /\ ram'.baseline = ram.total /\ nvs'.pzem_wh = ram.total
      /\ acknowledged' = acknowledged + proof.energy
      /\ cut' = cut + (ram.total - ram.baseline) - proof.energy
      /\ UNCHANGED <<meter, produced, commissioned, wasReset>>
  BY DEF ReceiveOk, CommitBaseline, TypeOK, Busy
<1>2. Stored' = ram.total /\ nvs'.pzem_wh # NoBaseline
  BY <1>1, Typed, FirmwareAssumption DEF Stored
<1>3. Unreported(Stored)' = Unreported(ram.total) /\ Unreported(ram.baseline)' = Unreported(ram.total)
  BY <1>1, <1>2 DEF Unreported
<1>4. NoneInvented'
  <2>1. acknowledged' + Unreported(ram.total) <= produced - commissioned
    BY <1>1 DEF Energy, NoneInvented
  <2> QED
    BY <1>1, <1>3, <2>1 DEF NoneInvented
<1>5. NoneForgotten'
  <2> SUFFICES ASSUME ~wasReset' PROVE (acknowledged + cut + (meter - Stored) = produced - commissioned)'
                                       /\ (Stored <= meter)'
    BY <1>1, <1>2 DEF NoneForgotten
  <2>1. /\ acknowledged + cut + (meter - Stored) = produced - commissioned
        /\ ram.baseline = Stored /\ ram.total <= meter
    BY <1>1 DEF Energy, NoneForgotten
  <2>2. proof.energy \in Nat
    BY <1>1, Typed
  <2> QED
    BY <1>1, <1>2, <2>1, <2>2, Typed
<1> QED
  BY <1>1, <1>2, <1>4, <1>5 DEF Energy, Uncommissioned, ReportFits

LEMMA NextKeepsEnergy ==
  ASSUME Inv, Next
  PROVE  Energy'
<1> USE DEF Inv
<1>1. CASE Produce \/ ResetMeter
  BY <1>1, MeterKeepsEnergy
<1>2. ASSUME NEW meterAnswers \in BOOLEAN, NEW rated \in RatedPowers, Boot(meterAnswers, rated)
      PROVE  Energy'
  BY <1>2, BootKeepsEnergy
<1>3. CASE PrepareReport
  BY <1>3, ReportKeepsEnergy
<1>4. CASE ReceiveOk
  BY <1>4, AcknowledgedEnergy
<1>5. CASE PowerLoss \/ GiveUp \/ ReceiveRefusal \/ Timeout
  <2>1. /\ pc' \in {"off", "idle"}
        /\ pc' = "idle" => pc # "off" /\ ram' = ram
        /\ UNCHANGED <<meter, nvs.pzem_wh, produced, commissioned, wasReset, acknowledged, cut>>
    BY <1>5 DEF PowerLoss, GiveUp, ReceiveRefusal, Timeout, history
  <2> QED
    BY <2>1, ReportIsOver
<1>6. CASE SendReport
  <2>1. /\ Busy /\ Busy' /\ pc # "off" /\ pc' # "off"
        /\ UNCHANGED <<meter, nvs, ram, proof, produced, commissioned, wasReset, acknowledged, cut>>
    BY <1>6 DEF SendReport, Busy
  <2> QED
    BY <2>1 DEF Energy, Uncommissioned, NoneInvented, NoneForgotten, ReportFits, Stored, Unreported
<1>7. CASE \/ \E target \in NonceTargets : SetNonce(target)
           \/ LoseAnswer \/ \E m \in inFlight : LoseRequest(m) \/ Admit(m) \/ Accumulate(m)
  <2>1. nvs'.pzem_wh = nvs.pzem_wh
    BY <1>7 DEF SetNonce, LoseAnswer, LoseRequest, Admit, Accumulate, board, TypeOK
  <2>2. UNCHANGED <<meter, ram, pc, proof, produced, commissioned, wasReset, acknowledged, cut>>
    BY <1>7 DEF SetNonce, LoseAnswer, LoseRequest, Admit, Accumulate, board, history
  <2> QED
    BY <2>1, <2>2, NothingMoves
<1> QED
  BY <1>1, <1>2, <1>3, <1>4, <1>5, <1>6, <1>7 DEF Next, Loop, Handle
-----------------------------------------------------------------------------
(* The nonces.                                                             *)

LEMMA NextKeepsNonces ==
  ASSUME Inv, Next
  PROVE  NoncesRise'
<1> USE DEF Inv
<1>1. nvs.nonce \in Nat /\ used \subseteq Nat
  BY DEF TypeOK
<1>2. ASSUME pc' # "signing", nvs'.nonce \in Nat, nvs'.nonce >= nvs.nonce, UNCHANGED <<lowered, used>>
      PROVE  NoncesRise'
  BY <1>1, <1>2 DEF NoncesRise
<1>3. ASSUME UNCHANGED <<pc, nvs.nonce, proof, lowered, used>> PROVE NoncesRise'
  BY <1>3 DEF NoncesRise
<1>4. CASE \/ Produce \/ ResetMeter \/ LoseAnswer
           \/ \E m \in inFlight : LoseRequest(m) \/ Admit(m) \/ Accumulate(m)
  BY <1>3, <1>4 DEF Produce, ResetMeter, LoseAnswer, LoseRequest, Admit, Accumulate, board, history
<1>5. CASE PowerLoss \/ GiveUp \/ ReceiveRefusal \/ Timeout
  BY <1>1, <1>2, <1>5 DEF PowerLoss, GiveUp, ReceiveRefusal, Timeout, history
<1>6. CASE ReceiveOk
  <2>1. nvs'.nonce = nvs.nonce
    BY <1>6 DEF ReceiveOk, CommitBaseline, TypeOK
  <2> QED
    BY <1>1, <1>2, <1>6, <2>1 DEF ReceiveOk
<1>7. ASSUME NEW meterAnswers \in BOOLEAN, NEW rated \in RatedPowers, Boot(meterAnswers, rated)
      PROVE  NoncesRise'
  <2>1. nvs'.nonce \in Nat /\ nvs'.nonce >= nvs.nonce
    BY <1>1, <1>7, FirmwareAssumption DEF Boot, Larger
  <2> QED
    BY <1>2, <1>7, <2>1 DEF Boot
<1>8. ASSUME NEW target \in NonceTargets, SetNonce(target) PROVE NoncesRise'
  <2>1. target \in Nat /\ nvs'.nonce = target /\ pc' = "idle" /\ used' = used
    BY <1>8, FirmwareAssumption DEF SetNonce, TypeOK
  <2>2. lowered' = (lowered \/ target < nvs.nonce)
    BY <1>8 DEF SetNonce
  <2>3. CASE target < nvs.nonce
    BY <2>2, <2>3 DEF NoncesRise
  <2>4. CASE ~(target < nvs.nonce)
    <3>1. ~lowered' => ~lowered
      BY <2>2
    <3>2. \A n \in used : n <= nvs.nonce => n <= target
      BY <1>1, <2>1, <2>4
    <3> QED
      BY <2>1, <3>1, <3>2 DEF NoncesRise
  <2> QED
    BY <2>3, <2>4
<1>9. CASE PrepareReport
  <2>1. CASE UNCHANGED <<nvs, pc, proof>>
    BY <1>3, <1>9, <2>1 DEF PrepareReport, history
  <2>2. CASE ~UNCHANGED <<nvs, pc, proof>>
    <3>1. nvs'.nonce = nvs.nonce + 1 /\ proof'.nonce = nvs.nonce + 1
            /\ UNCHANGED <<lowered, used>>
      BY <1>9, <2>2 DEF PrepareReport, NonceStored, TypeOK, history
    <3> QED
      BY <1>1, <3>1 DEF NoncesRise
  <2> QED
    BY <2>1, <2>2
<1>10. CASE SendReport
  <2>1. /\ pc = "signing" /\ pc' = "awaiting" /\ used' = used \cup {proof.nonce}
        /\ nvs' = nvs /\ lowered' = lowered
    BY <1>10 DEF SendReport
  <2> QED
    BY <1>1, <2>1 DEF NoncesRise
<1> QED
  BY <1>4, <1>5, <1>6, <1>7, <1>8, <1>9, <1>10 DEF Next, Loop, Handle
-----------------------------------------------------------------------------
\* The invariant holds whatever the board, the meter and the network do.
THEOREM FirmwareInvariant == Spec => []Inv
<1>1. Inv /\ Next => Inv'
  BY NextKeepsTypes, NextKeepsOneWaits, NextKeepsBalance, NextKeepsEnergy, NextKeepsNonces DEF Inv
<1>2. Inv /\ UNCHANGED vars => Inv'
  <2> SUFFICES ASSUME Inv, UNCHANGED vars PROVE Inv'
    OBVIOUS
  <2>1. TypeOK'
    BY DEF Inv, TypeOK, vars, board, history
  <2>2. OneWaits' /\ ServerBalance'
    BY DEF Inv, OneWaits, ServerBalance, LostWith, vars, board, history
  <2>3. Energy'
    BY NothingMoves DEF Inv, vars, board, history
  <2>4. NoncesRise'
    BY DEF Inv, NoncesRise, vars, board, history
  <2> QED
    BY <2>1, <2>2, <2>3, <2>4 DEF Inv
<1> QED
  BY NothingReportedYet, <1>1, <1>2, PTL DEF Spec

\* The variables keep their types.
THEOREM FirmwareTypeCorrect == Spec => []TypeOK
<1>1. Inv => TypeOK
  BY DEF Inv
<1> QED
  BY FirmwareInvariant, <1>1, PTL

\* Power loss, refusals and time-outs never make the board use a nonce twice.
THEOREM NoncesHold == Spec => []NonceIsUsedOnce
<1>1. Inv => NonceIsUsedOnce
  BY DEF Inv, NoncesRise, NonceIsUsedOnce
<1> QED
  BY FirmwareInvariant, <1>1, PTL

\* What the server holds is what was metered, but for what it took unheard, what was cut off
\* and what is still to be reported.
THEOREM EnergyHolds == Spec => []EnergyIsAccounted
<1>1. Inv => EnergyIsAccounted
  <2> SUFFICES ASSUME Inv PROVE EnergyIsAccounted
    OBVIOUS
  <2> USE DEF Inv
  <2>1. acknowledged + LostWith(answer) <= produced - commissioned
    <3>1. CASE answer = "ok"
      <4>1. Busy /\ LostWith(answer) = proof.energy
        BY <3>1 DEF TypeOK, Busy, LostWith
      <4>2. acknowledged + proof.energy + Unreported(ram.total) <= produced - commissioned
        BY <4>1 DEF Energy, NoneInvented
      <4>3. Unreported(ram.total) \in Nat
        BY Typed, UnreportedIsNatural
      <4> QED
        BY <4>1, <4>2, <4>3, Typed
    <3>2. CASE answer # "ok"
      <4>1. LostWith(answer) = 0
        BY <3>2 DEF LostWith
      <4>2. Unreported(Stored) \in Nat
        BY Typed, UnreportedIsNatural
      <4> QED
        BY <4>1, <4>2, Typed DEF Energy, NoneInvented
    <3> QED
      BY <3>1, <3>2
  <2>2. server.energy <= produced - commissioned + unconfirmed
    BY <2>1, Typed DEF ServerBalance
  <2>3. ASSUME ~wasReset, nvs.pzem_wh # NoBaseline
        PROVE  server.energy + cut + (meter - nvs.pzem_wh) >= produced - commissioned
    <3>1. acknowledged + cut + (meter - Stored) = produced - commissioned
      BY <2>3 DEF Energy, NoneForgotten
    <3>2. Stored = nvs.pzem_wh
      BY <2>3 DEF Stored
    <3> QED
      BY <3>1, <3>2, Typed DEF ServerBalance
  <2> QED
    BY <2>2, <2>3 DEF EnergyIsAccounted
<1> QED
  BY FirmwareInvariant, <1>1, PTL
=============================================================================
