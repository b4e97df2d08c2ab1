--------------------------- MODULE RetrievalProofs ---------------------------
(***************************************************************************)
(* Retrieval for every number of executions, sources, retries and          *)
(* interruptions, and every threshold: an open circuit closes on fresh     *)
(* evidence only, and a half-open one admits one prober but for the probes *)
(* that were lost; articles are committed once, by the owner of the run,   *)
(* and a run that is over is closed.                                       *)
(***************************************************************************)
EXTENDS MCRetrieval, FiniteSetTheorems, TLAPS

(***************************************************************************)
(* The circuit breaker.                                                    *)
(***************************************************************************)

\* The probe never rests on an old answer: a failure, which makes answers old,
\* takes it away, and whoever claims it sends anew.
ProbeIsFresh == \A e \in Askers : circuit.probe = e /\ stage[e] \in {"sending", "failing", "fetched"}
                                    => ~stale[e]

\* Who sends, or has its answer, since the last recorded failure.
Fresh == {e \in Askers : stage[e] \in {"sending", "fetched"} /\ ~stale[e]}

LiveProbe == IF circuit.live THEN {circuit.probe} ELSE {}

\* A tripped circuit that nobody probes has nobody fresh, and whoever is fresh
\* without holding the probe has lost it to an interruption.
LostProbes == Tripped(circuit) => /\ circuit.probe = None => Fresh = {}
                                  /\ Cardinality(Fresh \ LiveProbe) <= Interruptions - left

CircuitInv == CircuitTypeOK /\ ProbeIsFresh /\ LostProbes

----------------------------------------------------------------------------
LEMMA FreshFinite == /\ IsFiniteSet(Fresh) /\ IsFiniteSet(Fresh \ LiveProbe)
                     /\ Cardinality(Fresh) \in Nat /\ Cardinality(Fresh \ LiveProbe) \in Nat
<1>1. Fresh \subseteq Askers /\ Fresh \ LiveProbe \subseteq Askers
  BY DEF Fresh
<1>2. IsFiniteSet(Fresh) /\ IsFiniteSet(Fresh \ LiveProbe)
  BY <1>1, AskersAssumption, FS_Subset
<1>3. QED BY <1>2, FS_CardinalityType

LEMMA TypesStep == CircuitTypeOK /\ CircuitNext => CircuitTypeOK'
<1> SUFFICES ASSUME CircuitTypeOK, CircuitNext PROVE CircuitTypeOK'
  OBVIOUS
<1> USE CountsAssumption DEF CircuitTypeOK, Stages
<1>0. 0 \in 0..(MaxAttempts - 1)
  OBVIOUS
<1>1. ASSUME NEW e \in Askers, Ask(e) PROVE CircuitTypeOK'
  <2>1. stage' \in [Askers -> Stages]
    BY <1>1 DEF Ask, Send
  <2>2. attempt' \in [Askers -> 0..(MaxAttempts - 1)] /\ stale' \in [Askers -> BOOLEAN]
    <3>1. CASE UNCHANGED <<attempt, stale>>
      BY <3>1
    <3>2. CASE Send(e)
      BY <1>0, <3>2 DEF Send
    <3>3. QED BY <1>1, <3>1, <3>2 DEF Ask
  <2>3. QED BY <1>1, <2>1, <2>2 DEF Ask
<1>2. ASSUME NEW e \in Askers, ClaimProbe(e) PROVE CircuitTypeOK'
  <2>1. stage' \in [Askers -> Stages]
    BY <1>2 DEF ClaimProbe, Send
  <2>2. attempt' \in [Askers -> 0..(MaxAttempts - 1)] /\ stale' \in [Askers -> BOOLEAN]
    <3>1. CASE UNCHANGED <<attempt, stale>>
      BY <3>1
    <3>2. CASE Send(e)
      BY <1>0, <3>2 DEF Send
    <3>3. QED BY <1>2, <3>1, <3>2 DEF ClaimProbe
  <2>3. circuit' \in [failures : 0..Threshold, open : BOOLEAN,
                      probe : Askers \cup {None, Dead}, live : BOOLEAN]
    BY ZenonT(30), <1>2 DEF ClaimProbe
  <2>4. QED BY <1>2, <2>1, <2>2, <2>3 DEF ClaimProbe
<1>3. ASSUME NEW e \in Askers, Succeed(e) \/ Reject(e) PROVE CircuitTypeOK'
  BY <1>3 DEF Succeed, Reject
<1>4. ASSUME NEW e \in Askers, Miss(e) PROVE CircuitTypeOK'
  BY <1>4 DEF Miss
<1>5. ASSUME NEW e \in Askers, RecordFailure(e) PROVE CircuitTypeOK'
  <2>1. Failed(circuit) \in [failures : 0..Threshold, open : BOOLEAN,
                             probe : Askers \cup {None, Dead}, live : BOOLEAN]
    BY DEF Failed
  <2>2. QED BY <1>5, <2>1 DEF RecordFailure
<1>6. ASSUME NEW e \in Askers, RecordSuccess(e) PROVE CircuitTypeOK'
  BY <1>6 DEF RecordSuccess, Closed
<1>7. ASSUME NEW e \in Askers, Interrupt(e) PROVE CircuitTypeOK'
  BY <1>7 DEF Interrupt
<1>8. CASE CooldownOver \/ ProbeExpires \/ ProbeOutlived \/ Recover
  <2>1. CASE CooldownOver \/ Recover
    BY ZenonT(30), <2>1 DEF CooldownOver, Recover
  <2>2. CASE ProbeExpires
    BY <2>2 DEF ProbeExpires
  <2>3. CASE ProbeOutlived
    <3>1. left' \in 0..Interruptions
      BY <2>3 DEF ProbeOutlived
    <3>2. circuit' = [circuit EXCEPT !.live = FALSE]
      BY <2>3 DEF ProbeOutlived
    <3>3. QED BY <2>3, <3>1, <3>2 DEF ProbeOutlived
  <2>4. QED BY <1>8, <2>1, <2>2, <2>3
<1>9. QED BY <1>1, <1>2, <1>3, <1>4, <1>5, <1>6, <1>7, <1>8 DEF CircuitNext, Step

LEMMA ProbeStep == CircuitTypeOK /\ ProbeIsFresh /\ CircuitNext => ProbeIsFresh'
<1> SUFFICES ASSUME CircuitTypeOK, ProbeIsFresh, CircuitNext PROVE ProbeIsFresh'
  OBVIOUS
<1> USE OwnersAssumption DEF CircuitTypeOK, Stages, ProbeIsFresh
<1>1. ASSUME NEW e \in Askers, Ask(e) PROVE ProbeIsFresh'
  BY <1>1 DEF Ask, Send
<1>2. ASSUME NEW e \in Askers, ClaimProbe(e) PROVE ProbeIsFresh'
  BY ZenonT(30), <1>2 DEF ClaimProbe, Send
<1>3. ASSUME NEW e \in Askers, Succeed(e) \/ Reject(e) \/ Miss(e) PROVE ProbeIsFresh'
  BY <1>3 DEF Succeed, Reject, Miss
<1>4. ASSUME NEW e \in Askers, RecordFailure(e) \/ RecordSuccess(e) PROVE ProbeIsFresh'
  BY <1>4 DEF RecordFailure, RecordSuccess, Failed, Closed
<1>5. ASSUME NEW e \in Askers, Interrupt(e) PROVE ProbeIsFresh'
  BY <1>5 DEF Interrupt
<1>6. CASE CooldownOver \/ ProbeExpires \/ ProbeOutlived \/ Recover
  BY <1>6 DEF CooldownOver, ProbeExpires, ProbeOutlived, Recover
<1>7. QED BY <1>1, <1>2, <1>3, <1>4, <1>5, <1>6 DEF CircuitNext, Step

\* Fewer that are fresh, or as many, have lost no more probes.
LEMMA FewerLost ==
  ASSUME CircuitTypeOK, LostProbes, CircuitTypeOK', Tripped(circuit),
         (Fresh \ LiveProbe)' \subseteq Fresh \ LiveProbe,
         left' <= left
  PROVE  (Cardinality(Fresh \ LiveProbe) <= Interruptions - left)'
<1>1. Cardinality((Fresh \ LiveProbe)') <= Cardinality(Fresh \ LiveProbe)
      /\ Cardinality((Fresh \ LiveProbe)') \in Nat /\ Cardinality(Fresh \ LiveProbe) \in Nat
  BY FreshFinite, FS_Subset, FS_CardinalityType
<1>2. QED BY <1>1, CountsAssumption DEF LostProbes, CircuitTypeOK

LEMMA LostStep == CircuitTypeOK /\ LostProbes /\ CircuitNext => LostProbes'
<1> SUFFICES ASSUME CircuitTypeOK, LostProbes, CircuitNext, Tripped(circuit)'
             PROVE  /\ circuit'.probe = None => Fresh' = {}
                    /\ (Cardinality(Fresh \ LiveProbe) <= Interruptions - left)'
  BY DEF LostProbes
<1> USE OwnersAssumption, CountsAssumption DEF Tripped
<1>0. CircuitTypeOK'
  BY TypesStep
<1>1. ASSUME NEW e \in Askers, Ask(e)
      PROVE  /\ circuit'.probe = None => Fresh' = {}
             /\ (Cardinality(Fresh \ LiveProbe) <= Interruptions - left)'
  <2>1. circuit' = circuit /\ left' = left
    BY <1>1 DEF Ask
  <2>2. (Fresh \ LiveProbe)' \subseteq Fresh \ LiveProbe /\ (circuit.probe = None => Fresh' \subseteq Fresh)
    BY <1>1, <2>1 DEF Ask, Send, Fresh, LiveProbe, CircuitTypeOK
  <2>3. QED BY <1>0, <2>1, <2>2, FewerLost DEF LostProbes, CircuitTypeOK
<1>2. ASSUME NEW e \in Askers, ClaimProbe(e)
      PROVE  /\ circuit'.probe = None => Fresh' = {}
             /\ (Cardinality(Fresh \ LiveProbe) <= Interruptions - left)'
  <2>1. circuit'.failures = circuit.failures /\ left' = left
    BY <1>2 DEF ClaimProbe, CircuitTypeOK
  <2>2. (Fresh \ LiveProbe)' \subseteq Fresh \ LiveProbe
    <3>1. CASE ProbeFree
      <4>1. Fresh' \subseteq Fresh \cup {e} /\ LiveProbe' = {e}
        BY <1>2, <3>1 DEF ClaimProbe, Send, Fresh, LiveProbe, CircuitTypeOK
      <4>2. Fresh \ LiveProbe = Fresh
        BY <3>1 DEF ProbeFree, LiveProbe, Fresh
      <4>3. QED BY <4>1, <4>2
    <3>2. CASE ~ProbeFree
      <4>1. Fresh' \subseteq Fresh /\ LiveProbe' = LiveProbe
        BY <1>2, <3>2 DEF ClaimProbe, Fresh, LiveProbe, CircuitTypeOK
      <4>2. QED BY <4>1
    <3>3. QED BY <3>1, <3>2
  <2>3. circuit'.probe = None => Fresh' \subseteq Fresh /\ circuit.probe = None
    BY <1>2 DEF ClaimProbe, Fresh, CircuitTypeOK
  <2>4. QED BY <1>0, <2>1, <2>2, <2>3, FewerLost DEF LostProbes, CircuitTypeOK
<1>3. ASSUME NEW e \in Askers, Succeed(e) \/ Reject(e) \/ Miss(e)
      PROVE  /\ circuit'.probe = None => Fresh' = {}
             /\ (Cardinality(Fresh \ LiveProbe) <= Interruptions - left)'
  <2>1. circuit' = circuit /\ left' = left
    BY <1>3 DEF Succeed, Reject, Miss
  <2>2. Fresh' \subseteq Fresh
    BY <1>3 DEF Succeed, Reject, Miss, Fresh, CircuitTypeOK
  <2>3. QED BY <1>0, <2>1, <2>2, FewerLost DEF LostProbes, LiveProbe, CircuitTypeOK
<1>4. ASSUME NEW e \in Askers, RecordFailure(e)
      PROVE  /\ circuit'.probe = None => Fresh' = {}
             /\ (Cardinality(Fresh \ LiveProbe) <= Interruptions - left)'
  <2>1. Fresh' = {} /\ (Fresh \ LiveProbe)' = {} /\ left' = left
    BY <1>4 DEF RecordFailure, Fresh, CircuitTypeOK
  <2>2. QED BY <2>1, FS_EmptySet DEF CircuitTypeOK
<1>5. ASSUME NEW e \in Askers, RecordSuccess(e)
      PROVE  /\ circuit'.probe = None => Fresh' = {}
             /\ (Cardinality(Fresh \ LiveProbe) <= Interruptions - left)'
  <2>1. circuit' = circuit /\ left' = left
    BY <1>5 DEF RecordSuccess, Closed
  <2>2. Fresh' \subseteq Fresh
    BY <1>5 DEF RecordSuccess, Fresh, CircuitTypeOK
  <2>3. QED BY <1>0, <2>1, <2>2, FewerLost DEF LostProbes, LiveProbe, CircuitTypeOK
<1>6. ASSUME NEW e \in Askers, Interrupt(e)
      PROVE  /\ circuit'.probe = None => Fresh' = {}
             /\ (Cardinality(Fresh \ LiveProbe) <= Interruptions - left)'
  <2>1. /\ circuit'.failures = circuit.failures /\ left' <= left
        /\ circuit'.probe = None => circuit.probe = None
    BY <1>6 DEF Interrupt, CircuitTypeOK
  <2>2. Fresh' = Fresh \ {e}
    BY <1>6 DEF Interrupt, Fresh, CircuitTypeOK
  <2>3. (Fresh \ LiveProbe)' \subseteq Fresh \ LiveProbe
    BY <1>6, <2>2 DEF Interrupt, LiveProbe, CircuitTypeOK
  <2>4. QED BY <1>0, <2>1, <2>2, <2>3, FewerLost DEF LostProbes, CircuitTypeOK
<1>7. CASE CooldownOver \/ Recover
  <2>1. /\ circuit'.failures = circuit.failures /\ left' = left
        /\ circuit'.probe = circuit.probe /\ Fresh' = Fresh /\ LiveProbe' = LiveProbe
    BY <1>7 DEF CooldownOver, Recover, Fresh, LiveProbe, CircuitTypeOK
  <2>2. QED BY <1>0, <2>1, FewerLost DEF LostProbes, CircuitTypeOK
<1>8. CASE ProbeExpires
  <2>1. /\ circuit'.failures = circuit.failures /\ left' = left
        /\ circuit'.probe = circuit.probe /\ Fresh' = Fresh
    BY <1>8 DEF ProbeExpires, Fresh, CircuitTypeOK
  <2>2. circuit.probe \notin Fresh
    BY <1>8 DEF ProbeExpires, Fresh
  <2>3. (Fresh \ LiveProbe)' \subseteq Fresh \ LiveProbe
    BY <2>1, <2>2 DEF LiveProbe
  <2>4. QED BY <1>0, <2>1, <2>3, FewerLost DEF LostProbes, CircuitTypeOK
<1>9. CASE ProbeOutlived
  <2>1. /\ circuit'.failures = circuit.failures /\ left' = left - 1 /\ left \in Nat
        /\ circuit'.probe = circuit.probe /\ Fresh' = Fresh /\ LiveProbe' = {}
        /\ LiveProbe = {circuit.probe}
    BY <1>9 DEF ProbeOutlived, Fresh, LiveProbe, CircuitTypeOK
  <2>2. Cardinality(Fresh) <= Cardinality(Fresh \ LiveProbe) + 1
    BY <2>1, FreshFinite, FS_RemoveElement
  <2>3. Cardinality(Fresh \ LiveProbe) <= Interruptions - left
    BY <2>1 DEF LostProbes
  <2>4. (Fresh \ LiveProbe)' = Fresh
    BY <2>1
  <2>5. Cardinality(Fresh) <= Interruptions - left'
    BY <2>1, <2>2, <2>3, FreshFinite
  <2>6. QED BY <2>1, <2>4, <2>5 DEF LostProbes
<1>10. QED
  BY <1>1, <1>2, <1>3, <1>4, <1>5, <1>6, <1>7, <1>8, <1>9 DEF CircuitNext, Step

LEMMA CircuitInvariance == CircuitSpec => []CircuitInv
<1>1. CircuitInit => CircuitInv
  <2>1. ASSUME CircuitInit PROVE CircuitTypeOK
    <3>1. 0 \in 0..Threshold /\ 0 \in 0..(MaxAttempts - 1) /\ Interruptions \in 0..Interruptions
      BY CountsAssumption
    <3>2. Closed \in [failures : 0..Threshold, open : BOOLEAN,
                      probe : Askers \cup {None, Dead}, live : BOOLEAN]
      BY <3>1 DEF Closed
    <3>3. QED BY <2>1, <3>1, <3>2 DEF CircuitInit, CircuitTypeOK, Stages
  <2>2. ASSUME CircuitInit PROVE ProbeIsFresh /\ ~Tripped(circuit)
    BY <2>2, CountsAssumption DEF CircuitInit, ProbeIsFresh, Closed, Tripped
  <2>3. QED BY <2>1, <2>2 DEF CircuitInv, LostProbes
<1>2. CircuitInv /\ [CircuitNext]_circuitVars => CircuitInv'
  <2>1. ASSUME CircuitInv, CircuitNext PROVE CircuitInv'
    BY <2>1, TypesStep, ProbeStep, LostStep DEF CircuitInv
  <2>2. ASSUME CircuitInv, UNCHANGED circuitVars PROVE CircuitInv'
    BY <2>2 DEF circuitVars, CircuitInv, CircuitTypeOK, ProbeIsFresh, LostProbes, Tripped, Fresh,
                LiveProbe
  <2>3. QED BY <2>1, <2>2
<1>3. QED BY <1>1, <1>2, PTL DEF CircuitSpec

----------------------------------------------------------------------------
(***************************************************************************)
(* For any number of executions of one source, the failure count goes back *)
(* below CIRCUIT_THRESHOLD only when record_circuit_success is called for  *)
(* an answer that was asked for since the last record_circuit_failure.     *)
(***************************************************************************)
THEOREM ClosesOnFreshEvidenceHolds == CircuitSpec => ClosesOnFreshEvidence
<1> DEFINE Closing == (Tripped(circuit) /\ ~Tripped(circuit')) =>
                        \E e \in Askers : stage[e] = "fetched" /\ stage'[e] = "idle" /\ ~stale[e]
<1>1. ASSUME CircuitInv, CircuitNext, Tripped(circuit), ~Tripped(circuit')
      PROVE  \E e \in Askers : stage[e] = "fetched" /\ stage'[e] = "idle" /\ ~stale[e]
  <2>1. PICK e \in Askers : RecordSuccess(e) /\ SuccessCounts(e)
    <3> USE CountsAssumption DEF CircuitInv, CircuitTypeOK, Tripped
    <3>1. ASSUME NEW e \in Askers, Ask(e) \/ Succeed(e) \/ Miss(e) \/ Reject(e) PROVE FALSE
      BY <1>1, <3>1 DEF Ask, Succeed, Miss, Reject
    <3>2. ASSUME NEW e \in Askers, ClaimProbe(e) \/ Interrupt(e) PROVE FALSE
      BY <1>1, <3>2 DEF ClaimProbe, Interrupt
    <3>3. ASSUME NEW e \in Askers, RecordFailure(e) PROVE FALSE
      BY <1>1, <3>3 DEF RecordFailure, Failed
    <3>4. CASE CooldownOver \/ ProbeExpires \/ ProbeOutlived \/ Recover
      BY <1>1, <3>4 DEF CooldownOver, ProbeExpires, ProbeOutlived, Recover
    <3>5. ASSUME NEW e \in Askers, RecordSuccess(e) PROVE SuccessCounts(e)
      BY <1>1, <3>5 DEF RecordSuccess
    <3>6. QED BY <1>1, <3>1, <3>2, <3>3, <3>4, <3>5 DEF CircuitNext, Step
  <2>2. stage[e] = "fetched" /\ stage'[e] = "idle" /\ circuit.probe = e
    BY <1>1, <2>1 DEF RecordSuccess, SuccessCounts, CircuitInv, CircuitTypeOK
  <2>3. QED BY <1>1, <2>2 DEF CircuitInv, ProbeIsFresh
<1>2. CircuitInv /\ [CircuitNext]_circuitVars => [Closing]_circuitVars
  BY <1>1
<1>3. QED BY <1>2, CircuitInvariance, PTL DEF CircuitSpec, ClosesOnFreshEvidence

(***************************************************************************)
(* For any number of executions, the conditional update of                 *)
(* claim_circuit_probe lets one of them probe a half-open circuit, and one *)
(* more for each probe whose lease ran out under an execution.             *)
(***************************************************************************)
THEOREM HalfOpenAdmitsOneHolds == CircuitSpec => []HalfOpenAdmitsOne
<1>1. ASSUME CircuitInv, Tripped(circuit) PROVE Cardinality(Fresh) <= 1 + (Interruptions - left)
  <2>1. Cardinality(Fresh \ LiveProbe) <= Interruptions - left /\ left \in Int
    BY <1>1 DEF CircuitInv, LostProbes, CircuitTypeOK
  <2>2. Cardinality(Fresh) <= Cardinality(Fresh \ LiveProbe) + 1
    <3>1. CASE circuit.live
      BY <3>1, FreshFinite, FS_RemoveElement DEF LiveProbe
    <3>2. CASE ~circuit.live
      <4>1. Fresh \ LiveProbe = Fresh
        BY <3>2 DEF LiveProbe
      <4>2. QED BY <4>1, FreshFinite
    <3>3. QED BY <3>1, <3>2
  <2>3. QED BY <2>1, <2>2, FreshFinite, CountsAssumption
<1>2. CircuitInv => HalfOpenAdmitsOne
  BY <1>1 DEF HalfOpenAdmitsOne, Fresh
<1>3. QED BY <1>2, CircuitInvariance, PTL

----------------------------------------------------------------------------
(***************************************************************************)
(* The run.                                                                *)
(***************************************************************************)

\* A finished run is leased to nobody, so that no lease on it runs out; nor is one
\* that has not begun.
FinishedIsUnleased == /\ run.status = "completed" => run.owner = Nobody /\ ~run.live
                      /\ run.status = "none" => ~run.live

RunInv == TypeOK /\ FinishedIsUnleased /\ SavedExactlyOnce

----------------------------------------------------------------------------
\* Nothing, a lease and a verdict are rows.
LEMMA Rows ==
  /\ NoRow \in Row(RunStatuses) \cap Row(SourceStatuses)
  /\ \A e \in Execs : LeasedTo(e) \in Row(RunStatuses) \cap Row(SourceStatuses)
  /\ Settled("completed") \in Row(RunStatuses) \cap Row(SourceStatuses)
  /\ Settled("failed") \in Row(SourceStatuses)
  BY DEF NoRow, LeasedTo, Settled, Row, RunStatuses, SourceStatuses

\* What an execution leaves when its task is over.
LEMMA EndType == ASSUME TypeOK, NEW e \in Execs, End(e)
                 PROVE  /\ phase' \in [Execs -> Phases]
                        /\ retries' \in [Execs -> 0..MaxRetries]
                        /\ got' \in [Execs -> [Sources -> Results]]
<1>1. 0 \in 0..MaxRetries /\ Todo \in [Sources -> Results]
  BY RetriesAssumption DEF Todo, Results
<1>2. phase' \in [Execs -> Phases]
  BY DEF End, TypeOK, Phases
<1>3. retries' \in [Execs -> 0..MaxRetries] /\ got' \in [Execs -> [Sources -> Results]]
  BY <1>1 DEF End, TypeOK
<1>4. QED BY <1>2, <1>3

\* One entry of what an execution holds changes.
LEMMA GotType ==
  ASSUME TypeOK, NEW e \in Execs, NEW s \in Sources, NEW result \in Results,
         got' = [got EXCEPT ![e][s] = result]
  PROVE  got' \in [Execs -> [Sources -> Results]]
  BY DEF TypeOK

LEMMA TypeStep == TypeOK /\ Next => TypeOK'
<1> SUFFICES ASSUME TypeOK, Next PROVE TypeOK'
  OBVIOUS
<1>1. ASSUME NEW e \in Execs, ClaimRun(e) PROVE TypeOK'
  <2>1. CASE ClaimableBy(e)
    BY <1>1, <2>1, Rows DEF ClaimRun, TypeOK, Phases
  <2>2. CASE ~ClaimableBy(e)
    BY <1>1, <2>2, EndType DEF ClaimRun, TypeOK
  <2>3. QED BY <2>1, <2>2
<1>2. ASSUME NEW e \in Execs, NEW s \in Sources, ClaimSource(e, s) PROVE TypeOK'
  <2>1. CASE SourceClaimableBy(e, s)
    <3>1. src' = [src EXCEPT ![s] = LeasedTo(e)] /\ got' = [got EXCEPT ![e][s] = "fetching"]
      BY <1>2, <2>1 DEF ClaimSource
    <3>2. got' \in [Execs -> [Sources -> Results]]
      BY <3>1, GotType DEF Results
    <3>3. QED BY <1>2, <3>1, <3>2, Rows DEF ClaimSource, TypeOK
  <2>2. CASE ~SourceClaimableBy(e, s)
    <3>1. src[s].status \in {"running", "completed", "failed"}
      BY <2>2 DEF SourceClaimableBy, TypeOK, Row, SourceStatuses
    <3>2. PICK result \in Results : got' = [got EXCEPT ![e][s] = result]
      BY <1>2, <2>2, <3>1 DEF ClaimSource, Results
    <3>3. got' \in [Execs -> [Sources -> Results]]
      BY <3>2, GotType
    <3>4. QED BY <1>2, <2>2, <3>3 DEF ClaimSource, TypeOK
  <2>3. QED BY <2>1, <2>2
<1>3. ASSUME NEW e \in Execs, NEW s \in Sources, Save(e, s) PROVE TypeOK'
  <2>1. got' \in [Execs -> [Sources -> Results]]
    BY <1>3, GotType DEF Save, Results
  <2>2. QED BY <1>3, <2>1, Rows DEF Save, TypeOK
<1>4. ASSUME NEW e \in Execs, NEW s \in Sources, LoseLease(e, s) PROVE TypeOK'
  <2>1. got' \in [Execs -> [Sources -> Results]]
    BY <1>4, GotType DEF LoseLease, Results
  <2>2. QED BY <1>4, <2>1 DEF LoseLease, TypeOK
<1>5. ASSUME NEW e \in Execs, NEW s \in Sources, FailSource(e, s) PROVE TypeOK'
  <2>1. got' \in [Execs -> [Sources -> Results]]
    BY <1>5, GotType DEF FailSource, Results
  <2>2. QED BY <1>5, <2>1, Rows DEF FailSource, TypeOK
<1>6. ASSUME NEW e \in Execs, Complete(e) PROVE TypeOK'
  BY <1>6, EndType, Rows DEF Complete, TypeOK
<1>7. ASSUME NEW e \in Execs, GiveUp(e) \/ Die(e) PROVE TypeOK'
  BY <1>7, EndType DEF GiveUp, Die, TypeOK
<1>8. ASSUME NEW e \in Execs, Raise(e) PROVE TypeOK'
  <2>1. CASE retries[e] < MaxRetries
    <3>1. retries' \in [Execs -> 0..MaxRetries]
      BY <1>8, <2>1, RetriesAssumption DEF Raise, TypeOK
    <3>2. Todo \in [Sources -> Results] /\ "queued" \in Phases
      BY DEF Todo, Results, Phases
    <3>3. phase' \in [Execs -> Phases] /\ got' \in [Execs -> [Sources -> Results]]
      <4>1. phase' = [phase EXCEPT ![e] = "queued"] /\ got' = [got EXCEPT ![e] = Todo]
        BY <1>8, <2>1 DEF Raise, TypeOK
      <4>2. QED BY <3>2, <4>1 DEF TypeOK
    <3>4. QED BY <1>8, <3>1, <3>3 DEF Raise, TypeOK
  <2>2. CASE ~(retries[e] < MaxRetries)
    BY <1>8, <2>2, EndType DEF Raise, TypeOK
  <2>3. QED BY <2>1, <2>2
<1>9. CASE ExpireRun \/ \E s \in Sources : ExpireSource(s)
  BY ZenonT(30), <1>9 DEF ExpireRun, ExpireSource, TypeOK, Row
<1>10. QED
  BY <1>1, <1>2, <1>3, <1>4, <1>5, <1>6, <1>7, <1>8, <1>9 DEF Next, Progress, SourceStep

\* What a step does to the rows: the three ways to change what is committed.
LEMMA RowsStep ==
  ASSUME TypeOK, FinishedIsUnleased, Next
  PROVE  /\ run.status = "completed" => run' = run
         /\ FinishedIsUnleased'
         /\ \A s \in Sources :
              \/ saves'[s] = saves[s] /\ (src'[s].status = "completed" <=> src[s].status = "completed")
              \/ /\ saves'[s] = saves[s] + 1
                 /\ src[s].status = "running" /\ src'[s].status = "completed"
                 /\ \E e \in Execs : Holds(run, e) /\ Holds(src[s], e) /\ got[e][s] = "fetching"
<1> USE DEF FinishedIsUnleased
<1>1. ASSUME NEW e \in Execs, ClaimRun(e)
      PROVE  /\ run.status = "completed" => run' = run
             /\ FinishedIsUnleased' /\ UNCHANGED <<src, saves>>
  BY <1>1 DEF ClaimRun, ClaimableBy, LeasedTo
<1>2. ASSUME NEW e \in Execs, NEW s \in Sources, ClaimSource(e, s)
      PROVE  /\ UNCHANGED <<run, saves>>
             /\ \A t \in Sources : src'[t].status = "completed" <=> src[t].status = "completed"
  BY <1>2 DEF ClaimSource, SourceClaimableBy, LeasedTo, TypeOK
<1>3. ASSUME NEW e \in Execs, NEW s \in Sources, Save(e, s)
      PROVE  /\ run' = run
             /\ saves'[s] = saves[s] + 1 /\ src'[s].status = "completed"
             /\ src[s].status = "running"
             /\ Holds(run, e) /\ Holds(src[s], e) /\ got[e][s] = "fetching"
             /\ \A t \in Sources \ {s} : saves'[t] = saves[t] /\ src'[t] = src[t]
  BY <1>3 DEF Save, Fetched, Holds, Settled, TypeOK
<1>4. ASSUME NEW e \in Execs, NEW s \in Sources, FailSource(e, s)
      PROVE  /\ UNCHANGED <<run, saves>>
             /\ \A t \in Sources : src'[t].status = "completed" <=> src[t].status = "completed"
  BY <1>4 DEF FailSource, Holds, Settled, TypeOK
<1>5. ASSUME NEW e \in Execs, Complete(e)
      PROVE  /\ run.status = "completed" => run' = run
             /\ FinishedIsUnleased' /\ UNCHANGED <<src, saves>>
  BY <1>5 DEF Complete, Holds, Settled
<1>6. ASSUME NEW e \in Execs, GiveUp(e) \/ Raise(e) \/ Die(e) \/ \E s \in Sources : LoseLease(e, s)
      PROVE  UNCHANGED <<run, src, saves>>
  BY <1>6 DEF GiveUp, Raise, Die, LoseLease
<1>7. CASE ExpireRun
  BY <1>7 DEF ExpireRun, TypeOK, Row
<1>8. ASSUME NEW s \in Sources, ExpireSource(s)
      PROVE  /\ UNCHANGED <<run, saves>>
             /\ \A t \in Sources : src'[t].status = src[t].status
  BY <1>8 DEF ExpireSource, TypeOK, Row
<1>9. CASE \E e \in Execs, s \in Sources : Save(e, s)
  <2>1. PICK e \in Execs, s \in Sources : Save(e, s)
    BY <1>9
  <2>2. QED BY <1>3, <2>1
<1>10. QED
  BY <1>1, <1>2, <1>4, <1>5, <1>6, <1>7, <1>8, <1>9 DEF Next, Progress, SourceStep

LEMMA RunInvariance == Spec => []RunInv
<1>1. Init => RunInv
  <2>1. ASSUME Init PROVE TypeOK
    <3>1. 0 \in 0..MaxRetries /\ Todo \in [Sources -> Results]
      BY RetriesAssumption DEF Todo, Results
    <3>2. QED BY <2>1, <3>1, Rows DEF Init, TypeOK, Phases
  <2>2. ASSUME Init PROVE FinishedIsUnleased /\ SavedExactlyOnce
    BY <2>2 DEF Init, NoRow, FinishedIsUnleased, SavedExactlyOnce
  <2>3. QED BY <2>1, <2>2 DEF RunInv
<1>2. RunInv /\ [Next]_vars => RunInv'
  <2>1. ASSUME RunInv, Next PROVE RunInv'
    <3>1. SavedExactlyOnce'
      BY <2>1, RowsStep DEF RunInv, SavedExactlyOnce, TypeOK
    <3>2. QED BY <2>1, <3>1, TypeStep, RowsStep DEF RunInv
  <2>2. ASSUME RunInv, UNCHANGED vars PROVE RunInv'
    BY <2>2 DEF vars, RunInv, TypeOK, FinishedIsUnleased, SavedExactlyOnce
  <2>3. QED BY <2>1, <2>2
<1>3. QED BY <1>1, <1>2, PTL DEF Spec

----------------------------------------------------------------------------
(***************************************************************************)
(* For any number of executions, retries and sources, complete_source and  *)
(* the articles it is committed with appear once and together.             *)
(***************************************************************************)
THEOREM SavedExactlyOnceHolds == Spec => []SavedExactlyOnce
<1>1. RunInv => SavedExactlyOnce
  BY DEF RunInv
<1>2. QED BY <1>1, RunInvariance, PTL

(***************************************************************************)
(* No execution that wakes up late writes anything for a run complete_run  *)
(* has closed.                                                             *)
(***************************************************************************)
THEOREM CompletedRunIsClosedHolds == Spec => CompletedRunIsClosed
<1>1. RunInv /\ [Next]_vars => [run.status = "completed" => UNCHANGED <<run, saves>>]_vars
  <2>1. ASSUME RunInv, Next, run.status = "completed" PROVE UNCHANGED <<run, saves>>
    <3>1. run' = run /\ \A s \in Sources : saves'[s] = saves[s]
      BY <2>1, RowsStep DEF RunInv, Holds
    <3>2. saves' \in [Sources -> Nat] /\ saves \in [Sources -> Nat]
      BY <2>1, TypeStep DEF RunInv, TypeOK
    <3>3. QED BY <3>1, <3>2
  <2>2. QED BY <2>1
<1>2. QED BY <1>1, RunInvariance, PTL DEF Spec, CompletedRunIsClosed

(***************************************************************************)
(* Whoever commits articles of a source owns the run and the source, under *)
(* leases that have not run out, at the commit (fence_run).                *)
(***************************************************************************)
THEOREM OnlyTheRunOwnerSavesHolds == Spec => OnlyTheRunOwnerSaves
<1> DEFINE Owned == \A s \in Sources : saves'[s] # saves[s] =>
                      /\ run.live
                      /\ src[s].owner = run.owner
                      /\ got[run.owner][s] = "fetching"
<1>1. RunInv /\ [Next]_vars => [Owned]_vars
  BY RowsStep DEF RunInv, Holds
<1>2. QED BY <1>1, RunInvariance, PTL DEF Spec, OnlyTheRunOwnerSaves

----------------------------------------------------------------------------
(***************************************************************************)
(* The run implements Harvest.  A claim by the owner of a live lease, and  *)
(* whatever happens to sources alone, is a stutter there.                  *)
(***************************************************************************)
Collector == IF run.live THEN run.owner ELSE Nobody

\* A row that is leased belongs to an execution, and to a run that is under way.
LEMMA LeasedToSomebody ==
  ASSUME RunInv, NEW e \in Execs, Holds(run, e)
  PROVE  Collector = e /\ Collector # Nobody /\ run.status # "completed"
BY ExecsAssumption DEF RunInv, Holds, Collector

\* What leaves the run's row and the commits alone shows nowhere.
LEMMA Stutters ==
  ASSUME run' = run, saves' = saves PROVE UNCHANGED HV!vars
BY DEF HV!vars

LEMMA InitHarvests == Init => HV!Init
BY DEF Init, HV!Init, NoRow

LEMMA StepHarvests == RunInv /\ [Next]_vars => [HV!Next]_(HV!vars)
<1> SUFFICES ASSUME RunInv, [Next]_vars PROVE HV!Next \/ UNCHANGED HV!vars
  OBVIOUS
<1>1. CASE UNCHANGED vars
  BY <1>1, Stutters DEF vars
<1>2. ASSUME NEW e \in Execs, ClaimRun(e) PROVE HV!Next \/ UNCHANGED HV!vars
  <2>1. saves' = saves
    BY <1>2 DEF ClaimRun
  <2>2. CASE ~ClaimableBy(e)
    BY <1>2, <2>1, <2>2, Stutters DEF ClaimRun
  <2>3. CASE ClaimableBy(e) /\ run.live
    <3>1. run.status \in {"none", "running"} /\ run \in Row(RunStatuses)
      BY <2>3 DEF ClaimableBy, RunInv, TypeOK
    <3>2. run'.live /\ run'.owner = e /\ run'.status = "running" /\ run.status # "completed"
      BY <1>2, <2>3, <3>1 DEF ClaimRun, LeasedTo
    <3>3. run.owner = e
      BY <2>3 DEF ClaimableBy, RunInv, FinishedIsUnleased
    <3> QED  BY <2>1, <2>3, <3>2, <3>3 DEF HV!vars
  <2>4. CASE ClaimableBy(e) /\ ~run.live
    <3>1. run.status # "completed" /\ run' = LeasedTo(e)
      BY <1>2, <2>4 DEF ClaimRun, ClaimableBy
    <3>2. HV!Take(e)
      BY <2>1, <2>4, <3>1 DEF HV!Take, LeasedTo
    <3> QED  BY <3>2 DEF HV!Next
  <2> QED  BY <2>2, <2>3, <2>4
<1>3. ASSUME NEW e \in Execs, NEW s \in Sources, SourceStep(e, s) PROVE HV!Next \/ UNCHANGED HV!vars
  <2>1. CASE Save(e, s)
    <3>1. run' = run /\ saves' = [saves EXCEPT ![s] = @ + 1] /\ Holds(run, e) /\ Holds(src[s], e)
      BY <2>1 DEF Save
    <3>2. saves[s] = 0
      BY <3>1 DEF RunInv, SavedExactlyOnce, Holds
    <3>3. saves' = [saves EXCEPT ![s] = 1]
      BY <3>1, <3>2 DEF RunInv, TypeOK
    <3>4. HV!Collect(s)
      BY <3>1, <3>2, <3>3, LeasedToSomebody DEF HV!Collect, Collector
    <3> QED  BY <3>4 DEF HV!Next
  <2>2. CASE ClaimSource(e, s) \/ LoseLease(e, s) \/ FailSource(e, s)
    <3>1. run' = run /\ saves' = saves
      BY <2>2 DEF ClaimSource, LoseLease, FailSource
    <3> QED  BY <3>1, Stutters
  <2> QED  BY <1>3, <2>1, <2>2 DEF SourceStep
<1>4. ASSUME NEW e \in Execs, Complete(e) PROVE HV!Next \/ UNCHANGED HV!vars
  <2>1. Holds(run, e) /\ run' = Settled("completed") /\ saves' = saves
    BY <1>4 DEF Complete
  <2>2. HV!Close
    BY <2>1, LeasedToSomebody DEF HV!Close, Settled, Collector
  <2> QED  BY <2>2 DEF HV!Next
<1>5. ASSUME NEW e \in Execs, GiveUp(e) \/ Raise(e) \/ Die(e) PROVE HV!Next \/ UNCHANGED HV!vars
  BY <1>5, Stutters DEF GiveUp, Raise, Die
<1>6. CASE ExpireRun
  <2>1. ~run'.live /\ run'.status = run.status /\ saves' = saves
    BY <1>6 DEF ExpireRun, RunInv, TypeOK, Row
  <2>2. HV!Lose
    BY <2>1 DEF HV!Lose
  <2> QED  BY <2>2 DEF HV!Next
<1>7. ASSUME NEW s \in Sources, ExpireSource(s) PROVE HV!Next \/ UNCHANGED HV!vars
  BY <1>7, Stutters DEF ExpireSource
<1> QED
  BY <1>1, <1>2, <1>3, <1>4, <1>5, <1>6, <1>7 DEF Next, Progress

(***************************************************************************)
(* However executions are retried, stalled and killed, retrieve_news_task  *)
(* collects like one execution at a time that loses the run before another *)
(* takes it.                                                               *)
(***************************************************************************)
THEOREM RunImplementsHarvest == Spec => ImplementsHarvest
  BY InitHarvests, StepHarvests, RunInvariance, PTL DEF Spec, ImplementsHarvest, HV!Spec

----------------------------------------------------------------------------
(***************************************************************************)
(* Both side by side: every variable has its type.  A behaviour of both is *)
(* one of each.                                                            *)
(***************************************************************************)
THEOREM RetrievalTypesCorrect == MCSpec => []Types
<1>1. MCInit => Init /\ CircuitInit
  BY DEF MCInit
<1>2. [MCNext]_MCVars => [Next]_vars /\ [CircuitNext]_circuitVars
  <2>1. UNCHANGED MCVars => vars' = vars /\ circuitVars' = circuitVars
    BY DEF MCVars
  <2> QED  BY <2>1 DEF MCNext, AtRest
<1>3. RunInv => TypeOK
  BY DEF RunInv
<1>4. CircuitInv => CircuitTypeOK
  BY DEF CircuitInv
<1> QED
  BY <1>1, <1>2, <1>3, <1>4, RunInvariance, CircuitInvariance, PTL DEF MCSpec, Types, Spec, CircuitSpec
=============================================================================
