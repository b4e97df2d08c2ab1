------------------------------- MODULE Circuit -------------------------------
(***************************************************************************)
(* The durable circuit breaker of one source: the circuit operations of    *)
(* src/shared/procuresignal/retrieval/audit.py as SafeFetcher.fetch,       *)
(* LargeObjectFetcher.fetch and RetrievalOrchestrator._source use them.    *)
(*                                                                         *)
(* Several executions retrieve the same source: the runs of neighbouring   *)
(* windows, or one that was taken over.  An execution sends one or more    *)
(* requests (NewsAPI: one per query), each with retries; a success is      *)
(* recorded once, after the articles are committed, a failure at once.     *)
(*                                                                         *)
(* An execution has the id of its task.  When it ends, the probe it may    *)
(* leave behind is renamed to Dead; a retry of the task keeps the id.      *)
(* The cooldown may run out at any time.  A probe is leased for longer     *)
(* (65 minutes, audit.py:15) than a task may run (60, celery_config.py),   *)
(* so its lease runs out only when whoever claimed it is over.             *)
(***************************************************************************)
EXTENDS Integers, FiniteSets

CONSTANTS Askers,         \* executions that may run at once
          Threshold,      \* CIRCUIT_THRESHOLD
          MaxAttempts,    \* SafeFetcher.max_attempts
          Interruptions,  \* bound: deaths, retries and lost leases
          None, Dead      \* no probe owner; one whose task is over

ASSUME OwnersAssumption == None \notin Askers /\ Dead \notin Askers /\ None # Dead
ASSUME AskersAssumption == IsFiniteSet(Askers)
ASSUME CountsAssumption == /\ Threshold \in Nat \ {0}
                           /\ MaxAttempts \in Nat \ {0}
                           /\ Interruptions \in Nat

VARIABLES
  circuit,  \* the NewsRetrievalCircuit row (failures 0 when there is none)
  stage,    \* where each execution stands
  attempt,  \* the attempts of its current request that have failed
  stale,    \* its last request was sent before the last recorded failure
  healthy,  \* the source answers from now on
  left      \* interruptions that may still happen

circuitVars == <<circuit, stage, attempt, stale, healthy, left>>

Stages == {"idle", "claiming", "sending", "failing", "fetched"}

\* The failure count only matters up to the threshold.
Tripped(r) == r.failures >= Threshold

\* A new row, and what record_circuit_success leaves.
Closed == [failures |-> 0, open |-> FALSE, probe |-> None, live |-> FALSE]

CircuitInit ==
  /\ circuit = Closed
  /\ stage = [e \in Askers |-> "idle"]
  /\ attempt = [e \in Askers |-> 0]
  /\ stale = [e \in Askers |-> FALSE]
  /\ healthy = FALSE
  /\ left = Interruptions

Send(e) == /\ stage' = [stage EXCEPT ![e] = "sending"]
           /\ attempt' = [attempt EXCEPT ![e] = 0]
           /\ stale' = [stale EXCEPT ![e] = FALSE]

\* allow_circuit_request reads the row.  A refused request ends the source's
\* retrieval, and is not a failure of the circuit.
Ask(e) ==
  /\ stage[e] \in {"idle", "fetched"}
  /\ \/ /\ ~Tripped(circuit) \/ (~circuit.open /\ circuit.probe = e /\ circuit.live)
        /\ Send(e)
     \/ /\ Tripped(circuit) /\ circuit.open
        /\ stage' = [stage EXCEPT ![e] = "idle"]
        /\ UNCHANGED <<attempt, stale>>
     \/ /\ Tripped(circuit) /\ ~circuit.open /\ ~(circuit.probe = e /\ circuit.live)
        /\ stage' = [stage EXCEPT ![e] = "claiming"]
        /\ UNCHANGED <<attempt, stale>>
  /\ UNCHANGED <<circuit, healthy, left>>

\* Mutants of ProbeFree: a probe is never taken over; what allow_circuit_request
\* read is not checked again.
ProbeUnclaimed == Tripped(circuit) /\ ~circuit.open /\ circuit.probe = None
ProbeAnyway == Tripped(circuit) /\ ~circuit.open

ProbeFree == Tripped(circuit) /\ ~circuit.open /\ (circuit.probe = None \/ ~circuit.live)

\* claim_circuit_probe: a conditional update of what is in the row by now.
ClaimProbe(e) ==
  /\ stage[e] = "claiming"
  /\ \/ /\ ProbeFree
        /\ circuit' = [circuit EXCEPT !.probe = e, !.live = TRUE]
        /\ Send(e)
     \/ /\ ~ProbeFree
        /\ stage' = [stage EXCEPT ![e] = "idle"]
        /\ UNCHANGED <<circuit, attempt, stale>>
  /\ UNCHANGED <<healthy, left>>

Succeed(e) == /\ stage[e] = "sending"
              /\ stage' = [stage EXCEPT ![e] = "fetched"]
              /\ UNCHANGED <<circuit, attempt, stale, healthy, left>>

\* A failure that may pass is tried again; any other, and the last, counts.
Miss(e) ==
  /\ ~healthy
  /\ stage[e] = "sending"
  /\ \/ /\ attempt[e] + 1 < MaxAttempts
        /\ attempt' = [attempt EXCEPT ![e] = @ + 1]
        /\ stage' = stage
     \/ /\ attempt' = attempt
        /\ stage' = [stage EXCEPT ![e] = "failing"]
  /\ UNCHANGED <<circuit, stale, healthy, left>>

\* The answer is an error page, or cannot be parsed.
Reject(e) == /\ ~healthy
             /\ stage[e] = "fetched"
             /\ stage' = [stage EXCEPT ![e] = "failing"]
             /\ UNCHANGED <<circuit, attempt, stale, healthy, left>>

\* record_circuit_failure, whoever records it: count, open at the threshold,
\* and take the probe away from whoever has it.
Failed(r) ==
  [failures |-> IF r.failures < Threshold THEN r.failures + 1 ELSE Threshold,
   open |-> r.failures + 1 >= Threshold \/ r.open,
   probe |-> None, live |-> FALSE]

RecordFailure(e) ==
  /\ stage[e] = "failing"
  /\ circuit' = Failed(circuit)
  /\ stage' = [stage EXCEPT ![e] = "idle"]
  /\ stale' = [d \in Askers |-> stage[d] \in {"sending", "failing", "fetched"}]
  /\ UNCHANGED <<attempt, healthy, left>>

\* Mutant of SuccessCounts: any success closes the circuit.
AnySuccessCounts(e) == TRUE

SuccessCounts(e) == circuit.probe = e \/ ~Tripped(circuit)

\* record_circuit_success, after the articles of the source are committed.
RecordSuccess(e) ==
  /\ stage[e] = "fetched"
  /\ circuit' = IF SuccessCounts(e) THEN Closed ELSE circuit
  /\ stage' = [stage EXCEPT ![e] = "idle"]
  /\ UNCHANGED <<attempt, stale, healthy, left>>

\* The execution dies or its lease is lost (its task is over), or it raises
\* and the task is retried under the same id.
Interrupt(e) ==
  /\ stage[e] # "idle"
  /\ left > 0
  /\ left' = left - 1
  /\ stage' = [stage EXCEPT ![e] = "idle"]
  /\ circuit' \in {circuit, [circuit EXCEPT !.probe = IF @ = e THEN Dead ELSE @]}
  /\ UNCHANGED <<attempt, stale, healthy>>

CooldownOver == /\ circuit.open
                /\ circuit' = [circuit EXCEPT !.open = FALSE]
                /\ UNCHANGED <<stage, attempt, stale, healthy, left>>

ProbeExpires == /\ circuit.live
                /\ circuit.probe \in Askers => stage[circuit.probe] = "idle"
                /\ circuit' = [circuit EXCEPT !.live = FALSE]
                /\ UNCHANGED <<stage, attempt, stale, healthy, left>>

\* A retried task goes on with the probe of its first try, and outlives it.
ProbeOutlived == /\ circuit.live
                 /\ left > 0
                 /\ left' = left - 1
                 /\ circuit' = [circuit EXCEPT !.live = FALSE]
                 /\ UNCHANGED <<stage, attempt, stale, healthy>>

Recover == /\ ~healthy
           /\ healthy' = TRUE
           /\ UNCHANGED <<circuit, stage, attempt, stale, left>>

\* What an execution does when the source answers.
Step(e) == Ask(e) \/ ClaimProbe(e) \/ Succeed(e) \/ RecordFailure(e) \/ RecordSuccess(e)

CircuitNext ==
  \/ \E e \in Askers : Step(e) \/ Miss(e) \/ Reject(e) \/ Interrupt(e)
  \/ CooldownOver \/ ProbeExpires \/ ProbeOutlived \/ Recover

CircuitSpec == CircuitInit /\ [][CircuitNext]_circuitVars

(***************************************************************************)
(* Executions keep coming and go on; time passes.  An execution sends      *)
(* finitely many requests, so it comes to record its success.              *)
(***************************************************************************)
CircuitFairSpec ==
  /\ CircuitSpec
  /\ WF_circuitVars(CooldownOver) /\ WF_circuitVars(ProbeExpires)
  /\ \A e \in Askers : WF_circuitVars(Step(e)) /\ SF_circuitVars(RecordSuccess(e))

----------------------------------------------------------------------------
CircuitTypeOK ==
  /\ circuit \in [failures : 0..Threshold, open : BOOLEAN,
                  probe : Askers \cup {None, Dead}, live : BOOLEAN]
  /\ stage \in [Askers -> Stages]
  /\ attempt \in [Askers -> 0..(MaxAttempts - 1)]
  /\ stale \in [Askers -> BOOLEAN]
  /\ healthy \in BOOLEAN
  /\ left \in 0..Interruptions

(***************************************************************************)
(* An open circuit closes only on an answer that was asked for after the   *)
(* last recorded failure: no straggler's old answer closes it, whatever    *)
(* probes are claimed, lost and taken over meanwhile (audit.py:287, 334).  *)
(***************************************************************************)
ClosesOnFreshEvidence ==
  [][(Tripped(circuit) /\ ~Tripped(circuit')) =>
       \E e \in Askers : stage[e] = "fetched" /\ stage'[e] = "idle" /\ ~stale[e]]_circuitVars

(***************************************************************************)
(* A half-open circuit lets one prober through: whoever sends on a tripped *)
(* circuit since its last failure is the only one, but for the probes that *)
(* interrupted executions lost (audit.py:293-308, 321-327).                *)
(***************************************************************************)
HalfOpenAdmitsOne ==
  Tripped(circuit) =>
    Cardinality({e \in Askers : stage[e] \in {"sending", "fetched"} /\ ~stale[e]})
      <= 1 + (Interruptions - left)

(***************************************************************************)
(* "A half-open probe becomes due after the cooldown; one success closes   *)
(* the circuit" (2026-07-13-authoritative-procurement-sources-design.md:   *)
(* 143-144): once the source answers again, no dead prober, straggler or   *)
(* lost lease keeps the circuit open for ever.                             *)
(***************************************************************************)
ClosesAfterRecovery == (healthy /\ Tripped(circuit)) ~> ~Tripped(circuit)
=============================================================================
