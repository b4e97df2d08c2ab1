----------------------------- MODULE MCRetrieval -----------------------------
(***************************************************************************)
(* RetrievalRun and Circuit on small instances for TLC.  They share no     *)
(* state, so they are checked side by side: a behaviour is one of the one  *)
(* or one of the other.                                                    *)
(***************************************************************************)
EXTENDS RetrievalRun, Circuit

VARIABLE part  \* which of the two this behaviour is about

MCVars == <<vars, circuitVars, part>>

MCInit == /\ part \in {"run", "circuit"}
          /\ Init
          /\ CircuitInit

\* Executions of one run key are finite: when all have ended, and what leases
\* they left are over, nothing happens.
AtRest == /\ part = "run"
          /\ \A e \in Execs : phase[e] = "ended"
          /\ ~run.live /\ \A s \in Sources : ~src[s].live
          /\ UNCHANGED MCVars

MCNext == \/ part = "run" /\ Next /\ UNCHANGED <<circuitVars, part>>
          \/ part = "circuit" /\ CircuitNext /\ UNCHANGED <<vars, part>>
          \/ AtRest

\* What FairSpec and CircuitFairSpec assume, each of its own behaviours.
Fairness ==
  /\ \A e \in Execs : WF_vars(part = "run" /\ Progress(e))
  /\ WF_circuitVars(part = "circuit" /\ CooldownOver)
  /\ WF_circuitVars(part = "circuit" /\ ProbeExpires)
  /\ \A e \in Askers : /\ WF_circuitVars(part = "circuit" /\ Step(e))
                       /\ SF_circuitVars(part = "circuit" /\ RecordSuccess(e))

MCSpec == MCInit /\ [][MCNext]_MCVars /\ Fairness

\* Every variable of both has its type.
Types == TypeOK /\ CircuitTypeOK
=============================================================================
