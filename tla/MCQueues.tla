------------------------------ MODULE MCQueues ------------------------------
(***************************************************************************)
(* The two queues kept in the database, that of EnrichmentQueue and that   *)
(* of AlertOutbox, on small instances for TLC, side by side: a behaviour   *)
(* is about the one or about the other.                                    *)
(***************************************************************************)
EXTENDS EnrichmentQueue, AlertOutbox

VARIABLE part  \* which of the two this behaviour is about

MCVars == <<vars, alertVars, part>>

MCInit == part \in {"enrichment", "alerts"} /\ Init /\ AlertInit

MCNext == \/ part = "enrichment" /\ Next /\ UNCHANGED <<alertVars, part>>
          \/ part = "alerts" /\ AlertNext /\ UNCHANGED <<vars, part>>

\* What AlertFairSpec assumes of the drains; nothing is assumed of the workers.
MCSpec ==
  /\ MCInit /\ [][MCNext]_MCVars
  /\ WF_alertVars(part = "alerts" /\ \E d \in Drains : Load(d))
  /\ SF_alertVars(part = "alerts" /\ \E d \in Drains : Send(d))
  /\ SF_alertVars(part = "alerts" /\ \E d \in Drains : CommitDrain(d))
=============================================================================
