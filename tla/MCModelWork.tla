----------------------------- MODULE MCModelWork ----------------------------
(***************************************************************************)
(* SupplierAnalysis and LlmSpend on small instances for TLC, side by side: *)
(* a behaviour is about the one or about the other.                        *)
(***************************************************************************)
EXTENDS SupplierAnalysis, LlmSpend

VARIABLE part  \* which of the two this behaviour is about

MCVars == <<analysisVars, spendVars, part>>

MCInit == /\ part \in {"analysis", "spend"}
          /\ AnalysisInit
          /\ SpendInit

\* Requests are finite: when all are over and decided upon, nothing happens.
AtRest == /\ part = "analysis"
          /\ \A r \in Runs : /\ stage[r] = "over"
                             /\ \A i \in DOMAIN recs[r] : recs[r][i].status # "proposed"
          /\ \A a \in Admins : desk[a] = {}
          /\ UNCHANGED MCVars

MCNext == \/ part = "analysis" /\ AnalysisNext /\ UNCHANGED <<spendVars, part>>
          \/ part = "spend" /\ SpendNext /\ UNCHANGED <<analysisVars, part>>
          \/ AtRest

\* What the specifications of both assume, each of its own behaviours.
Fairness ==
  /\ \A r \in Runs : WF_analysisVars(part = "analysis" /\ Progress(r))
  /\ \A c \in Clients :
       /\ WF_spendVars(part = "spend" /\ (Answer(c) \/ Proceed(c) \/ FinishRun(c)))
       /\ SF_spendVars(part = "spend" /\ Charge(c))

MCSpec == MCInit /\ [][MCNext]_MCVars /\ Fairness

\* Every variable of both has its type.
Types == AnalysisTypeOK /\ SpendTypeOK
=============================================================================
