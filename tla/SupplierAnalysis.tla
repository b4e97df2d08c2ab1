-------------------------- MODULE SupplierAnalysis --------------------------
(***************************************************************************)
(* Supplier analyses and the decisions about them:                         *)
(* src/shared/procuresignal/agents (loop.py, analysis.py) and              *)
(* src/api/routers/agents.py.                                              *)
(*                                                                         *)
(* A request drives the model through turns of tool calls, committing      *)
(* every step of the transcript before the next, then checks the answer's  *)
(* citations against what the tools returned, and stores what survives as  *)
(* proposals.  The request may raise or die between any two commits.       *)
(* Admins decide on proposals: each reads a proposal in one statement and  *)
(* writes its decision, with an audit record, in a later commit.           *)
(*                                                                         *)
(* What the model costs is the subject of LlmSpend; here the daily budget  *)
(* may refuse any turn.                                                    *)
(***************************************************************************)
EXTENDS Integers, SequencesExt

CONSTANTS Runs,       \* requests for an analysis
          Admins,     \* requests of admins who decide
          Keys,       \* event_key of existing risk events
          Invented,   \* keys the model makes up
          MaxSteps,   \* MAX_STEPS
          MaxCalls,   \* bound: tool calls in one turn
          MaxRecs,    \* bound: recommendations in one answer
          Nobody

ASSUME KeysAssumption == Keys \cap Invented = {}
ASSUME StepsAssumption == MaxSteps \in Nat \ {0} /\ MaxCalls \in Nat \ {0} /\ MaxRecs \in Nat
ASSUME NobodyAssumption == Nobody \notin Admins

VARIABLES
  run,       \* status and failure_reason of each AgentRun
  steps,     \* its AgentStep rows, in the order of their ordinals
  recs,      \* its AgentRecommendation rows
  stage,     \* where its request stands
  turns,     \* turns of the model so far
  calls,     \* calls of this turn still to be made
  verified,  \* keys the tools have returned to this request
  desk,      \* what each admin has read and is about to decide
  trail      \* the audit log's decisions, in order

requestVars == <<run, steps, recs, stage, turns, calls, verified>>
analysisVars == <<requestVars, desk, trail>>

Active == {"checking", "calling", "called", "answered", "finished"}
Reasons == {"none", "budget_exhausted", "step_ceiling", "unparseable_output"}
Kinds == {"model_message", "tool_call", "tool_result", "evidence_check"}
Decisions == {"approved", "rejected"}
Step(kind, keys) == [kind |-> kind, keys |-> keys]

AnalysisInit == /\ run = [r \in Runs |-> [status |-> "none", reason |-> "none"]]
                /\ steps = [r \in Runs |-> <<>>]
                /\ recs = [r \in Runs |-> <<>>]
                /\ stage = [r \in Runs |-> "none"]
                /\ turns = [r \in Runs |-> 0]
                /\ calls = [r \in Runs |-> 0]
                /\ verified = [r \in Runs |-> {}]
                /\ desk = [a \in Admins |-> {}]
                /\ trail = <<>>

GoTo(r, p) == stage' = [stage EXCEPT ![r] = p]
Record(r, kind, keys) == steps' = [steps EXCEPT ![r] = Append(@, Step(kind, keys))]

\* _finish, and analyse_supplier's own verdict on the answer.
Stop(r, status, reason) == run' = [run EXCEPT ![r] = [status |-> status, reason |-> reason]]

\* The run row is committed before anything is asked.
Request(r) == /\ stage[r] = "none"
              /\ Stop(r, "running", "none")
              /\ GoTo(r, "checking")
              /\ UNCHANGED <<steps, recs, turns, calls, verified, desk, trail>>

\* Mutant of GiveUp: the step ceiling does not end the run.
GiveUpOnBudgetOnly(r) ==
  /\ stage[r] = "checking"
  /\ turns[r] < MaxSteps
  /\ Stop(r, "failed", "budget_exhausted")
  /\ GoTo(r, "over")
  /\ UNCHANGED <<steps, recs, turns, calls, verified, desk, trail>>

\* The daily budget, or the step ceiling.
GiveUp(r) == /\ stage[r] = "checking"
             /\ IF turns[r] = MaxSteps THEN Stop(r, "failed", "step_ceiling")
                ELSE Stop(r, "failed", "budget_exhausted")
             /\ GoTo(r, "over")
             /\ UNCHANGED <<steps, recs, turns, calls, verified, desk, trail>>

\* Mutant of Ask: one turn too many.
AskOnceMore(r) ==
  /\ stage[r] = "checking"
  /\ turns[r] <= MaxSteps
  /\ turns' = [turns EXCEPT ![r] = @ + 1]
  /\ \/ /\ Record(r, "model_message", {})
        /\ GoTo(r, "answered")
        /\ UNCHANGED calls
     \/ /\ \E n \in 1..MaxCalls : calls' = [calls EXCEPT ![r] = n]
        /\ GoTo(r, "calling")
        /\ UNCHANGED steps
  /\ UNCHANGED <<run, recs, verified, desk, trail>>

\* The model answers, and its message is recorded, or it calls tools.
Ask(r) ==
  /\ stage[r] = "checking"
  /\ turns[r] < MaxSteps
  /\ turns' = [turns EXCEPT ![r] = @ + 1]
  /\ \/ /\ Record(r, "model_message", {})
        /\ GoTo(r, "answered")
        /\ UNCHANGED calls
     \/ /\ \E n \in 1..MaxCalls : calls' = [calls EXCEPT ![r] = n]
        /\ GoTo(r, "calling")
        /\ UNCHANGED steps
  /\ UNCHANGED <<run, recs, verified, desk, trail>>

Call(r) == /\ stage[r] = "calling"
           /\ Record(r, "tool_call", {})
           /\ GoTo(r, "called")
           /\ UNCHANGED <<run, recs, turns, calls, verified, desk, trail>>

\* A tool returns some events, or fails, or is unknown, and returns none.
Return(r) ==
  /\ stage[r] = "called"
  /\ \E keys \in SUBSET Keys : /\ Record(r, "tool_result", keys)
                               /\ verified' = [verified EXCEPT ![r] = @ \cup keys]
  /\ calls' = [calls EXCEPT ![r] = @ - 1]
  /\ GoTo(r, IF calls[r] = 1 THEN "checking" ELSE "calling")
  /\ UNCHANGED <<run, recs, turns, desk, trail>>

\* The run is completed before its answer has been looked at.
Conclude(r) == /\ stage[r] = "answered"
               /\ Stop(r, "completed", "none")
               /\ GoTo(r, "finished")
               /\ UNCHANGED <<steps, recs, turns, calls, verified, desk, trail>>

Unparseable(r) == /\ stage[r] = "finished"
                  /\ Stop(r, "failed", "unparseable_output")
                  /\ GoTo(r, "over")
                  /\ UNCHANGED <<steps, recs, turns, calls, verified, desk, trail>>

\* Mutant of Supported: an answer's citations are believed.
SupportedAsCited(r, cited) == cited

\* What is left of a recommendation's citations.
Supported(r, cited) == cited \cap verified[r]

\* What recommendations come with; one that is left with nothing is dropped.
Evidence(r) == {Supported(r, cited) : cited \in SUBSET (Keys \cup Invented)} \ {{}}

Proposal(evidence) == [evidence |-> evidence, status |-> "proposed", by |-> Nobody]

\* The answer is parsed: what is supported is stored with the evidence check,
\* in one commit.
Store(r) ==
  /\ stage[r] = "finished"
  /\ \E kept \in BoundedSeq(Evidence(r), MaxRecs) :
       recs' = [recs EXCEPT ![r] = [i \in DOMAIN kept |-> Proposal(kept[i])]]
  /\ Record(r, "evidence_check", verified[r])
  /\ GoTo(r, "over")
  /\ UNCHANGED <<run, turns, calls, verified, desk, trail>>

\* The request raises (the model's service is down, a proposal is malformed)
\* or dies: nothing of what it has committed is undone or marked.
Abandon(r) == /\ stage[r] \in Active
              /\ GoTo(r, "over")
              /\ UNCHANGED <<run, steps, recs, turns, calls, verified, desk, trail>>

\* decide, as far as the check that the recommendation is still proposed.
Look(a) ==
  /\ desk[a] = {}
  /\ \E r \in Runs, decision \in Decisions : \E i \in DOMAIN recs[r] :
       /\ recs[r][i].status = "proposed"
       /\ desk' = [desk EXCEPT ![a] = {[run |-> r, ordinal |-> i, decision |-> decision]}]
  /\ UNCHANGED <<requestVars, trail>>

\* Mutant of Decide: the second decision is refused, its audit record is not.
DecideAuditAnyway(a) ==
  /\ \E d \in desk[a] :
       /\ recs' = IF recs[d.run][d.ordinal].status = "proposed"
                  THEN [recs EXCEPT ![d.run][d.ordinal].status = d.decision,
                                    ![d.run][d.ordinal].by = a]
                  ELSE recs
       /\ trail' = Append(trail, [run |-> d.run, ordinal |-> d.ordinal,
                                  by |-> a, decision |-> d.decision])
  /\ desk' = [desk EXCEPT ![a] = {}]
  /\ UNCHANGED <<run, steps, stage, turns, calls, verified>>

\* The rest of decide: the row, whatever it holds by now, and the audit record.
Decide(a) ==
  /\ \E d \in desk[a] :
       /\ recs' = [recs EXCEPT ![d.run][d.ordinal].status = d.decision,
                               ![d.run][d.ordinal].by = a]
       /\ trail' = Append(trail, [run |-> d.run, ordinal |-> d.ordinal,
                                  by |-> a, decision |-> d.decision])
  /\ desk' = [desk EXCEPT ![a] = {}]
  /\ UNCHANGED <<run, steps, stage, turns, calls, verified>>

Progress(r) == GiveUp(r) \/ Ask(r) \/ Call(r) \/ Return(r) \/ Conclude(r)
                 \/ Unparseable(r) \/ Store(r)

AnalysisNext == \/ \E r \in Runs : Request(r) \/ Progress(r) \/ Abandon(r)
                \/ \E a \in Admins : Look(a) \/ Decide(a)

AnalysisSpec == AnalysisInit /\ [][AnalysisNext]_analysisVars

\* A request that is alive goes on.
AnalysisFairSpec == AnalysisSpec /\ \A r \in Runs : WF_analysisVars(Progress(r))

----------------------------------------------------------------------------
TranscriptStep == [kind : Kinds, keys : SUBSET Keys]
Rec == [evidence : SUBSET (Keys \cup Invented), status : Decisions \cup {"proposed"},
        by : Admins \cup {Nobody}]
Choice == [run : Runs, ordinal : 1..MaxRecs, decision : Decisions]
Decision == [run : Runs, ordinal : 1..MaxRecs, by : Admins, decision : Decisions]

AnalysisTypeOK ==
  /\ run \in [Runs -> [status : {"none", "running", "completed", "failed"}, reason : Reasons]]
  /\ steps \in [Runs -> Seq(TranscriptStep)]
  /\ recs \in [Runs -> Seq(Rec)] /\ \A r \in Runs : Len(recs[r]) <= MaxRecs
  /\ stage \in [Runs -> Active \cup {"none", "over"}]
  /\ turns \in [Runs -> 0..MaxSteps]
  /\ calls \in [Runs -> 0..MaxCalls]
  /\ verified \in [Runs -> SUBSET Keys]
  /\ desk \in [Admins -> {{}} \cup {{d} : d \in Choice}]
  /\ trail \in Seq(Decision)

InTranscript(r) == UNION {steps[r][i].keys : i \in {j \in DOMAIN steps[r] :
                                                      steps[r][j].kind = "tool_result"}}

(***************************************************************************)
(* Every proposal rests on evidence, and a reader of the transcript finds  *)
(* all of it in the results of the run's own tool calls, wherever other    *)
(* runs and failures have cut in.  A run that failed, was cut short or     *)
(* skipped the check of its evidence proposes nothing (analysis.py:5-12,   *)
(* 126-134, loop.py:192-194).                                              *)
(***************************************************************************)
ProposalsRestOnEvidence ==
  \A r \in Runs : \A i \in DOMAIN recs[r] :
    /\ recs[r][i].evidence # {} /\ recs[r][i].evidence \subseteq InTranscript(r)
    /\ run[r].status = "completed"
    /\ Last(steps[r]).kind = "evidence_check"

(***************************************************************************)
(* The row says what the audit trail last says, and who said it; a         *)
(* proposal the trail does not mention is undecided (routers/agents.py:    *)
(* 275-298).                                                               *)
(***************************************************************************)
Entries(r, i) == {k \in DOMAIN trail : trail[k].run = r /\ trail[k].ordinal = i}
RowFollowsTrail ==
  \A r \in Runs : \A i \in DOMAIN recs[r] :
    IF Entries(r, i) = {} THEN recs[r][i].status = "proposed"
    ELSE \E k \in Entries(r, i) : /\ \A j \in Entries(r, i) : j <= k
                                  /\ recs[r][i].status = trail[k].decision
                                  /\ recs[r][i].by = trail[k].by

(***************************************************************************)
(* The person who asked gets an answer or an error: the step ceiling ends  *)
(* every conversation (loop.py:44-46).                                     *)
(***************************************************************************)
RequestsEnd == \A r \in Runs : stage[r] \in Active ~> stage[r] = "over"

(***************************************************************************)
(* "Decisions are one-way [...] deciding again is a 409 rather than a      *)
(* silent overwrite" (routers/agents.py:7-9).                              *)
(***************************************************************************)
DecidedOnce == \A r \in Runs : \A i \in DOMAIN recs[r] : Cardinality(Entries(r, i)) <= 1

(***************************************************************************)
(* "A truncated analysis presented as a finished one is worse than an      *)
(* error" (models/agents.py:65): once its request is over, a completed run *)
(* has had its answer parsed and its evidence checked.                     *)
(***************************************************************************)
CompletedMeansChecked ==
  \A r \in Runs : (stage[r] = "over" /\ run[r].status = "completed")
                    => Last(steps[r]).kind = "evidence_check"
=============================================================================
