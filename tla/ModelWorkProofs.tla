--------------------------- MODULE ModelWorkProofs ----------------------------
(***************************************************************************)
(* The work of the language model, for every number of requests, clients   *)
(* and days, every cap and every cost: what is proposed rests on evidence  *)
(* and a proposal reads as its trail says; and the spend of a day exceeds  *)
(* its cap by what one call of each client but one costs at most, and      *)
(* nothing of it is lost but what a day in the past is charged with.       *)
(***************************************************************************)
EXTENDS MCModelWork, DataProofs

(***************************************************************************)
(* The analysis of a supplier.                                             *)
(***************************************************************************)

\* Nothing is stored before a request is over, and only of a run that completed;
\* what the request counts as verified is in the transcript.
StoredLast ==
  \A r \in Runs : /\ stage[r] # "over" => recs[r] = <<>>
                  /\ stage[r] = "finished" => run[r].status = "completed"
                  /\ verified[r] \subseteq InTranscript(r)

\* A turn that has called tools has a call to make until it is over.
CallsLeft == \A r \in Runs : stage[r] \in {"calling", "called"} => calls[r] > 0

\* What admins have read, and what the trail says, is about proposals there are.
AboutProposals ==
  /\ \A a \in Admins : \A d \in desk[a] : d.ordinal \in DOMAIN recs[d.run]
  /\ \A k \in DOMAIN trail : trail[k].ordinal \in DOMAIN recs[trail[k].run]

AnalysisInv == /\ AnalysisTypeOK /\ CallsLeft /\ StoredLast /\ AboutProposals
               /\ ProposalsRestOnEvidence /\ RowFollowsTrail

----------------------------------------------------------------------------
\* What a sequence that grows by one holds.
LEMMA Grown ==
  ASSUME NEW T, NEW s \in Seq(T), NEW e \in T
  PROVE  /\ Append(s, e) \in Seq(T) /\ Len(Append(s, e)) = Len(s) + 1 /\ Len(s) \in Nat
         /\ DOMAIN Append(s, e) = DOMAIN s \cup {Len(s) + 1} /\ DOMAIN s = 1..Len(s)
         /\ \A i \in DOMAIN s : Append(s, e)[i] = s[i]
         /\ Append(s, e)[Len(s) + 1] = e
  OBVIOUS

\* The rows an answer leads to.
LEMMA Proposals ==
  ASSUME NEW r \in Runs, AnalysisTypeOK, NEW kept \in BoundedSeq(Evidence(r), MaxRecs)
  PROVE  LET new == [i \in DOMAIN kept |-> Proposal(kept[i])]
         IN /\ new \in Seq(Rec) /\ Len(new) <= MaxRecs /\ DOMAIN new = DOMAIN kept
            /\ \A i \in DOMAIN new : /\ new[i].evidence # {} /\ new[i].evidence \subseteq verified[r]
                                     /\ new[i].status = "proposed"
<1>1. PICK n \in 0..MaxRecs : kept \in [1..n -> Evidence(r)]
  BY DEF BoundedSeq, SeqOf
<1>2. ASSUME NEW e \in Evidence(r) PROVE e # {} /\ e \subseteq verified[r] /\ Proposal(e) \in Rec
  BY DEF Evidence, Supported, Proposal, Rec
<1>3. n \in Nat /\ n <= MaxRecs
  BY <1>1, StepsAssumption
<1>4. \A i \in 1..n : kept[i] \in Evidence(r)
  BY <1>1
<1> DEFINE new == [i \in DOMAIN kept |-> Proposal(kept[i])]
<1>5. new = [i \in 1..n |-> Proposal(kept[i])]
  BY <1>1
<1>6. new \in Seq(Rec) /\ Len(new) = n
  BY <1>2, <1>3, <1>4, <1>5
<1>7. \A i \in 1..n : new[i].evidence = kept[i] /\ new[i].status = "proposed"
  BY <1>5 DEF Proposal
<1>8. QED BY <1>1, <1>2, <1>3, <1>4, <1>5, <1>6, <1>7

\* A decision replaces a row by one that differs in status and decider.
LEMMA Decided ==
  ASSUME AnalysisTypeOK, NEW d \in Choice, d.ordinal \in DOMAIN recs[d.run], NEW a \in Admins,
         recs' = [recs EXCEPT ![d.run][d.ordinal].status = d.decision,
                              ![d.run][d.ordinal].by = a]
  PROVE  /\ recs' \in [Runs -> Seq(Rec)]
         /\ \A r \in Runs : Len(recs'[r]) = Len(recs[r]) /\ DOMAIN recs'[r] = DOMAIN recs[r]
         /\ \A r \in Runs : \A i \in DOMAIN recs[r] :
              /\ recs'[r][i].evidence = recs[r][i].evidence
              /\ IF r = d.run /\ i = d.ordinal
                 THEN recs'[r][i].status = d.decision /\ recs'[r][i].by = a
                 ELSE recs'[r][i] = recs[r][i]
<1>1. recs \in [Runs -> Seq(Rec)] /\ d.run \in Runs /\ d.decision \in Decisions
  BY DEF AnalysisTypeOK, Choice
<1> DEFINE s == recs[d.run]
           row == [s[d.ordinal] EXCEPT !.status = d.decision, !.by = a]
<1>2. s \in Seq(Rec) /\ s[d.ordinal] \in Rec
  BY <1>1
<1>3. row \in Rec /\ row.evidence = s[d.ordinal].evidence /\ row.status = d.decision /\ row.by = a
  BY <1>1, <1>2 DEF Rec
<1>4. recs' = [recs EXCEPT ![d.run] = [s EXCEPT ![d.ordinal] = row]]
  BY <1>1, <1>2
<1> HIDE DEF row
<1>5. [s EXCEPT ![d.ordinal] = row] \in Seq(Rec) /\ Len([s EXCEPT ![d.ordinal] = row]) = Len(s)
  BY <1>2, <1>3
<1> DEFINE t == [s EXCEPT ![d.ordinal] = row]
<1>6. /\ t \in Seq(Rec) /\ Len(t) = Len(s) /\ DOMAIN t = DOMAIN s
      /\ t[d.ordinal] = row /\ \A i \in DOMAIN s : i # d.ordinal => t[i] = s[i]
  BY <1>2, <1>5
<1> HIDE DEF t
<1>7. recs' = [recs EXCEPT ![d.run] = t]
  BY <1>4 DEF t
<1>8. /\ recs' \in [Runs -> Seq(Rec)] /\ recs'[d.run] = t
      /\ \A r \in Runs : r # d.run => recs'[r] = recs[r]
  <2>1. t \in Seq(Rec)
    BY <1>6
  <2>2. QED BY ZenonT(30), <1>1, <1>7, <2>1
<1>9. ASSUME NEW r \in Runs
      PROVE  /\ Len(recs'[r]) = Len(recs[r]) /\ DOMAIN recs'[r] = DOMAIN recs[r]
             /\ \A i \in DOMAIN recs[r] :
                  /\ recs'[r][i].evidence = recs[r][i].evidence
                  /\ IF r = d.run /\ i = d.ordinal
                     THEN recs'[r][i].status = d.decision /\ recs'[r][i].by = a
                     ELSE recs'[r][i] = recs[r][i]
  <2>1. CASE r = d.run
    BY <1>3, <1>6, <1>8, <2>1
  <2>2. CASE r # d.run
    BY <1>8, <2>2
  <2>3. QED BY <2>1, <2>2
<1>10. QED BY <1>8, <1>9

LEMMA AnalysisTypesStep == 
  ASSUME AnalysisTypeOK, CallsLeft, AboutProposals, AnalysisNext PROVE AnalysisTypeOK'
<1> USE DEF AnalysisTypeOK, Active
<1>a. ASSUME NEW r \in Runs, NEW k \in Kinds, NEW keys \in SUBSET Keys, Record(r, k, keys)
      PROVE  steps' \in [Runs -> Seq(TranscriptStep)]
  <2>1. Step(k, keys) \in TranscriptStep
    BY DEF Step, TranscriptStep
  <2>2. steps[r] \in Seq(TranscriptStep)
    OBVIOUS
  <2>3. Append(steps[r], Step(k, keys)) \in Seq(TranscriptStep)
    BY <2>1, <2>2, Grown
  <2>4. QED BY <1>a, <2>3 DEF Record
<1>b. ASSUME NEW r \in Runs, NEW s \in {"none", "running", "completed", "failed"}, NEW y \in Reasons,
             Stop(r, s, y)
      PROVE  run' \in [Runs -> [status : {"none", "running", "completed", "failed"}, reason : Reasons]]
  BY <1>b DEF Stop
<1>c. ASSUME NEW r \in Runs, NEW s \in Active \cup {"none", "over"}, GoTo(r, s)
      PROVE  stage' \in [Runs -> Active \cup {"none", "over"}]
  BY <1>c DEF GoTo
<1>d. {} \in SUBSET Keys /\ \A r \in Runs : verified[r] \in SUBSET Keys
  OBVIOUS
<1>1. ASSUME NEW r \in Runs, Request(r) PROVE AnalysisTypeOK'
  BY <1>1, <1>b, <1>c DEF Request, Reasons
<1>2. ASSUME NEW r \in Runs, GiveUp(r) PROVE AnalysisTypeOK'
  <2>1. run' \in [Runs -> [status : {"none", "running", "completed", "failed"}, reason : Reasons]]
    BY <1>2, <1>b DEF GiveUp, Reasons
  <2>2. QED BY <1>2, <2>1, <1>c DEF GiveUp
<1>3. ASSUME NEW r \in Runs, Ask(r) PROVE AnalysisTypeOK'
  <2>1. turns' \in [Runs -> 0..MaxSteps]
    BY <1>3, StepsAssumption DEF Ask
  <2>2. steps' \in [Runs -> Seq(TranscriptStep)]
    BY <1>3, <1>a, <1>d DEF Ask, Kinds
  <2>3. calls' \in [Runs -> 0..MaxCalls]
    BY <1>3, StepsAssumption DEF Ask
  <2>4. stage' \in [Runs -> Active \cup {"none", "over"}]
    BY <1>3, <1>c DEF Ask
  <2>5. QED BY <1>3, <2>1, <2>2, <2>3, <2>4 DEF Ask
<1>4. ASSUME NEW r \in Runs, Call(r) PROVE AnalysisTypeOK'
  <2>1. steps' \in [Runs -> Seq(TranscriptStep)]
    BY <1>4, <1>a, <1>d DEF Call, Kinds
  <2>2. stage' \in [Runs -> Active \cup {"none", "over"}]
    BY <1>4, <1>c DEF Call
  <2>3. QED BY <1>4, <2>1, <2>2 DEF Call
<1>5. ASSUME NEW r \in Runs, calls[r] > 0, Return(r) PROVE AnalysisTypeOK'
  <2>1. PICK keys \in SUBSET Keys : /\ Record(r, "tool_result", keys)
                                    /\ verified' = [verified EXCEPT ![r] = @ \cup keys]
    BY <1>5 DEF Return
  <2>2. steps' \in [Runs -> Seq(TranscriptStep)]
    BY <2>1, <1>a DEF Kinds
  <2>3. stage' \in [Runs -> Active \cup {"none", "over"}]
    BY <1>5, <1>c DEF Return
  <2>4. calls' \in [Runs -> 0..MaxCalls]
    BY <1>5, StepsAssumption DEF Return
  <2>5. verified' \in [Runs -> SUBSET Keys]
    BY <2>1
  <2>6. QED BY <1>5, <2>2, <2>3, <2>4, <2>5 DEF Return
<1>6. ASSUME NEW r \in Runs, Conclude(r) \/ Unparseable(r) PROVE AnalysisTypeOK'
  <2>1. run' \in [Runs -> [status : {"none", "running", "completed", "failed"}, reason : Reasons]]
    BY <1>6, <1>b DEF Conclude, Unparseable, Reasons
  <2>2. stage' \in [Runs -> Active \cup {"none", "over"}]
    BY <1>6, <1>c DEF Conclude, Unparseable
  <2>3. QED BY <1>6, <2>1, <2>2 DEF Conclude, Unparseable
<1>7. ASSUME NEW r \in Runs, Store(r) PROVE AnalysisTypeOK'
  <2>1. PICK kept \in BoundedSeq(Evidence(r), MaxRecs) :
          recs' = [recs EXCEPT ![r] = [i \in DOMAIN kept |-> Proposal(kept[i])]]
    BY <1>7 DEF Store
  <2> DEFINE new == [i \in DOMAIN kept |-> Proposal(kept[i])]
  <2>2. new \in Seq(Rec) /\ Len(new) <= MaxRecs
    BY Proposals
  <2> HIDE DEF new
  <2>3. recs' = [recs EXCEPT ![r] = new]
    BY <2>1 DEF new
  <2>4. recs' \in [Runs -> Seq(Rec)] /\ \A q \in Runs : Len(recs'[q]) <= MaxRecs
    BY <2>2, <2>3
  <2>5. steps' \in [Runs -> Seq(TranscriptStep)]
    BY <1>7, <1>a, <1>d DEF Store, Kinds
  <2>6. stage' \in [Runs -> Active \cup {"none", "over"}]
    BY <1>7, <1>c DEF Store
  <2>7. QED BY <1>7, <2>4, <2>5, <2>6 DEF Store
<1>8. ASSUME NEW r \in Runs, Abandon(r) PROVE AnalysisTypeOK'
  BY <1>8, <1>c DEF Abandon
<1>9. ASSUME NEW a \in Admins, Look(a) PROVE AnalysisTypeOK'
  <2>1. PICK r \in Runs, decision \in Decisions :
          \E i \in DOMAIN recs[r] : desk' = [desk EXCEPT ![a] = {[run |-> r, ordinal |-> i, decision |-> decision]}]
    BY <1>9 DEF Look
  <2>2. PICK i \in DOMAIN recs[r] : desk' = [desk EXCEPT ![a] = {[run |-> r, ordinal |-> i, decision |-> decision]}]
    BY <2>1
  <2>3. recs[r] \in Seq(Rec) /\ Len(recs[r]) <= MaxRecs
    OBVIOUS
  <2>4. i \in 1..MaxRecs
    BY <2>3, StepsAssumption
  <2>5. [run |-> r, ordinal |-> i, decision |-> decision] \in Choice
    BY <2>4 DEF Choice
  <2>6. QED BY <1>9, <2>2, <2>5 DEF Look, requestVars
<1>10. ASSUME NEW a \in Admins, Decide(a) PROVE AnalysisTypeOK'
  <2>1. PICK d \in desk[a] :
          /\ recs' = [recs EXCEPT ![d.run][d.ordinal].status = d.decision,
                                  ![d.run][d.ordinal].by = a]
          /\ trail' = Append(trail, [run |-> d.run, ordinal |-> d.ordinal,
                                     by |-> a, decision |-> d.decision])
    BY <1>10 DEF Decide
  <2>2. d \in Choice /\ d.ordinal \in DOMAIN recs[d.run]
    <3>1. desk[a] \in {{}} \cup {{c} : c \in Choice}
      OBVIOUS
    <3>2. QED BY <2>1, <3>1 DEF AboutProposals
  <2>3. /\ recs' \in [Runs -> Seq(Rec)] /\ \A r \in Runs : Len(recs'[r]) = Len(recs[r])
    BY <2>1, <2>2, Decided
  <2>4. [run |-> d.run, ordinal |-> d.ordinal, by |-> a, decision |-> d.decision] \in Decision
    BY <2>2 DEF Choice, Decision
  <2>5. trail' \in Seq(Decision)
    BY <2>1, <2>4, Grown
  <2>6. QED BY <1>10, <2>3, <2>5 DEF Decide
<1>11. QED
  <2>1. ASSUME NEW r \in Runs, Return(r) PROVE calls[r] > 0
    BY <2>1 DEF Return, CallsLeft
  <2>2. QED
    BY <1>1, <1>2, <1>3, <1>4, <1>5, <1>6, <1>7, <1>8, <1>9, <1>10, <2>1 DEF AnalysisNext, Progress

LEMMA CallsLeftStep == ASSUME AnalysisTypeOK, CallsLeft, AnalysisNext PROVE CallsLeft'
<1>0. /\ calls \in [Runs -> 0..MaxCalls] /\ stage \in [Runs -> Active \cup {"none", "over"}]
      /\ MaxCalls \in Nat /\ \A r \in Runs : calls[r] \in Nat
  BY StepsAssumption DEF AnalysisTypeOK
<1> USE DEF CallsLeft, GoTo
<1>1. ASSUME NEW r \in Runs, Ask(r) PROVE CallsLeft'
  BY <1>0, <1>1 DEF Ask
<1>2. ASSUME NEW r \in Runs, Call(r) PROVE CallsLeft'
  BY <1>0, <1>2 DEF Call
<1>3. ASSUME NEW r \in Runs, Return(r) PROVE CallsLeft'
  <2>1. /\ stage[r] = "called" /\ calls' = [calls EXCEPT ![r] = @ - 1]
        /\ stage' = [stage EXCEPT ![r] = IF calls[r] = 1 THEN "checking" ELSE "calling"]
    BY <1>3 DEF Return
  <2>2. calls[r] \in Nat /\ calls[r] > 0 /\ (stage'[r] \in {"calling", "called"} => calls[r] > 1)
    BY <1>0, <2>1
  <2>3. calls'[r] = calls[r] - 1
    BY <1>0, <2>1
  <2>4. \A q \in Runs : q # r => calls'[q] = calls[q] /\ stage'[q] = stage[q]
    BY <1>0, <2>1
  <2>5. QED BY <2>2, <2>3, <2>4
<1>4. ASSUME NEW r \in Runs, \/ Request(r) \/ GiveUp(r) \/ Conclude(r) \/ Unparseable(r)
                             \/ Store(r) \/ Abandon(r)
      PROVE CallsLeft'
  BY <1>0, <1>4 DEF Request, GiveUp, Conclude, Unparseable, Store, Abandon
<1>5. ASSUME NEW a \in Admins, Look(a) \/ Decide(a) PROVE CallsLeft'
  BY <1>5 DEF Look, Decide, requestVars
<1>6. QED BY <1>1, <1>2, <1>3, <1>4, <1>5 DEF AnalysisNext, Progress

\* A transcript only grows, and what a tool returned is in it.
LEMMA TranscriptGrows ==
  ASSUME AnalysisTypeOK, NEW r \in Runs, NEW kind \in Kinds, NEW keys \in SUBSET Keys,
         Record(r, kind, keys)
  PROVE  /\ \A q \in Runs : InTranscript(q) \subseteq InTranscript(q)'
         /\ kind = "tool_result" => keys \subseteq InTranscript(r)'
         /\ Last(steps'[r]).kind = kind
         /\ \A q \in Runs : q # r => steps'[q] = steps[q]
<1>1. steps \in [Runs -> Seq(TranscriptStep)] /\ steps[r] \in Seq(TranscriptStep)
  BY DEF AnalysisTypeOK
<1> DEFINE s == steps[r]
           e == Step(kind, keys)
           n == Len(s) + 1
<1>2. e \in TranscriptStep /\ e.kind = kind /\ e.keys = keys
  BY DEF Step, TranscriptStep
<1>3. /\ DOMAIN Append(s, e) = DOMAIN s \cup {n} /\ \A i \in DOMAIN s : Append(s, e)[i] = s[i]
      /\ Append(s, e)[n] = e /\ Len(Append(s, e)) = n
  BY <1>1, <1>2, Grown
<1>4. steps'[r] = Append(s, e) /\ \A q \in Runs : q # r => steps'[q] = steps[q]
  BY <1>1 DEF Record
<1> HIDE DEF s, e, n
<1>5. ASSUME NEW x \in InTranscript(r) PROVE x \in InTranscript(r)'
  <2>1. PICK i \in DOMAIN s : s[i].kind = "tool_result" /\ x \in s[i].keys
    BY DEF InTranscript, s
  <2>2. i \in DOMAIN steps'[r] /\ steps'[r][i] = s[i]
    BY <1>3, <1>4
  <2>3. QED BY <2>1, <2>2 DEF InTranscript
<1>6. ASSUME kind = "tool_result", NEW x \in keys PROVE x \in InTranscript(r)'
  <2>1. n \in DOMAIN steps'[r] /\ steps'[r][n].kind = "tool_result" /\ x \in steps'[r][n].keys
    BY <1>2, <1>3, <1>4, <1>6
  <2>2. QED BY <2>1 DEF InTranscript
<1>7. ASSUME NEW q \in Runs, q # r PROVE InTranscript(q)' = InTranscript(q)
  BY <1>4, <1>7 DEF InTranscript
<1>8. Last(steps'[r]).kind = kind
  BY <1>2, <1>3, <1>4 DEF Last
<1>9. QED BY <1>4, <1>5, <1>6, <1>7, <1>8

\* A step that stores nothing and only adds to transcripts.
LEMMA NothingStored ==
  ASSUME AnalysisTypeOK, StoredLast, ProposalsRestOnEvidence, NEW r \in Runs, stage[r] # "over",
         UNCHANGED recs,
         \A q \in Runs : InTranscript(q) \subseteq InTranscript(q)',
         \A q \in Runs : q # r => /\ steps'[q] = steps[q] /\ run'[q] = run[q]
                                  /\ stage'[q] = stage[q] /\ verified'[q] = verified[q],
         verified'[r] \subseteq InTranscript(r)',
         stage'[r] = "finished" => run'[r].status = "completed"
  PROVE  StoredLast' /\ ProposalsRestOnEvidence'
<1>1. recs[r] = <<>>
  BY DEF StoredLast
<1>2. StoredLast'
  BY <1>1 DEF StoredLast
<1>3. ASSUME NEW q \in Runs, NEW i \in DOMAIN recs[q]
      PROVE  /\ recs[q][i].evidence # {} /\ recs[q][i].evidence \subseteq InTranscript(q)'
             /\ run'[q].status = "completed" /\ Last(steps'[q]).kind = "evidence_check"
  <2>1. q # r
    BY <1>1
  <2>2. QED BY <2>1 DEF ProposalsRestOnEvidence
<1>4. QED BY <1>2, <1>3 DEF ProposalsRestOnEvidence

LEMMA EvidenceStep ==
  ASSUME AnalysisTypeOK, StoredLast, AboutProposals, ProposalsRestOnEvidence, AnalysisNext
  PROVE  StoredLast' /\ ProposalsRestOnEvidence'
<1>0. /\ run \in [Runs -> [status : {"none", "running", "completed", "failed"}, reason : Reasons]]
      /\ stage \in [Runs -> Active \cup {"none", "over"}]
      /\ verified \in [Runs -> SUBSET Keys] /\ {} \in SUBSET Keys
      /\ \A r \in Runs : verified[r] \subseteq InTranscript(r)
  BY DEF AnalysisTypeOK, StoredLast
<1>a. ASSUME UNCHANGED steps PROVE \A q \in Runs : InTranscript(q)' = InTranscript(q)
  BY <1>a DEF InTranscript
<1>1. ASSUME NEW r \in Runs, \/ Request(r) \/ GiveUp(r) \/ Conclude(r) \/ Unparseable(r)
      PROVE StoredLast' /\ ProposalsRestOnEvidence'
  <2>1. /\ stage[r] # "over" /\ UNCHANGED <<recs, steps, verified>>
        /\ \E to \in {"checking", "over", "finished"} : GoTo(r, to)
        /\ \E s, y : Stop(r, s, y)
        /\ Conclude(r) \/ stage'[r] # "finished"
    BY <1>0, <1>1 DEF Request, GiveUp, Conclude, Unparseable, GoTo, Stop
  <2>2. \A q \in Runs : q # r => run'[q] = run[q] /\ stage'[q] = stage[q]
    BY <2>1 DEF GoTo, Stop
  <2>3. stage'[r] = "finished" => run'[r].status = "completed"
    BY <1>0, <2>1 DEF Conclude, Stop
  <2>4. QED BY <1>0, <1>a, <2>1, <2>2, <2>3, NothingStored
<1>2. ASSUME NEW r \in Runs, Ask(r) PROVE StoredLast' /\ ProposalsRestOnEvidence'
  <2>1. /\ stage[r] # "over" /\ UNCHANGED <<recs, run, verified>>
        /\ GoTo(r, "answered") \/ GoTo(r, "calling")
        /\ Record(r, "model_message", {}) \/ UNCHANGED steps
    BY <1>2 DEF Ask
  <2>2. stage'[r] # "finished" /\ \A q \in Runs : q # r => stage'[q] = stage[q]
    BY <1>0, <2>1 DEF GoTo
  <2>3. /\ \A q \in Runs : InTranscript(q) \subseteq InTranscript(q)'
        /\ \A q \in Runs : q # r => steps'[q] = steps[q]
    BY <1>0, <1>a, <2>1, TranscriptGrows DEF Kinds
  <2>4. QED BY <1>0, <2>1, <2>2, <2>3, NothingStored
<1>3. ASSUME NEW r \in Runs, Call(r) PROVE StoredLast' /\ ProposalsRestOnEvidence'
  <2>1. /\ stage[r] # "over" /\ UNCHANGED <<recs, run, verified>>
        /\ GoTo(r, "called") /\ Record(r, "tool_call", {})
    BY <1>3 DEF Call
  <2>2. stage'[r] # "finished" /\ \A q \in Runs : q # r => stage'[q] = stage[q]
    BY <1>0, <2>1 DEF GoTo
  <2>3. /\ \A q \in Runs : InTranscript(q) \subseteq InTranscript(q)'
        /\ \A q \in Runs : q # r => steps'[q] = steps[q]
    BY <1>0, <2>1, TranscriptGrows DEF Kinds
  <2>4. QED BY <1>0, <2>1, <2>2, <2>3, NothingStored
<1>4. ASSUME NEW r \in Runs, Return(r) PROVE StoredLast' /\ ProposalsRestOnEvidence'
  <2>1. PICK keys \in SUBSET Keys : /\ Record(r, "tool_result", keys)
                                    /\ verified' = [verified EXCEPT ![r] = @ \cup keys]
    BY <1>4 DEF Return
  <2>2. /\ stage[r] # "over" /\ UNCHANGED <<recs, run>>
        /\ stage'[r] # "finished" /\ \A q \in Runs : q # r => stage'[q] = stage[q]
    BY <1>0, <1>4 DEF Return, GoTo
  <2>3. /\ \A q \in Runs : InTranscript(q) \subseteq InTranscript(q)'
        /\ \A q \in Runs : q # r => steps'[q] = steps[q]
        /\ keys \subseteq InTranscript(r)'
    BY <2>1, TranscriptGrows DEF Kinds
  <2>4. verified'[r] = verified[r] \cup keys /\ \A q \in Runs : q # r => verified'[q] = verified[q]
    BY <1>0, <2>1
  <2>5. verified'[r] \subseteq InTranscript(r)'
    BY <1>0, <2>3, <2>4
  <2>6. QED BY <2>2, <2>3, <2>4, <2>5, NothingStored
<1>5. ASSUME NEW r \in Runs, Store(r) PROVE StoredLast' /\ ProposalsRestOnEvidence'
  <2>1. PICK kept \in BoundedSeq(Evidence(r), MaxRecs) :
          recs' = [recs EXCEPT ![r] = [i \in DOMAIN kept |-> Proposal(kept[i])]]
    BY <1>5 DEF Store
  <2> DEFINE new == [i \in DOMAIN kept |-> Proposal(kept[i])]
  <2>2. \A i \in DOMAIN new : new[i].evidence # {} /\ new[i].evidence \subseteq verified[r]
    BY ZenonT(30), Proposals
  <2> HIDE DEF new
  <2>3. recs' = [recs EXCEPT ![r] = new]
    BY <2>1 DEF new
  <2>4. /\ stage[r] = "finished" /\ UNCHANGED <<run, verified>> /\ GoTo(r, "over")
        /\ Record(r, "evidence_check", verified[r])
    BY <1>5 DEF Store
  <2>5. /\ \A q \in Runs : InTranscript(q) \subseteq InTranscript(q)'
        /\ Last(steps'[r]).kind = "evidence_check"
        /\ \A q \in Runs : q # r => steps'[q] = steps[q]
    BY <1>0, <2>4, TranscriptGrows DEF Kinds
  <2>6. recs'[r] = new /\ \A q \in Runs : q # r => recs'[q] = recs[q] /\ stage'[q] = stage[q]
    BY <2>3, <2>4 DEF GoTo, AnalysisTypeOK
  <2>7. stage'[r] = "over" /\ run[r].status = "completed"
    BY <1>0, <2>4 DEF GoTo, StoredLast
  <2>8. StoredLast'
    BY <2>4, <2>5, <2>6, <2>7 DEF StoredLast
  <2>9. ASSUME NEW q \in Runs, NEW i \in DOMAIN recs'[q]
        PROVE  /\ recs'[q][i].evidence # {} /\ recs'[q][i].evidence \subseteq InTranscript(q)'
               /\ run'[q].status = "completed" /\ Last(steps'[q]).kind = "evidence_check"
    <3>1. CASE q = r
      BY <1>0, <2>2, <2>4, <2>5, <2>6, <2>7, <3>1
    <3>2. CASE q # r
      BY <2>4, <2>5, <2>6, <3>2 DEF ProposalsRestOnEvidence
    <3>3. QED BY <3>1, <3>2
  <2>10. QED BY <2>8, <2>9 DEF ProposalsRestOnEvidence
<1>6. ASSUME NEW r \in Runs, Abandon(r) PROVE StoredLast' /\ ProposalsRestOnEvidence'
  <2>1. /\ stage[r] # "over" /\ UNCHANGED <<recs, run, steps, verified>> /\ GoTo(r, "over")
    BY <1>6 DEF Abandon, Active
  <2>2. stage'[r] # "finished" /\ \A q \in Runs : q # r => stage'[q] = stage[q]
    BY <1>0, <2>1 DEF GoTo
  <2>3. QED BY <1>0, <1>a, <2>1, <2>2, NothingStored
<1>7. ASSUME NEW a \in Admins, Look(a) PROVE StoredLast' /\ ProposalsRestOnEvidence'
  <2>1. UNCHANGED requestVars
    BY <1>7 DEF Look
  <2>2. QED BY <1>a, <2>1 DEF requestVars, StoredLast, ProposalsRestOnEvidence
<1>8. ASSUME NEW a \in Admins, Decide(a) PROVE StoredLast' /\ ProposalsRestOnEvidence'
  <2>1. PICK d \in desk[a] : recs' = [recs EXCEPT ![d.run][d.ordinal].status = d.decision,
                                                  ![d.run][d.ordinal].by = a]
    BY <1>8 DEF Decide
  <2>2. d \in Choice /\ d.ordinal \in DOMAIN recs[d.run]
    <3>1. desk[a] \in {{}} \cup {{c} : c \in Choice}
      BY DEF AnalysisTypeOK
    <3>2. QED BY <2>1, <3>1 DEF AboutProposals
  <2>3. \A r \in Runs : /\ DOMAIN recs'[r] = DOMAIN recs[r] /\ Len(recs'[r]) = Len(recs[r])
                        /\ \A i \in DOMAIN recs[r] : recs'[r][i].evidence = recs[r][i].evidence
    BY <2>1, <2>2, Decided
  <2>4. UNCHANGED <<run, steps, stage, verified>>
    BY <1>8 DEF Decide
  <2>5. ASSUME NEW r \in Runs, recs[r] = <<>> PROVE recs'[r] = <<>>
    <3>1. d.run # r
      BY <2>2, <2>5
    <3>2. QED BY <2>1, <2>5, <3>1 DEF AnalysisTypeOK
  <2>6. StoredLast'
    BY <1>a, <2>4, <2>5 DEF StoredLast
  <2>7. ProposalsRestOnEvidence'
    BY <1>a, <2>3, <2>4 DEF ProposalsRestOnEvidence
  <2>8. QED BY <2>6, <2>7
<1>9. QED
  BY <1>1, <1>2, <1>3, <1>4, <1>5, <1>6, <1>7, <1>8 DEF AnalysisNext, Progress

LEMMA TrailStep ==
  ASSUME AnalysisTypeOK, StoredLast, AboutProposals, RowFollowsTrail, AnalysisNext
  PROVE  AboutProposals' /\ RowFollowsTrail'
<1>0. /\ recs \in [Runs -> Seq(Rec)] /\ trail \in Seq(Decision)
      /\ desk \in [Admins -> {{}} \cup {{c} : c \in Choice}]
      /\ \A r \in Runs : recs[r] \in Seq(Rec)
      /\ \A k \in DOMAIN trail : trail[k] \in Decision
  <2>1. recs \in [Runs -> Seq(Rec)]
    BY DEF AnalysisTypeOK
  <2>2. trail \in Seq(Decision)
    BY DEF AnalysisTypeOK
  <2>3. desk \in [Admins -> {{}} \cup {{c} : c \in Choice}]
    BY DEF AnalysisTypeOK
  <2>4. \A r \in Runs : recs[r] \in Seq(Rec)
    BY <2>1
  <2>5. \A k \in DOMAIN trail : trail[k] \in Decision
    BY <2>2
  <2>6. QED BY <2>1, <2>2, <2>3, <2>4, <2>5
<1>b. recs \in [Runs -> Seq(Rec)]
  BY <1>0
<1>a. \A r, i : UNCHANGED trail => Entries(r, i)' = Entries(r, i)
  BY DEF Entries
<1>1. CASE UNCHANGED <<recs, desk, trail>>
  BY <1>1, <1>a DEF AboutProposals, RowFollowsTrail
<1>2. ASSUME NEW r \in Runs, Store(r) PROVE AboutProposals' /\ RowFollowsTrail'
  <2>1. PICK kept \in BoundedSeq(Evidence(r), MaxRecs) :
          recs' = [recs EXCEPT ![r] = [i \in DOMAIN kept |-> Proposal(kept[i])]]
    BY <1>2 DEF Store
  <2> DEFINE new == [i \in DOMAIN kept |-> Proposal(kept[i])]
  <2>2. \A i \in DOMAIN new : new[i].status = "proposed"
    BY Proposals
  <2> HIDE DEF new
  <2>3. recs' = [recs EXCEPT ![r] = new]
    BY <2>1 DEF new
  <2>4. recs[r] = <<>> /\ UNCHANGED <<desk, trail>>
    BY <1>2 DEF Store, StoredLast
  <2>5. recs'[r] = new /\ \A q \in Runs : q # r => recs'[q] = recs[q]
    BY <1>b, <2>3
  <2>6. \A q \in Runs : \A i \in DOMAIN recs[q] : q # r
    BY <2>4
  <2>7. \A a \in Admins : \A d \in desk[a] : d.run \in Runs
    <3> SUFFICES ASSUME NEW a \in Admins, NEW d \in desk[a] PROVE d.run \in Runs
      OBVIOUS
    <3>1. desk[a] \in {{}} \cup {{c} : c \in Choice}
      BY <1>0
    <3>2. QED BY <3>1 DEF Choice
  <2>8. AboutProposals'
    BY <1>0, <2>4, <2>5, <2>6, <2>7 DEF AboutProposals, Decision
  <2>9. \A i : Entries(r, i) = {}
    BY <1>0, <2>6 DEF Entries, AboutProposals, Decision
  <2>10. RowFollowsTrail'
    <3> SUFFICES ASSUME NEW q \in Runs, NEW i \in DOMAIN recs'[q]
                 PROVE  IF Entries(q, i) = {} THEN recs'[q][i].status = "proposed"
                        ELSE \E k \in Entries(q, i) : /\ \A j \in Entries(q, i) : j <= k
                                                      /\ recs'[q][i].status = trail[k].decision
                                                      /\ recs'[q][i].by = trail[k].by
      BY <1>a, <2>4 DEF RowFollowsTrail
    <3>1. CASE q = r
      BY <2>2, <2>5, <2>9, <3>1
    <3>2. CASE q # r
      BY <2>5, <3>2 DEF RowFollowsTrail
    <3>3. QED BY <3>1, <3>2
  <2>11. QED BY <2>8, <2>10
<1>3. ASSUME NEW a \in Admins, Look(a) PROVE AboutProposals' /\ RowFollowsTrail'
  <2>1. UNCHANGED <<recs, trail>>
    BY <1>3 DEF Look, requestVars
  <2>2. PICK r \in Runs, decision \in Decisions :
          \E i \in DOMAIN recs[r] :
            desk' = [desk EXCEPT ![a] = {[run |-> r, ordinal |-> i, decision |-> decision]}]
    BY <1>3 DEF Look
  <2>3. PICK i \in DOMAIN recs[r] :
          desk' = [desk EXCEPT ![a] = {[run |-> r, ordinal |-> i, decision |-> decision]}]
    BY <2>2
  <2>4. \A b \in Admins : \A d \in desk'[b] : d \in desk[b] \/ (d.run = r /\ d.ordinal = i)
    BY <1>0, <2>3
  <2>5. QED BY <1>a, <2>1, <2>4 DEF AboutProposals, RowFollowsTrail
<1>4. ASSUME NEW a \in Admins, Decide(a) PROVE AboutProposals' /\ RowFollowsTrail'
  <2>1. PICK d \in desk[a] :
          /\ recs' = [recs EXCEPT ![d.run][d.ordinal].status = d.decision,
                                  ![d.run][d.ordinal].by = a]
          /\ trail' = Append(trail, [run |-> d.run, ordinal |-> d.ordinal,
                                     by |-> a, decision |-> d.decision])
    BY <1>4 DEF Decide
  <2> DEFINE e == [run |-> d.run, ordinal |-> d.ordinal, by |-> a, decision |-> d.decision]
             n == Len(trail) + 1
  <2>2. d \in Choice /\ d.ordinal \in DOMAIN recs[d.run] /\ d.run \in Runs
    <3>1. desk[a] \in {{}} \cup {{c} : c \in Choice}
      BY <1>0
    <3>2. QED BY <2>1, <3>1 DEF AboutProposals, Choice
  <2>3. \A r \in Runs : /\ DOMAIN recs'[r] = DOMAIN recs[r]
                        /\ \A i \in DOMAIN recs[r] :
                             IF r = d.run /\ i = d.ordinal
                             THEN recs'[r][i].status = d.decision /\ recs'[r][i].by = a
                             ELSE recs'[r][i] = recs[r][i]
    BY <2>1, <2>2, Decided
  <2>4. e \in Decision
    BY <2>2 DEF Choice, Decision
  <2>5. /\ DOMAIN trail' = DOMAIN trail \cup {n} /\ DOMAIN trail = 1..Len(trail) /\ Len(trail) \in Nat
        /\ \A k \in DOMAIN trail : trail'[k] = trail[k]
        /\ trail'[n] = e
    BY <1>0, <2>1, <2>4, Grown
  <2>6. desk' = [desk EXCEPT ![a] = {}]
    BY <1>4 DEF Decide
  <2>7. e.run = d.run /\ e.ordinal = d.ordinal /\ e.by = a /\ e.decision = d.decision
    OBVIOUS
  <2> HIDE DEF e
  <2>8. AboutProposals'
    <3>1. \A b \in Admins : \A c \in desk'[b] : c \in desk[b] /\ c.run \in Runs
      <4> SUFFICES ASSUME NEW b \in Admins, NEW c \in desk'[b] PROVE c \in desk[b] /\ c.run \in Runs
        OBVIOUS
      <4>1. c \in desk[b] /\ desk[b] \in {{}} \cup {{x} : x \in Choice}
        BY <1>0, <2>6
      <4>2. QED BY <4>1 DEF Choice
    <3>2. \A k \in DOMAIN trail : trail[k].run \in Runs
      BY <1>0 DEF Decision
    <3>3. QED BY <2>2, <2>3, <2>5, <2>7, <3>1, <3>2 DEF AboutProposals
  <2>9. ASSUME NEW r \in Runs, NEW i \in DOMAIN recs[r]
        PROVE  IF r = d.run /\ i = d.ordinal
               THEN n \in Entries(r, i)' /\ \A k \in Entries(r, i)' : k <= n
               ELSE Entries(r, i)' = Entries(r, i)
    BY <2>5, <2>7 DEF Entries
  <2>10. RowFollowsTrail'
    <3> SUFFICES ASSUME NEW r \in Runs, NEW i \in DOMAIN recs'[r]
                 PROVE  IF Entries(r, i)' = {} THEN recs'[r][i].status = "proposed"
                        ELSE \E k \in Entries(r, i)' : /\ \A j \in Entries(r, i)' : j <= k
                                                       /\ recs'[r][i].status = trail'[k].decision
                                                       /\ recs'[r][i].by = trail'[k].by
      BY DEF RowFollowsTrail
    <3>0. i \in DOMAIN recs[r]
      BY <2>3
    <3>1. CASE r = d.run /\ i = d.ordinal
      <4>1. n \in Entries(r, i)' /\ \A k \in Entries(r, i)' : k <= n
        BY <2>9, <3>0, <3>1
      <4>2. recs'[r][i].status = d.decision /\ recs'[r][i].by = a
        BY <2>3, <3>0, <3>1
      <4>3. trail'[n].decision = d.decision /\ trail'[n].by = a
        BY <2>5, <2>7
      <4>4. QED BY <4>1, <4>2, <4>3
    <3>2. CASE ~(r = d.run /\ i = d.ordinal)
      <4>1. Entries(r, i)' = Entries(r, i) /\ recs'[r][i] = recs[r][i]
        BY <2>3, <2>9, <3>0, <3>2
      <4>2. \A k \in Entries(r, i) : trail'[k] = trail[k]
        BY <2>5 DEF Entries
      <4>3. QED BY <3>0, <4>1, <4>2 DEF RowFollowsTrail
    <3>3. QED BY <3>1, <3>2
  <2>11. QED BY <2>8, <2>10
<1>5. ASSUME NEW r \in Runs, \/ Request(r) \/ GiveUp(r) \/ Ask(r) \/ Call(r) \/ Return(r)
                             \/ Conclude(r) \/ Unparseable(r) \/ Abandon(r)
      PROVE UNCHANGED <<recs, desk, trail>>
  BY <1>5 DEF Request, GiveUp, Ask, Call, Return, Conclude, Unparseable, Abandon
<1>6. QED BY <1>1, <1>2, <1>3, <1>4, <1>5 DEF AnalysisNext, Progress

LEMMA AnalysisInvariance == AnalysisSpec => []AnalysisInv
<1>1. AnalysisInit => AnalysisInv
  <2> SUFFICES ASSUME AnalysisInit PROVE AnalysisInv
    OBVIOUS
  <2>0. /\ \A r \in Runs : recs[r] = <<>> /\ stage[r] = "none" /\ verified[r] = {}
        /\ \A a \in Admins : desk[a] = {}
        /\ DOMAIN trail = {}
    BY DEF AnalysisInit
  <2>1. AnalysisTypeOK
    BY StepsAssumption DEF AnalysisInit, AnalysisTypeOK, Reasons, Active
  <2>2. CallsLeft /\ StoredLast /\ AboutProposals
    BY <2>0 DEF CallsLeft, StoredLast, AboutProposals
  <2>3. ProposalsRestOnEvidence /\ RowFollowsTrail
    BY <2>0 DEF ProposalsRestOnEvidence, RowFollowsTrail
  <2>4. QED BY <2>1, <2>2, <2>3 DEF AnalysisInv
<1>2. AnalysisInv /\ [AnalysisNext]_analysisVars => AnalysisInv'
  <2> SUFFICES ASSUME AnalysisInv, [AnalysisNext]_analysisVars PROVE AnalysisInv'
    OBVIOUS
  <2> USE DEF AnalysisInv
  <2>1. CASE AnalysisNext
    BY <2>1, AnalysisTypesStep, CallsLeftStep, EvidenceStep, TrailStep
  <2>2. CASE UNCHANGED analysisVars
    <3>1. UNCHANGED <<run, steps, recs, stage, turns, calls, verified, desk, trail>>
      BY <2>2 DEF analysisVars, requestVars
    <3>2. /\ \A r : InTranscript(r)' = InTranscript(r)
          /\ \A r, i : Entries(r, i)' = Entries(r, i)
      BY <3>1 DEF InTranscript, Entries
    <3>3. AnalysisTypeOK'
      BY <3>1 DEF AnalysisTypeOK
    <3>4. CallsLeft' /\ StoredLast' /\ AboutProposals'
      <4>1. CallsLeft'
        BY <3>1 DEF CallsLeft
      <4>2. StoredLast'
        BY <3>1, <3>2 DEF StoredLast
      <4>3. AboutProposals'
        BY <3>1 DEF AboutProposals
      <4>4. QED BY <4>1, <4>2, <4>3
    <3>5. ProposalsRestOnEvidence'
      BY <3>1, <3>2 DEF ProposalsRestOnEvidence
    <3>6. RowFollowsTrail'
      BY <3>1, <3>2 DEF RowFollowsTrail
    <3>7. QED BY <3>3, <3>4, <3>5, <3>6
  <2>3. QED BY <2>1, <2>2
<1>3. QED BY <1>1, <1>2, PTL DEF AnalysisSpec

(***************************************************************************)
(* For any number of runs, tools and recommendations, and any failures     *)
(* between two commits: _store_recommendations stores nothing but what the *)
(* transcript bears out, and only of a run whose evidence was checked.     *)
(***************************************************************************)
THEOREM ProposalsRestOnEvidenceHolds == AnalysisSpec => []ProposalsRestOnEvidence
<1>1. AnalysisInv => ProposalsRestOnEvidence
  BY DEF AnalysisInv
<1>2. QED BY <1>1, AnalysisInvariance, PTL

(***************************************************************************)
(* For any number of admins who decide at once, each on what it has read:  *)
(* the row decide leaves is the one its last audit record tells of.        *)
(***************************************************************************)
THEOREM RowFollowsTrailHolds == AnalysisSpec => []RowFollowsTrail
<1>1. AnalysisInv => RowFollowsTrail
  BY DEF AnalysisInv
<1>2. QED BY <1>1, AnalysisInvariance, PTL

----------------------------------------------------------------------------
(***************************************************************************)
(* The spend of a day.                                                     *)
(***************************************************************************)

(***************************************************************************)
(* What a client will have charged today once its call is answered, at     *)
(* most; what the rows of a day hold, committed or not.                    *)
(***************************************************************************)
InFlight(c) == standing[c] \in {"calling", "charging"}
Coming(c) == IF standing[c] = "calling" THEN OneCall ELSE due[c]
Comings == [c \in Clients |-> Coming(c)]
OwnOf(d) == [c \in Clients |-> own[c][d]]
Taken(d) == spent[d] + SumOf(OwnOf(d))
Unrecordeds == [c \in Clients |-> Unrecorded(c)]

\* Only what has been answered and not charged is due, and it is one call's.
DuesAreCharged ==
  \A c \in Clients : due[c] <= OneCall /\ (due[c] # 0 => standing[c] = "charging")

\* The lock of a day's row, and no row for a day to come.
OneHolds == \A d \in 1..Days : \A c, e \in Clients : c # e => own[c][d] = 0 \/ own[e][d] = 0
NothingYet == \A d \in 1..Days : d > today => spent[d] = 0 /\ \A c \in Clients : own[c][d] = 0

\* Whoever holds the row of today saw everything when it asked, so it exceeds
\* the cap by its own last call only.
HolderAsked ==
  \A c \in Clients : own[c][today] # 0 =>
    IF InFlight(c) THEN spent[today] + own[c][today] < Cap
    ELSE own[c][today] <= OneCall \/ spent[today] + own[c][today] < Cap + OneCall

\* Nobody makes a call under a cap of nothing.
AskedUnderACap == \A c \in Clients : InFlight(c) => Cap > 0

\* What is there and what is coming leaves every other client one call.
WithinSlack ==
  /\ Taken(today) + SumOf(Comings) < Cap + Slack
  /\ \A d \in 1..Days : d < today => Taken(d) < Cap + Slack

SpendInv == /\ DuesAreCharged /\ OneHolds /\ NothingYet /\ HolderAsked /\ AskedUnderACap
            /\ WithinSlack

----------------------------------------------------------------------------
(***************************************************************************)
(* What a call costs has a greatest value, and the slack is a call of each.*)
(***************************************************************************)
LEMMA Amounts ==
  /\ OneCall \in Nat /\ OneCall > 0 /\ \A n \in Usages \cup Estimates : n \in Nat /\ n <= OneCall
  /\ Slack = Cardinality(Clients) * OneCall /\ Slack \in Nat /\ Slack >= OneCall
  /\ Cap \in Nat /\ IsFiniteSet(Clients) /\ IsFiniteSet(1..Days) /\ Days \in Nat \ {0}
<1> DEFINE S == Usages \cup Estimates
<1>1. /\ IsFiniteSet(S) /\ S # {} /\ S \subseteq Nat /\ Cap \in Nat /\ IsFiniteSet(Clients)
      /\ Clients # {} /\ Days \in Nat \ {0}
  BY AmountsAssumption
<1>2. \E x \in S : \A y \in S : x >= y
  BY <1>1, GreatestExists
<1>3. OneCall \in S /\ \A y \in S : OneCall >= y
  BY <1>2 DEF OneCall, Max
<1>4. PICK e \in Estimates : e \in Nat \ {0}
  BY AmountsAssumption
<1>5. OneCall \in Nat /\ OneCall > 0 /\ \A n \in S : n \in Nat /\ n <= OneCall
  BY <1>1, <1>3, <1>4
<1>6. Cardinality(Clients) \in Nat /\ Cardinality(Clients) # 0
  BY <1>1, FS_CardinalityType, FS_EmptySet
<1>7. IsFiniteSet(1..Days)
  BY <1>1, FS_Interval
<1>8. PICK k, n : k = OneCall /\ n = Cardinality(Clients)
  OBVIOUS
<1>9. k \in Nat /\ n \in Nat /\ n >= 1
  BY <1>5, <1>6, <1>8
<1>10. n * k \in Nat /\ (n - 1) * k \in Nat /\ n * k = (n - 1) * k + k
  BY <1>9
<1>11. Slack = n * k
  BY <1>8 DEF Slack
<1>12. Slack \in Nat /\ Slack >= k
  BY <1>9, <1>10, <1>11
<1> QED  BY <1>1, <1>5, <1>7, <1>8, <1>11, <1>12

----------------------------------------------------------------------------
(***************************************************************************)
(* Every step leaves amounts amounts.                                      *)
(***************************************************************************)
LEMMA ClientTyped ==
  ASSUME SpendTypeOK, DuesAreCharged, NEW c \in Clients
  PROVE  /\ standing[c] \in ClientPhases /\ estimate[c] \in Estimates \cup {0} /\ due[c] \in Nat
         /\ own[c] \in [1..Days -> Nat] /\ made[c] \in 0..RunCalls /\ reserved[c] \in 0..RunTokens
         /\ Recorded(c) \in [1..Days -> Nat] /\ Unrecorded(c) \in Nat /\ SumOf(own[c]) \in Nat
         /\ Coming(c) \in Nat /\ Coming(c) <= OneCall
<1>1. /\ standing[c] \in ClientPhases /\ estimate[c] \in Estimates \cup {0} /\ due[c] \in Nat
      /\ own[c] \in [1..Days -> Nat] /\ made[c] \in 0..RunCalls /\ reserved[c] \in 0..RunTokens
  BY DEF SpendTypeOK
<1>2. Recorded(c) \in [1..Days -> Nat]
  BY <1>1 DEF Recorded, SpendTypeOK
<1>3. SumOf(own[c]) \in Nat
  BY <1>1, Amounts, SumIsNumber
<1>4. Coming(c) \in Nat /\ Coming(c) <= OneCall
  BY <1>1, Amounts DEF Coming, DuesAreCharged
<1> QED  BY <1>1, <1>2, <1>3, <1>4 DEF Unrecorded

LEMMA NothingAddedTyped == NothingAdded \in [1..Days -> Nat] /\ SumOf(NothingAdded) = 0
<1>1. NothingAdded \in [1..Days -> Nat] /\ \A d \in 1..Days : NothingAdded[d] <= 0
  BY DEF NothingAdded
<1>2. PICK n : n = Cardinality(1..Days)
  OBVIOUS
<1>3. n \in Nat /\ n * 0 = 0
  BY <1>2, Amounts, FS_CardinalityType
<1>4. SumOf(NothingAdded) <= n * 0
  BY <1>1, <1>2, Amounts, SumIsBounded
<1>5. SumOf(NothingAdded) \in Nat
  BY <1>1, Amounts, SumIsNumber
<1> QED  BY <1>1, <1>3, <1>4, <1>5

LEMMA SpendTyped ==
  ASSUME SpendTypeOK, DuesAreCharged, SpendNext
  PROVE  SpendTypeOK'
<1>1. CASE Midnight
  <2>1. today' \in 1..Days
    BY <1>1, Amounts DEF Midnight, SpendTypeOK
  <2> QED  BY <1>1, <2>1 DEF Midnight, SpendTypeOK
<1>2. ASSUME NEW c \in Clients, SpendStep(c) \/ FailCall(c) PROVE SpendTypeOK'
  <2>1. /\ "idle" \in ClientPhases /\ "open" \in ClientPhases /\ "calling" \in ClientPhases
        /\ "charging" \in ClientPhases /\ "charged" \in ClientPhases
    BY DEF ClientPhases
  <2>2. /\ 0 \in 0..RunCalls /\ 0 \in 0..RunTokens /\ RunCalls \in Nat /\ RunTokens \in Nat
        /\ NothingAdded \in [1..Days -> Nat] /\ Recorded(c) \in [1..Days -> Nat]
    BY NothingAddedTyped, ClientTyped, AmountsAssumption
  <2>3. CASE Begin(c)
    BY <2>1, <2>3 DEF Begin, SpendTypeOK
  <2>4. CASE AskBudget(c)
    <3>1. PICK tokens \in Estimates :
            /\ RunAllows(c, tokens)
            /\ estimate' = [estimate EXCEPT ![c] = tokens]
            /\ reserved' = [reserved EXCEPT ![c] = IF c \in Enrichers THEN @ + tokens ELSE 0]
      BY <2>4 DEF AskBudget
    <3>2. made[c] \in Nat /\ reserved[c] \in Nat /\ tokens \in Nat
      BY <2>2, ClientTyped, Amounts
    <3>3. PICK m, n : m = made[c] + 1 /\ n = IF c \in Enrichers THEN reserved[c] + tokens ELSE 0
      OBVIOUS
    <3>4. m \in 0..RunCalls /\ n \in 0..RunTokens
      BY <2>2, <3>1, <3>2, <3>3 DEF RunAllows
    <3>5. made' \in [Clients -> 0..RunCalls]
      BY <2>4, <3>3, <3>4 DEF AskBudget, SpendTypeOK
    <3>6. reserved' \in [Clients -> 0..RunTokens]
      BY <3>1, <3>3, <3>4 DEF SpendTypeOK
    <3>7. estimate' \in [Clients -> Estimates \cup {0}] /\ standing' \in [Clients -> ClientPhases]
      BY <2>1, <2>4, <3>1 DEF AskBudget, SpendTypeOK
    <3> QED  BY <2>4, <3>5, <3>6, <3>7 DEF AskBudget, SpendTypeOK
  <2>5. CASE Answer(c)
    <3>1. PICK used \in IF c \in Embedders THEN {estimate[c]} ELSE Usages :
            due' = [due EXCEPT ![c] = used] /\ billed' = billed + used
      BY <2>5 DEF Answer
    <3>2. used \in Nat
      BY ClientTyped, Amounts
    <3>3. due' \in [Clients -> Nat] /\ billed' \in Nat /\ standing' \in [Clients -> ClientPhases]
      BY <2>1, <2>5, <3>1, <3>2 DEF Answer, SpendTypeOK
    <3> QED  BY <2>5, <3>3 DEF Answer, SpendTypeOK
  <2>6. CASE Charge(c)
    <3>1. PICK n : n = own[c][today] + due[c]
      OBVIOUS
    <3>2. n \in Nat
      <4>1. own[c] \in [1..Days -> Nat] /\ due[c] \in Nat /\ today \in 1..Days
        BY ClientTyped DEF SpendTypeOK
      <4>2. PICK o, u : o = own[c] /\ u = due[c]
        OBVIOUS
      <4>3. o[today] \in Nat
        BY <4>1, <4>2
      <4> QED  BY <3>1, <4>1, <4>2, <4>3
    <3>3. own' \in [Clients -> [1..Days -> Nat]]
      BY <2>6, <3>1, <3>2 DEF Charge, SpendTypeOK
    <3>4. due' \in [Clients -> Nat] /\ standing' \in [Clients -> ClientPhases]
      BY <2>1, <2>6 DEF Charge, SpendTypeOK
    <3> QED  BY <2>6, <3>3, <3>4 DEF Charge, SpendTypeOK
  <2>7. CASE Proceed(c)
    BY <2>1, <2>2, <2>7 DEF Proceed, SpendTypeOK
  <2>8. CASE FinishRun(c)
    BY <2>1, <2>2, <2>8 DEF FinishRun, Over, SpendTypeOK
  <2>9. CASE FailCall(c)
    <3>1. lost' \in Nat
      BY <2>9, ClientTyped DEF FailCall, SpendTypeOK
    <3> QED  BY <2>1, <2>2, <2>9, <3>1 DEF FailCall, Over, SpendTypeOK
  <2> QED  BY <1>2, <2>3, <2>4, <2>5, <2>6, <2>7, <2>8, <2>9 DEF SpendStep
<1> QED  BY <1>1, <1>2 DEF SpendNext

(***************************************************************************)
(* Only what has been answered is due, and it is the cost of one call.     *)
(***************************************************************************)
LEMMA DuesStayCharged ==
  ASSUME SpendTypeOK, DuesAreCharged, SpendNext
  PROVE  DuesAreCharged'
<1>1. CASE Midnight
  BY <1>1 DEF Midnight, DuesAreCharged
<1>2. ASSUME NEW c \in Clients, SpendStep(c) \/ FailCall(c) PROVE DuesAreCharged'
  <2>1. /\ OneCall \in Nat /\ 0 <= OneCall /\ due \in [Clients -> Nat]
        /\ standing \in [Clients -> ClientPhases]
    BY Amounts DEF SpendTypeOK
  <2>2. CASE Begin(c) \/ AskBudget(c) \/ Proceed(c)
    BY <2>1, <2>2 DEF Begin, AskBudget, Proceed, DuesAreCharged
  <2>3. CASE Answer(c)
    <3>1. PICK used \in IF c \in Embedders THEN {estimate[c]} ELSE Usages :
            due' = [due EXCEPT ![c] = used]
      BY <2>3 DEF Answer
    <3>2. used \in Nat /\ used <= OneCall
      BY <2>1, ClientTyped, Amounts
    <3> QED  BY <2>1, <2>3, <3>1, <3>2 DEF Answer, DuesAreCharged
  <2>4. CASE Charge(c)
    BY <2>1, <2>4 DEF Charge, DuesAreCharged
  <2>5. CASE FinishRun(c) \/ FailCall(c)
    BY <2>1, <2>5 DEF FinishRun, FailCall, Over, DuesAreCharged
  <2> QED  BY <1>2, <2>2, <2>3, <2>4, <2>5 DEF SpendStep
<1> QED  BY <1>1, <1>2 DEF SpendNext

----------------------------------------------------------------------------
(***************************************************************************)
(* The sums, when a step changes what is of one client.                    *)
(***************************************************************************)
LEMMA SumsTyped ==
  ASSUME SpendTypeOK, DuesAreCharged
  PROVE  /\ Comings \in [Clients -> Nat] /\ SumOf(Comings) \in Nat
         /\ Unrecordeds \in [Clients -> Nat] /\ SumOf(Unrecordeds) \in Nat
         /\ \A d \in 1..Days : /\ OwnOf(d) \in [Clients -> Nat] /\ SumOf(OwnOf(d)) \in Nat
                               /\ Taken(d) \in Nat /\ spent[d] \in Nat
<1>1. Comings \in [Clients -> Nat] /\ Unrecordeds \in [Clients -> Nat]
  BY ClientTyped DEF Comings, Unrecordeds
<1>2. ASSUME NEW d \in 1..Days PROVE OwnOf(d) \in [Clients -> Nat] /\ spent[d] \in Nat
  BY DEF OwnOf, SpendTypeOK
<1>3. ASSUME NEW d \in 1..Days PROVE SumOf(OwnOf(d)) \in Nat
  BY <1>2, Amounts, SumIsNumber
<1>4. SumOf(Comings) \in Nat /\ SumOf(Unrecordeds) \in Nat
  BY <1>1, Amounts, SumIsNumber
<1> QED  BY <1>1, <1>2, <1>3, <1>4 DEF Taken

OthersKeep(c) == \A e \in Clients \ {c} : /\ own'[e] = own[e] /\ due'[e] = due[e]
                                          /\ standing'[e] = standing[e]

LEMMA SumsOfOne ==
  ASSUME SpendTypeOK, DuesAreCharged, SpendTypeOK', DuesAreCharged',
         NEW c \in Clients, OthersKeep(c)
  PROVE  /\ SumOf(Comings)' + Coming(c) = SumOf(Comings) + Coming(c)'
         /\ SumOf(Unrecordeds)' + Unrecorded(c) = SumOf(Unrecordeds) + Unrecorded(c)'
         /\ \A d \in 1..Days : SumOf(OwnOf(d))' + own[c][d] = SumOf(OwnOf(d)) + own'[c][d]
<1>1. PICK C, D, U, V : C = Comings /\ D = Comings' /\ U = Unrecordeds /\ V = Unrecordeds'
  OBVIOUS
<1>2. C \in [Clients -> Nat] /\ D \in [Clients -> Nat] /\ U \in [Clients -> Nat] /\ V \in [Clients -> Nat]
  <2>1. Comings' \in [Clients -> Nat] /\ Unrecordeds' \in [Clients -> Nat]
    <3>1. ASSUME NEW e \in Clients
          PROVE  due'[e] \in Nat /\ SumOf(own'[e]) \in Nat
      <4>1. due'[e] \in Nat /\ own'[e] \in [1..Days -> Nat]
        BY DEF SpendTypeOK
      <4> QED  BY <4>1, Amounts, SumIsNumber
    <3> QED  BY <3>1, Amounts DEF Comings, Unrecordeds, Coming, Unrecorded
  <2> QED  BY <1>1, <2>1, SumsTyped
<1>3. /\ C[c] = Coming(c) /\ D[c] = Coming(c)' /\ U[c] = Unrecorded(c) /\ V[c] = Unrecorded(c)'
      /\ \A e \in Clients \ {c} : D[e] = C[e] /\ V[e] = U[e]
  BY <1>1 DEF Comings, Unrecordeds, Coming, Unrecorded, OthersKeep
<1>4. SumOf(D) + C[c] = SumOf(C) + D[c] /\ SumOf(V) + U[c] = SumOf(U) + V[c]
  <2>1. IsFiniteSet(Clients)
    BY Amounts
  <2>2. SumOf(D) + C[c] = SumOf(C) + D[c]
    BY <1>2, <1>3, <2>1, SumChanges
  <2>3. SumOf(V) + U[c] = SumOf(U) + V[c]
    BY <1>2, <1>3, <2>1, SumChanges
  <2> QED  BY <2>2, <2>3
<1>5. ASSUME NEW d \in 1..Days PROVE SumOf(OwnOf(d))' + own[c][d] = SumOf(OwnOf(d)) + own'[c][d]
  <2>1. PICK F, G : F = OwnOf(d) /\ G = OwnOf(d)'
    OBVIOUS
  <2>2. F \in [Clients -> Nat] /\ G \in [Clients -> Nat]
    BY ZenonT(30), <2>1 DEF OwnOf, SpendTypeOK
  <2>3. F[c] = own[c][d] /\ G[c] = own'[c][d] /\ \A e \in Clients \ {c} : G[e] = F[e]
    BY <2>1 DEF OwnOf, OthersKeep
  <2>4. SumOf(G) + F[c] = SumOf(F) + G[c]
    BY <2>2, <2>3, Amounts, SumChanges
  <2> QED  BY <2>1, <2>3, <2>4
<1> QED  BY <1>1, <1>3, <1>4, <1>5

(***************************************************************************)
(* A step of a client is of that client alone.                             *)
(***************************************************************************)
LEMMA OneAtATime ==
  ASSUME SpendTypeOK, NEW c \in Clients, SpendStep(c) \/ FailCall(c)
  PROVE  OthersKeep(c) /\ today' = today
<1>1. /\ own \in [Clients -> [1..Days -> Nat]] /\ due \in [Clients -> Nat]
      /\ standing \in [Clients -> ClientPhases]
  BY DEF SpendTypeOK
<1>2. CASE Begin(c) \/ AskBudget(c) \/ Answer(c)
  BY <1>1, <1>2 DEF Begin, AskBudget, Answer, OthersKeep
<1>3. CASE Charge(c) \/ Proceed(c)
  BY <1>1, <1>3 DEF Charge, Proceed, OthersKeep
<1>4. CASE FinishRun(c) \/ FailCall(c)
  BY <1>1, <1>4 DEF FinishRun, FailCall, Over, OthersKeep
<1> QED  BY <1>2, <1>3, <1>4 DEF SpendStep

\* What a commit of c leaves: its amounts in the rows.
Commits(c) == /\ spent' = Recorded(c) /\ own'[c] = NothingAdded /\ due'[c] = due[c]
              /\ billed' = billed /\ lost' = lost

\* What a rollback of c leaves: nothing of it.
RollsBack(c) == /\ spent' = spent /\ own'[c] = NothingAdded /\ due'[c] = 0
                /\ billed' = billed /\ lost' = lost + Unrecorded(c)

Charges(c) == /\ spent' = spent /\ due'[c] = 0 /\ billed' = billed /\ lost' = lost
              /\ own'[c] = [own[c] EXCEPT ![today] = @ + due[c]]
              /\ (due[c] > 0 => RowFree(c))
              /\ standing[c] = "charging" /\ standing'[c] = "charged"

Answers(c, used) == /\ spent' = spent /\ own'[c] = own[c] /\ due[c] = 0 /\ due'[c] = used
                    /\ billed' = billed + used /\ lost' = lost
                    /\ standing[c] = "calling" /\ standing'[c] = "charging"

Asks(c) == /\ spent' = spent /\ own'[c] = own[c] /\ due'[c] = due[c] /\ due[c] = 0
           /\ billed' = billed /\ lost' = lost
           /\ standing[c] = "open" /\ standing'[c] = "calling"
           /\ spent[today] + own[c][today] < Cap

GoesOn(c) == /\ spent' = spent /\ own'[c] = own[c] /\ due'[c] = due[c]
             /\ billed' = billed /\ lost' = lost
             /\ ~InFlight(c) /\ ~InFlight(c)'

LEMMA StepEffect ==
  ASSUME SpendTypeOK, DuesAreCharged, NEW c \in Clients, SpendStep(c) \/ FailCall(c)
  PROVE  \/ GoesOn(c) \/ Asks(c) \/ Charges(c) \/ (RollsBack(c) /\ ~InFlight(c)')
         \/ (Commits(c) /\ ~InFlight(c) /\ ~InFlight(c)')
         \/ \E used \in 0..OneCall : Answers(c, used)
<1>1. /\ own \in [Clients -> [1..Days -> Nat]] /\ due \in [Clients -> Nat]
      /\ standing \in [Clients -> ClientPhases] /\ estimate \in [Clients -> Estimates \cup {0}]
      /\ spent \in [1..Days -> Nat] /\ today \in 1..Days
  BY DEF SpendTypeOK
<1>2. standing[c] # "charging" => due[c] = 0
  BY DEF DuesAreCharged
<1>3. CASE Begin(c)
  BY <1>1, <1>3 DEF Begin, GoesOn, InFlight
<1>4. CASE AskBudget(c)
  <2>1. PICK tokens \in Estimates : tokens <= Remaining(c)
    BY <1>4 DEF AskBudget
  <2>2. PICK u : u = spent[today] + own[c][today]
    OBVIOUS
  <2>3. u \in Nat /\ tokens \in Nat \ {0} /\ Cap \in Nat
    <3>1. PICK o : o = own[c]
      OBVIOUS
    <3>2. o[today] \in Nat /\ spent[today] \in Nat
      BY <1>1, <3>1
    <3> QED  BY <2>2, <3>1, <3>2, AmountsAssumption
  <2>4. u < Cap
    BY <2>1, <2>2, <2>3 DEF Remaining
  <2> QED  BY <1>1, <1>2, <1>4, <2>2, <2>4 DEF AskBudget, Asks
<1>5. CASE Answer(c)
  <2>1. PICK used \in IF c \in Embedders THEN {estimate[c]} ELSE Usages :
          due' = [due EXCEPT ![c] = used] /\ billed' = billed + used
    BY <1>5 DEF Answer
  <2>2. used \in 0..OneCall
    BY <1>1, <2>1, Amounts
  <2> QED  BY <1>1, <1>2, <1>5, <2>1, <2>2 DEF Answer, Answers
<1>6. CASE Charge(c)
  BY <1>1, <1>6 DEF Charge, Charges
<1>7. CASE Proceed(c)
  BY <1>1, <1>7 DEF Proceed, Commits, GoesOn, InFlight
<1>8. CASE FinishRun(c)
  BY <1>1, <1>2, <1>8 DEF FinishRun, Over, Commits, InFlight
<1>9. CASE FailCall(c)
  BY <1>1, <1>9 DEF FailCall, Over, RollsBack, InFlight
<1> QED  BY <1>3, <1>4, <1>5, <1>6, <1>7, <1>8, <1>9 DEF SpendStep

----------------------------------------------------------------------------
(***************************************************************************)
(* No charge is lost but by a rollback.                                    *)
(***************************************************************************)
LEMMA NothingIsLost ==
  ASSUME SpendTypeOK, DuesAreCharged, NothingElseIsLost, SpendNext, SpendTypeOK', DuesAreCharged'
  PROVE  NothingElseIsLost'
<1>0. /\ billed = SumOf(spent) + lost + SumOf(Unrecordeds)
      /\ SumOf(spent) \in Nat /\ lost \in Nat /\ billed \in Nat /\ SumOf(Unrecordeds) \in Nat
  BY SumsTyped, Amounts, SumIsNumber DEF NothingElseIsLost, Unrecordeds, SpendTypeOK
<1> SUFFICES billed' = SumOf(spent)' + lost' + SumOf(Unrecordeds)'
  BY DEF NothingElseIsLost, Unrecordeds
<1>1. CASE Midnight
  <2>1. UNCHANGED <<billed, spent, lost, due, own>>
    BY <1>1 DEF Midnight
  <2>2. Unrecordeds' = Unrecordeds
    BY <2>1 DEF Unrecordeds, Unrecorded
  <2> QED  BY <1>0, <2>1, <2>2
<1>2. ASSUME NEW c \in Clients, SpendStep(c) \/ FailCall(c)
      PROVE  billed' = SumOf(spent)' + lost' + SumOf(Unrecordeds)'
  <2>1. OthersKeep(c)
    BY <1>2, OneAtATime
  <2>2. SumOf(Unrecordeds)' + Unrecorded(c) = SumOf(Unrecordeds) + Unrecorded(c)'
    BY <2>1, SumsOfOne
  <2>3. /\ Unrecorded(c) = due[c] + SumOf(own[c]) /\ Unrecorded(c)' = due'[c] + SumOf(own'[c])
        /\ due[c] \in Nat /\ SumOf(own[c]) \in Nat /\ due'[c] \in Nat /\ SumOf(own'[c]) \in Nat
        /\ own[c] \in [1..Days -> Nat] /\ own'[c] \in [1..Days -> Nat]
    <3>1. own[c] \in [1..Days -> Nat] /\ own'[c] \in [1..Days -> Nat] /\ due'[c] \in Nat
      BY DEF SpendTypeOK
    <3>2. SumOf(own[c]) \in Nat /\ SumOf(own'[c]) \in Nat
      BY <3>1, Amounts, SumIsNumber
    <3> QED  BY <3>1, <3>2, ClientTyped DEF Unrecorded
  <2>4. SumOf(Unrecordeds)' \in Nat /\ SumOf(NothingAdded) = 0
    <3>1. ASSUME NEW e \in Clients PROVE due'[e] \in Nat /\ SumOf(own'[e]) \in Nat
      <4>1. due'[e] \in Nat /\ own'[e] \in [1..Days -> Nat]
        BY DEF SpendTypeOK
      <4> QED  BY <4>1, Amounts, SumIsNumber
    <3>2. Unrecordeds' \in [Clients -> Nat]
      BY <3>1 DEF Unrecordeds, Unrecorded
    <3> QED  BY <3>2, Amounts, SumIsNumber, NothingAddedTyped
  <2>u. Unrecorded(c) \in Nat /\ Unrecorded(c)' \in Nat
    BY <2>3
  <2>t. billed' \in Nat /\ lost' \in Nat /\ SumOf(spent)' \in Nat
    <3>1. billed' \in Nat /\ lost' \in Nat /\ spent' \in [1..Days -> Nat]
      BY DEF SpendTypeOK
    <3> QED  BY <3>1, Amounts, SumIsNumber
  <2> SUFFICES billed' + SumOf(spent) + lost + Unrecorded(c)
                 = billed + SumOf(spent)' + lost' + Unrecorded(c)'
    BY <1>0, <2>2, <2>4, <2>u, <2>t
  <2>5. CASE GoesOn(c) \/ Asks(c)
    <3>1. spent' = spent /\ own'[c] = own[c] /\ due'[c] = due[c] /\ billed' = billed /\ lost' = lost
      BY <2>5 DEF GoesOn, Asks
    <3>2. SumOf(spent)' = SumOf(spent) /\ Unrecorded(c)' = Unrecorded(c)
      BY <2>3, <3>1
    <3> QED  BY <3>1, <3>2
  <2>6. CASE Charges(c)
    <3>1. \A d \in (1..Days) \ {today} : own'[c][d] = own[c][d]
      BY <2>3, <2>6 DEF Charges
    <3>2. today \in 1..Days /\ own'[c][today] = own[c][today] + due[c]
      BY <2>3, <2>6 DEF Charges, SpendTypeOK
    <3>3. PICK f, g : f = own[c] /\ g = own'[c]
      OBVIOUS
    <3>4. SumOf(g) + f[today] = SumOf(f) + g[today]
      <4>1. PICK S : S = 1..Days
        OBVIOUS
      <4>2. /\ IsFiniteSet(S) /\ f \in [S -> Nat] /\ g \in [S -> Nat] /\ today \in S
            /\ \A d \in S \ {today} : g[d] = f[d]
        BY <2>3, <3>1, <3>2, <3>3, <4>1, Amounts
      <4> QED  BY <4>2, SumChanges
    <3>5. f[today] \in Nat /\ g[today] \in Nat /\ g[today] = f[today] + due[c]
      BY <2>3, <3>2, <3>3
    <3>6. SumOf(own'[c]) = SumOf(own[c]) + due[c]
      BY <2>3, <3>3, <3>4, <3>5
    <3>7. spent' = spent /\ billed' = billed /\ lost' = lost /\ due'[c] = 0
      BY <2>6 DEF Charges
    <3>8. SumOf(spent)' = SumOf(spent)
      BY <3>7
    <3>9. Unrecorded(c)' = Unrecorded(c)
      BY <2>3, <3>6, <3>7
    <3> QED  BY <3>7, <3>8, <3>9
  <2>7. CASE RollsBack(c)
    <3>1. /\ spent' = spent /\ own'[c] = NothingAdded /\ due'[c] = 0 /\ billed' = billed
          /\ lost' = lost + Unrecorded(c)
      BY <2>7 DEF RollsBack
    <3>2. SumOf(spent)' = SumOf(spent) /\ Unrecorded(c)' = 0
      BY <2>3, <2>4, <3>1
    <3> QED  BY <1>0, <2>u, <3>1, <3>2
  <2>8. CASE Commits(c)
    <3>1. spent' \in [1..Days -> Nat] /\ spent \in [1..Days -> Nat]
      BY DEF SpendTypeOK
    <3>2. \A d \in 1..Days : spent'[d] = spent[d] + own[c][d]
      BY <2>8 DEF Commits, Recorded
    <3>3. PICK f, g, h : f = spent /\ g = own[c] /\ h = spent'
      OBVIOUS
    <3>4. SumOf(h) = SumOf(f) + SumOf(g)
      <4>1. PICK S : S = 1..Days
        OBVIOUS
      <4>2. /\ IsFiniteSet(S) /\ f \in [S -> Nat] /\ g \in [S -> Nat] /\ h \in [S -> Nat]
            /\ \A d \in S : h[d] = f[d] + g[d]
        BY <2>3, <3>1, <3>2, <3>3, <4>1, Amounts
      <4> QED  BY <4>2, SumsAddUp
    <3>5. own'[c] = NothingAdded /\ due'[c] = due[c] /\ billed' = billed /\ lost' = lost
      BY <2>8 DEF Commits
    <3>6. SumOf(spent)' = SumOf(spent) + SumOf(own[c])
      BY <3>3, <3>4
    <3>7. Unrecorded(c) = due[c] + SumOf(own[c]) /\ Unrecorded(c)' = due[c]
      BY <2>3, <2>4, <3>5
    <3>8. PICK o \in Nat, u \in Nat : o = SumOf(own[c]) /\ u = due[c]
      BY <2>3
    <3>9. billed' = billed /\ lost' = lost
      BY <3>5
    <3>10. SumOf(spent)' = SumOf(spent) + o /\ Unrecorded(c) = u + o /\ Unrecorded(c)' = u
      BY <3>6, <3>7, <3>8
    <3> QED  BY <1>0, <3>9, <3>10
  <2>9. ASSUME NEW used \in 0..OneCall, Answers(c, used)
        PROVE  billed' + SumOf(spent) + lost + Unrecorded(c)
                 = billed + SumOf(spent)' + lost' + Unrecorded(c)'
    <3>1. used \in Nat
      BY Amounts
    <3>2. /\ spent' = spent /\ own'[c] = own[c] /\ due[c] = 0 /\ due'[c] = used
          /\ billed' = billed + used /\ lost' = lost
      BY <2>9 DEF Answers
    <3>3. SumOf(spent)' = SumOf(spent) /\ Unrecorded(c)' = Unrecorded(c) + used
      BY <2>3, <3>1, <3>2
    <3> QED  BY <1>0, <2>u, <3>1, <3>2, <3>3
  <2> QED  BY <1>2, <2>5, <2>6, <2>7, <2>8, <2>9, StepEffect
<1> QED  BY <1>1, <1>2 DEF SpendNext

----------------------------------------------------------------------------
(***************************************************************************)
(* The numbers of a step, unprimed and primed.                             *)
(***************************************************************************)
LEMMA Numbers ==
  ASSUME SpendTypeOK, SpendTypeOK'
  PROVE  /\ \A e \in Clients, d \in 1..Days : own[e][d] \in Nat /\ own'[e][d] \in Nat
         /\ \A e \in Clients : due[e] \in Nat /\ due'[e] \in Nat
         /\ \A d \in 1..Days : spent[d] \in Nat /\ spent'[d] \in Nat
         /\ today \in 1..Days /\ today' \in 1..Days /\ OneCall \in Nat /\ Cap \in Nat
<1>1. ASSUME NEW e \in Clients PROVE own[e] \in [1..Days -> Nat] /\ own'[e] \in [1..Days -> Nat]
  BY DEF SpendTypeOK
<1> QED  BY <1>1, Amounts DEF SpendTypeOK

LEMMA RowsAreHeld ==
  ASSUME SpendTypeOK, DuesAreCharged, SpendInv, SpendNext, SpendTypeOK', DuesAreCharged'
  PROVE  OneHolds' /\ NothingYet' /\ AskedUnderACap'
<1>1. CASE Midnight
  <2>1. UNCHANGED <<spent, own, standing>> /\ today' = today + 1
    BY <1>1 DEF Midnight
  <2>2. \A d \in 1..Days : d > today' => d > today
    BY <2>1, Numbers
  <2> QED  BY <2>1, <2>2 DEF SpendInv, OneHolds, NothingYet, AskedUnderACap, InFlight
<1>2. ASSUME NEW c \in Clients, SpendStep(c) \/ FailCall(c)
      PROVE  OneHolds' /\ NothingYet' /\ AskedUnderACap'
  <2>1. OthersKeep(c) /\ today' = today
    BY <1>2, OneAtATime
  <2>2. /\ \A e \in Clients, d \in 1..Days : own[e][d] \in Nat
        /\ \A d \in 1..Days : spent[d] \in Nat
        /\ due[c] \in Nat /\ today \in 1..Days
    BY Numbers
  <2>3. CASE own'[c] = own[c] /\ spent' = spent /\ (InFlight(c)' => InFlight(c) \/ Cap > 0)
    BY <2>1, <2>3 DEF OthersKeep, SpendInv, OneHolds, NothingYet, AskedUnderACap, InFlight
  <2>4. CASE RollsBack(c) /\ ~InFlight(c)'
    <3>1. \A d \in 1..Days : own'[c][d] = 0
      BY <2>4 DEF RollsBack, NothingAdded
    <3> QED  BY <2>1, <2>4, <3>1
             DEF OthersKeep, SpendInv, OneHolds, NothingYet, AskedUnderACap, InFlight, RollsBack
  <2>5. CASE Commits(c) /\ ~InFlight(c)'
    <3>1. \A d \in 1..Days : own'[c][d] = 0 /\ spent'[d] = spent[d] + own[c][d]
      BY <2>5 DEF Commits, NothingAdded, Recorded
    <3>2. OneHolds' /\ AskedUnderACap'
      BY <2>1, <2>5, <3>1 DEF OthersKeep, SpendInv, OneHolds, AskedUnderACap, InFlight
    <3>3. NothingYet'
      BY <2>1, <2>2, <3>1 DEF OthersKeep, SpendInv, NothingYet
    <3> QED  BY <3>2, <3>3
  <2>6. CASE Charges(c)
    <3>1. \A d \in 1..Days : own'[c][d] = IF d = today THEN own[c][d] + due[c] ELSE own[c][d]
      BY <2>6 DEF Charges, SpendTypeOK
    <3>2. due[c] = 0 \/ \A e \in Clients \ {c} : own[e][today] = 0
      BY <2>2, <2>6 DEF Charges, RowFree
    <3>3. OneHolds'
      <4>1. CASE due[c] = 0
        BY <2>1, <2>2, <3>1, <4>1 DEF OthersKeep, SpendInv, OneHolds
      <4>2. CASE \A e \in Clients \ {c} : own[e][today] = 0
        BY <2>1, <2>2, <3>1, <4>2 DEF OthersKeep, SpendInv, OneHolds
      <4> QED  BY <3>2, <4>1, <4>2
    <3>4. NothingYet' /\ AskedUnderACap'
      <4>1. AskedUnderACap'
        BY <2>1, <2>6 DEF OthersKeep, SpendInv, AskedUnderACap, InFlight, Charges
      <4>2. \A d \in 1..Days : d > today => own'[c][d] = own[c][d] /\ spent'[d] = spent[d]
        BY <2>2, <2>6, <3>1 DEF Charges
      <4> QED  BY <2>1, <4>1, <4>2 DEF OthersKeep, SpendInv, NothingYet
    <3> QED  BY <3>3, <3>4
  <2>7. GoesOn(c) \/ (\E used \in 0..OneCall : Answers(c, used)) =>
          own'[c] = own[c] /\ spent' = spent /\ (InFlight(c)' => InFlight(c) \/ Cap > 0)
    BY DEF GoesOn, Answers, InFlight
  <2>8. Asks(c) => own'[c] = own[c] /\ spent' = spent /\ Cap > 0
    <3>1. ASSUME Asks(c) PROVE Cap > 0
      BY <2>2, <3>1, Amounts DEF Asks
    <3> QED  BY <3>1 DEF Asks
  <2> QED  BY <1>2, <2>3, <2>4, <2>5, <2>6, <2>7, <2>8, StepEffect
<1> QED  BY <1>1, <1>2 DEF SpendNext

(***************************************************************************)
(* Whoever holds the row of today asked when it saw all of it: the others  *)
(* have committed nothing since, as they hold none of the row.             *)
(***************************************************************************)
LEMMA HoldersAsked ==
  ASSUME SpendTypeOK, DuesAreCharged, SpendInv, SpendNext, SpendTypeOK', DuesAreCharged'
  PROVE  HolderAsked'
<1>1. CASE Midnight
  <2>1. UNCHANGED <<spent, own, standing>> /\ today' = today + 1
    BY <1>1 DEF Midnight
  <2>2. today' > today /\ today' \in 1..Days
    BY <2>1, Numbers
  <2> QED  BY <2>1, <2>2 DEF SpendInv, NothingYet, HolderAsked
<1>2. ASSUME NEW c \in Clients, SpendStep(c) \/ FailCall(c)
      PROVE  HolderAsked'
  <2>1. OthersKeep(c) /\ today' = today
    BY <1>2, OneAtATime
  <2>2. /\ \A e \in Clients : own[e][today] \in Nat
        /\ spent[today] \in Nat /\ due[c] \in Nat /\ today \in 1..Days /\ OneCall \in Nat /\ Cap \in Nat
    BY Numbers
  <2>3. \A e \in Clients \ {c} : own[e][today] # 0 => own[c][today] = 0
    BY <2>2 DEF SpendInv, OneHolds
  <2>4. due[c] <= OneCall
    BY DEF DuesAreCharged
  <2>5. CASE RollsBack(c)
    <3>1. own'[c][today] = 0
      BY <2>2, <2>5 DEF RollsBack, NothingAdded
    <3> QED  BY <2>1, <2>5, <3>1 DEF OthersKeep, SpendInv, HolderAsked, InFlight, RollsBack
  <2>6. CASE Commits(c)
    <3>1. own'[c][today] = 0 /\ spent'[today] = spent[today] + own[c][today]
      BY <2>2, <2>6 DEF Commits, NothingAdded, Recorded
    <3>2. \A e \in Clients \ {c} : own[e][today] # 0 => spent'[today] = spent[today]
      BY <2>2, <2>3, <3>1
    <3> QED  BY <2>1, <3>1, <3>2 DEF OthersKeep, SpendInv, HolderAsked, InFlight
  <2>7. CASE Charges(c)
    <3>1. own'[c][today] = own[c][today] + due[c] /\ spent' = spent /\ InFlight(c) /\ ~InFlight(c)'
      BY <2>2, <2>7 DEF Charges, SpendTypeOK, InFlight
    <3>2. own[c][today] # 0 => spent[today] + own[c][today] < Cap
      BY <3>1 DEF SpendInv, HolderAsked
    <3>3. own'[c][today] <= OneCall \/ spent[today] + own'[c][today] < Cap + OneCall
      BY <2>2, <2>4, <3>1, <3>2
    <3> QED  BY <2>1, <3>1, <3>3 DEF OthersKeep, SpendInv, HolderAsked, InFlight
  <2>8. CASE GoesOn(c)
    BY <2>1, <2>8 DEF OthersKeep, SpendInv, HolderAsked, InFlight, GoesOn
  <2>9. CASE Asks(c)
    BY <2>1, <2>9 DEF OthersKeep, SpendInv, HolderAsked, InFlight, Asks
  <2>10. ASSUME NEW used \in 0..OneCall, Answers(c, used) PROVE HolderAsked'
    BY <2>1, <2>10 DEF OthersKeep, SpendInv, HolderAsked, InFlight, Answers
  <2> QED  BY <1>2, <2>5, <2>6, <2>7, <2>8, <2>9, <2>10, StepEffect
<1> QED  BY <1>1, <1>2 DEF SpendNext

(***************************************************************************)
(* What is taken and coming leaves each client that is not in flight one   *)
(* call.                                                                   *)
(***************************************************************************)
LEMMA StaysWithinSlack ==
  ASSUME SpendTypeOK, DuesAreCharged, SpendInv, SpendNext, SpendTypeOK', DuesAreCharged'
  PROVE  WithinSlack'
<1>0. /\ OneCall \in Nat /\ OneCall > 0 /\ Slack \in Nat /\ Slack >= OneCall /\ Cap \in Nat
      /\ Slack = Cardinality(Clients) * OneCall
      /\ IsFiniteSet(Clients) /\ today \in 1..Days /\ today' \in 1..Days
  BY Amounts, Numbers
<1>1. /\ Comings \in [Clients -> Nat] /\ SumOf(Comings) \in Nat
      /\ \A c \in Clients : Comings[c] = Coming(c) /\ Comings[c] <= OneCall
      /\ \A d \in 1..Days : /\ OwnOf(d) \in [Clients -> Nat] /\ SumOf(OwnOf(d)) \in Nat
                            /\ Taken(d) \in Nat /\ spent[d] \in Nat
  BY SumsTyped, ClientTyped DEF Comings
<1>2. CASE Midnight
  <2>1. UNCHANGED <<spent, own, standing, due>> /\ today' = today + 1
    BY <1>2 DEF Midnight
  <2>2. Comings' = Comings /\ \A d \in 1..Days : Taken(d)' = Taken(d)
    BY <2>1 DEF Comings, Coming, Taken, OwnOf
  <2>3. Taken(today') = 0
    <3>1. PICK d : d = today'
      OBVIOUS
    <3>2. d \in 1..Days /\ d > today
      BY <1>0, <2>1, <3>1
    <3>3. spent[d] = 0 /\ \A c \in Clients : OwnOf(d)[c] = 0
      BY <3>2 DEF SpendInv, NothingYet, OwnOf
    <3>4. PICK c \in Clients : TRUE
      BY AmountsAssumption
    <3>5. SumOf(OwnOf(d)) = 0
      BY <1>0, <1>1, <3>2, <3>3, <3>4, SumOfOne
    <3> QED  BY <3>1, <3>3, <3>5 DEF Taken
  <2>4. SumOf(Comings) <= Slack
    BY <1>0, <1>1, SumIsBounded
  <2>5. Cap = 0 => SumOf(Comings) = 0
    <3> SUFFICES ASSUME Cap = 0 PROVE SumOf(Comings) = 0
      OBVIOUS
    <3>1. \A c \in Clients : ~InFlight(c)
      BY <1>0 DEF SpendInv, AskedUnderACap
    <3>2. \A c \in Clients : Comings[c] = 0
      BY <1>1, <3>1 DEF InFlight, Coming, DuesAreCharged
    <3>3. PICK c \in Clients : TRUE
      BY AmountsAssumption
    <3> QED  BY <1>0, <1>1, <3>2, <3>3, SumOfOne
  <2>6. \A d \in 1..Days : d < today' => Taken(d) < Cap + Slack
    <3>1. Taken(today) < Cap + Slack
      BY <1>0, <1>1 DEF SpendInv, WithinSlack
    <3>2. \A d \in 1..Days : d < today' => d < today \/ d = today
      BY <1>0, <2>1
    <3> QED  BY <3>1, <3>2 DEF SpendInv, WithinSlack
  <2>7. 0 + SumOf(Comings) < Cap + Slack
    BY <1>0, <1>1, <2>4, <2>5
  <2>8. Taken(today)' = Taken(today')
    BY <2>1 DEF Taken, OwnOf
  <2> QED  BY <2>2, <2>3, <2>6, <2>7, <2>8 DEF WithinSlack
<1>3. ASSUME NEW c \in Clients, SpendStep(c) \/ FailCall(c)
      PROVE  WithinSlack'
  <2>1. OthersKeep(c) /\ today' = today
    BY <1>3, OneAtATime
  <2>2. /\ SumOf(Comings)' + Coming(c) = SumOf(Comings) + Coming(c)'
        /\ \A d \in 1..Days : SumOf(OwnOf(d))' + own[c][d] = SumOf(OwnOf(d)) + own'[c][d]
    BY <2>1, SumsOfOne
  <2>3. /\ \A d \in 1..Days : /\ own[c][d] \in Nat /\ own'[c][d] \in Nat
                              /\ spent[d] \in Nat /\ spent'[d] \in Nat
        /\ due[c] \in Nat /\ due'[c] \in Nat /\ due[c] <= OneCall
    BY Numbers DEF DuesAreCharged
  <2>4. Coming(c) \in Nat /\ Coming(c)' \in Nat
    BY <1>0, <2>3 DEF Coming
  <2>5. \A d \in 1..Days : SumOf(OwnOf(d))' \in Nat
    <3>1. ASSUME NEW d \in 1..Days PROVE OwnOf(d)' \in [Clients -> Nat]
      BY Numbers DEF OwnOf
    <3> QED  BY <1>0, <3>1, SumIsNumber
  <2>6. SumOf(Comings)' \in Nat
    <3>1. Comings' \in [Clients -> Nat]
      BY <1>0, Numbers DEF Comings, Coming
    <3> QED  BY <1>0, <3>1, SumIsNumber
  <2>7. SUFFICES /\ Taken(today)' + SumOf(Comings)' < Cap + Slack
                 /\ \A d \in 1..Days : d < today => Taken(d)' <= Taken(d)
    <3>1. \A d \in 1..Days : Taken(d)' \in Nat
      BY <2>3, <2>5 DEF Taken
    <3> QED  BY <1>0, <1>1, <2>1, <3>1 DEF SpendInv, WithinSlack
  <2>8. Taken(today) + SumOf(Comings) < Cap + Slack
    BY DEF SpendInv, WithinSlack
  <2>9. \A d \in 1..Days : Taken(d) = spent[d] + SumOf(OwnOf(d)) /\ Taken(d)' = spent'[d] + SumOf(OwnOf(d))'
    BY DEF Taken
  <2>0. ASSUME /\ spent'[today] + own'[c][today] + Coming(c)'
                    <= spent[today] + own[c][today] + Coming(c)
               /\ \A d \in 1..Days : d < today =>
                    spent'[d] + own'[c][d] <= spent[d] + own[c][d]
        PROVE  /\ Taken(today)' + SumOf(Comings)' < Cap + Slack
               /\ \A d \in 1..Days : d < today => Taken(d)' <= Taken(d)
    <3>1. \A d \in 1..Days : SumOf(OwnOf(d)) \in Nat
      BY <1>0, <1>1
    <3>2. ASSUME NEW d \in 1..Days, d < today PROVE Taken(d)' <= Taken(d)
      <4>1. spent'[d] + own'[c][d] <= spent[d] + own[c][d]
        BY <2>0, <3>2
      <4>2. SumOf(OwnOf(d))' + own[c][d] = SumOf(OwnOf(d)) + own'[c][d]
        BY <2>2
      <4> QED  BY <4>1, <4>2, <3>1, <2>3, <2>5, <2>9
    <3>3. Taken(today)' + Coming(c)' <= Taken(today) + Coming(c)
      <4>1. today \in 1..Days
        BY <1>0
      <4>2. SumOf(OwnOf(today))' + own[c][today] = SumOf(OwnOf(today)) + own'[c][today]
        <5>1. PICK d \in 1..Days : d = today
          BY <4>1
        <5>2. SumOf(OwnOf(d))' + own[c][d] = SumOf(OwnOf(d)) + own'[c][d]
          BY <2>2
        <5> QED  BY <5>1, <5>2, <2>1
      <4>3. /\ Taken(today) = spent[today] + SumOf(OwnOf(today))
            /\ Taken(today)' = spent'[today] + SumOf(OwnOf(today))'
        BY <2>1 DEF Taken
      <4>4. SumOf(OwnOf(today)) \in Nat /\ SumOf(OwnOf(today))' \in Nat
        BY <3>1, <4>1, <2>1, <2>5
      <4> QED  BY <2>0, <2>3, <2>4, <4>1, <4>2, <4>3, <4>4
    <3>4. Taken(today) \in Nat /\ Taken(today)' \in Nat
      BY <3>1, <1>0, <2>1, <2>3, <2>5 DEF Taken
    <3> QED  BY <1>0, <1>1, <2>2, <2>4, <2>6, <2>8, <3>2, <3>3, <3>4
  <2>10. CASE GoesOn(c)
    <3>1. Coming(c)' = Coming(c) /\ own'[c] = own[c] /\ spent' = spent
      BY <2>10 DEF GoesOn, Coming, InFlight
    <3> QED  BY <1>0, <2>0, <2>3, <2>4, <3>1
  <2>11. ASSUME NEW used \in 0..OneCall, Answers(c, used)
         PROVE  /\ Taken(today)' + SumOf(Comings)' < Cap + Slack
                /\ \A d \in 1..Days : d < today => Taken(d)' <= Taken(d)
    <3>1. /\ Coming(c)' = used /\ Coming(c) = OneCall /\ used \in Nat /\ used <= OneCall
          /\ own'[c] = own[c] /\ spent' = spent
      BY <1>0, <2>11 DEF Answers, Coming
    <3> QED  BY <1>0, <2>0, <2>3, <2>4, <3>1
  <2>12. CASE Charges(c)
    <3>1. /\ Coming(c)' = 0 /\ Coming(c) = due[c] /\ spent' = spent
          /\ own'[c][today] = own[c][today] + due[c]
          /\ \A d \in 1..Days : d < today => own'[c][d] = own[c][d]
      <4>1. \A d \in 1..Days : own'[c][d] = IF d = today THEN own[c][d] + due[c] ELSE own[c][d]
        BY <2>12 DEF Charges, SpendTypeOK
      <4>2. Coming(c)' = 0 /\ Coming(c) = due[c] /\ spent' = spent
        BY <2>12 DEF Charges, Coming
      <4> QED  BY <1>0, <4>1, <4>2
    <3> QED  BY <1>0, <2>0, <2>3, <2>4, <3>1
  <2>13. CASE RollsBack(c) /\ ~InFlight(c)'
    <3>1. Coming(c)' = 0 /\ spent' = spent /\ \A d \in 1..Days : own'[c][d] = 0
      BY <2>13 DEF RollsBack, Coming, InFlight, NothingAdded
    <3> QED  BY <1>0, <2>0, <2>3, <2>4, <3>1
  <2>14. CASE Commits(c) /\ ~InFlight(c) /\ ~InFlight(c)'
    <3>1. /\ Coming(c)' = Coming(c)
          /\ \A d \in 1..Days : own'[c][d] = 0 /\ spent'[d] = spent[d] + own[c][d]
      BY <2>14 DEF Commits, Coming, InFlight, NothingAdded, Recorded
    <3> QED  BY <1>0, <2>0, <2>3, <2>4, <3>1
  <2>15. CASE Asks(c)
    <3>1. /\ Coming(c)' = OneCall /\ Coming(c) = 0 /\ own'[c] = own[c] /\ spent' = spent
          /\ spent[today] + own[c][today] < Cap
      BY <2>15 DEF Asks, Coming
    <3>2. Taken(today)' = Taken(today) /\ SumOf(Comings)' = SumOf(Comings) + OneCall
      BY <1>0, <1>1, <2>1, <2>2, <2>3, <2>4, <2>5, <2>6, <2>9, <3>1
    <3>3. Comings[c] = 0
      BY <1>1, <3>1
    <3>4. Taken(today) + SumOf(Comings) + OneCall < Cap + Slack
      <4>1. CASE \A e \in Clients \ {c} : own[e][today] = 0
        <5>1. SumOf(OwnOf(today)) = own[c][today]
          <6>1. PICK f : f = OwnOf(today)
            OBVIOUS
          <6>2. /\ f \in [Clients -> Nat] /\ f[c] = own[c][today]
                /\ \A e \in Clients \ {c} : f[e] = 0
            BY <1>0, <1>1, <4>1, <6>1 DEF OwnOf
          <6> QED  BY <1>0, <6>1, <6>2, SumOfOne
        <5>2. SumOf(Comings) <= Slack - OneCall
          BY <1>0, <1>1, <3>3, SumIsBounded
        <5> QED  BY <1>0, <1>1, <2>3, <2>9, <3>1, <5>1, <5>2
      <4>2. ASSUME NEW h \in Clients \ {c}, own[h][today] # 0
            PROVE  Taken(today) + SumOf(Comings) + OneCall < Cap + Slack
        <5>1. \A e \in Clients \ {h} : own[e][today] = 0
          BY <1>0, <4>2 DEF SpendInv, OneHolds
        <5>2. SumOf(OwnOf(today)) = own[h][today] /\ own[h][today] \in Nat
          <6>1. PICK f : f = OwnOf(today)
            OBVIOUS
          <6>2. /\ f \in [Clients -> Nat] /\ f[h] = own[h][today]
                /\ \A e \in Clients \ {h} : f[e] = 0
            BY <1>0, <1>1, <5>1, <6>1 DEF OwnOf
          <6> QED  BY <1>0, <6>1, <6>2, SumOfOne
        <5>3. CASE InFlight(h)
          <6>1. spent[today] + own[h][today] < Cap
            BY <4>2, <5>3 DEF SpendInv, HolderAsked
          <6>2. SumOf(Comings) <= Slack - OneCall
            BY <1>0, <1>1, <3>3, SumIsBounded
          <6> QED  BY <1>0, <1>1, <2>3, <2>9, <5>2, <6>1, <6>2
        <5>4. CASE ~InFlight(h)
          <6>1. own[h][today] <= OneCall \/ spent[today] + own[h][today] < Cap + OneCall
            BY <4>2, <5>4 DEF SpendInv, HolderAsked
          <6>2. Comings[h] = 0 /\ h # c /\ h \in Clients
            BY <1>1, <4>2, <5>4 DEF InFlight, Coming, DuesAreCharged
          <6>3. SumOf(Comings) <= Slack - 2 * OneCall
            BY <1>0, <1>1, <3>3, <6>2, SumIsBounded
          <6>4. own[c][today] = 0
            BY <4>2, <5>1
          <6>5. spent[today] + own[h][today] < Cap + OneCall
            BY <1>0, <2>3, <3>1, <5>2, <6>1, <6>4
          <6> QED  BY <1>0, <1>1, <2>3, <2>9, <5>2, <6>3, <6>5
        <5> QED  BY <5>3, <5>4
      <4> QED  BY <4>1, <4>2
    <3>5. \A d \in 1..Days : Taken(d)' = Taken(d)
      BY <1>1, <2>1, <2>2, <2>3, <2>5, <2>9, <3>1
    <3> QED  BY <1>0, <1>1, <3>2, <3>4, <3>5
  <2> QED  BY <1>3, <2>10, <2>11, <2>12, <2>13, <2>14, <2>15, StepEffect
<1> QED  BY <1>2, <1>3 DEF SpendNext

----------------------------------------------------------------------------
(***************************************************************************)
(* What is recorded and about to be is within what is taken and coming.    *)
(***************************************************************************)
LEMMA WithinSlackIsBounded ==
  ASSUME SpendTypeOK, SpendInv
  PROVE  OvershootBounded
<1> DEFINE Rest == [c \in Clients |-> IF standing[c] = "calling" THEN OneCall ELSE 0]
<1>1. /\ Comings \in [Clients -> Nat] /\ Rest \in [Clients -> Nat] /\ due \in [Clients -> Nat]
      /\ \A c \in Clients : Comings[c] = due[c] + Rest[c]
  <2>1. due \in [Clients -> Nat] /\ OneCall \in Nat
    BY Amounts DEF SpendTypeOK
  <2>2. \A c \in Clients : standing[c] = "calling" => due[c] = 0
    BY DEF SpendInv, DuesAreCharged
  <2> QED  BY <2>1, <2>2 DEF Comings, Coming
<1>2. PICK f, g, h : f = due /\ g = Rest /\ h = Comings
  OBVIOUS
<1>3. IsFiniteSet(Clients) /\ Cap \in Nat /\ Slack \in Nat /\ Slack > 0 /\ today \in 1..Days
  BY Amounts DEF SpendTypeOK
<1>4. SumOf(h) = SumOf(f) + SumOf(g)
  BY <1>1, <1>2, <1>3, SumsAddUp
<1>5. SumOf(f) \in Nat /\ SumOf(g) \in Nat
  BY <1>1, <1>2, <1>3, SumIsNumber
<1>6. ASSUME NEW d \in 1..Days
      PROVE  Taken(d) + (IF d = today THEN SumOf(due) ELSE 0) < Cap + Slack
  <2>1. Taken(d) \in Nat
    BY SumsTyped DEF SpendInv
  <2>2. CASE d = today
    <3>1. Taken(today) + SumOf(h) < Cap + Slack
      BY <1>2 DEF SpendInv, WithinSlack
    <3> QED  BY <1>2, <1>3, <1>4, <1>5, <2>1, <2>2, <3>1
  <2>3. CASE d < today
    BY <2>1, <2>3, <1>3 DEF SpendInv, WithinSlack
  <2>4. CASE d > today
    <3>1. spent[d] = 0 /\ \A c \in Clients : OwnOf(d)[c] = 0
      BY <2>4 DEF SpendInv, NothingYet, OwnOf
    <3>2. PICK c \in Clients : TRUE
      BY AmountsAssumption
    <3>3. OwnOf(d) \in [Clients -> Nat]
      BY SumsTyped DEF SpendInv
    <3>4. SumOf(OwnOf(d)) = 0
      BY <1>3, <3>1, <3>2, <3>3, SumOfOne
    <3> QED  BY <1>3, <2>4, <3>1, <3>4 DEF Taken
  <2> QED  BY <1>3, <2>2, <2>3, <2>4
<1> QED  BY <1>6 DEF OvershootBounded, Taken, OwnOf

(***************************************************************************)
(* The first state: nothing is spent, held or due.                         *)
(***************************************************************************)
LEMMA SpendStarts ==
  ASSUME SpendInit
  PROVE  SpendTypeOK /\ SpendInv /\ NothingElseIsLost
<1>1. /\ "idle" \in ClientPhases /\ 0 \in 0..RunCalls /\ 0 \in 0..RunTokens /\ 1 \in 1..Days
      /\ NothingAdded \in [1..Days -> Nat]
  BY NothingAddedTyped, AmountsAssumption DEF ClientPhases
<1>2. SpendTypeOK
  BY <1>1 DEF SpendInit, SpendTypeOK
<1>3. /\ \A d \in 1..Days : spent[d] = 0 /\ \A c \in Clients : own[c][d] = 0
      /\ \A c \in Clients : due[c] = 0 /\ standing[c] = "idle"
      /\ today = 1
  BY DEF SpendInit, NothingAdded
<1>4. DuesAreCharged /\ OneHolds /\ NothingYet /\ AskedUnderACap /\ HolderAsked
  <2>1. 0 <= OneCall
    BY Amounts
  <2> QED  BY <1>1, <1>3, <2>1
           DEF DuesAreCharged, OneHolds, NothingYet, AskedUnderACap, HolderAsked, InFlight
<1>5. PICK c \in Clients : TRUE
  BY AmountsAssumption
<1>6. /\ Comings \in [Clients -> Nat] /\ Unrecordeds \in [Clients -> Nat]
      /\ \A d \in 1..Days : OwnOf(d) \in [Clients -> Nat]
  BY <1>2, <1>4, SumsTyped
<1>7. \A e \in Clients : Comings[e] = 0 /\ \A d \in 1..Days : OwnOf(d)[e] = 0
  BY <1>3 DEF Comings, Coming, OwnOf
<1>8. SumOf(Comings) = 0 /\ \A d \in 1..Days : SumOf(OwnOf(d)) = 0
  BY <1>5, <1>6, <1>7, Amounts, SumOfOne
<1>9. WithinSlack
  <2>1. 0 < Cap + Slack /\ \A d \in 1..Days : ~(d < 1)
    BY Amounts
  <2> QED  BY <1>1, <1>3, <1>8, <2>1 DEF WithinSlack, Taken
<1>10. NothingElseIsLost
  <2>1. SumOf(spent) = 0 /\ \A e \in Clients : SumOf(own[e]) = 0
    BY NothingAddedTyped DEF SpendInit
  <2>2. \A e \in Clients : Unrecordeds[e] = 0
    BY <1>3, <2>1 DEF Unrecordeds, Unrecorded
  <2>3. SumOf(Unrecordeds) = 0
    BY ZenonT(30), <1>5, <1>6, <2>2, Amounts, SumOfOne
  <2>4. billed = 0 /\ lost = 0
    BY DEF SpendInit
  <2> QED  BY <2>1, <2>3, <2>4 DEF NothingElseIsLost, Unrecordeds
<1> QED  BY <1>2, <1>4, <1>9, <1>10 DEF SpendInv

LEMMA SpendGoesOn ==
  ASSUME SpendTypeOK, SpendInv, NothingElseIsLost, [SpendNext]_spendVars
  PROVE  SpendTypeOK' /\ SpendInv' /\ NothingElseIsLost'
<1>1. CASE SpendNext
  <2>1. DuesAreCharged
    BY DEF SpendInv
  <2>2. SpendTypeOK' /\ DuesAreCharged'
    BY <1>1, <2>1, SpendTyped, DuesStayCharged
  <2>3. NothingElseIsLost'
    BY <1>1, <2>1, <2>2, NothingIsLost
  <2>4. OneHolds' /\ NothingYet' /\ AskedUnderACap' /\ HolderAsked' /\ WithinSlack'
    BY <1>1, <2>1, <2>2, RowsAreHeld, HoldersAsked, StaysWithinSlack
  <2> QED  BY <2>2, <2>3, <2>4 DEF SpendInv
<1>2. CASE UNCHANGED spendVars
  <2>1. /\ Comings' = Comings /\ Unrecordeds' = Unrecordeds
        /\ \A d \in 1..Days : Taken(d)' = Taken(d)
    BY <1>2 DEF spendVars, Comings, Coming, Unrecordeds, Unrecorded, Taken, OwnOf
  <2>2. SpendTypeOK' /\ NothingElseIsLost'
    BY <1>2, <2>1 DEF spendVars, SpendTypeOK, NothingElseIsLost, Unrecordeds
  <2>3. DuesAreCharged' /\ OneHolds' /\ NothingYet' /\ HolderAsked' /\ AskedUnderACap'
    BY <1>2 DEF spendVars, SpendInv, DuesAreCharged, OneHolds, NothingYet, HolderAsked,
                AskedUnderACap, InFlight
  <2>4. WithinSlack'
    <3>1. today' = today /\ today \in 1..Days
      BY <1>2 DEF spendVars, SpendTypeOK
    <3>2. PICK t : t = today
      OBVIOUS
    <3>3. Taken(t)' = Taken(t) /\ Taken(today)' = Taken(t)'
      BY <2>1, <3>1, <3>2 DEF Taken, OwnOf
    <3> QED  BY <2>1, <3>1, <3>2, <3>3 DEF SpendInv, WithinSlack
  <2> QED  BY <2>2, <2>3, <2>4 DEF SpendInv
<1> QED  BY <1>1, <1>2

(***************************************************************************)
(* The daily stop is exceeded by less than one call of each client, for    *)
(* any number of clients and days, any cap and any costs.                  *)
(***************************************************************************)
THEOREM OvershootBoundedHolds == SpendSpec => []OvershootBounded
<1>1. SpendInit => SpendTypeOK /\ SpendInv /\ NothingElseIsLost
  BY SpendStarts
<1>2. SpendTypeOK /\ SpendInv /\ NothingElseIsLost /\ [SpendNext]_spendVars
        => (SpendTypeOK /\ SpendInv /\ NothingElseIsLost)'
  BY SpendGoesOn
<1>3. SpendTypeOK /\ SpendInv => OvershootBounded
  BY WithinSlackIsBounded
<1> QED  BY <1>1, <1>2, <1>3, PTL DEF SpendSpec

(***************************************************************************)
(* Nothing paid for is lost but by a rollback, likewise.                   *)
(***************************************************************************)
THEOREM NothingElseIsLostHolds == SpendSpec => [](SpendTypeOK /\ NothingElseIsLost)
<1>1. SpendInit => SpendTypeOK /\ SpendInv /\ NothingElseIsLost
  BY SpendStarts
<1>2. SpendTypeOK /\ SpendInv /\ NothingElseIsLost /\ [SpendNext]_spendVars
        => (SpendTypeOK /\ SpendInv /\ NothingElseIsLost)'
  BY SpendGoesOn
<1> QED  BY <1>1, <1>2, PTL DEF SpendSpec

----------------------------------------------------------------------------
(***************************************************************************)
(* Both side by side: every variable has its type.  A behaviour of both is *)
(* one of each.                                                            *)
(***************************************************************************)
THEOREM ModelWorkTypesCorrect == MCSpec => []Types
<1>1. MCInit => AnalysisInit /\ SpendInit
  BY DEF MCInit
<1>2. [MCNext]_MCVars => [AnalysisNext]_analysisVars /\ [SpendNext]_spendVars
  <2>1. UNCHANGED MCVars => analysisVars' = analysisVars /\ spendVars' = spendVars
    BY DEF MCVars
  <2> QED  BY <2>1 DEF MCNext, AtRest
<1>3. AnalysisInv => AnalysisTypeOK
  BY DEF AnalysisInv
<1> QED
  BY <1>1, <1>2, <1>3, AnalysisInvariance, NothingElseIsLostHolds, PTL
  DEF MCSpec, Types, AnalysisSpec, SpendSpec
=============================================================================
