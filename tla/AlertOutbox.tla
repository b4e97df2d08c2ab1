---------------------------- MODULE AlertOutbox ----------------------------
(***************************************************************************)
(* From a recorded risk event to a delivered alert: alert rules and the    *)
(* notification outbox (src/shared/procuresignal/notifications) as         *)
(* evaluate_alert_rules_task and deliver_notifications_task drive them.    *)
(*                                                                         *)
(* An evaluation looks at the risk events of the last day, oldest first    *)
(* and only so many, queues one row per matching rule and recipient, and   *)
(* commits.  A drain loads the oldest pending rows, hands each to the      *)
(* transport, and commits what became of all of them.  Evaluations and     *)
(* drains may overlap and may die anywhere; a row is written through the   *)
(* ORM, which names only the columns that differ from what it loaded.      *)
(*                                                                         *)
(* The transport may refuse a row: InAppTransport never does, but the      *)
(* drain is written for any NotificationTransport.  An addressee stands    *)
(* for a rule together with one of its organization's members.             *)
(***************************************************************************)
EXTENDS Integers, SequencesExt

CONSTANTS NumEvents,    \* bound: risk events are 1..NumEvents, in id order
          Window,       \* evaluation periods in a day
          EventLimit,   \* events one evaluation looks at
          Burst,        \* events recorded in one evaluation period
          Addressees,
          Evaluators, Drains,
          DrainLimit,   \* rows one drain loads
          MaxAttempts   \* MAX_DELIVERY_ATTEMPTS

ASSUME LimitsAssumption == /\ {NumEvents, Window, EventLimit, Burst, DrainLimit, MaxAttempts}
                                \subseteq Nat \ {0}
                           /\ Burst <= EventLimit
ASSUME WindowAssumption == Window > 1
ASSUME AddresseesAssumption == IsFiniteSet(Addressees)

Events == 1..NumEvents

VARIABLES
  recorded,   \* events 1..recorded have a row
  shown,      \* periods since an event was recorded, Window when out of sight
  relevant,   \* whether a rule matches it: from the start, only later, or not
  evaluated,  \* an evaluation of this period has been committed
  outbox,     \* the notification rows, in id order
  eval,       \* the executions of evaluate_alert_rules_task
  drain       \* the executions of deliver_notifications_task

eventVars == <<recorded, shown, relevant>>
alertVars == <<eventVars, evaluated, outbox, eval, drain>>

NoEval == [phase |-> "idle", seen |-> {}, adds |-> {}, current |-> FALSE]
NoDrain == [phase |-> "idle", loaded |-> <<>>]

AlertInit == /\ recorded = 0
             /\ shown = [e \in Events |-> 0]
             /\ relevant = [e \in Events |-> "no"]
             /\ evaluated = FALSE
             /\ outbox = <<>>
             /\ eval = [w \in Evaluators |-> NoEval]
             /\ drain = [d \in Drains |-> NoDrain]

\* _upsert_event inserts a row (generate_risk_events).
RecordEvent == /\ recorded < NumEvents
               /\ Cardinality({e \in 1..recorded : shown[e] = 0}) < Burst
               /\ recorded' = recorded + 1
               /\ \E answer \in {"yes", "no"} :
                    relevant' = [relevant EXCEPT ![recorded + 1] = answer]
               /\ UNCHANGED <<shown, evaluated, outbox, eval, drain>>

\* A rule or a watchlist is added, or a supplier's name is resolved at last.
BecomeRelevant == /\ \E e \in 1..recorded :
                       /\ relevant[e] = "no"
                       /\ relevant' = [relevant EXCEPT ![e] = "late"]
                  /\ UNCHANGED <<recorded, shown, evaluated, outbox, eval, drain>>

Recent == {e \in 1..recorded : shown[e] < Window}

\* Mutant of Considered: newest first.
ConsideredNewest == {e \in Recent : Cardinality({f \in Recent : f > e}) < EventLimit}

Considered == {e \in Recent : Cardinality({f \in Recent : f < e}) < EventLimit}

Matched == {e \in Considered : relevant[e] # "no"}
Queued == {outbox[i].to : i \in DOMAIN outbox}
Unqueued == (Matched \X Addressees) \ Queued

\* An hour passes in which an evaluation has begun and been committed.
HourPasses ==
  /\ evaluated
  /\ evaluated' = FALSE
  /\ shown' = [e \in Events |-> IF e <= recorded /\ shown[e] < Window THEN shown[e] + 1
                                 ELSE shown[e]]
  /\ eval' = [w \in Evaluators |-> [eval[w] EXCEPT !.current = FALSE]]
  /\ UNCHANGED <<recorded, relevant, outbox, drain>>

\* evaluate_rules on what the task has loaded.  An evaluation that finds all
\* its matches queued already adds nothing whatever happens next, so that it
\* runs to its end is one step.
Evaluate(w) ==
  /\ eval[w].phase = "idle"
  /\ \/ /\ Unqueued = {}
        /\ evaluated' = TRUE
        /\ UNCHANGED eval
     \/ /\ Unqueued # {}
        /\ eval' = [eval EXCEPT ![w] = [phase |-> "matched", adds |-> {}, current |-> TRUE,
                                        seen |-> Matched]]
        /\ UNCHANGED evaluated
  /\ UNCHANGED <<eventVars, outbox, drain>>

\* enqueue_matches: what is not there already is added to the session.
Enqueue(w) ==
  /\ eval[w].phase = "matched"
  /\ eval' = [eval EXCEPT ![w].phase = "enqueued", ![w].seen = {},
                          ![w].adds = (eval[w].seen \X Addressees) \ Queued]
  /\ UNCHANGED <<eventVars, evaluated, outbox, drain>>

PendingRow(to) == [to |-> to, status |-> "pending", attempts |-> 0, tries |-> 0]

\* Mutant of CommitEvaluation: no uniqueness constraint.
CommitUnconstrained(w) ==
  /\ eval[w].phase = "enqueued"
  /\ \E order \in SetToSeqs(eval[w].adds) :
       outbox' = outbox \o [i \in DOMAIN order |-> PendingRow(order[i])]
  /\ evaluated' = (evaluated \/ eval[w].current)
  /\ eval' = [eval EXCEPT ![w] = NoEval]
  /\ UNCHANGED <<eventVars, drain>>

\* The flush and the commit.  A row another evaluation has queued meanwhile
\* violates uq_notification_idempotency, which takes the whole batch down.
CommitEvaluation(w) ==
  /\ eval[w].phase = "enqueued"
  /\ eval[w].adds \cap Queued = {}
  /\ \E order \in SetToSeqs(eval[w].adds) :
       outbox' = outbox \o [i \in DOMAIN order |-> PendingRow(order[i])]
  /\ evaluated' = (evaluated \/ eval[w].current)
  /\ eval' = [eval EXCEPT ![w] = NoEval]
  /\ UNCHANGED <<eventVars, drain>>

\* It collides, raises or dies.
LoseEvaluation(w) == /\ eval[w].phase # "idle"
                     /\ eval' = [eval EXCEPT ![w] = NoEval]
                     /\ UNCHANGED <<eventVars, evaluated, outbox, drain>>

Pending == {i \in DOMAIN outbox : outbox[i].status = "pending"}
Oldest(S, n) == {i \in S : Cardinality({j \in S : j < i}) < n}

\* pending_notifications, with the attempts each row had then.
Load(d) ==
  /\ drain[d].phase = "idle"
  /\ Pending # {}
  /\ drain' = [drain EXCEPT ![d] =
                 [phase |-> "sending",
                  loaded |-> [i \in Oldest(Pending, DrainLimit) |-> outbox[i].attempts]]]
  /\ UNCHANGED <<eventVars, evaluated, outbox, eval>>

\* The transport is asked to take each row, which is a fact whatever becomes
\* of the drain; what it answers shows at the commit.
Send(d) ==
  /\ drain[d].phase = "sending"
  /\ drain' = [drain EXCEPT ![d].phase = "sent"]
  /\ outbox' = [i \in DOMAIN outbox |->
                  IF i \in DOMAIN drain[d].loaded /\ outbox[i].tries < MaxAttempts
                  THEN [outbox[i] EXCEPT !.tries = @ + 1] ELSE outbox[i]]
  /\ UNCHANGED <<eventVars, evaluated, eval>>

\* Mutants of Failed: gives up one attempt early; nothing counts the attempts.
FailedTooSoon(r, attempts) ==
  [r EXCEPT !.attempts = attempts + 1,
            !.status = IF attempts + 2 >= MaxAttempts THEN "failed" ELSE @]
FailedUncounted(r, attempts) ==
  [r EXCEPT !.status = IF attempts + 1 >= MaxAttempts THEN "failed" ELSE @]

\* mark_failed, on a row loaded with so many attempts.
Failed(r, attempts) ==
  [r EXCEPT !.attempts = attempts + 1,
            !.status = IF attempts + 1 >= MaxAttempts THEN "failed" ELSE @]

\* mark_delivered
Delivered(r) == [r EXCEPT !.status = "delivered"]

CommitDrain(d) ==
  /\ drain[d].phase = "sent"
  /\ \E sent \in SUBSET DOMAIN drain[d].loaded :
       outbox' = [i \in DOMAIN outbox |->
                    IF i \notin DOMAIN drain[d].loaded THEN outbox[i]
                    ELSE IF i \in sent THEN Delivered(outbox[i])
                    ELSE Failed(outbox[i], drain[d].loaded[i])]
  /\ drain' = [drain EXCEPT ![d] = NoDrain]
  /\ UNCHANGED <<eventVars, evaluated, eval>>

\* It raises or dies: its transaction is lost, what it sent is not.
LoseDrain(d) == /\ drain[d].phase # "idle"
                /\ drain' = [drain EXCEPT ![d] = NoDrain]
                /\ UNCHANGED <<eventVars, evaluated, outbox, eval>>

DrainStep(d) == Load(d) \/ Send(d) \/ CommitDrain(d)

AlertNext == \/ RecordEvent \/ BecomeRelevant \/ HourPasses
             \/ \E w \in Evaluators : \/ Evaluate(w) \/ Enqueue(w)
                                      \/ CommitEvaluation(w) \/ LoseEvaluation(w)
             \/ \E d \in Drains : DrainStep(d) \/ LoseDrain(d)

AlertSpec == AlertInit /\ [][AlertNext]_alertVars

(***************************************************************************)
(* The schedule keeps starting drains, and those that keep getting so far  *)
(* are not struck down at the same point every time.                       *)
(***************************************************************************)
AlertFairSpec == /\ AlertSpec
                 /\ WF_alertVars(\E d \in Drains : Load(d))
                 /\ SF_alertVars(\E d \in Drains : Send(d))
                 /\ SF_alertVars(\E d \in Drains : CommitDrain(d))

----------------------------------------------------------------------------
AlertTypeOK ==
  /\ recorded \in 0..NumEvents
  /\ shown \in [Events -> 0..Window]
  /\ relevant \in [Events -> {"no", "yes", "late"}]
  /\ evaluated \in BOOLEAN
  /\ outbox \in Seq([to : Events \X Addressees, attempts : 0..MaxAttempts,
                     status : {"pending", "delivered", "failed"}, tries : 0..MaxAttempts])
  /\ eval \in [Evaluators -> [phase : {"idle", "matched", "enqueued"}, seen : SUBSET Events,
                              adds : SUBSET (Events \X Addressees), current : BOOLEAN]]
  /\ \A d \in Drains : /\ drain[d].phase \in {"idle", "sending", "sent"}
                       /\ DOMAIN drain[d].loaded \subseteq DOMAIN outbox

(***************************************************************************)
(* However evaluations race and fail, nobody is owed one alert twice       *)
(* (models/notifications.py:95-97).                                        *)
(***************************************************************************)
OwedOnce == \A i, j \in DOMAIN outbox : outbox[i].to = outbox[j].to => i = j

(***************************************************************************)
(* No alert is missed: as long as each hour sees one evaluation through    *)
(* and no more events than an evaluation looks at, an event some rule      *)
(* matches from the start is queued for everyone before it leaves the      *)
(* window, although older events come first (tasks.py:713-729).            *)
(***************************************************************************)
NoneMissed == \A e \in 1..recorded :
                (shown[e] = Window /\ relevant[e] = "yes") => {e} \X Addressees \subseteq Queued

(***************************************************************************)
(* A row is given up only after the transport has refused it, or been      *)
(* asked in vain, MAX_DELIVERY_ATTEMPTS times, although overlapping drains *)
(* count from stale attempts (outbox.py:153-172).                          *)
(***************************************************************************)
GivenUpAfterMaxTries ==
  \A i \in DOMAIN outbox : outbox[i].status = "failed" => outbox[i].tries = MaxAttempts

(***************************************************************************)
(* Every row comes to be delivered or given up: a row the transport chokes *)
(* on does not block those behind it, and overlapping drains that undo     *)
(* each other's counting do not keep it pending (in_app.py:31-38).         *)
(***************************************************************************)
OwedIsSettled == []<>(Pending = {})
=============================================================================
