--------------------------- MODULE EnrichmentQueue ---------------------------
(***************************************************************************)
(* The raw-article queue that the enrichment task drains                   *)
(* (src/worker/tasks.py and the row transitions of                         *)
(* src/shared/procuresignal/enrichment/pipeline.py).                       *)
(*                                                                         *)
(* Several executions of enrich_articles_task run at once.  Each one leases *)
(* due rows of news_articles_raw, normalises them, sends the accepted ones *)
(* through the enrichment pipeline and commits the outcome.  An execution  *)
(* may raise (its claims are released), or die (its leases run out).       *)
(*                                                                         *)
(* Time.  Deadlines are countdowns: a row's "wait" is the time left until  *)
(* enrichment_next_attempt_at and "lease" the time left until              *)
(* enrichment_lease_expires_at, 0 standing for NULL and for the past alike *)
(* (every comparison in the code treats them alike while the owner column  *)
(* is looked at too).                                                      *)
(*                                                                         *)
(* Owners.  The code draws a new uuid for every execution.  The model      *)
(* names an execution by the worker that runs it, and renames the leases   *)
(* an execution leaves behind to Dead when it ends: no later execution has *)
(* that uuid.                                                              *)
(***************************************************************************)
EXTENDS Integers, FiniteSets

CONSTANTS Workers,       \* processes that execute enrich_articles_task
          NumArticles,   \* how many articles retrieval ever ingests
          Limit,         \* _ENRICH_MAX_PER_RUN
          LeaseLen,      \* _ENRICH_LEASE_MINUTES
          TaskLimit,     \* the task's hard time_limit
          ReleaseDelay,  \* retry delay after a failed batch (1 minute)
          RouteDelay,    \* retry delay of "deferred" and "failed" (2 hours)
          BackoffBase,   \* first normalisation retry delay (15 minutes)
          BackoffMax,    \* its ceiling (360 minutes)
          AttemptCap,    \* bound: attempt counters saturate here
          None, Dead     \* no owner; an owner whose execution has ended

ASSUME WorkersAssumption == None \notin Workers /\ Dead \notin Workers /\ None # Dead

ASSUME SizesAssumption == /\ NumArticles \in Nat
                          /\ Limit \in Nat \ {0}
                          /\ AttemptCap \in Nat \ {0}

ASSUME DelaysAssumption == /\ ReleaseDelay \in Nat
                           /\ RouteDelay \in Nat
                           /\ BackoffBase \in Nat
                           /\ BackoffMax \in Nat

\* _ENRICH_LEASE_MINUTES = 65 against time_limit = 3600 seconds.
ASSUME LeaseAssumption == /\ LeaseLen \in Nat
                          /\ TaskLimit \in Nat
                          /\ TaskLimit < LeaseLen

VARIABLES
  row,        \* news_articles_raw: the enrichment columns of every article
  ingested,   \* articles 1..ingested have been inserted, in this order
  pruned,     \* articles 1..pruned have been deleted by retention
  processed,  \* raw ids with a row in news_articles_processed
  phase,      \* where each worker's execution stands
  age,        \* how long it has been running
  batch,      \* rows of its current claim round, not normalised yet
  scanned,    \* scanned_ids: every row it has claimed
  fresh       \* normalized_articles: accepted, for the pipeline

queueVars  == <<row, ingested, pruned, processed>>
workerVars == <<phase, age, batch, scanned, fresh>>
vars       == <<row, ingested, pruned, processed, phase, age, batch, scanned, fresh>>

Articles == 1..NumArticles
Statuses == {"new", "processing", "normalization_retry", "enrichment_retry",
             "deferred", "skipped", "quality_rejected", "completed"}
Terminal == {"skipped", "quality_rejected", "completed"}
Phases   == {"idle", "claiming", "claimed", "processing"}
Outcomes == {"completed", "skipped", "deferred", "failed"}

Row == [status : Statuses, attempts : 0..AttemptCap, wait : Nat,
        owner : Workers \cup {None, Dead}, lease : Nat]

NewRow == [status |-> "new", attempts |-> 0, wait |-> 0, owner |-> None, lease |-> 0]

Present == (pruned + 1)..ingested

\* The articles an execution is spending work on.
Held(w) == batch[w] \cup fresh[w]

OneMore(n) == IF n < AttemptCap THEN n + 1 ELSE n

\* min(360, 15 * 2 ** (attempts - 1)) minutes
Backoff(n) == LET d == BackoffBase * 2^(n - 1) IN IF d < BackoffMax THEN d ELSE BackoffMax

----------------------------------------------------------------------------
(***************************************************************************)
(* Row updates.  r is the row before the statement.                        *)
(***************************************************************************)

\* Mutants of Claimable: the lease, the status, or the expiry is not looked at.
ClaimableIgnoringLease(r) == r.status \notin Terminal /\ r.wait = 0
ClaimableAnyStatus(r) == r.wait = 0 /\ (r.owner = None \/ r.lease = 0)
ClaimableUnownedOnly(r) == r.status \notin Terminal /\ r.wait = 0 /\ r.owner = None

Claimable(r) == /\ r.status \notin Terminal
                /\ r.wait = 0
                /\ r.owner = None \/ r.lease = 0

\* Mutant of Leased: the expiry is not set.
LeasedWithoutExpiry(r, w) == [r EXCEPT !.status = "processing", !.owner = w]

Leased(r, w) == [r EXCEPT !.status = "processing", !.owner = w, !.lease = LeaseLen]

Rejected(r) == [r EXCEPT !.status = "quality_rejected", !.wait = 0,
                         !.owner = None, !.lease = 0]

Raised(r, delay) == [r EXCEPT !.status = "normalization_retry",
                              !.attempts = OneMore(@), !.wait = delay,
                              !.owner = None, !.lease = 0]

\* _release_enrichment_claims_after_failure
Released(r) == [r EXCEPT !.status = "enrichment_retry", !.attempts = OneMore(@),
                         !.wait = ReleaseDelay, !.owner = None, !.lease = 0]

\* _transition_raw
Transitioned(r, outcome) ==
  IF outcome \in {"deferred", "failed"}
  THEN [r EXCEPT !.status = IF outcome = "deferred" THEN "deferred" ELSE "enrichment_retry",
                 !.attempts = OneMore(@), !.wait = RouteDelay, !.owner = None, !.lease = 0]
  ELSE [r EXCEPT !.status = outcome, !.wait = 0, !.owner = None, !.lease = 0]

\* The same row once w's execution is over: nobody will use that uuid again.
Orphaned(r, w) == IF r.owner = w THEN [r EXCEPT !.owner = Dead] ELSE r

Less(n) == IF n = 0 THEN 0 ELSE n - 1

----------------------------------------------------------------------------
Init == /\ row = [a \in Articles |-> NewRow]
        /\ ingested = 0
        /\ pruned = 0
        /\ processed = {}
        /\ phase = [w \in Workers |-> "idle"]
        /\ age = [w \in Workers |-> 0]
        /\ batch = [w \in Workers |-> {}]
        /\ scanned = [w \in Workers |-> {}]
        /\ fresh = [w \in Workers |-> {}]

\* The worker's session and local variables are gone.
Idle(w) == /\ phase' = [phase EXCEPT ![w] = "idle"]
           /\ age' = [age EXCEPT ![w] = 0]
           /\ batch' = [batch EXCEPT ![w] = {}]
           /\ scanned' = [scanned EXCEPT ![w] = {}]
           /\ fresh' = [fresh EXCEPT ![w] = {}]

\* Retrieval saves an article (save_articles): the row has every default.
Ingest == /\ ingested < NumArticles
          /\ ingested' = ingested + 1
          /\ UNCHANGED <<row, pruned, processed, workerVars>>

\* Retention deletes raw rows up to an age.  It looks at no lease.
Prune == /\ \E n \in (pruned + 1)..ingested :
              /\ pruned' = n
              /\ row' = [a \in Articles |-> IF a <= n THEN NewRow ELSE row[a]]
         /\ UNCHANGED <<ingested, processed, workerVars>>

\* The beat schedule, or a retry, starts an execution.
Start(w) == /\ phase[w] = "idle"
            /\ phase' = [phase EXCEPT ![w] = "claiming"]
            /\ UNCHANGED <<queueVars, age, batch, scanned, fresh>>

\* Mutant of Due: the row's processed article is not looked for.
DueWithoutProcessedCheck(rows, w) ==
  {a \in Present : Claimable(rows[a]) /\ a \notin scanned[w]}

\* The rows a claim sees as due, given the rows its own transaction has
\* already flushed.
Due(rows, w) == {a \in Present : /\ a \notin processed
                                 /\ Claimable(rows[a])
                                 /\ a \notin scanned[w]}

\* At most n of them, newest first.
Newest(S, n) == {a \in S : Cardinality({b \in S : b > a}) < n}

(***************************************************************************)
(* One turn of the loop in _normalize_articles.  The verdicts on the       *)
(* previous batch were only flushed; the commit that ends the next claim   *)
(* makes them durable together with it, so the two are one step.  A        *)
(* verdict is accept, reject or raise, in any combination: normalisation   *)
(* calls a language detector that is not seeded.  The retry delay runs     *)
(* from the verdict, so part of it may be over when the commit comes.  An  *)
(* update of a row that retention has deleted either matches nothing, as   *)
(* here, or raises, which is Fail.                                         *)
(***************************************************************************)
Verdicts(w) == {v \in [raised : SUBSET (batch[w] \cap Present), rejected : SUBSET batch[w]] :
                  v.raised \cap v.rejected = {}}

\* The rows as this transaction sees them after its flush.
Flushed(v, delay) == [a \in Articles |->
                        IF a \in v.raised THEN Raised(row[a], delay[a])
                        ELSE IF a \in v.rejected \cap Present THEN Rejected(row[a])
                        ELSE row[a]]

Accepted(w, v) == fresh[w] \cup (batch[w] \ (v.raised \cup v.rejected))

Room(w, v) == Limit - Cardinality(Accepted(w, v))

Claims(w, v, delay) ==
  IF Room(w, v) > 0 THEN Newest(Due(Flushed(v, delay), w), Room(w, v)) ELSE {}

ClaimAfter(w, v, delay) ==
  LET claims == Claims(w, v, delay)
      rows == Flushed(v, delay)
  IN /\ row' = [a \in Articles |-> IF a \in claims THEN Leased(rows[a], w) ELSE rows[a]]
     /\ fresh' = [fresh EXCEPT ![w] = Accepted(w, v)]
     /\ batch' = [batch EXCEPT ![w] = claims]
     /\ scanned' = [scanned EXCEPT ![w] = @ \cup claims]
     /\ phase' = [phase EXCEPT ![w] = IF claims = {} THEN "claimed" ELSE "claiming"]

ClaimRound(w) ==
  /\ phase[w] = "claiming"
  /\ \E v \in Verdicts(w) : \E delay \in [v.raised -> 0..BackoffMax] :
       /\ \A a \in v.raised : delay[a] <= Backoff(row[a].attempts + 1)
       /\ ClaimAfter(w, v, delay)
  /\ UNCHANGED <<ingested, pruned, processed, age>>

\* Nothing was accepted: the task reports success and ends.
EndEmpty(w) == /\ phase[w] = "claimed"
               /\ fresh[w] = {}
               /\ row' = [a \in Articles |-> Orphaned(row[a], w)]
               /\ Idle(w)
               /\ UNCHANGED <<ingested, pruned, processed>>

\* The rows process_raw_articles leaves out.  A deleted row is not among them.
Unavailable(w) == {a \in Present : \/ row[a].status \in {"skipped", "quality_rejected"}
                                   \/ row[a].wait > 0
                                   \/ row[a].lease > 0 /\ row[a].owner # w}

\* process_raw_articles reads, once, which of its candidates are still open.
BeginProcessing(w) ==
  /\ phase[w] = "claimed"
  /\ fresh[w] # {}
  /\ fresh' = [fresh EXCEPT ![w] = @ \ (processed \cup Unavailable(w))]
  /\ phase' = [phase EXCEPT ![w] = "processing"]
  /\ UNCHANGED <<queueVars, age, batch, scanned>>

\* Mutant of Finish: every failure to insert is taken for a duplicate.
FinishSwallowingErrors(w) ==
  /\ phase[w] = "processing"
  /\ \E outcome \in [fresh[w] -> Outcomes] :
       /\ \E inserted \in SUBSET {a \in fresh[w] : outcome[a] = "completed"} :
            processed' = processed \cup inserted
       /\ row' = [a \in Articles |->
                    IF a \in fresh[w] /\ row[a].owner = w
                    THEN Transitioned(row[a], outcome[a])
                    ELSE Orphaned(row[a], w)]
  /\ Idle(w)
  /\ UNCHANGED <<ingested, pruned>>

(***************************************************************************)
(* The single commit that ends process_raw_articles: every candidate has   *)
(* been routed, those that got an output have a processed row (an insert   *)
(* that collides with one counts as completed too), and the raw rows that  *)
(* are still leased to this execution move on.                             *)
(***************************************************************************)
Finish(w) ==
  /\ phase[w] = "processing"
  /\ \E outcome \in [fresh[w] -> Outcomes] :
       /\ processed' = processed \cup {a \in fresh[w] : outcome[a] = "completed"}
       /\ row' = [a \in Articles |->
                    IF a \in fresh[w] /\ row[a].owner = w
                    THEN Transitioned(row[a], outcome[a])
                    ELSE Orphaned(row[a], w)]
  /\ Idle(w)
  /\ UNCHANGED <<ingested, pruned>>

\* An exception: rollback, then release every claim of this execution.
Fail(w) == /\ phase[w] # "idle"
           /\ row' = [a \in Articles |-> IF row[a].owner = w THEN Released(row[a])
                                         ELSE row[a]]
           /\ Idle(w)
           /\ UNCHANGED <<ingested, pruned, processed>>

\* Mutant of Crash: processed rows are committed before the raw rows move on.
CrashAfterInsert(w) ==
  /\ phase[w] # "idle"
  /\ processed' = IF phase[w] = "processing" THEN processed \cup fresh[w] ELSE processed
  /\ row' = [a \in Articles |-> Orphaned(row[a], w)]
  /\ Idle(w)
  /\ UNCHANGED <<ingested, pruned>>

\* The process dies, is killed at the time limit, or cannot reach the
\* database to release: its transaction is lost and its leases stay.
Crash(w) == /\ phase[w] # "idle"
            /\ row' = [a \in Articles |-> Orphaned(row[a], w)]
            /\ Idle(w)
            /\ UNCHANGED <<ingested, pruned, processed>>

\* Mutant of Tick: the task has no hard time limit.
TickNoTimeLimit ==
  /\ age' = [w \in Workers |-> IF phase[w] = "idle" \/ age[w] = TaskLimit THEN age[w]
                               ELSE age[w] + 1]
  /\ row' = [a \in Articles |-> [row[a] EXCEPT !.wait = Less(@), !.lease = Less(@)]]
  /\ UNCHANGED <<ingested, pruned, processed, phase, batch, scanned, fresh>>

\* Time passes.  No execution outlives the hard time limit.
Tick == /\ \A w \in Workers : phase[w] # "idle" => age[w] < TaskLimit
        /\ age' = [w \in Workers |-> IF phase[w] = "idle" THEN 0 ELSE age[w] + 1]
        /\ row' = [a \in Articles |-> [row[a] EXCEPT !.wait = Less(@), !.lease = Less(@)]]
        /\ UNCHANGED <<ingested, pruned, processed, phase, batch, scanned, fresh>>

WorkerStep(w) == \/ Start(w) \/ ClaimRound(w) \/ EndEmpty(w)
                 \/ BeginProcessing(w) \/ Finish(w) \/ Fail(w) \/ Crash(w)

Next == \/ Ingest \/ Prune \/ Tick
        \/ \E w \in Workers : WorkerStep(w)

Spec == Init /\ [][Next]_vars

----------------------------------------------------------------------------
TypeOK == /\ row \in [Articles -> Row]
          /\ ingested \in 0..NumArticles
          /\ pruned \in 0..ingested
          /\ processed \subseteq 1..ingested
          /\ phase \in [Workers -> Phases]
          /\ age \in [Workers -> 0..TaskLimit]
          /\ batch \in [Workers -> SUBSET (1..ingested)]
          /\ scanned \in [Workers -> SUBSET (1..ingested)]
          /\ fresh \in [Workers -> SUBSET (1..ingested)]

(***************************************************************************)
(* No article is worked on by two live executions: an article is never     *)
(* sent to the paid model twice at once (the lease and SKIP LOCKED of      *)
(* _claim_enrichment_candidates, tasks.py:197-242).                        *)
(***************************************************************************)
ExclusiveWork == \A v, w \in Workers : v # w => Held(v) \cap Held(w) = {}

(***************************************************************************)
(* tasks.py:55: "Longer than the Celery task time limit so a live worker   *)
(* cannot lose its lease".                                                 *)
(***************************************************************************)
LiveWorkerKeepsLease ==
  \A w \in Workers : \A a \in Held(w) \cap Present : row[a].owner = w /\ row[a].lease > 0

(***************************************************************************)
(* The queue keeps the promise of ArticleWork: the articles of a live      *)
(* execution are its own, and an enriched article is never taken again.    *)
(***************************************************************************)
AW == INSTANCE ArticleWork WITH works <- [w \in Workers |-> Held(w)], done <- processed

ImplementsArticleWork == AW!Spec

(***************************************************************************)
(* The two records of success agree: a raw row says "completed" exactly    *)
(* when a processed row exists for it (_add_processed, _transition_raw).   *)
(***************************************************************************)
CompletedIffProcessed ==
  \A a \in Present : row[a].status = "completed" <=> a \in processed

(***************************************************************************)
(* A verdict is final: once a row is rejected, skipped or completed no     *)
(* later run, release or retry reopens it (until retention deletes it).    *)
(***************************************************************************)
VerdictsAreFinal ==
  [][\A a \in Articles : row[a].status \in Terminal /\ a > pruned'
                           => row'[a].status = row[a].status]_vars


----------------------------------------------------------------------------
(***************************************************************************)
(* Fairness.  Time passes; the scheduler keeps starting executions; an     *)
(* execution that is alive at the time limit is killed; and executions do  *)
(* not for ever die between their start and the commit of their claim (the *)
(* strong fairness: that commit takes well under a second).                *)
(***************************************************************************)
Fairness == /\ WF_vars(Tick)
            /\ \A w \in Workers :
                 /\ WF_vars(Start(w))
                 /\ SF_vars(ClaimRound(w))
                 /\ WF_vars(age[w] = TaskLimit /\ Crash(w))

FairSpec == Spec /\ Fairness

\* The same queue when nothing goes wrong: executions run one after another
\* to their end, none raises, none dies, and nothing is deleted.
CalmStep(w) == Start(w) \/ ClaimRound(w) \/ EndEmpty(w) \/ BeginProcessing(w) \/ Finish(w)

CalmSpec == /\ Init
            /\ [][Ingest \/ Tick \/ \E w \in Workers : CalmStep(w)]_vars
            /\ WF_vars(Tick)
            /\ \A w \in Workers : WF_vars(CalmStep(w))

(***************************************************************************)
(* tasks.py:52-53: "Cap enrichment per run so a backlog cannot monopolize  *)
(* the shared LLM budget. The beat schedule drains the rest over           *)
(* subsequent runs."  Every article is claimed at some time, or deleted.   *)
(***************************************************************************)
BacklogDrains ==
  \A a \in Articles : (a \in Present /\ row[a].status = "new")
                        ~> (a \notin Present \/ row[a].status # "new")
=============================================================================
