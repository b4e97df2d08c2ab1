---------------------- MODULE EnrichmentWithNormalizer ----------------------
(***************************************************************************)
(* The enrichment queue together with normalize_articles_task              *)
(* (src/worker/tasks.py), which works on the same rows without leasing     *)
(* them: it reads claimable rows, normalises them, and writes its verdicts *)
(* through the ORM.  The ORM's UPDATE names the primary key only, and only *)
(* the columns whose value differs from the one it loaded; what another    *)
(* execution wrote in between is neither checked nor restored.             *)
(***************************************************************************)
EXTENDS EnrichmentQueue

VARIABLES
  loaded,     \* the rows the normaliser has in its session, as it read them
  elapsed     \* how long its execution has been running

normalizerVars == <<loaded, elapsed>>
allVars == <<vars, normalizerVars>>

NotRunning == [a \in {} |-> NewRow]

NInit == Init /\ loaded = NotRunning /\ elapsed = 0

(***************************************************************************)
(* _load_recent_raw_articles: claimable rows of the last 24 hours, at most *)
(* 1000, so any claimable rows.  A row that already has a processed row is *)
(* not left out here.                                                      *)
(***************************************************************************)
Load == /\ loaded = NotRunning
        /\ \E S \in SUBSET {a \in Present : Claimable(row[a])} :
             /\ S # {}
             /\ loaded' = [a \in S |-> row[a]]
        /\ UNCHANGED <<vars, elapsed>>

\* The owner and lease columns are cleared only if they were set when read.
StaleRelease(r, seen) ==
  IF seen.owner = None THEN r ELSE [r EXCEPT !.owner = None, !.lease = 0]

\* enrichment_next_attempt_at is already NULL in a row never retried.
StaleReject(r, seen) ==
  StaleRelease([r EXCEPT !.status = "quality_rejected",
                         !.wait = IF seen.attempts = 0 THEN @ ELSE 0], seen)

StaleRaise(r, seen, delay) ==
  StaleRelease([r EXCEPT !.status = IF seen.status = "normalization_retry"
                                    THEN @ ELSE "normalization_retry",
                         !.attempts = OneMore(seen.attempts),
                         !.wait = delay], seen)

\* The normaliser commits its verdicts; an accepted row is not written.
Write ==
  /\ loaded # NotRunning
  /\ \E raised \in SUBSET (DOMAIN loaded \cap Present) :
     \E rejected \in SUBSET ((DOMAIN loaded \cap Present) \ raised),
        delay \in [raised -> 0..BackoffMax] :
       /\ \A a \in raised : delay[a] <= Backoff(loaded[a].attempts + 1)
       /\ row' = [a \in Articles |->
                    IF a \in rejected THEN StaleReject(row[a], loaded[a])
                    ELSE IF a \in raised THEN StaleRaise(row[a], loaded[a], delay[a])
                    ELSE row[a]]
  /\ loaded' = NotRunning
  /\ elapsed' = 0
  /\ UNCHANGED <<ingested, pruned, processed, workerVars>>

\* It raises, dies, or is killed at its time limit: nothing was written.
Abort == /\ loaded # NotRunning
         /\ loaded' = NotRunning
         /\ elapsed' = 0
         /\ UNCHANGED vars

\* Both tasks have the same hard time limit.
TickBoth == /\ loaded # NotRunning => elapsed < TaskLimit
            /\ Tick
            /\ elapsed' = IF loaded = NotRunning THEN 0 ELSE elapsed + 1
            /\ UNCHANGED loaded

QueueStep == /\ Ingest \/ Prune \/ \E w \in Workers : WorkerStep(w)
             /\ UNCHANGED normalizerVars

NNext == QueueStep \/ TickBoth \/ Load \/ Write \/ Abort

NSpec == NInit /\ [][NNext]_allVars

NFairSpec ==
  /\ NSpec
  /\ WF_allVars(TickBoth)
  /\ WF_allVars(elapsed = TaskLimit /\ Abort)
  /\ \A w \in Workers :
       /\ WF_allVars(Start(w) /\ UNCHANGED normalizerVars)
       /\ SF_allVars(ClaimRound(w) /\ UNCHANGED normalizerVars)
       /\ WF_allVars(age[w] = TaskLimit /\ Crash(w) /\ UNCHANGED normalizerVars)

----------------------------------------------------------------------------
(***************************************************************************)
(* Whatever the normaliser overwrites, a row that says "completed" has     *)
(* been enriched: no stale verdict can forge the success.  (The converse   *)
(* is lost: a stale retry may overwrite "completed".)                      *)
(***************************************************************************)
CompletedMeansProcessed ==
  \A a \in Present : row[a].status = "completed" => a \in processed

(***************************************************************************)
(* An article that has been enriched is never claimed again, even when a   *)
(* stale verdict has made its row look due (the ~processed condition of    *)
(* _claim_enrichment_candidates, tasks.py:206-210).                        *)
(***************************************************************************)
EnrichedIsNeverClaimed ==
  [][\A w \in Workers : (batch'[w] \ batch[w]) \cap processed = {}]_allVars

(***************************************************************************)
(* A lease left by a dead execution never strands an article, whatever the *)
(* normaliser writes meanwhile: it is leased again, or settled, or deleted *)
(* (a stale rejection may leave the dead owner in place for ever, but only *)
(* on a row that is settled).                                              *)
(***************************************************************************)
Stranded(a) == row[a].owner = Dead /\ row[a].status \notin Terminal /\ a \notin processed

StrandedAreReclaimed == \A a \in Articles : Stranded(a) ~> ~Stranded(a)
=============================================================================
