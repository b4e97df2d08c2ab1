----------------------------- MODULE RetrievalRun -----------------------------
(***************************************************************************)
(* One scheduled retrieval run (src/shared/procuresignal/retrieval/        *)
(* orchestrator.py and audit.py).                                          *)
(*                                                                         *)
(* Beat and the API scheduler may both enqueue retrieve_news_task for the  *)
(* same six-hour run key.  An execution leases the run row, then for each  *)
(* enabled source leases the source's outcome row, fetches, and commits    *)
(* articles and outcome in one transaction fenced by the run row.  An      *)
(* execution may raise and be retried (same task id, hence same owner),    *)
(* die, or be stalled past its leases and wake up.                         *)
(*                                                                         *)
(* Time appears only as the moment a lease runs out (ExpireRun,            *)
(* ExpireSource), which may come at any time: nothing here relies on an    *)
(* execution being faster than its lease.                                  *)
(***************************************************************************)
EXTENDS Integers, FiniteSets

CONSTANTS Execs,       \* executions of retrieve_news_task for this run key
          Sources,     \* registry.enabled()
          MaxRetries,  \* the task's max_retries
          Nobody       \* no lease owner

ASSUME ExecsAssumption == Nobody \notin Execs
ASSUME RetriesAssumption == MaxRetries \in Nat

VARIABLES
  run,      \* the NewsRetrievalRun row
  src,      \* the NewsRetrievalSourceOutcome row of every source
  saves,    \* how many transactions have committed articles of each source
  phase,    \* where each execution stands
  retries,  \* how often it has been retried
  got       \* the SourceRetrievalResult status it holds for each source

vars == <<run, src, saves, phase, retries, got>>

RunStatuses    == {"none", "running", "completed"}
SourceStatuses == {"none", "running", "completed", "failed"}
Phases         == {"queued", "gathering", "ended"}
\* "todo": claim_source not called yet; "fetching": claimed.
Results        == {"todo", "fetching", "completed", "failed", "already_claimed", "lease_lost"}

NoRow == [status |-> "none", owner |-> Nobody, live |-> FALSE]

\* A row leased to e: lease_expires_at lies ahead.
LeasedTo(e) == [status |-> "running", owner |-> e, live |-> TRUE]

\* A finished row: both lease columns are NULL.
Settled(status) == [status |-> status, owner |-> Nobody, live |-> FALSE]

\* Mutant of Holds: any live lease will do.
HoldsWithoutOwner(r, e) == r.status = "running" /\ r.live

\* The WHERE clause of every fenced update.
Holds(r, e) == r.status = "running" /\ r.owner = e /\ r.live

Todo == [s \in Sources |-> "todo"]

Init == /\ run = NoRow
        /\ src = [s \in Sources |-> NoRow]
        /\ saves = [s \in Sources |-> 0]
        /\ phase = [e \in Execs |-> "queued"]
        /\ retries = [e \in Execs |-> 0]
        /\ got = [e \in Execs |-> Todo]

----------------------------------------------------------------------------
\* The task is over, and what it held in memory is gone.
End(e) == /\ phase' = [phase EXCEPT ![e] = "ended"]
          /\ retries' = [retries EXCEPT ![e] = 0]
          /\ got' = [got EXCEPT ![e] = Todo]

\* Mutant of ClaimableBy: a run under way is taken over without a look at its lease.
ClaimableByAnybody(e) == run.status # "completed"

(***************************************************************************)
(* _claim.  The run is this execution's when nobody has it, when it has it *)
(* already (a retry of the same task), or when the owner's lease is over.  *)
(* Otherwise the task ends without an error, and is not retried.           *)
(***************************************************************************)
ClaimableBy(e) == \/ run.status = "none"
                  \/ run.status = "running" /\ (run.owner = e \/ ~run.live)

ClaimRun(e) ==
  /\ phase[e] = "queued"
  /\ \/ /\ ClaimableBy(e)
        /\ run' = LeasedTo(e)
        /\ phase' = [phase EXCEPT ![e] = "gathering"]
        /\ UNCHANGED <<retries, got>>
     \/ /\ ~ClaimableBy(e)
        /\ run' = run
        /\ End(e)
  /\ UNCHANGED <<src, saves>>

(***************************************************************************)
(* claim_source.  It does not look at the run row.  The source is this     *)
(* execution's when it has no row, when this owner's lease still runs, or  *)
(* when anybody's lease is over; otherwise the execution reports what the  *)
(* row says.                                                               *)
(***************************************************************************)
SourceClaimableBy(e, s) == \/ src[s].status = "none"
                           \/ src[s].status = "running" /\ (src[s].owner = e \/ ~src[s].live)

ClaimSource(e, s) ==
  /\ phase[e] = "gathering"
  /\ got[e][s] = "todo"
  /\ \/ /\ SourceClaimableBy(e, s)
        /\ src' = [src EXCEPT ![s] = LeasedTo(e)]
        /\ got' = [got EXCEPT ![e][s] = "fetching"]
     \/ /\ ~SourceClaimableBy(e, s)
        /\ src' = src
        /\ got' = [got EXCEPT ![e][s] = IF src[s].status = "running"
                                        THEN "already_claimed" ELSE src[s].status]
  /\ UNCHANGED <<run, saves, phase, retries>>

Fetched(e, s) == phase[e] = "gathering" /\ got[e][s] = "fetching"

\* Mutant of Save: the run is not fenced.
SaveWithoutRunFence(e, s) ==
  /\ Fetched(e, s)
  /\ Holds(src[s], e)
  /\ saves' = [saves EXCEPT ![s] = @ + 1]
  /\ src' = [src EXCEPT ![s] = Settled("completed")]
  /\ got' = [got EXCEPT ![e][s] = "completed"]
  /\ UNCHANGED <<run, phase, retries>>

\* fence_run, save_articles, complete_source and the commit: the fence holds
\* the lock on the run row until the commit, so this is one step.
Save(e, s) ==
  /\ Fetched(e, s)
  /\ Holds(run, e)
  /\ Holds(src[s], e)
  /\ saves' = [saves EXCEPT ![s] = @ + 1]
  /\ src' = [src EXCEPT ![s] = Settled("completed")]
  /\ got' = [got EXCEPT ![e][s] = "completed"]
  /\ UNCHANGED <<run, phase, retries>>

\* Mutant of LoseLease: save_articles commits by itself.
LoseLeaseAfterCommit(e, s) ==
  /\ Fetched(e, s)
  /\ ~(Holds(run, e) /\ Holds(src[s], e))
  /\ saves' = IF Holds(run, e) THEN [saves EXCEPT ![s] = @ + 1] ELSE saves
  /\ got' = [got EXCEPT ![e][s] = "lease_lost"]
  /\ UNCHANGED <<run, src, phase, retries>>

\* One of the two conditional updates matched no row: everything is rolled back.
LoseLease(e, s) ==
  /\ Fetched(e, s)
  /\ ~(Holds(run, e) /\ Holds(src[s], e))
  /\ got' = [got EXCEPT ![e][s] = "lease_lost"]
  /\ UNCHANGED <<run, src, saves, phase, retries>>

\* The fetch raised.  fail_source is conditional on the source's lease only,
\* and its result is not looked at.
FailSource(e, s) ==
  /\ Fetched(e, s)
  /\ src' = IF Holds(src[s], e) THEN [src EXCEPT ![s] = Settled("failed")] ELSE src
  /\ got' = [got EXCEPT ![e][s] = "failed"]
  /\ UNCHANGED <<run, saves, phase, retries>>

Gathered(e) == /\ phase[e] = "gathering"
               /\ \A s \in Sources : got[e][s] \notin {"todo", "fetching"}

\* complete_run, whatever became of the sources as long as no lease was lost.
Complete(e) ==
  /\ Gathered(e)
  /\ \A s \in Sources : got[e][s] # "lease_lost"
  /\ Holds(run, e)
  /\ run' = Settled("completed")
  /\ End(e)
  /\ UNCHANGED <<src, saves>>

\* Mutant of GiveUp: a failed complete_run is not looked at.
GiveUpOnSourcesOnly(e) ==
  /\ Gathered(e)
  /\ \E s \in Sources : got[e][s] = "lease_lost"
  /\ End(e)
  /\ UNCHANGED <<run, src, saves>>

\* The run ends as "lease_lost": no error, so no retry.
GiveUp(e) ==
  /\ Gathered(e)
  /\ (\E s \in Sources : got[e][s] = "lease_lost") \/ ~Holds(run, e)
  /\ End(e)
  /\ UNCHANGED <<run, src, saves>>

\* Mutant of Raise: the retry count is compared too late.
RaiseOnceTooOften(e) ==
  /\ phase[e] # "ended"
  /\ \/ /\ retries[e] <= MaxRetries
        /\ retries' = [retries EXCEPT ![e] = @ + 1]
        /\ phase' = [phase EXCEPT ![e] = "queued"]
        /\ got' = [got EXCEPT ![e] = Todo]
     \/ /\ retries[e] > MaxRetries
        /\ End(e)
  /\ UNCHANGED <<run, src, saves>>

\* The task raises (the database is away, say): _run_with_retry retries it
\* under the same id, or dead-letters it.  What a source had not committed
\* is lost.
Raise(e) ==
  /\ phase[e] # "ended"
  /\ \/ /\ retries[e] < MaxRetries
        /\ retries' = [retries EXCEPT ![e] = @ + 1]
        /\ phase' = [phase EXCEPT ![e] = "queued"]
        /\ got' = [got EXCEPT ![e] = Todo]
     \/ /\ retries[e] = MaxRetries
        /\ End(e)
  /\ UNCHANGED <<run, src, saves>>

\* Killed, by the hard time limit or otherwise.  Acknowledged early, the task
\* is not delivered again.
Die(e) == /\ phase[e] # "ended"
          /\ End(e)
          /\ UNCHANGED <<run, src, saves>>

ExpireRun == /\ run.live
             /\ run' = [run EXCEPT !.live = FALSE]
             /\ UNCHANGED <<src, saves, phase, retries, got>>

ExpireSource(s) == /\ src[s].live
                   /\ src' = [src EXCEPT ![s].live = FALSE]
                   /\ UNCHANGED <<run, saves, phase, retries, got>>

SourceStep(e, s) == ClaimSource(e, s) \/ Save(e, s) \/ LoseLease(e, s) \/ FailSource(e, s)

\* What an execution does when nothing interferes.
Progress(e) == \/ ClaimRun(e)
               \/ \E s \in Sources : SourceStep(e, s)
               \/ Complete(e) \/ GiveUp(e)

Next == \/ \E e \in Execs : Progress(e) \/ Raise(e) \/ Die(e)
        \/ ExpireRun
        \/ \E s \in Sources : ExpireSource(s)

Spec == Init /\ [][Next]_vars

\* An execution that is alive goes on.
FairSpec == Spec /\ \A e \in Execs : WF_vars(Progress(e))

----------------------------------------------------------------------------
Row(statuses) == [status : statuses, owner : Execs \cup {Nobody}, live : BOOLEAN]

TypeOK == /\ run \in Row(RunStatuses)
          /\ src \in [Sources -> Row(SourceStatuses)]
          /\ saves \in [Sources -> Nat]
          /\ phase \in [Execs -> Phases]
          /\ retries \in [Execs -> 0..MaxRetries]
          /\ got \in [Execs -> [Sources -> Results]]

(***************************************************************************)
(* However executions are retried, killed or stalled past their leases, a  *)
(* source's articles are committed at most once in a run, and exactly when *)
(* its outcome row says "completed" (orchestrator.py:362-397).             *)
(***************************************************************************)
SavedExactlyOnce ==
  \A s \in Sources : saves[s] = IF src[s].status = "completed" THEN 1 ELSE 0

(***************************************************************************)
(* Nothing is written for a run that is over: an execution that wakes up   *)
(* after another one completed the run neither saves articles nor reopens  *)
(* it (fence_run, audit.py:73-84).  ImplementsHarvest covers the articles  *)
(* and the status; this says it of the whole row.                          *)
(***************************************************************************)
CompletedRunIsClosed == [][run.status = "completed" => UNCHANGED <<run, saves>>]_vars

(***************************************************************************)
(* Articles are committed under the run's current lease only: a stalled    *)
(* owner whose run was taken over saves nothing any more, even while its   *)
(* own lease on the source still runs.                                     *)
(***************************************************************************)
OnlyTheRunOwnerSaves ==
  [][\A s \in Sources : saves'[s] # saves[s] =>
       /\ run.live
       /\ src[s].owner = run.owner
       /\ got[run.owner][s] = "fetching"]_vars

(***************************************************************************)
(* The run keeps the promise of Harvest: who collects is the owner of a    *)
(* lease that has not run out, one after the other; and what is committed  *)
(* is committed once, by them, before one of them closes the run           *)
(* (RetrievalOrchestrator._claim and _source).                             *)
(***************************************************************************)
HV == INSTANCE Harvest WITH collector <- IF run.live THEN run.owner ELSE Nobody,
                            collected <- saves,
                            closed <- run.status = "completed"

ImplementsHarvest == HV!Spec

(***************************************************************************)
(* A gathering execution ends or is put back in the queue: no combination  *)
(* of claims, lost leases and failures leaves it waiting for ever.         *)
(***************************************************************************)
GatheringEnds == \A e \in Execs : phase[e] = "gathering" ~> phase[e] # "gathering"

=============================================================================
