------------------------------ MODULE DeadLetters ------------------------------
(***************************************************************************)
(* How a background task is tried, tried again and given up:               *)
(* _run_with_retry and _dead_letter (src/worker/tasks.py), and             *)
(* record_dead_letter (src/shared/procuresignal/jobs/dead_letter.py).      *)
(* Celery is external: it hands a message over once (it is acknowledged    *)
(* before the task runs) and keeps a retry until it is due.                *)
(***************************************************************************)
EXTENDS Naturals

CONSTANTS Jobs,       \* messages
          MaxRetries  \* [Jobs -> max_retries of the task]

ASSUME DeadLettersAssumption == MaxRetries \in [Jobs -> Nat]

VARIABLES
  job,     \* each message: [at, retries, wait]
  letters, \* dead letters stored, as messages
  unsaid   \* messages whose dead letter could not be stored, or whose worker died

letterVars == <<job, letters, unsaid>>

LettersInit == /\ job = [j \in Jobs |-> [at |-> "queued", retries |-> 0, wait |-> 0]]
               /\ letters = [j \in Jobs |-> 0] /\ unsaid = {}

Take(j) == /\ job[j].at \in {"queued", "due"}
           /\ job' = [job EXCEPT ![j].at = "running"]
           /\ UNCHANGED <<letters, unsaid>>

Finish(j) == /\ job[j].at = "running"
             /\ job' = [job EXCEPT ![j].at = "finished"]
             /\ UNCHANGED <<letters, unsaid>>

\* Mutant of RetryJob: the first try counts as a retry, and one more is made.
RetryJobOnceMore(j) ==
  /\ job[j].at = "running" /\ job[j].retries <= MaxRetries[j]
  /\ job' = [job EXCEPT ![j] = [at |-> "waiting", retries |-> @.retries + 1,
                                wait |-> 2^@.retries]]
  /\ UNCHANGED <<letters, unsaid>>

\* It raises, and is put back: 60 * 2^retries seconds, in minutes here.
RetryJob(j) ==
  /\ job[j].at = "running" /\ job[j].retries < MaxRetries[j]
  /\ job' = [job EXCEPT ![j] = [at |-> "waiting", retries |-> @.retries + 1,
                                wait |-> 2^@.retries]]
  /\ UNCHANGED <<letters, unsaid>>

WaitOver(j) == /\ job[j].at = "waiting"
               /\ job' = [job EXCEPT ![j].at = "due", ![j].wait = 0]
               /\ UNCHANGED <<letters, unsaid>>

\* The last try raises: the metric is counted, and the letter is stored next.
Exhaust(j) ==
  /\ job[j].at = "running" /\ job[j].retries >= MaxRetries[j]
  /\ job' = [job EXCEPT ![j].at = "exhausted"]
  /\ UNCHANGED <<letters, unsaid>>

\* Storing it fails quietly; the task's own exception is raised all the same.
BuryJob(j) ==
  /\ job[j].at = "exhausted"
  /\ job' = [job EXCEPT ![j].at = "failed"]
  /\ \/ letters' = [letters EXCEPT ![j] = @ + 1] /\ UNCHANGED unsaid
     \/ unsaid' = unsaid \cup {j} /\ UNCHANGED letters

\* The worker is killed: nobody has the message any more.
WorkerDies(j) ==
  /\ job[j].at \in {"running", "exhausted"}
  /\ job' = [job EXCEPT ![j].at = "gone"]
  /\ unsaid' = unsaid \cup {j}
  /\ UNCHANGED letters

LettersNext == \E j \in Jobs : \/ Take(j) \/ Finish(j) \/ RetryJob(j) \/ WaitOver(j)
                               \/ Exhaust(j) \/ BuryJob(j) \/ WorkerDies(j)

LettersSpec == LettersInit /\ [][LettersNext]_letterVars

----------------------------------------------------------------------------
Places == {"queued", "running", "waiting", "due", "exhausted", "finished", "failed", "gone"}
Waits(j) == {0} \cup {2^n : n \in 0..MaxRetries[j]}
LettersTypeOK ==
  /\ DOMAIN job = Jobs
  /\ \A j \in Jobs : job[j] \in [at : Places, retries : 0..MaxRetries[j], wait : Waits(j)]
  /\ letters \in [Jobs -> 0..1] /\ unsaid \subseteq Jobs

(***************************************************************************)
(* No task vanishes unsaid (tasks.py:113-117): one that failed for good    *)
(* was tried max_retries more times and has exactly one dead letter; one   *)
(* that went another way has none, unless its worker or its letter was     *)
(* lost.                                                                   *)
(***************************************************************************)
FailuresAreSaid ==
  \A j \in Jobs :
    /\ job[j].at = "failed" /\ j \notin unsaid =>
         letters[j] = 1 /\ job[j].retries = MaxRetries[j]
    /\ letters[j] > 0 => job[j].at = "failed"
    /\ job[j].at = "gone" => j \in unsaid
=============================================================================
