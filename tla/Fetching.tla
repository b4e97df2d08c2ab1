------------------------------- MODULE Fetching -------------------------------
(***************************************************************************)
(* One fetch of one source, with its redirects, retries and waits:         *)
(* SafeFetcher (src/shared/procuresignal/retrieval/fetching.py) and, for   *)
(* the list of sanctions, LargeObjectFetcher (large_object.py), which      *)
(* streams into a temporary file instead of into memory.                   *)
(*                                                                         *)
(* The circuit breaker itself is in Circuit; here it admits or does not,   *)
(* and counts what the fetch records with it.                              *)
(***************************************************************************)
EXTENDS Integers

CONSTANTS Attempts,    \* max_attempts
          Redirects,   \* max_redirects
          RetryAfters  \* values of Retry-After, in seconds

ASSUME FetchingAssumption ==
  /\ Attempts \in 1..3 /\ Redirects \in 0..3
  /\ RetryAfters \subseteq Int

VARIABLES
  kind,   \* what is fetched: "ordinary" or "large"
  defers, \* defer_success: the orchestrator records a success once it is saved
  fetch   \* the fetch

fetchVars == <<kind, defers, fetch>>

Retryable == {"network_error", "rate_limited", "transient_http_status"}
Permanent == {"http_status", "unexpected_content_type", "oversized_response", "unsafe_url"}

\* phase; attempts begun and redirects followed in this one; requests sent; the
\* last attempt's result; seconds slept before this one, in quarters; whether
\* there is a temporary file; failures and successes recorded.
FetchInit ==
  /\ kind \in {"ordinary", "large"}
  /\ defers \in BOOLEAN
  /\ fetch = [phase |-> "new", attempt |-> 0, hop |-> 0, asked |-> 0, result |-> "none",
              slept |-> 0, file |-> FALSE, failures |-> 0, successes |-> 0]

\* There is no token for the list of sanctions, or the circuit is open.
Refuse ==
  /\ fetch.phase = "new"
  /\ \/ kind = "large" /\ fetch' = [fetch EXCEPT !.phase = "over", !.result = "configuration_error"]
     \/ fetch' = [fetch EXCEPT !.phase = "over", !.result = "circuit_open"]
  /\ UNCHANGED <<kind, defers>>

Admit ==
  /\ fetch.phase = "new"
  /\ fetch' = [fetch EXCEPT !.phase = "asking"]
  /\ UNCHANGED <<kind, defers>>

\* A redirect is followed, to another address that must be safe itself.
Redirect ==
  /\ fetch.phase = "asking" /\ kind = "ordinary" /\ fetch.hop <= Redirects
  /\ fetch' = [fetch EXCEPT !.hop = @ + 1, !.asked = @ + 1]
  /\ UNCHANGED <<kind, defers>>

\* The attempt fails.  A response that is too large or breaks off has begun a
\* file, which is removed; an address that is not safe is not asked.
Fail ==
  /\ fetch.phase = "asking"
  /\ \E why \in Retryable \cup Permanent :
       /\ fetch.hop <= Redirects
       /\ fetch' = [fetch EXCEPT !.phase = "failed", !.result = why,
                                 !.asked = @ + IF why = "unsafe_url" THEN 0 ELSE 1]
  /\ UNCHANGED <<kind, defers>>

\* The redirects are used up; for the list of sanctions the first is too many.
FailOnRedirects ==
  /\ fetch.phase = "asking"
  /\ kind = "large" \/ fetch.hop = Redirects + 1
  /\ fetch' = [fetch EXCEPT !.phase = "failed", !.result = "too_many_redirects",
                            !.asked = @ + IF kind = "large" THEN 1 ELSE 0]
  /\ UNCHANGED <<kind, defers>>

\* 2^attempt and up to a quarter of it; parse_retry_after; in quarters of a second.
Jittered(n) == {4 * 2^n + jitter : jitter \in 0..2^n}
AskedToWait == {4 * (IF s < 0 THEN 0 ELSE IF s > 900 THEN 900 ELSE s) : s \in RetryAfters}

Delays == Jittered(fetch.attempt) \cup (IF \/ fetch.result = "rate_limited"
                                         \/ (/\ kind = "large"
                                             /\ fetch.result = "transient_http_status")
                                      THEN AskedToWait ELSE {})

\* Mutant of Retry: a failure is recorded with every attempt.
RetryRecording ==
  /\ fetch.phase = "failed"
  /\ fetch.result \in Retryable /\ fetch.attempt + 1 < Attempts
  /\ \E delay \in Delays :
       fetch' = [fetch EXCEPT !.phase = "asking", !.attempt = @ + 1, !.hop = 0,
                              !.slept = delay, !.failures = @ + 1]
  /\ UNCHANGED <<kind, defers>>

Retry ==
  /\ fetch.phase = "failed"
  /\ fetch.result \in Retryable /\ fetch.attempt + 1 < Attempts
  /\ \E delay \in Delays :
       fetch' = [fetch EXCEPT !.phase = "asking", !.attempt = @ + 1, !.hop = 0, !.slept = delay]
  /\ UNCHANGED <<kind, defers>>

\* record_circuit_failure, then the result is returned or raised.
GiveUpFetch ==
  /\ fetch.phase = "failed"
  /\ fetch.result \notin Retryable \/ fetch.attempt + 1 >= Attempts
  /\ fetch' = [fetch EXCEPT !.phase = "over", !.failures = @ + 1]
  /\ UNCHANGED <<kind, defers>>

Succeed ==
  /\ fetch.phase = "asking" /\ fetch.hop <= Redirects
  /\ fetch' = [fetch EXCEPT !.phase = "over", !.result = "ok", !.asked = @ + 1,
                            !.file = kind = "large", !.successes = IF defers THEN 0 ELSE 1]
  /\ UNCHANGED <<kind, defers>>

\* It is cancelled, or something raises that is not a failure to fetch.
Interrupt ==
  /\ fetch.phase \in {"asking", "failed"}
  /\ fetch' = [fetch EXCEPT !.phase = "over", !.result = "none"]
  /\ UNCHANGED <<kind, defers>>

\* The adapter has read the file and leaves its context.
CleanUp ==
  /\ fetch.phase = "over" /\ fetch.file
  /\ fetch' = [fetch EXCEPT !.file = FALSE]
  /\ UNCHANGED <<kind, defers>>

FetchNext == \/ Refuse \/ Admit \/ Redirect \/ Fail \/ FailOnRedirects \/ Retry
             \/ GiveUpFetch \/ Succeed \/ Interrupt \/ CleanUp

FetchSpec == FetchInit /\ [][FetchNext]_fetchVars

----------------------------------------------------------------------------
Results == Retryable \cup Permanent
             \cup {"none", "ok", "too_many_redirects", "configuration_error", "circuit_open"}
FetchTypeOK ==
  /\ kind \in {"ordinary", "large"} /\ defers \in BOOLEAN
  /\ fetch \in [phase : {"new", "asking", "failed", "over"}, attempt : 0..(Attempts - 1),
                hop : 0..(Redirects + 1), asked : Nat, result : Results,
                slept : {0} \cup AskedToWait \cup UNION {Jittered(n) : n \in 0..(Attempts - 1)},
                file : BOOLEAN, failures : 0..1, successes : 0..1]

(***************************************************************************)
(* The breaker hears of a fetch it admitted exactly once, whatever way the *)
(* attempts, redirects and waits take, and of one it turned away nothing:  *)
(* three failed attempts are one failure of the source, and a deferred     *)
(* success is left to the orchestrator (fetching.py:190-215).  No attempt  *)
(* that fails leaves a file, and no fetch sends more requests than its     *)
(* attempts and redirects allow.                                           *)
(***************************************************************************)
OutcomeRecordedOnce ==
  /\ fetch.phase = "over" =>
       CASE fetch.result = "ok" -> /\ fetch.failures = 0
                                   /\ fetch.successes = IF defers THEN 0 ELSE 1
         [] fetch.result \in {"none", "circuit_open", "configuration_error"} ->
              fetch.failures + fetch.successes = 0
         [] OTHER -> fetch.failures = 1 /\ fetch.successes = 0
  /\ fetch.file => fetch.result = "ok"
  /\ fetch.asked <= (fetch.attempt + 1) * (Redirects + 1)
=============================================================================
