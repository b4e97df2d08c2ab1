------------------------------ MODULE RateLimit ------------------------------
(***************************************************************************)
(* Throttles on failed sign-ins and on registrations                       *)
(* (src/api/rate_limit.py), as the authentication endpoints use them: a    *)
(* request checks its key, makes its attempt, and records it afterwards.   *)
(*                                                                         *)
(* The window is in the process (RateLimiter) or in Redis, shared by all   *)
(* replicas (RedisWindow).  Times are ages in ticks, at Window expired;    *)
(* attempts of one tick are made one after the other.                      *)
(***************************************************************************)
EXTENDS Integers, FiniteSets, Sequences

CONSTANTS ThrottleKeys,
          ThrottleWindow,  \* ticks in a window
          MaxTries,        \* max_attempts
          MaxKeys,         \* max_keys
          Slots,           \* attempts that can be under way at once
          TryBound         \* bound: attempts of a key that fall open into its window

ASSUME ThrottleAssumption == /\ {ThrottleWindow, MaxTries, MaxKeys, TryBound} \subseteq Nat \ {0}
                             /\ IsFiniteSet(Slots)

NoAttempt == [key |-> "none", open |-> FALSE]

VARIABLES
  backend,   \* "process" or "redis"
  window,    \* for each key that is held the ages of its attempts, oldest first
  failures,  \* the ages of the last attempts that were to be recorded
  excused,   \* how long ago attempts of a key were last forgotten, or one that fell
             \* open recorded, or one not recorded because Redis was away
  attempt    \* the attempts under way, and whether they fell open

throttleVars == <<backend, window, failures, excused, attempt>>

ThrottleInit == /\ backend \in {"process", "redis"}
                /\ window = [k \in {} |-> <<>>]
                /\ failures = [k \in ThrottleKeys |-> <<>>]
                /\ excused = [k \in ThrottleKeys |-> ThrottleWindow]
                /\ attempt = [s \in Slots |-> NoAttempt]

\* The attempts that have expired come off the front.
Expired(ages, n) == /\ \A i \in 1..n : ages[i] >= ThrottleWindow
                    /\ n < Len(ages) => ages[n + 1] < ThrottleWindow
InWindow(ages) == SubSeq(ages, (CHOOSE n \in 0..Len(ages) : Expired(ages, n)) + 1, Len(ages))
Older(ages) == [i \in DOMAIN ages |-> IF ages[i] < ThrottleWindow THEN ages[i] + 1 ELSE ages[i]]

ThrottleTick ==
  /\ window' = [k \in DOMAIN window |-> Older(window[k])]
  /\ failures' = [k \in ThrottleKeys |-> InWindow(Older(failures[k]))]
  /\ excused' = [k \in ThrottleKeys |-> IF excused[k] < ThrottleWindow THEN excused[k] + 1
                                        ELSE excused[k]]
  /\ UNCHANGED <<backend, attempt>>

Held(k) == IF k \in DOMAIN window THEN InWindow(window[k]) ELSE <<>>

\* _prune, or ZREMRANGEBYSCORE: a key without attempts is not held.
Pruned(k) == IF Held(k) = <<>> THEN [j \in DOMAIN window \ {k} |-> window[j]]
             ELSE [window EXCEPT ![k] = Held(k)]

\* Mutant of Throttled: one too many.
ThrottledLate(k) == Len(Held(k)) > MaxTries

Throttled(k) == Len(Held(k)) >= MaxTries

\* check_login, check_registration
CheckThrottle(s) ==
  /\ attempt[s] = NoAttempt
  /\ \E k \in ThrottleKeys :
       /\ window' = Pruned(k)
       /\ attempt' = IF Throttled(k) THEN attempt
                     ELSE [attempt EXCEPT ![s] = [key |-> k, open |-> FALSE]]
  /\ UNCHANGED <<backend, failures, excused>>

\* Redis is away: the attempt is let through.
CheckFallsOpen(s) ==
  /\ backend = "redis" /\ attempt[s] = NoAttempt
  /\ \E k \in ThrottleKeys : /\ Len(Held(k)) < TryBound
                             /\ attempt' = [attempt EXCEPT ![s] = [key |-> k, open |-> TRUE]]
  /\ UNCHANGED <<backend, window, failures, excused>>

\* A sign-in that succeeds, or a request that dies, records nothing.
NothingRecorded(s) == /\ attempt[s] # NoAttempt
                      /\ attempt' = [attempt EXCEPT ![s] = NoAttempt]
                      /\ UNCHANGED <<backend, window, failures, excused>>

\* The last failures suffice to see that there are too many.
Newest(ages) == IF Len(ages) <= MaxTries + Cardinality(Slots) THEN ages ELSE Tail(ages)

Failing(s) == /\ attempt[s] # NoAttempt
              /\ attempt' = [attempt EXCEPT ![s] = NoAttempt]
              /\ failures' = [failures EXCEPT ![attempt[s].key] = Newest(Append(@, 0))]
              /\ UNCHANGED backend

LatestOf(ages) == ages[Len(ages)]

\* RateLimiter.record: expired keys go, and, when there are too many, the one
\* that was active least recently.
RecordInProcess(s) ==
  /\ backend = "process"
  /\ Failing(s)
  /\ LET k == attempt[s].key
         kept == {j \in DOMAIN window : LatestOf(window[j]) < ThrottleWindow} \cup {k}
         others == kept \ {k}
         next == [j \in kept |-> IF j = k THEN Append(Held(k), 0) ELSE window[j]]
     IN IF Cardinality(kept) <= MaxKeys
        THEN window' = next /\ UNCHANGED excused
        ELSE \E gone \in others :
               /\ \A j \in others : LatestOf(window[j]) <= LatestOf(window[gone])
               /\ window' = [j \in kept \ {gone} |-> next[j]]
               /\ excused' = [excused EXCEPT ![gone] = 0]

\* RedisWindow.record, which may fail.
RecordInRedis(s) ==
  /\ backend = "redis"
  /\ Failing(s)
  /\ LET k == attempt[s].key
     IN \/ /\ window' = [j \in DOMAIN window \cup {k} |->
                           IF j = k THEN Append(Held(k), 0) ELSE window[j]]
           /\ excused' = IF attempt[s].open THEN [excused EXCEPT ![k] = 0] ELSE excused
        \/ /\ excused' = [excused EXCEPT ![k] = 0]
           /\ UNCHANGED window

ThrottleNext == \/ ThrottleTick
                \/ \E s \in Slots : \/ CheckThrottle(s) \/ CheckFallsOpen(s) \/ NothingRecorded(s)
                                    \/ RecordInProcess(s) \/ RecordInRedis(s)

ThrottleSpec == ThrottleInit /\ [][ThrottleNext]_throttleVars

----------------------------------------------------------------------------
Ages == 0..ThrottleWindow
Attempt == {NoAttempt} \cup [key : ThrottleKeys, open : BOOLEAN]

ThrottleTypeOK ==
  /\ backend \in {"process", "redis"}
  /\ DOMAIN window \subseteq ThrottleKeys
  /\ window \in [DOMAIN window -> Seq(Ages) \ {<<>>}]
  /\ failures \in [ThrottleKeys -> Seq(Ages)]
  /\ excused \in [ThrottleKeys -> Ages]
  /\ attempt \in [Slots -> Attempt]

(***************************************************************************)
(* The throttle holds although attempts are checked before they are made   *)
(* and recorded afterwards: within a window no key has more failures than  *)
(* max_attempts and what can be under way beside the last, unless, within  *)
(* that time, it was forgotten or an attempt met Redis away.  And the      *)
(* table stays within max_keys (rate_limit.py:56-83, 144-177).             *)
(***************************************************************************)
ThrottleHolds ==
  /\ \A k \in ThrottleKeys :
       excused[k] = ThrottleWindow => Len(failures[k]) <= MaxTries + Cardinality(Slots) - 1
  /\ backend = "process" => Cardinality(DOMAIN window) <= MaxKeys
=============================================================================
