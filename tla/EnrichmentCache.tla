---------------------------- MODULE EnrichmentCache ----------------------------
(***************************************************************************)
(* The cache of enrichments (src/shared/procuresignal/enrichment/cache.py, *)
(* fingerprint.py) under runs that enrich at once.  A run is one           *)
(* transaction for its whole batch (pipeline.py), so every row it writes,  *)
(* of the cache or of the daily spend, stays locked until it is over, and  *)
(* two runs can wait for each other: the database then aborts one.         *)
(*                                                                         *)
(* Articles whose texts are alike have one fingerprint; a batch is a       *)
(* sequence of fingerprints.  Nobody deletes an entry, and every payload   *)
(* stored can be read again.                                               *)
(***************************************************************************)
EXTENDS Sums, SequencesExt

CONSTANTS Passes,      \* runs of the enrichment
          BatchOf,     \* [Passes -> sequences of fingerprints]
          RepeatBound  \* times a run that was rolled back is tried again

NoPass == "nobody"

ASSUME CacheAssumption ==
  /\ IsFiniteSet(Passes) /\ NoPass \notin Passes
  /\ DOMAIN BatchOf = Passes /\ \A p \in Passes : BatchOf[p] \in Seq(ToSet(BatchOf[p]))
  /\ RepeatBound \in Nat

VARIABLES
  entry,    \* each fingerprint's row: [there, hits, payload]
  lockedBy, \* who holds the lock on each row
  pass      \* each run

cacheVars == <<entry, lockedBy, pass>>

Fingerprints == UNION {ToSet(BatchOf[p]) : p \in Passes}
Spend == "spend"  \* the row of the daily spend
CacheRows == Fingerprints \cup {Spend}
PassSteps == {"look", "hit", "analyse", "charge", "find", "insert", "overwrite", "done", "failed"}

\* at: the article; step: what is done next for it; hits and entries it has
\* written, committed or not; repeats left.
CacheInit ==
  /\ entry = [f \in Fingerprints |-> [there |-> FALSE, hits |-> 0, payload |-> NoPass]]
  /\ lockedBy = [r \in CacheRows |-> NoPass]
  /\ pass = [p \in Passes |-> [at |-> 1, step |-> "look", hits |-> [f \in Fingerprints |-> 0],
                               written |-> {}, left |-> RepeatBound]]

Current(p) == BatchOf[p][pass[p].at]
Free(r, p) == lockedBy[r] \in {NoPass, p}
Lock(r, p) == lockedBy' = [lockedBy EXCEPT ![r] = p]
Steps(p, step) == pass' = [pass EXCEPT ![p].step = step]
NextArticle(p) == [pass EXCEPT ![p].at = @ + 1, ![p].step = "look"]
Working(p) == pass[p].at <= Len(BatchOf[p])

\* What a statement of p sees: what is committed, and what p wrote itself.
Sees(p, f) == entry[f].there \/ f \in pass[p].written

----------------------------------------------------------------------------
\* get: a hit is counted, a miss goes on to the analysis.
LookUpCached(p) ==
  /\ Working(p) /\ pass[p].step = "look"
  /\ Steps(p, IF Sees(p, Current(p)) THEN "hit" ELSE "analyse")
  /\ UNCHANGED <<entry, lockedBy>>

\* The database increments the count it holds then.
Hit(p) ==
  /\ Working(p) /\ pass[p].step = "hit" /\ Free(Current(p), p)
  /\ Lock(Current(p), p)
  /\ pass' = [NextArticle(p) EXCEPT ![p].hits[Current(p)] = @ + 1]
  /\ UNCHANGED entry

\* The article is decided upon without an enrichment, by rules, or by the model.
Analyse(p) ==
  /\ Working(p) /\ pass[p].step = "analyse"
  /\ \/ pass' = NextArticle(p)
     \/ \E step \in {"find", "charge"} : Steps(p, step)
  /\ UNCHANGED <<entry, lockedBy>>

\* consume, of the model's tokens.
ChargeRow(p) ==
  /\ pass[p].step = "charge" /\ Free(Spend, p)
  /\ Lock(Spend, p)
  /\ Steps(p, "find")
  /\ UNCHANGED entry

\* put looks again ...
Find(p) ==
  /\ pass[p].step = "find"
  /\ Steps(p, IF Sees(p, Current(p)) THEN "overwrite" ELSE "insert")
  /\ UNCHANGED <<entry, lockedBy>>

\* ... and inserts, in a savepoint: it waits for whoever has inserted the same
\* identity, and overwrites when that has been committed meanwhile.
Insert(p) ==
  /\ pass[p].step = "insert" /\ Free(Current(p), p)
  /\ IF entry[Current(p)].there
     THEN Steps(p, "overwrite") /\ UNCHANGED lockedBy
     ELSE /\ Lock(Current(p), p)
          /\ pass' = [NextArticle(p) EXCEPT ![p].written = @ \cup {Current(p)}]
  /\ UNCHANGED entry

Overwrite(p) ==
  /\ pass[p].step = "overwrite" /\ Free(Current(p), p)
  /\ Lock(Current(p), p)
  /\ pass' = [NextArticle(p) EXCEPT ![p].written = @ \cup {Current(p)}]
  /\ UNCHANGED entry

Released(p) == [r \in CacheRows |-> IF lockedBy[r] = p THEN NoPass ELSE lockedBy[r]]

CommitPass(p) ==
  /\ ~Working(p) /\ pass[p].step = "look"
  /\ entry' = [f \in Fingerprints |->
                 [there |-> Sees(p, f), hits |-> entry[f].hits + pass[p].hits[f],
                  payload |-> IF f \in pass[p].written THEN p ELSE entry[f].payload]]
  /\ lockedBy' = Released(p)
  /\ Steps(p, "done")

----------------------------------------------------------------------------
\* The row p waits for, and whom.
Awaits(p) ==
  CASE pass[p].step \in {"hit", "insert", "overwrite"} /\ Working(p) -> lockedBy[Current(p)]
    [] pass[p].step = "charge" -> lockedBy[Spend]
    [] OTHER -> NoPass
Blocked(p) == Awaits(p) \notin {NoPass, p}

Settled(p) == pass[p].step \in {"done", "failed"}

\* Everything is rolled back; the task is tried again, or is not.
RollBack(p) ==
  /\ lockedBy' = Released(p)
  /\ pass' = [pass EXCEPT ![p] =
                [at |-> 1, step |-> IF pass[p].left = 0 THEN "failed" ELSE "look",
                 hits |-> [f \in Fingerprints |-> 0], written |-> {},
                 left |-> IF pass[p].left = 0 THEN 0 ELSE pass[p].left - 1]]
  /\ UNCHANGED entry

\* Two runs that wait for each other: the database picks one.
AbortDeadlocked(p) ==
  /\ Blocked(p) /\ Awaits(p) \in Passes /\ Awaits(Awaits(p)) = p
  /\ RollBack(p)

\* A statement raises, or the worker is killed.
AbortPass(p) == ~Settled(p) /\ RollBack(p)

CacheNext ==
  \E p \in Passes : \/ LookUpCached(p) \/ Hit(p) \/ Analyse(p) \/ ChargeRow(p) \/ Find(p)
                    \/ Insert(p) \/ Overwrite(p) \/ CommitPass(p)
                    \/ AbortDeadlocked(p) \/ AbortPass(p)

CacheSpec == CacheInit /\ [][CacheNext]_cacheVars

----------------------------------------------------------------------------
CacheTypeOK ==
  /\ entry \in [Fingerprints -> [there : BOOLEAN, hits : Nat, payload : Passes \cup {NoPass}]]
  /\ lockedBy \in [CacheRows -> Passes \cup {NoPass}]
  /\ pass \in [Passes -> [at : Nat, step : PassSteps, hits : [Fingerprints -> Nat],
                          written : SUBSET Fingerprints, left : 0..RepeatBound]]

\* What a run that was committed has counted, and who has written an entry.
Counted(p, f) == IF pass[p].step = "done" THEN pass[p].hits[f] ELSE 0
WrittenBy(f) == {p \in Passes : pass[p].step = "done" /\ f \in pass[p].written}

(***************************************************************************)
(* The cache says what the runs that were committed did, and nothing of    *)
(* those rolled back: an entry's hits are theirs, its payload is one of    *)
(* theirs, no insert of the same identity is lost or breaks the run        *)
(* (cache.py:63-67, 97-116), and a run that is over holds no row.          *)
(***************************************************************************)
CacheSaysWhatWasDone ==
  /\ \A f \in Fingerprints :
       /\ entry[f].hits = SumOf([p \in Passes |-> Counted(p, f)])
       /\ entry[f].there <=> WrittenBy(f) # {}
       /\ entry[f].payload \in WrittenBy(f) \cup {q \in {NoPass} : ~entry[f].there}
  /\ \A r \in CacheRows : lockedBy[r] \in Passes => ~Settled(lockedBy[r])
=============================================================================
