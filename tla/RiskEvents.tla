----------------------------- MODULE RiskEvents -----------------------------
(***************************************************************************)
(* The scan of processed articles for risk events:                         *)
(* src/shared/procuresignal/risk_events/persistence.py, as                 *)
(* generate_risk_events_task runs it, and the review of the events.        *)
(*                                                                         *)
(* A scan loads the oldest articles of the last days that are not checked, *)
(* goes through them in order, each in a savepoint of its own, and commits *)
(* once.  Scans overlap (beat, retries, two workers) and die.  What        *)
(* detection finds in an article is decided in RiskDetection.              *)
(***************************************************************************)
EXTENDS Integers, FiniteSets

CONSTANTS NumArticles,  \* bound: processed articles are 1..NumArticles, oldest first
          Found,        \* for each the risk types detection finds
          Poisoned,     \* articles on which detection or the database always raises
          ScanWindow,   \* periods between scans in the days a scan looks back
          ScanLimit,    \* articles one scan loads
          ScanBurst,    \* articles processed in one period
          Scans         \* executions of generate_risk_events_task

ASSUME ScanAssumption ==
  /\ {NumArticles, ScanWindow, ScanLimit, ScanBurst} \subseteq Nat \ {0}
  /\ ScanWindow > 1 /\ ScanBurst <= ScanLimit

VARIABLES
  processed,   \* articles 1..processed have been enriched
  old,         \* periods since then, ScanWindow when out of sight
  checked,     \* those with a risk_event_checked_at
  riskEvents,  \* the status of each event that is recorded
  scanned,     \* a scan begun in this period has been committed
  scan         \* the executions

scanVars == <<processed, old, checked, riskEvents, scanned, scan>>

RiskArticles == 1..NumArticles

\* Event keys: an article and a risk type.  The suppliers and locations in a
\* key are the article's own.
KeysOf(a) == {a} \X Found[a]
Keys == UNION {KeysOf(a) : a \in RiskArticles}

NoScan == [phase |-> "idle", todo |-> {}, adds |-> {}, wrote |-> {}, keys |-> {},
           current |-> FALSE]

ScanInit == /\ processed = 0
            /\ old = [a \in RiskArticles |-> 0]
            /\ checked = {}
            /\ riskEvents = [k \in Keys |-> "none"]
            /\ scanned = FALSE
            /\ scan = [s \in Scans |-> NoScan]

\* Enrichment commits a processed article.
Process == /\ processed < NumArticles
           /\ Cardinality({a \in 1..processed : old[a] = 0}) < ScanBurst
           /\ processed' = processed + 1
           /\ UNCHANGED <<old, checked, riskEvents, scanned, scan>>

\* The hour after which a scan is due again has seen one through.
ScanTick ==
  /\ scanned
  /\ scanned' = FALSE
  /\ old' = [a \in RiskArticles |-> IF a <= processed /\ old[a] < ScanWindow THEN old[a] + 1
                                    ELSE old[a]]
  /\ scan' = [s \in Scans |-> [scan[s] EXCEPT !.current = FALSE]]
  /\ UNCHANGED <<processed, checked, riskEvents>>

Unchecked == {a \in 1..processed : old[a] < ScanWindow} \ checked

\* Loads its batch, oldest first.
BeginScan(s) ==
  /\ scan[s].phase = "idle"
  /\ scan' = [scan EXCEPT ![s] =
       [NoScan EXCEPT !.phase = "next", !.current = TRUE,
                      !.todo = {a \in Unchecked :
                                  Cardinality({b \in Unchecked : b < a}) < ScanLimit}]]
  /\ UNCHANGED <<processed, old, checked, riskEvents, scanned>>

\* The article whose turn it is, in the order they were processed.
Turn(s) == {a \in scan[s].todo : \A b \in scan[s].todo : a <= b}

\* _upsert_event looks for the event of each candidate; those it does not find
\* are added.
LookUp(s) ==
  /\ scan[s].phase = "next"
  /\ \E a \in Turn(s) \ Poisoned :
       scan' = [scan EXCEPT ![s].phase = "found",
                            ![s].adds = {k \in KeysOf(a) : riskEvents[k] = "none"}]
  /\ UNCHANGED <<processed, old, checked, riskEvents, scanned>>

\* Mutants of SkipPoisoned: it is marked all the same; it ends the batch.
SkipMarking(s) ==
  /\ scan[s].phase = "next"
  /\ \E a \in Turn(s) \cap Poisoned :
       scan' = [scan EXCEPT ![s].todo = @ \ {a}, ![s].wrote = @ \cup {a}]
  /\ UNCHANGED <<processed, old, checked, riskEvents, scanned>>

SkipRest(s) ==
  /\ scan[s].phase = "next"
  /\ Turn(s) \cap Poisoned # {}
  /\ scan' = [scan EXCEPT ![s].todo = {}]
  /\ UNCHANGED <<processed, old, checked, riskEvents, scanned>>

\* The savepoint is rolled back; the article stays unchecked.
SkipPoisoned(s) ==
  /\ scan[s].phase = "next"
  /\ \E a \in Turn(s) \cap Poisoned : scan' = [scan EXCEPT ![s].todo = @ \ {a}]
  /\ UNCHANGED <<processed, old, checked, riskEvents, scanned>>

\* The flush waits while another scan's transaction holds a row it writes.  An
\* event that was recorded since the look violates uq_risk_events_event_key,
\* which rolls the savepoint back.
Flush(s) ==
  /\ scan[s].phase = "found"
  /\ \E a \in Turn(s) :
       LET clash == \E k \in scan[s].adds : riskEvents[k] # "none"
       IN /\ \A t \in Scans : a \notin scan[t].wrote
          /\ scan' = [scan EXCEPT ![s].phase = "next", ![s].todo = @ \ {a}, ![s].adds = {},
                                  ![s].wrote = IF clash THEN @ ELSE @ \cup {a},
                                  ![s].keys = IF clash THEN @ ELSE @ \cup scan[s].adds]
  /\ UNCHANGED <<processed, old, checked, riskEvents, scanned>>

CommitScan(s) ==
  /\ scan[s].phase = "next" /\ scan[s].todo = {}
  /\ checked' = checked \cup scan[s].wrote
  /\ riskEvents' = [k \in Keys |-> IF k \in scan[s].keys THEN "new" ELSE riskEvents[k]]
  /\ scanned' = (scanned \/ scan[s].current)
  /\ scan' = [scan EXCEPT ![s] = NoScan]
  /\ UNCHANGED <<processed, old>>

\* It raises outside the loop, runs into its time limit or dies.
LoseScan(s) == /\ scan[s].phase # "idle"
               /\ scan' = [scan EXCEPT ![s] = NoScan]
               /\ UNCHANGED <<processed, old, checked, riskEvents, scanned>>

\* update_risk_event_status: any status, "new" again included.
Review == /\ \E k \in Keys, status \in {"new", "reviewed"} :
               /\ riskEvents[k] # "none"
               /\ riskEvents' = [riskEvents EXCEPT ![k] = status]
          /\ UNCHANGED <<processed, old, checked, scanned, scan>>

ScanNext == \/ Process \/ ScanTick \/ Review
            \/ \E s \in Scans : \/ BeginScan(s) \/ LookUp(s) \/ SkipPoisoned(s) \/ Flush(s)
                                \/ CommitScan(s) \/ LoseScan(s)

ScanSpec == ScanInit /\ [][ScanNext]_scanVars

----------------------------------------------------------------------------
ScanTypeOK ==
  /\ processed \in 0..NumArticles
  /\ old \in [RiskArticles -> 0..ScanWindow]
  /\ checked \subseteq 1..processed
  /\ riskEvents \in [Keys -> {"none", "new", "reviewed"}]
  /\ scanned \in BOOLEAN
  /\ scan \in [Scans -> [phase : {"idle", "next", "found"}, todo : SUBSET RiskArticles,
                         adds : SUBSET Keys, wrote : SUBSET RiskArticles,
                         keys : SUBSET Keys, current : BOOLEAN]]

(***************************************************************************)
(* The mark and the events go together: whatever scans overlap, raise and  *)
(* die, an article is marked checked exactly when all the events in it are *)
(* recorded, so that none is lost for good (persistence.py:76-85).         *)
(***************************************************************************)
CheckedIffRecorded ==
  \A a \in 1..processed : Found[a] # {} =>
    \/ a \in checked /\ \A k \in KeysOf(a) : riskEvents[k] # "none"
    \/ a \notin checked /\ \A k \in KeysOf(a) : riskEvents[k] = "none"

(***************************************************************************)
(* As long as each period sees a scan through and brings no more articles  *)
(* than a batch has room for, no article leaves the days a scan looks back *)
(* unchecked but those that always fail, which come first in every batch:  *)
(* they do not starve it (persistence.py:58-67).                           *)
(***************************************************************************)
ScannedInTime ==
  \A a \in (1..processed) \ Poisoned : old[a] = ScanWindow => a \in checked
=============================================================================
