------------------------------ MODULE NewsProofs ------------------------------
(***************************************************************************)
(* What is made of processed articles for users and registries, for every  *)
(* number of articles, scans, generations and requests, and every          *)
(* preference and registry: the mark and the events of an article go       *)
(* together, and no article but those detection raises on leaves           *)
(* unchecked; a feed honours what its user excludes; a registration leaves *)
(* nothing half done, and no merge loses a mention but those that were     *)
(* being written when it came; nobody is owed an alert twice, none is      *)
(* missed, and none is given up before MAX_DELIVERY_ATTEMPTS tries.        *)
(***************************************************************************)
EXTENDS PersonalFeed, RiskEvents, AlertOutbox, Suppliers, FiniteSetTheorems, TLAPS

(***************************************************************************)
(* The scans that detect risk events.                                      *)
(***************************************************************************)

Statuses == {"none", "new", "reviewed"}

Scanning == [phase : {"idle", "next", "found"}, todo : SUBSET RiskArticles, adds : SUBSET Keys,
             wrote : SUBSET RiskArticles, keys : SUBSET Keys, current : BOOLEAN]

ScanTypes == /\ processed \in 0..NumArticles
             /\ old \in [RiskArticles -> 0..ScanWindow]
             /\ checked \subseteq 1..processed
             /\ riskEvents \in [Keys -> Statuses]
             /\ scanned \in BOOLEAN
             /\ scan \in [Scans -> Scanning]
             /\ \A s \in Scans : scan[s].todo \subseteq 1..processed /\ scan[s].wrote \subseteq 1..processed

\* Whether all the events in an article have a row.
Recorded(a) == \A k \in KeysOf(a) : riskEvents[k] # "none"

\* What a scan has written is all there is in the articles it has marked, or
\* they were marked before; what it is about to write is all or nothing.
ScansAreWhole ==
  \A s \in Scans :
    /\ \A a \in scan[s].wrote : a \in checked \/ KeysOf(a) \subseteq scan[s].keys
    /\ \A k \in scan[s].keys : \E a \in scan[s].wrote : k \in KeysOf(a)
    /\ scan[s].phase = "found" => \A a \in Turn(s) :
         /\ a \notin Poisoned /\ scan[s].adds \subseteq KeysOf(a)
         /\ a \in checked \/ scan[s].adds = KeysOf(a)

\* An article that is not processed yet has no events.
NothingAhead == \A a \in RiskArticles : a > processed => \A k \in KeysOf(a) : riskEvents[k] = "none"

WholeInv == ScanTypes /\ CheckedIffRecorded /\ ScansAreWhole /\ NothingAhead

----------------------------------------------------------------------------
LEMMA Sizes == /\ NumArticles \in Nat /\ ScanWindow \in Nat /\ ScanWindow > 1
               /\ ScanLimit \in Nat /\ ScanBurst \in Nat /\ ScanBurst <= ScanLimit
  BY ScanAssumption

LEMMA NoScanType == NoScan \in Scanning
  BY DEF NoScan, Scanning

\* The events of an article are its own, and nobody else's.
LEMMA OwnKeys ==
  /\ \A a \in RiskArticles : KeysOf(a) \subseteq Keys
  /\ \A k \in Keys : \E a \in RiskArticles : k \in KeysOf(a)
  /\ \A a, b : \A k \in KeysOf(a) : k \in KeysOf(b) => a = b
  BY DEF KeysOf, Keys

LEMMA ArticlesNumbered == ASSUME ScanTypes
                          PROVE  /\ processed \in Nat /\ processed <= NumArticles
                                 /\ 1..processed \subseteq RiskArticles
  BY Sizes DEF ScanTypes, RiskArticles

\* It is one article's turn at a time.
LEMMA OneTurn == ASSUME ScanTypes, NEW s \in Scans
                 PROVE  /\ \A a, b \in Turn(s) : a = b
                        /\ Turn(s) \subseteq 1..processed
<1>1. \A a \in scan[s].todo : a \in 1..processed /\ a \in Int
  BY ArticlesNumbered DEF ScanTypes
<1>2. QED BY <1>1 DEF Turn

LEMMA ScanTypesStep == ASSUME ScanTypes, [ScanNext]_scanVars PROVE ScanTypes'
<1> USE DEF ScanTypes
<1>1. CASE Process
  <2>1. processed' = processed + 1 /\ processed' \in 0..NumArticles
    BY <1>1, ArticlesNumbered, Sizes DEF Process
  <2>2. 1..processed \subseteq 1..processed'
    BY <2>1, ArticlesNumbered
  <2>3. QED BY <1>1, <2>1, <2>2 DEF Process
<1>2. CASE ScanTick
  <2>1. old' \in [RiskArticles -> 0..ScanWindow]
    BY <1>2, Sizes DEF ScanTick
  <2>2. /\ scan' \in [Scans -> Scanning]
        /\ \A s \in Scans : scan'[s].todo = scan[s].todo /\ scan'[s].wrote = scan[s].wrote
    BY <1>2 DEF ScanTick, Scanning
  <2>3. QED BY <1>2, <2>1, <2>2 DEF ScanTick
<1>3. CASE Review
  BY <1>3 DEF Review, Statuses
<1>4. ASSUME NEW s \in Scans, NEW r \in Scanning, scan' = [scan EXCEPT ![s] = r],
             r.todo \subseteq 1..processed, r.wrote \subseteq 1..processed,
             UNCHANGED <<processed, old, checked, riskEvents, scanned>>
      PROVE  ScanTypes'
  BY <1>4
<1>5. ASSUME NEW s \in Scans, BeginScan(s) PROVE ScanTypes'
  <2> DEFINE batch == {a \in Unchecked : Cardinality({b \in Unchecked : b < a}) < ScanLimit}
             r == [NoScan EXCEPT !.phase = "next", !.current = TRUE, !.todo = batch]
  <2>1. batch \subseteq 1..processed /\ batch \subseteq RiskArticles
    BY ArticlesNumbered DEF Unchecked
  <2>2. r \in Scanning /\ r.todo = batch /\ r.wrote = {}
    BY <2>1 DEF NoScan, Scanning
  <2>3. QED BY <1>4, <1>5, <2>1, <2>2 DEF BeginScan
<1>6. ASSUME NEW s \in Scans, LookUp(s) PROVE ScanTypes'
  <2>1. PICK a \in Turn(s) \ Poisoned :
          scan' = [scan EXCEPT ![s].phase = "found",
                               ![s].adds = {k \in KeysOf(a) : riskEvents[k] = "none"}]
    BY <1>6 DEF LookUp
  <2> DEFINE adds == {k \in KeysOf(a) : riskEvents[k] = "none"}
             r == [scan[s] EXCEPT !.phase = "found", !.adds = adds]
  <2>2. adds \in SUBSET Keys
    BY <2>1, OneTurn, OwnKeys, ArticlesNumbered
  <2> HIDE DEF adds
  <2>3. r \in Scanning /\ r.todo = scan[s].todo /\ r.wrote = scan[s].wrote
    BY <2>2 DEF Scanning
  <2>4. scan' = [scan EXCEPT ![s] = r]
    BY <2>1 DEF adds
  <2>5. QED BY <1>4, <1>6, <2>3, <2>4 DEF LookUp
<1>7. ASSUME NEW s \in Scans, SkipPoisoned(s) PROVE ScanTypes'
  <2>1. PICK a \in Turn(s) : scan' = [scan EXCEPT ![s].todo = @ \ {a}]
    BY <1>7 DEF SkipPoisoned
  <2> DEFINE r == [scan[s] EXCEPT !.todo = @ \ {a}]
  <2>2. r \in Scanning /\ r.todo \subseteq scan[s].todo /\ r.wrote = scan[s].wrote
    BY DEF Scanning
  <2>3. QED BY <1>4, <1>7, <2>1, <2>2 DEF SkipPoisoned
<1>8. ASSUME NEW s \in Scans, Flush(s) PROVE ScanTypes'
  <2> DEFINE clash == \E k \in scan[s].adds : riskEvents[k] # "none"
             After(a) == [scan[s] EXCEPT !.phase = "next", !.todo = @ \ {a}, !.adds = {},
                                         !.wrote = IF clash THEN @ ELSE @ \cup {a},
                                         !.keys = IF clash THEN @ ELSE @ \cup scan[s].adds]
  <2>1. PICK a \in Turn(s) : scan' = [scan EXCEPT ![s] = After(a)]
    <3>1. PICK a \in Turn(s) :
            scan' = [scan EXCEPT ![s].phase = "next", ![s].todo = @ \ {a}, ![s].adds = {},
                                 ![s].wrote = IF clash THEN @ ELSE @ \cup {a},
                                 ![s].keys = IF clash THEN @ ELSE @ \cup scan[s].adds]
      BY <1>8 DEF Flush
    <3> HIDE DEF clash
    <3>2. scan' = [scan EXCEPT ![s] = After(a)]
      BY <3>1
    <3>3. QED BY <3>2
  <2>2. a \in 1..processed /\ a \in RiskArticles
    BY <2>1, OneTurn, ArticlesNumbered
  <2>3. /\ After(a) \in Scanning /\ After(a).todo \subseteq scan[s].todo
        /\ After(a).wrote \subseteq scan[s].wrote \cup {a}
    BY ZenonT(30), <2>2 DEF Scanning
  <2> HIDE DEF After
  <2>4. QED BY ZenonT(30), <1>4, <1>8, <2>1, <2>2, <2>3 DEF Flush
<1>9. ASSUME NEW s \in Scans, CommitScan(s) PROVE ScanTypes'
  <2>1. riskEvents' \in [Keys -> Statuses]
    BY <1>9 DEF CommitScan, Statuses
  <2>2. scan' = [scan EXCEPT ![s] = NoScan] /\ NoScan.todo = {} /\ NoScan.wrote = {}
    BY <1>9 DEF CommitScan, NoScan
  <2>3. checked' \subseteq 1..processed /\ scanned' \in BOOLEAN
    BY <1>9 DEF CommitScan, Scanning
  <2>4. QED BY <1>9, <2>1, <2>2, <2>3, NoScanType DEF CommitScan
<1>10. ASSUME NEW s \in Scans, LoseScan(s) PROVE ScanTypes'
  BY <1>4, <1>10, NoScanType DEF LoseScan, NoScan
<1>11. CASE UNCHANGED scanVars
  BY <1>11 DEF scanVars
<1>12. QED
  BY <1>1, <1>2, <1>3, <1>5, <1>6, <1>7, <1>8, <1>9, <1>10, <1>11 DEF ScanNext

----------------------------------------------------------------------------
\* The mark and the rows of an article go together, restated.
LEMMA AllOrNothing ==
  ASSUME ScanTypes, CheckedIffRecorded, NEW a \in 1..processed
  PROVE  /\ a \in checked => Recorded(a)
         /\ a \notin checked => \A k \in KeysOf(a) : riskEvents[k] = "none"
         /\ (\E k \in KeysOf(a) : riskEvents[k] # "none") => a \in checked
<1>1. CASE Found[a] = {}
  BY <1>1 DEF KeysOf, Recorded
<1>2. CASE Found[a] # {}
  BY <1>2 DEF CheckedIffRecorded, Recorded
<1>3. QED BY <1>1, <1>2

\* What a scan sees and marks does not touch the rows before it commits.
LEMMA WholeScan ==
  ASSUME WholeInv, NEW s \in Scans, UNCHANGED <<processed, checked, riskEvents>>,
         BeginScan(s) \/ LookUp(s) \/ SkipPoisoned(s) \/ Flush(s) \/ LoseScan(s)
  PROVE  CheckedIffRecorded' /\ ScansAreWhole'
<1> USE DEF WholeInv
<1>0. CheckedIffRecorded'
  BY DEF CheckedIffRecorded
<1>1. ASSUME \A a \in scan'[s].wrote : a \in checked \/ KeysOf(a) \subseteq scan'[s].keys,
             \A k \in scan'[s].keys : \E a \in scan'[s].wrote : k \in KeysOf(a),
             scan'[s].phase = "found" => \A a \in Turn(s)' :
               /\ a \notin Poisoned /\ scan'[s].adds \subseteq KeysOf(a)
               /\ a \in checked \/ scan'[s].adds = KeysOf(a),
             \A t \in Scans \ {s} : scan'[t] = scan[t]
      PROVE  ScansAreWhole'
  BY <1>1 DEF ScansAreWhole, Turn
<1>2. CASE BeginScan(s) \/ LoseScan(s)
  <2>1. scan'[s].wrote = {} /\ scan'[s].keys = {} /\ scan'[s].phase # "found"
        /\ \A t \in Scans \ {s} : scan'[t] = scan[t]
    <3>1. PICK r : /\ scan' = [scan EXCEPT ![s] = r]
                   /\ r.wrote = {} /\ r.keys = {} /\ r.phase # "found"
      <4>1. ASSUME NEW S PROVE LET r == [NoScan EXCEPT !.phase = "next", !.current = TRUE, !.todo = S]
                               IN  r.wrote = {} /\ r.keys = {} /\ r.phase # "found"
        BY DEF NoScan
      <4>2. CASE BeginScan(s)
        BY <4>1, <4>2 DEF BeginScan
      <4>3. CASE LoseScan(s)
        <5>1. NoScan.wrote = {} /\ NoScan.keys = {} /\ NoScan.phase # "found"
          BY DEF NoScan
        <5>2. QED BY <4>3, <5>1 DEF LoseScan
      <4>4. QED BY <1>2, <4>2, <4>3
    <3>2. QED BY <3>1 DEF ScanTypes
  <2>2. QED BY <1>0, <1>1, <2>1
<1>3. CASE LookUp(s)
  <2>1. PICK a \in Turn(s) \ Poisoned :
          scan' = [scan EXCEPT ![s].phase = "found",
                               ![s].adds = {k \in KeysOf(a) : riskEvents[k] = "none"}]
    BY <1>3 DEF LookUp
  <2>2. /\ scan'[s].todo = scan[s].todo /\ scan'[s].wrote = scan[s].wrote
        /\ scan'[s].keys = scan[s].keys
        /\ scan'[s].adds = {k \in KeysOf(a) : riskEvents[k] = "none"}
        /\ \A t \in Scans \ {s} : scan'[t] = scan[t]
    BY <2>1 DEF ScanTypes, Scanning
  <2>3. a \in checked \/ scan'[s].adds = KeysOf(a)
    BY <2>1, <2>2, OneTurn, AllOrNothing
  <2>4. \A b \in Turn(s)' : b = a
    BY <2>1, <2>2, OneTurn DEF Turn
  <2>5. QED BY <1>0, <1>1, <2>1, <2>2, <2>3, <2>4 DEF ScansAreWhole
<1>4. CASE SkipPoisoned(s)
  <2>1. /\ scan'[s].wrote = scan[s].wrote /\ scan'[s].keys = scan[s].keys
        /\ scan'[s].phase = "next"
        /\ \A t \in Scans \ {s} : scan'[t] = scan[t]
    BY <1>4 DEF SkipPoisoned, ScanTypes, Scanning
  <2>2. QED BY <1>0, <1>1, <2>1 DEF ScansAreWhole
<1>5. CASE Flush(s)
  <2> DEFINE clash == \E k \in scan[s].adds : riskEvents[k] # "none"
  <2>1. PICK a \in Turn(s) :
          scan' = [scan EXCEPT ![s].phase = "next", ![s].todo = @ \ {a}, ![s].adds = {},
                               ![s].wrote = IF clash THEN @ ELSE @ \cup {a},
                               ![s].keys = IF clash THEN @ ELSE @ \cup scan[s].adds]
    BY <1>5 DEF Flush
  <2>2. /\ scan'[s].wrote = IF clash THEN scan[s].wrote ELSE scan[s].wrote \cup {a}
        /\ scan'[s].keys = IF clash THEN scan[s].keys ELSE scan[s].keys \cup scan[s].adds
        /\ scan'[s].phase = "next"
        /\ \A t \in Scans \ {s} : scan'[t] = scan[t]
    BY ZenonT(30), <2>1 DEF ScanTypes, Scanning
  <2>3. scan[s].adds \subseteq KeysOf(a) /\ (a \in checked \/ scan[s].adds = KeysOf(a))
    BY <1>5, <2>1 DEF Flush, ScansAreWhole
  <2> HIDE DEF clash
  <2>4. \A b \in scan'[s].wrote : b \in checked \/ KeysOf(b) \subseteq scan'[s].keys
    BY <2>2, <2>3 DEF ScansAreWhole
  <2>5. \A k \in scan'[s].keys : \E b \in scan'[s].wrote : k \in KeysOf(b)
    BY <2>2, <2>3 DEF ScansAreWhole
  <2>6. QED BY <1>0, <1>1, <2>2, <2>4, <2>5
<1>6. QED BY <1>0, <1>2, <1>3, <1>4, <1>5

\* A commit marks what it wrote, with all there is in it.
LEMMA WholeCommit ==
  ASSUME WholeInv, NEW s \in Scans, CommitScan(s)
  PROVE  CheckedIffRecorded' /\ ScansAreWhole' /\ NothingAhead'
<1> USE DEF WholeInv
<1>1. /\ processed' = processed /\ checked' = checked \cup scan[s].wrote
      /\ riskEvents' = [k \in Keys |-> IF k \in scan[s].keys THEN "new" ELSE riskEvents[k]]
      /\ scan' = [scan EXCEPT ![s] = NoScan]
  BY DEF CommitScan
<1>2. ASSUME NEW a \in 1..processed, Found[a] # {}
      PROVE  \/ a \in checked' /\ \A k \in KeysOf(a) : riskEvents'[k] # "none"
             \/ a \notin checked' /\ \A k \in KeysOf(a) : riskEvents'[k] = "none"
  <2>1. KeysOf(a) \subseteq Keys
    BY OwnKeys, ArticlesNumbered
  <2>2. CASE a \in checked
    BY <1>1, <2>1, <2>2, AllOrNothing DEF Recorded
  <2>3. CASE a \notin checked /\ a \in scan[s].wrote
    <3>1. KeysOf(a) \subseteq scan[s].keys
      BY <2>3 DEF ScansAreWhole
    <3>2. QED BY <1>1, <2>1, <2>3, <3>1
  <2>4. CASE a \notin checked /\ a \notin scan[s].wrote
    <3>1. \A k \in KeysOf(a) : k \notin scan[s].keys
      BY <2>4, OwnKeys DEF ScansAreWhole
    <3>2. QED BY <1>1, <2>1, <2>4, <3>1, AllOrNothing
  <2>5. QED BY <2>2, <2>3, <2>4
<1>3. CheckedIffRecorded'
  BY <1>1, <1>2 DEF CheckedIffRecorded
<1>4. \A t \in Scans : scan'[t] = IF t = s THEN NoScan ELSE scan[t]
  BY <1>1 DEF ScanTypes
<1>5. ScansAreWhole'
  BY <1>1, <1>4 DEF ScansAreWhole, NoScan, Turn
<1>6. NothingAhead'
  <2>1. ASSUME NEW a \in RiskArticles, a > processed, NEW k \in KeysOf(a) PROVE k \notin scan[s].keys
    BY <2>1, OwnKeys, ArticlesNumbered DEF ScansAreWhole, ScanTypes
  <2>2. \A a \in RiskArticles : KeysOf(a) \subseteq Keys
    BY OwnKeys
  <2>3. QED BY <1>1, <2>1, <2>2 DEF NothingAhead
<1>7. QED BY <1>3, <1>5, <1>6

LEMMA WholeInvariance == ScanSpec => []WholeInv
<1>1. ScanInit => WholeInv
  <2>1. ASSUME ScanInit PROVE ScanTypes
    <3>1. /\ 0 \in 0..NumArticles /\ 0 \in 0..ScanWindow /\ {} \subseteq 1..0
          /\ NoScan.todo = {} /\ NoScan.wrote = {}
      BY Sizes DEF NoScan
    <3>2. /\ old \in [RiskArticles -> 0..ScanWindow] /\ riskEvents \in [Keys -> Statuses]
          /\ scan \in [Scans -> Scanning]
      BY <2>1, <3>1, NoScanType DEF ScanInit, Statuses
    <3>3. QED BY <2>1, <3>1, <3>2 DEF ScanInit, ScanTypes
  <2>2. ASSUME ScanInit PROVE CheckedIffRecorded /\ ScansAreWhole /\ NothingAhead
    BY <2>2, OwnKeys DEF ScanInit, CheckedIffRecorded, ScansAreWhole, NothingAhead, NoScan
  <2>3. QED BY <2>1, <2>2 DEF WholeInv
<1>2. WholeInv /\ [ScanNext]_scanVars => WholeInv'
  <2> SUFFICES ASSUME WholeInv, [ScanNext]_scanVars
               PROVE CheckedIffRecorded' /\ ScansAreWhole' /\ NothingAhead'
    BY ScanTypesStep DEF WholeInv
  <2> USE DEF WholeInv
  <2>1. CASE Process
    <3>1. processed' = processed + 1 /\ UNCHANGED <<checked, riskEvents, scan>>
      BY <2>1 DEF Process
    <3>2. \A a \in 1..processed' : a \in 1..processed \/ a = processed + 1
      BY <3>1, ArticlesNumbered
    <3>3. processed + 1 \in RiskArticles /\ processed + 1 \notin checked
      BY <2>1, ArticlesNumbered, Sizes DEF Process, RiskArticles, ScanTypes
    <3>4. \A k \in KeysOf(processed + 1) : riskEvents[k] = "none"
      BY <3>3, ArticlesNumbered DEF NothingAhead
    <3>5. CheckedIffRecorded'
      BY <3>1, <3>2, <3>3, <3>4 DEF CheckedIffRecorded
    <3>6. NothingAhead'
      BY <3>1, ArticlesNumbered DEF NothingAhead, RiskArticles
    <3>7. QED BY <3>1, <3>5, <3>6 DEF ScansAreWhole, Turn
  <2>2. CASE ScanTick
    <3>1. UNCHANGED <<processed, checked, riskEvents>>
          /\ \A s \in Scans : /\ scan'[s].phase = scan[s].phase /\ scan'[s].todo = scan[s].todo
                              /\ scan'[s].adds = scan[s].adds /\ scan'[s].wrote = scan[s].wrote
                              /\ scan'[s].keys = scan[s].keys
      BY <2>2 DEF ScanTick, ScanTypes, Scanning
    <3>2. QED BY <3>1 DEF CheckedIffRecorded, ScansAreWhole, NothingAhead, Turn
  <2>3. CASE Review
    <3>1. \A k \in Keys : riskEvents'[k] = "none" <=> riskEvents[k] = "none"
      BY <2>3 DEF Review, ScanTypes
    <3>2. UNCHANGED <<processed, checked, scan>>
      BY <2>3 DEF Review
    <3>3. \A a \in RiskArticles : KeysOf(a) \subseteq Keys
      BY OwnKeys
    <3>4. CheckedIffRecorded'
      BY <3>1, <3>2, <3>3, ArticlesNumbered DEF CheckedIffRecorded
    <3>5. QED BY <3>1, <3>2, <3>3, <3>4 DEF ScansAreWhole, NothingAhead, Turn
  <2>4. ASSUME NEW s \in Scans,
               BeginScan(s) \/ LookUp(s) \/ SkipPoisoned(s) \/ Flush(s) \/ LoseScan(s)
        PROVE  CheckedIffRecorded' /\ ScansAreWhole' /\ NothingAhead'
    <3>1. UNCHANGED <<processed, checked, riskEvents>>
      BY <2>4 DEF BeginScan, LookUp, SkipPoisoned, Flush, LoseScan
    <3>2. QED BY <2>4, <3>1, WholeScan DEF NothingAhead
  <2>5. CASE UNCHANGED scanVars
    BY <2>5 DEF scanVars, CheckedIffRecorded, ScansAreWhole, NothingAhead, Turn
  <2>6. QED BY <2>1, <2>2, <2>3, <2>4, <2>5, WholeCommit DEF ScanNext
<1>3. QED BY <1>1, <1>2, PTL DEF ScanSpec

----------------------------------------------------------------------------
\* Articles come in order of age, at most ScanBurst of each.
OfAge(n) == {a \in 1..processed : old[a] = n}

ArticleOrder ==
  /\ \A a \in RiskArticles : a > processed => old[a] = 0
  /\ \A a, b \in 1..processed : a < b => old[b] <= old[a]
  /\ \A n \in 0..(ScanWindow - 1) : Cardinality(OfAge(n)) <= ScanBurst

\* The articles that are about to leave, but those that fail.
DueNow == {a \in (1..processed) \ Poisoned : old[a] = ScanWindow - 1}

\* A scan of this period checks them, or has them in hand.
DueAreSeen ==
  /\ scanned => DueNow \subseteq checked
  /\ \A s \in Scans : scan[s].current /\ scan[s].phase # "idle" =>
       DueNow \subseteq checked \cup scan[s].todo \cup scan[s].wrote

TimeInv == WholeInv /\ ArticleOrder /\ DueAreSeen /\ ScannedInTime

LEMMA OfAgeFinite ==
  ASSUME ScanTypes, NEW n
  PROVE  IsFiniteSet(OfAge(n)) /\ Cardinality(OfAge(n)) \in Nat
<1>1. IsFiniteSet(1..processed) /\ OfAge(n) \subseteq 1..processed
  BY ArticlesNumbered, FS_Interval DEF OfAge
<1>2. IsFiniteSet(OfAge(n))
  BY <1>1, FS_Subset
<1>3. QED BY <1>2, FS_CardinalityType

\* A scan that begins loads them: whatever comes before is as old as they are.
LEMMA DueAreLoaded ==
  ASSUME ScanTypes, ArticleOrder, NEW a \in DueNow, a \notin checked
  PROVE  a \in {c \in Unchecked : Cardinality({b \in Unchecked : b < c}) < ScanLimit}
<1> DEFINE n == ScanWindow - 1
           before == {b \in Unchecked : b < a}
<1>1. a \in 1..processed /\ old[a] = n /\ n \in 0..(ScanWindow - 1) /\ processed \in Nat
      /\ 1..processed \subseteq RiskArticles
  BY Sizes, ArticlesNumbered DEF DueNow
<1>2. a \in Unchecked
  BY <1>1, Sizes DEF Unchecked
<1>3. before \subseteq OfAge(n) \ {a} /\ a \in OfAge(n)
  <2>1. ASSUME NEW b \in before PROVE b \in OfAge(n) \ {a}
    <3>1. b \in 1..processed /\ b < a /\ old[b] < ScanWindow /\ old[b] \in 0..ScanWindow
      BY <1>1 DEF Unchecked, ScanTypes
    <3>2. old[a] <= old[b]
      BY <1>1, <3>1 DEF ArticleOrder
    <3>3. QED BY <1>1, <3>1, <3>2, Sizes DEF OfAge
  <2>2. QED BY <1>1, <2>1 DEF OfAge
<1> HIDE DEF before, n
<1>4. Cardinality(OfAge(n)) <= ScanBurst
  BY <1>1 DEF ArticleOrder, n
<1>5. Cardinality(OfAge(n) \ {a}) = Cardinality(OfAge(n)) - 1 /\ IsFiniteSet(OfAge(n) \ {a})
  BY <1>3, OfAgeFinite, FS_RemoveElement
<1>6. Cardinality(before) <= Cardinality(OfAge(n) \ {a}) /\ IsFiniteSet(before)
  BY <1>3, <1>5, FS_Subset
<1>7. Cardinality(before) \in Nat
  BY <1>6, FS_CardinalityType
<1>8. Cardinality(before) < ScanLimit
  BY <1>4, <1>5, <1>6, <1>7, OfAgeFinite, Sizes
<1>9. QED BY <1>2, <1>8 DEF before

LEMMA ArticleOrderStep ==
  ASSUME ScanTypes, ArticleOrder, [ScanNext]_scanVars
  PROVE  ArticleOrder'
<1> USE DEF ArticleOrder
<1>1. processed \in Nat /\ processed <= NumArticles /\ 1..processed \subseteq RiskArticles
  BY ArticlesNumbered
<1>2. CASE Process
  <2>1. /\ processed' = processed + 1 /\ old' = old /\ processed + 1 \in RiskArticles
        /\ old[processed + 1] = 0
    BY <1>1, <1>2, Sizes DEF Process, RiskArticles
  <2>2. \A a \in 1..(processed + 1) : a \in 1..processed \/ a = processed + 1
    BY <1>1
  <2>3. \A a, b \in 1..(processed + 1) : a < b => old[b] <= old[a]
    <3>1. ASSUME NEW a \in 1..(processed + 1), NEW b \in 1..(processed + 1), a < b
          PROVE  old[b] <= old[a]
      <4>1. a \in 1..processed /\ old[a] \in Nat
        BY <1>1, <3>1, Sizes DEF ScanTypes
      <4>2. CASE b = processed + 1
        BY <2>1, <4>1, <4>2
      <4>3. CASE b # processed + 1
        BY <2>2, <3>1, <4>1, <4>3
      <4>4. QED BY <4>2, <4>3
    <3>2. QED BY <3>1
  <2>4. ASSUME NEW n \in 0..(ScanWindow - 1) PROVE Cardinality(OfAge(n)') <= ScanBurst
    <3>1. CASE n = 0
      <4>1. OfAge(0)' = OfAge(0) \cup {processed + 1}
        BY <1>1, <2>1, <2>2 DEF OfAge
      <4>2. Cardinality(OfAge(0)) < ScanBurst
        BY <1>2 DEF Process, OfAge
      <4>3. Cardinality(OfAge(0) \cup {processed + 1}) =
              IF processed + 1 \in OfAge(0) THEN Cardinality(OfAge(0)) ELSE Cardinality(OfAge(0)) + 1
        BY OfAgeFinite, FS_AddElement
      <4>4. Cardinality(OfAge(0) \cup {processed + 1}) <= ScanBurst
        BY <4>2, <4>3, OfAgeFinite, Sizes
      <4>5. Cardinality(OfAge(0)') <= ScanBurst
        BY <4>1, <4>4
      <4>6. QED BY <3>1, <4>5
    <3>2. CASE n # 0
      <4>1. OfAge(n)' = OfAge(n)
        BY <1>1, <2>1, <2>2, <3>2 DEF OfAge
      <4>2. QED BY <4>1
    <3>3. QED BY <3>1, <3>2
  <2>5. \A a \in RiskArticles : a > processed' => old'[a] = 0
    BY <1>1, <2>1 DEF RiskArticles
  <2>6. \A a, b \in 1..processed' : a < b => old'[b] <= old'[a]
    BY <2>1, <2>3
  <2>7. QED BY <2>4, <2>5, <2>6
<1>3. CASE ScanTick
  <2>1. /\ processed' = processed
        /\ old' = [a \in RiskArticles |-> IF a <= processed /\ old[a] < ScanWindow THEN old[a] + 1
                                          ELSE old[a]]
    BY <1>3 DEF ScanTick
  <2>2. ASSUME NEW a \in 1..processed
        PROVE  a \in RiskArticles /\ old[a] \in 0..ScanWindow
               /\ old'[a] = IF old[a] < ScanWindow THEN old[a] + 1 ELSE old[a]
    BY <1>1, <2>1 DEF ScanTypes
  <2>3. \A a \in RiskArticles : a > processed => old'[a] = 0
    BY <1>1, <2>1 DEF RiskArticles
  <2>4. \A a, b \in 1..processed : a < b => old'[b] <= old'[a]
    BY <2>2, Sizes
  <2>5. ASSUME NEW n \in 0..(ScanWindow - 1) PROVE Cardinality(OfAge(n)') <= ScanBurst
    <3>1. CASE n = 0
      <4>1. OfAge(n)' = {}
        BY <2>1, <2>2, <3>1, Sizes DEF OfAge
      <4>2. QED BY <4>1, FS_EmptySet, Sizes
    <3>2. CASE n # 0
      <4>1. OfAge(n)' = OfAge(n - 1)
        BY <2>1, <2>2, <2>5, <3>2, Sizes DEF OfAge
      <4>2. n - 1 \in 0..(ScanWindow - 1)
        BY <2>5, <3>2, Sizes
      <4>3. QED BY <4>1, <4>2
    <3>3. QED BY <3>1, <3>2
  <2>6. QED BY <2>1, <2>3, <2>4, <2>5
<1>4. CASE UNCHANGED <<processed, old>>
  BY <1>4 DEF OfAge
<1>5. QED
  BY <1>2, <1>3, <1>4
  DEF ScanNext, scanVars, BeginScan, LookUp, SkipPoisoned, Flush, CommitScan, LoseScan, Review

\* Which articles are about to leave, or have left, changes with time only.
LEMMA DueSame ==
  ASSUME ScanTypes, ArticleOrder, ScanNext, ~ScanTick
  PROVE  /\ DueNow' = DueNow /\ checked \subseteq checked'
         /\ \A a \in 1..processed' : old'[a] = ScanWindow => a \in 1..processed /\ old[a] = ScanWindow
<1>1. CASE Process
  <2>1. processed \in Nat /\ processed < NumArticles /\ NumArticles \in Nat
    BY <1>1, ArticlesNumbered, Sizes DEF Process
  <2>2. /\ processed' = processed + 1 /\ old' = old /\ checked' = checked
        /\ processed + 1 \in RiskArticles
    BY <1>1, <2>1 DEF Process, RiskArticles
  <2>3. old[processed + 1] = 0
    BY <2>1, <2>2 DEF ArticleOrder
  <2>4. \A a \in 1..(processed + 1) : a \in 1..processed \/ a = processed + 1
    BY <2>1
  <2>5. 1..processed \subseteq 1..(processed + 1)
    BY <2>1
  <2>6. QED BY <2>2, <2>3, <2>4, <2>5, Sizes DEF DueNow
<1>2. CASE UNCHANGED <<processed, old>>
  BY <1>2 DEF DueNow, ScanNext, ScanTick, BeginScan, LookUp, SkipPoisoned, Flush, CommitScan,
              LoseScan, Review, Process
<1>3. QED
  BY <1>1, <1>2 DEF ScanNext, BeginScan, LookUp, SkipPoisoned, Flush, CommitScan, LoseScan, Review

LEMMA DueStep ==
  ASSUME WholeInv, ArticleOrder, DueAreSeen, ScanNext
  PROVE  DueAreSeen'
<1> USE DEF DueAreSeen
<1>0. ScanTypes
  BY DEF WholeInv
<1>1. CASE ScanTick
  BY <1>0, <1>1 DEF ScanTick, ScanTypes, Scanning
<1> SUFFICES ASSUME ~ScanTick PROVE DueAreSeen'
  BY <1>1
<1>2. DueNow' = DueNow /\ checked \subseteq checked'
  BY <1>0, DueSame
<1>3. ASSUME NEW s \in Scans, scanned' = scanned,
             \A t \in Scans \ {s} : scan'[t] = scan[t],
             scan'[s].current /\ scan'[s].phase # "idle" =>
               DueNow \subseteq checked \cup scan'[s].todo \cup scan'[s].wrote
      PROVE  DueAreSeen'
  BY <1>2, <1>3
<1>4. CASE Process \/ Review
  BY <1>2, <1>4 DEF Process, Review
<1>5. ASSUME NEW s \in Scans, BeginScan(s) PROVE DueAreSeen'
  <2> DEFINE batch == {a \in Unchecked : Cardinality({b \in Unchecked : b < a}) < ScanLimit}
  <2>1. scan' = [scan EXCEPT ![s] = [NoScan EXCEPT !.phase = "next", !.current = TRUE, !.todo = batch]]
        /\ scanned' = scanned
    BY <1>5 DEF BeginScan
  <2>2. DueNow \subseteq checked \cup batch
    BY <1>0, DueAreLoaded
  <2> HIDE DEF batch
  <2>3. scan'[s].todo = batch /\ \A t \in Scans \ {s} : scan'[t] = scan[t]
    BY <1>0, <2>1 DEF ScanTypes, NoScan
  <2>4. QED BY <1>3, <2>1, <2>2, <2>3
<1>6. ASSUME NEW s \in Scans, LookUp(s) PROVE DueAreSeen'
  <2>1. /\ scan'[s].todo = scan[s].todo /\ scan'[s].wrote = scan[s].wrote
        /\ scan'[s].current = scan[s].current /\ scan[s].phase # "idle"
        /\ \A t \in Scans \ {s} : scan'[t] = scan[t]
    BY <1>0, <1>6 DEF LookUp, ScanTypes, Scanning
  <2>2. QED BY <1>3, <1>6, <2>1 DEF LookUp
<1>7. ASSUME NEW s \in Scans, SkipPoisoned(s) PROVE DueAreSeen'
  <2>1. PICK a \in Poisoned : scan' = [scan EXCEPT ![s].todo = @ \ {a}]
    BY <1>7 DEF SkipPoisoned
  <2>2. /\ scan'[s].todo = scan[s].todo \ {a} /\ scan'[s].wrote = scan[s].wrote
        /\ scan'[s].current = scan[s].current /\ scan[s].phase # "idle"
        /\ \A t \in Scans \ {s} : scan'[t] = scan[t]
    BY <1>0, <1>7, <2>1 DEF SkipPoisoned, ScanTypes, Scanning
  <2>3. a \notin DueNow
    BY DEF DueNow
  <2>4. QED BY <1>3, <1>7, <2>2, <2>3 DEF SkipPoisoned
<1>8. ASSUME NEW s \in Scans, Flush(s) PROVE DueAreSeen'
  <2> DEFINE clash == \E k \in scan[s].adds : riskEvents[k] # "none"
  <2>1. PICK a \in Turn(s) :
          scan' = [scan EXCEPT ![s].phase = "next", ![s].todo = @ \ {a}, ![s].adds = {},
                               ![s].wrote = IF clash THEN @ ELSE @ \cup {a},
                               ![s].keys = IF clash THEN @ ELSE @ \cup scan[s].adds]
    BY <1>8 DEF Flush
  <2>2. clash => a \in checked
    <3>1. a \in 1..processed /\ scan[s].adds \subseteq KeysOf(a)
      BY <1>0, <1>8, <2>1, OneTurn DEF Flush, WholeInv, ScansAreWhole
    <3>2. QED BY <3>1, AllOrNothing DEF WholeInv
  <2> HIDE DEF clash
  <2>3. /\ scan'[s].todo = scan[s].todo \ {a}
        /\ scan'[s].wrote = IF clash THEN scan[s].wrote ELSE scan[s].wrote \cup {a}
        /\ scan'[s].current = scan[s].current /\ scan[s].phase # "idle"
        /\ \A t \in Scans \ {s} : scan'[t] = scan[t]
    <3>1. scan[s].phase # "idle"
      BY <1>8 DEF Flush
    <3>2. QED BY <1>0, <2>1, <3>1 DEF ScanTypes, Scanning
  <2>4. QED BY ZenonT(30), <1>3, <1>8, <2>2, <2>3 DEF Flush
<1>9. ASSUME NEW s \in Scans, CommitScan(s) PROVE DueAreSeen'
  <2>1. /\ checked' = checked \cup scan[s].wrote /\ scan[s].todo = {} /\ scan[s].phase # "idle"
        /\ scanned' = (scanned \/ scan[s].current)
        /\ scan' = [scan EXCEPT ![s] = NoScan]
    BY <1>9 DEF CommitScan
  <2>2. \A t \in Scans : scan'[t] = IF t = s THEN NoScan ELSE scan[t]
    BY <1>0, <2>1 DEF ScanTypes
  <2>3. scanned' => DueNow' \subseteq checked'
    BY <1>2, <2>1
  <2>4. ~NoScan.current
    BY DEF NoScan
  <2>5. ASSUME NEW t \in Scans, scan'[t].current, scan'[t].phase # "idle"
        PROVE  DueNow' \subseteq checked' \cup scan'[t].todo \cup scan'[t].wrote
    <3>1. scan'[t] = scan[t]
      BY <2>2, <2>4, <2>5
    <3>2. QED BY <1>2, <2>5, <3>1
  <2>6. QED BY <2>3, <2>5
<1>10. ASSUME NEW s \in Scans, LoseScan(s) PROVE DueAreSeen'
  BY <1>0, <1>3, <1>10 DEF LoseScan, NoScan, ScanTypes
<1>11. QED BY <1>4, <1>5, <1>6, <1>7, <1>8, <1>9, <1>10 DEF ScanNext

LEMMA TimeStep ==
  ASSUME WholeInv, ArticleOrder, DueAreSeen, ScannedInTime, ScanNext
  PROVE  ScannedInTime'
<1>0. ScanTypes
  BY DEF WholeInv
<1>1. CASE ScanTick
  <2>1. ASSUME NEW a \in (1..processed) \ Poisoned, old'[a] = ScanWindow PROVE a \in checked
    <3>1. a \in RiskArticles /\ old[a] \in 0..ScanWindow /\ scanned
          /\ old'[a] = IF old[a] < ScanWindow THEN old[a] + 1 ELSE old[a]
      BY <1>0, <1>1, ArticlesNumbered DEF ScanTick, ScanTypes
    <3>2. CASE old[a] = ScanWindow
      BY <3>2 DEF ScannedInTime
    <3>3. CASE old[a] # ScanWindow
      <4>1. a \in DueNow
        BY <2>1, <3>1, <3>3, Sizes DEF DueNow
      <4>2. QED BY <3>1, <4>1 DEF DueAreSeen
    <3>4. QED BY <3>2, <3>3
  <2>2. QED BY <1>1, <2>1 DEF ScannedInTime, ScanTick
<1>2. CASE ~ScanTick
  BY <1>0, <1>2, DueSame DEF ScannedInTime
<1>3. QED BY <1>1, <1>2

LEMMA TimeInvariance == ScanSpec => []TimeInv
<1>1. ScanInit => ArticleOrder /\ DueAreSeen /\ ScannedInTime
  <2> SUFFICES ASSUME ScanInit PROVE ArticleOrder /\ DueAreSeen /\ ScannedInTime
    OBVIOUS
  <2>1. \A n : OfAge(n) = {}
    BY DEF ScanInit, OfAge
  <2>2. ArticleOrder
    BY <2>1, FS_EmptySet, Sizes DEF ScanInit, ArticleOrder
  <2>3. DueAreSeen /\ ScannedInTime
    BY DEF ScanInit, DueAreSeen, ScannedInTime, NoScan
  <2>4. QED BY <2>2, <2>3
<1>2. WholeInv /\ ArticleOrder /\ DueAreSeen /\ ScannedInTime /\ [ScanNext]_scanVars
        => (ArticleOrder /\ DueAreSeen /\ ScannedInTime)'
  <2>1. ASSUME WholeInv, ArticleOrder, DueAreSeen, ScannedInTime, ScanNext
        PROVE  (ArticleOrder /\ DueAreSeen /\ ScannedInTime)'
    BY <2>1, ArticleOrderStep, DueStep, TimeStep DEF WholeInv
  <2>2. ASSUME ArticleOrder, DueAreSeen, ScannedInTime, UNCHANGED scanVars
        PROVE  (ArticleOrder /\ DueAreSeen /\ ScannedInTime)'
    BY <2>2 DEF scanVars, ArticleOrder, OfAge, DueAreSeen, DueNow, ScannedInTime
  <2>3. QED BY <2>1, <2>2
<1>3. QED BY <1>1, <1>2, WholeInvariance, PTL DEF ScanSpec, TimeInv

----------------------------------------------------------------------------
(***************************************************************************)
(* For any number of articles and overlapping scans, and whatever raises   *)
(* in them: the savepoint, the unique event key and the one commit keep    *)
(* risk_event_checked_at and the recorded events together.                 *)
(***************************************************************************)
THEOREM CheckedIffRecordedHolds == ScanSpec => []CheckedIffRecorded
<1>1. WholeInv => CheckedIffRecorded
  BY DEF WholeInv
<1>2. QED BY <1>1, WholeInvariance, PTL

(***************************************************************************)
(* For any number of articles, scans and failing articles: when every      *)
(* period sees a scan through, and brings no more articles than fit in one *)
(* batch, only articles on which detection raises are never checked.       *)
(***************************************************************************)
THEOREM ScannedInTimeHolds == ScanSpec => []ScannedInTime
<1>1. TimeInv => ScannedInTime
  BY DEF TimeInv
<1>2. QED BY <1>1, TimeInvariance, PTL

----------------------------------------------------------------------------
(***************************************************************************)
(* The feed.                                                               *)
(***************************************************************************)

\* The exclusions of a preference that every generation honours.
Hits(a, p) == HasExcludedMatch(a, [p EXCEPT !.noSupplierIds = {}])

\* A generation that no save has overtaken has read the preference of now, and
\* none is without a save in between; the rows it will add hit no exclusion.
ReadOfNow ==
  \A g \in Generators : gen[g].phase # "idle" /\ ~gen[g].late => gen[g].pref = pref
SaveOvertakesAll ==
  save.phase = "deleted" => \A g \in Generators : gen[g].phase # "idle" => gen[g].late
RowsAreFit ==
  \A g \in Generators : gen[g].phase = "ready" => \A a \in gen[g].rows : ~Hits(a, gen[g].pref)

\* What is added after a save's DELETE is late, so what the save leaves is, too.
OnlyLateIsLeft ==
  save.phase = "deleted" =>
    \A a \in Articles :
      /\ save.doomed[a].all <= feed[a].all /\ save.doomed[a].late <= feed[a].late
      /\ feed[a].all - save.doomed[a].all = feed[a].late - save.doomed[a].late
SaveIsToCome == save.phase = "deleted" => saved < SaveBound
LateAreSome == \A a \in Articles : feed[a].late <= feed[a].all

FeedInv == /\ ReadOfNow /\ SaveOvertakesAll /\ RowsAreFit /\ OnlyLateIsLeft /\ SaveIsToCome
           /\ LateAreSome /\ FeedHonoursExclusions

----------------------------------------------------------------------------
\* What is asked of a preference's exclusions but for a supplier's identity.
LEMMA ExclusionsOfFallback ==
  ASSUME NEW p, DOMAIN p = PreferenceFields, NEW a
  PROVE  /\ HasExcludedMatch(a, Fallback(p)) <=> Hits(a, p)
         /\ Hits(a, Fallback(p)) <=> Hits(a, p)
         /\ Hits(a, p) => HasExcludedMatch(a, p)
         /\ DOMAIN Fallback(p) = PreferenceFields
<1>1. /\ Fallback(p).noSupplierIds = {} /\ Fallback(p).noCategories = p.noCategories
      /\ Fallback(p).noTopics = p.noTopics /\ Fallback(p).noSuppliers = p.noSuppliers
      /\ Fallback(p).noRegions = p.noRegions /\ Fallback(p).noSignals = p.noSignals
      /\ DOMAIN Fallback(p) = PreferenceFields
  BY DEF Fallback, NoPreference, PreferenceFields
<1>2. \A q : DOMAIN q = PreferenceFields =>
        LET r == [q EXCEPT !.noSupplierIds = {}]
        IN /\ r.noSupplierIds = {} /\ r.noCategories = q.noCategories
           /\ r.noTopics = q.noTopics /\ r.noSuppliers = q.noSuppliers
           /\ r.noRegions = q.noRegions /\ r.noSignals = q.noSignals
  BY DEF PreferenceFields
<1>3. HasExcludedMatch(a, Fallback(p)) <=> Hits(a, p)
  BY <1>1, <1>2 DEF Hits, HasExcludedMatch, ExcludedCategories
<1>4. Hits(a, Fallback(p)) <=> Hits(a, p)
  BY <1>1, <1>2 DEF Hits, HasExcludedMatch, ExcludedCategories
<1>5. Hits(a, p) => HasExcludedMatch(a, p)
  BY <1>2 DEF Hits, HasExcludedMatch, ExcludedCategories
<1> QED  BY <1>1, <1>3, <1>4, <1>5

LEMMA AdditionsAreFit ==
  ASSUME NEW p, DOMAIN p = PreferenceFields, NEW has, NEW rows \in Additions(p, has)
  PROVE  rows \subseteq recent /\ \A a \in rows : ~Hits(a, p)
<1>1. \A q, S : \A T \in Best(S, q) : T \subseteq S
  BY DEF Best, kSubset
<1>2. \A q : \A a \in Scored(q, has) : a \in recent /\ ~HasExcludedMatch(a, q)
  BY DEF Scored, ShouldInclude
<1>3. rows \subseteq Scored(p, has) \/ rows \subseteq Scored(Fallback(p), has)
  BY <1>1 DEF Additions
<1> QED  BY <1>2, <1>3, ExclusionsOfFallback

LEMMA PatchedIsOne ==
  ASSUME NEW p, DOMAIN p = PreferenceFields, NEW patch
  PROVE  DOMAIN Patched(p, patch) = PreferenceFields
BY DEF Patched

\* What a generation may be.
IsGeneration(x) ==
  /\ DOMAIN x = {"phase", "pref", "has", "rows", "late"}
  /\ x.phase \in {"idle", "reading", "excluding", "ready"}
  /\ DOMAIN x.pref = PreferenceFields
  /\ x.rows \subseteq Articles /\ x.has \subseteq Articles
  /\ x.late \in BOOLEAN

LEMMA RestingIsOne == IsGeneration(Resting) /\ Resting.phase = "idle"
<1>1. DOMAIN NoPreference = PreferenceFields
  BY DEF NoPreference
<1> QED  BY <1>1 DEF Resting, IsGeneration

LEMMA FeedStarts == FeedInit => FeedTypeOK /\ FeedInv
<1> SUFFICES ASSUME FeedInit PROVE FeedTypeOK /\ FeedInv
  OBVIOUS
<1>1. DOMAIN NoPreference = PreferenceFields
  BY DEF NoPreference
<1>2. DOMAIN pref = PreferenceFields
  BY <1>1, PatchedIsOne DEF FeedInit
<1>3. NoRows \in [Articles -> [all : Nat, late : Nat]]
      /\ \A a \in Articles : NoRows[a].all = 0 /\ NoRows[a].late = 0
  BY DEF NoRows
<1>4. \A g \in Generators : gen[g] = Resting
  BY DEF FeedInit
<1>5. FeedTypeOK
  <2>2. NoSave.phase = "idle" /\ NoSave.next = NoPreference /\ NoSave.doomed = NoRows
    BY DEF NoSave
  <2>3. DOMAIN gen = Generators /\ recent = {} /\ saved = 0 /\ feed = NoRows /\ save = NoSave
    BY DEF FeedInit
  <2>4. \A g \in Generators : IsGeneration(gen[g])
    BY <1>4, RestingIsOne
  <2> QED  BY <2>2, <2>3, <2>4, <1>1, <1>2, <1>3, FeedAssumption DEF FeedTypeOK, IsGeneration
<1>6. FeedInv
  BY <1>3, <1>4 DEF FeedInit, FeedInv, ReadOfNow, SaveOvertakesAll, RowsAreFit, OnlyLateIsLeft,
                    LateAreSome, SaveIsToCome, FeedHonoursExclusions, NoSave, Resting
<1> QED  BY <1>5, <1>6

----------------------------------------------------------------------------
\* One generation goes on, and what it is then fits.
GenerationStep(g, x) ==
  /\ gen' = [gen EXCEPT ![g] = x]
  /\ IsGeneration(x)
  /\ x.phase # "idle" /\ ~x.late => x.pref = pref
  /\ save.phase = "deleted" /\ x.phase # "idle" => x.late
  /\ x.phase = "ready" => \A a \in x.rows : ~Hits(a, x.pref)
  /\ UNCHANGED <<pref, saved, recent, save>>

LEMMA GenerationGoesOn ==
  ASSUME FeedTypeOK, FeedInv, NEW g \in Generators, NEW x, GenerationStep(g, x)
  PROVE  /\ feed' \in [Articles -> [all : Nat, late : Nat]] => FeedTypeOK'
         /\ (ReadOfNow /\ SaveOvertakesAll /\ RowsAreFit)'
<1>1. /\ DOMAIN gen' = Generators
      /\ \A h \in Generators : gen'[h] = IF h = g THEN x ELSE gen[h]
  BY DEF GenerationStep, FeedTypeOK
<1>2. \A h \in Generators : IsGeneration(gen'[h])
  BY <1>1 DEF GenerationStep, FeedTypeOK, IsGeneration
<1>3. feed' \in [Articles -> [all : Nat, late : Nat]] => FeedTypeOK'
  BY <1>1, <1>2 DEF GenerationStep, FeedTypeOK, IsGeneration
<1>4. ReadOfNow' /\ SaveOvertakesAll' /\ RowsAreFit'
  BY <1>1 DEF GenerationStep, FeedInv, ReadOfNow, SaveOvertakesAll, RowsAreFit
<1> QED  BY <1>3, <1>4

\* Nothing but a commit touches the feed.
FeedStays == UNCHANGED <<feed, save, saved, pref>>

LEMMA FeedStaysFit ==
  ASSUME FeedTypeOK, FeedInv, FeedStays
  PROVE  (OnlyLateIsLeft /\ LateAreSome /\ SaveIsToCome /\ FeedHonoursExclusions)'
BY DEF FeedStays, FeedInv, OnlyLateIsLeft, LateAreSome, SaveIsToCome, FeedHonoursExclusions

LEMMA CommitFeedFits ==
  ASSUME FeedTypeOK, FeedInv, NEW g \in Generators, CommitFeed(g)
  PROVE  FeedTypeOK' /\ FeedInv'
<1>1. GenerationStep(g, Resting)
  BY RestingIsOne DEF GenerationStep, CommitFeed
<1>2. PICK n \in {0, 1} : n = IF gen[g].late THEN 1 ELSE 0
  OBVIOUS
<1>3. ASSUME NEW a \in Articles
      PROVE  /\ feed[a] \in [all : Nat, late : Nat]
             /\ feed'[a] \in [all : Nat, late : Nat]
             /\ a \notin gen[g].rows => feed'[a] = feed[a]
             /\ a \in gen[g].rows => /\ feed'[a].all = feed[a].all + 1
                                     /\ feed'[a].late = feed[a].late + n
  <2>1. feed[a] \in [all : Nat, late : Nat]
    BY DEF FeedTypeOK
  <2>2. feed'[a] = IF a \in gen[g].rows
                   THEN [all |-> feed[a].all + 1, late |-> feed[a].late + n] ELSE feed[a]
    BY <1>2 DEF CommitFeed
  <2>3. feed[a].all + 1 \in Nat /\ feed[a].late + n \in Nat
    BY <2>1
  <2>4. CASE a \in gen[g].rows
    BY <2>1, <2>2, <2>3, <2>4
  <2>5. CASE a \notin gen[g].rows
    BY <2>1, <2>2, <2>5
  <2> QED  BY <2>4, <2>5
<1>4. feed' \in [Articles -> [all : Nat, late : Nat]]
  <2>1. DOMAIN feed' = Articles /\ feed' = [a \in Articles |-> feed'[a]]
    BY DEF CommitFeed
  <2> QED  BY <2>1, <1>3
<1>5. FeedTypeOK' /\ (ReadOfNow /\ SaveOvertakesAll /\ RowsAreFit)'
  BY <1>1, <1>4, GenerationGoesOn
<1>6. LateAreSome'
  <2> SUFFICES ASSUME NEW a \in Articles PROVE feed'[a].late <= feed'[a].all
    BY DEF LateAreSome
  <2>1. feed[a].late <= feed[a].all /\ feed[a].late \in Nat /\ feed[a].all \in Nat
    BY <1>3 DEF LateAreSome, FeedInv
  <2> QED  BY <1>3, <2>1
<1>7. OnlyLateIsLeft'
  <2> SUFFICES ASSUME save.phase = "deleted", NEW a \in Articles
               PROVE  /\ save.doomed[a].all <= feed'[a].all /\ save.doomed[a].late <= feed'[a].late
                      /\ feed'[a].all - save.doomed[a].all = feed'[a].late - save.doomed[a].late
    BY DEF OnlyLateIsLeft, CommitFeed
  <2>1. n = 1
    BY <1>2 DEF FeedInv, SaveOvertakesAll, CommitFeed
  <2>2. /\ save.doomed[a].all \in Nat /\ save.doomed[a].late \in Nat
        /\ save.doomed[a].all <= feed[a].all /\ save.doomed[a].late <= feed[a].late
        /\ feed[a].all - save.doomed[a].all = feed[a].late - save.doomed[a].late
    BY DEF FeedTypeOK, FeedInv, OnlyLateIsLeft
  <2> QED  BY <1>3, <2>1, <2>2
<1>9. SaveIsToCome'
  BY DEF FeedInv, SaveIsToCome, CommitFeed
<1>8. FeedHonoursExclusions'
  <2> SUFFICES ASSUME NEW a \in Articles, feed'[a].all > feed'[a].late PROVE ~Hits(a, pref)
    BY DEF FeedHonoursExclusions, CommitFeed, Hits
  <2>1. CASE feed[a].all > feed[a].late
    BY <2>1 DEF FeedInv, FeedHonoursExclusions, Hits
  <2>2. CASE ~(feed[a].all > feed[a].late)
    <3>1. feed[a].late <= feed[a].all
      BY DEF FeedInv, LateAreSome
    <3>2. a \in gen[g].rows /\ n = 0
      <4>1. a \in gen[g].rows
        BY <1>3, <2>2
      <4>2. feed'[a].all = feed[a].all + 1 /\ feed'[a].late = feed[a].late + n
        BY <1>3, <4>1
      <4>3. feed[a].all \in Nat /\ feed[a].late \in Nat
        BY <1>3
      <4> QED  BY <2>2, <3>1, <4>1, <4>2, <4>3
    <3>3. ~gen[g].late /\ gen[g].phase = "ready"
      BY <1>2, <3>2 DEF CommitFeed
    <3> QED  BY <3>2, <3>3 DEF FeedInv, ReadOfNow, RowsAreFit
  <2> QED  BY <2>1, <2>2
<1> QED  BY <1>5, <1>6, <1>7, <1>8, <1>9 DEF FeedInv

LEMMA GenerationFits ==
  ASSUME FeedTypeOK, FeedInv, NEW g \in Generators,
         ReadPreference(g) \/ ReadExisting(g) \/ Choose(g) \/ FailFeed(g)
  PROVE  FeedTypeOK' /\ FeedInv'
<1>1. FeedStays
  BY DEF FeedStays, ReadPreference, ReadExisting, Choose, FailFeed
<1>2. feed' \in [Articles -> [all : Nat, late : Nat]]
  BY <1>1 DEF FeedTypeOK, FeedStays
<1>3. IsGeneration(gen[g])
  BY DEF FeedTypeOK, IsGeneration
<1>4. \E x : GenerationStep(g, x)
  <2>1. CASE ReadPreference(g)
    <3> DEFINE x == [Resting EXCEPT !.phase = "reading", !.pref = pref,
                                    !.late = save.phase = "deleted"]
    <3>1. x.phase = "reading" /\ x.pref = pref /\ (x.late <=> save.phase = "deleted")
      BY RestingIsOne DEF IsGeneration
    <3>2. IsGeneration(x)
      BY RestingIsOne DEF IsGeneration, FeedTypeOK
    <3>3. gen' = [gen EXCEPT ![g] = x]
      BY <2>1 DEF ReadPreference
    <3> HIDE DEF x
    <3> QED  BY <2>1, <3>1, <3>2, <3>3 DEF GenerationStep, ReadPreference
  <2>2. CASE ReadExisting(g)
    <3> DEFINE has == {a \in Articles : feed[a].all > 0}
               x == [gen[g] EXCEPT !.phase = "excluding", !.has = has]
    <3>1. has \subseteq Articles
      OBVIOUS
    <3>2. gen' = [gen EXCEPT ![g] = x]
      BY <2>2 DEF ReadExisting, FeedTypeOK
    <3> HIDE DEF has
    <3>3. IsGeneration(x) /\ x.phase = "excluding" /\ x.pref = gen[g].pref /\ x.late = gen[g].late
      BY <1>3, <3>1 DEF IsGeneration
    <3> HIDE DEF x
    <3>4. gen[g].phase # "idle"
      BY <2>2 DEF ReadExisting
    <3> QED  BY <2>2, <3>2, <3>3, <3>4
             DEF GenerationStep, ReadExisting, FeedInv, ReadOfNow, SaveOvertakesAll
  <2>3. CASE Choose(g)
    <3>1. PICK rows \in Additions(gen[g].pref, gen[g].has) :
            gen' = [gen EXCEPT ![g].phase = "ready", ![g].rows = rows, ![g].has = {}]
      BY <2>3 DEF Choose
    <3> DEFINE x == [gen[g] EXCEPT !.phase = "ready", !.rows = rows, !.has = {}]
    <3>2. rows \subseteq Articles /\ \A a \in rows : ~Hits(a, gen[g].pref)
      <4>1. DOMAIN gen[g].pref = PreferenceFields
        BY <1>3 DEF IsGeneration
      <4>2. rows \subseteq recent /\ \A a \in rows : ~Hits(a, gen[g].pref)
        BY <4>1, AdditionsAreFit
      <4> QED  BY <4>2 DEF FeedTypeOK
    <3>3. gen' = [gen EXCEPT ![g] = x]
      BY <3>1 DEF FeedTypeOK
    <3>4. /\ IsGeneration(x) /\ x.phase = "ready" /\ x.pref = gen[g].pref
          /\ x.late = gen[g].late /\ x.rows = rows
      BY <1>3, <3>2 DEF IsGeneration
    <3> HIDE DEF x
    <3>5. gen[g].phase # "idle"
      BY <2>3 DEF Choose
    <3> QED  BY <2>3, <3>2, <3>3, <3>4, <3>5
             DEF GenerationStep, Choose, FeedInv, ReadOfNow, SaveOvertakesAll
  <2>4. CASE FailFeed(g)
    BY <2>4, RestingIsOne DEF GenerationStep, FailFeed
  <2> QED  BY <2>1, <2>2, <2>3, <2>4
<1> QED  BY <1>1, <1>2, <1>4, GenerationGoesOn, FeedStaysFit DEF FeedInv

LEMMA BeginSaveFits == ASSUME FeedTypeOK, FeedInv, BeginSave PROVE FeedTypeOK' /\ FeedInv'
<1>1. PICK patch \in Patches :
        save' = [phase |-> "deleted", next |-> Patched(pref, patch), doomed |-> feed]
  BY DEF BeginSave
<1>2. save'.phase = "deleted" /\ save'.next = Patched(pref, patch) /\ save'.doomed = feed
  BY <1>1
<1>3. \A g \in Generators :
        /\ gen'[g] = [gen[g] EXCEPT !.late = gen[g].late \/ gen[g].phase # "idle"]
        /\ IsGeneration(gen[g])
  BY DEF BeginSave, FeedTypeOK, IsGeneration
<1>4. ASSUME NEW g \in Generators
      PROVE  /\ gen'[g].phase = gen[g].phase /\ gen'[g].pref = gen[g].pref
             /\ gen'[g].rows = gen[g].rows /\ gen'[g].has = gen[g].has
             /\ DOMAIN gen'[g] = DOMAIN gen[g]
             /\ gen'[g].late <=> gen[g].late \/ gen[g].phase # "idle"
             /\ gen'[g].late \in BOOLEAN
  <2>1. PICK late \in BOOLEAN : late <=> gen[g].late \/ gen[g].phase # "idle"
    OBVIOUS
  <2>2. late = (gen[g].late \/ gen[g].phase # "idle")
    BY <1>3, <2>1 DEF IsGeneration
  <2>3. gen'[g] = [gen[g] EXCEPT !.late = late]
    BY <1>3, <2>2
  <2>4. DOMAIN gen[g] = {"phase", "pref", "has", "rows", "late"}
    BY <1>3 DEF IsGeneration
  <2> QED  BY <2>1, <2>3, <2>4
<1>5. FeedTypeOK'
  <2>1. DOMAIN gen' = Generators /\ UNCHANGED <<pref, saved, recent, feed>>
    BY DEF BeginSave
  <2>2. DOMAIN save'.next = PreferenceFields
    BY <1>2, PatchedIsOne DEF FeedTypeOK
  <2> QED  BY <1>2, <1>3, <1>4, <2>1, <2>2 DEF FeedTypeOK
<1>6. ReadOfNow' /\ SaveOvertakesAll' /\ RowsAreFit'
  BY <1>2, <1>4 DEF FeedInv, ReadOfNow, SaveOvertakesAll, RowsAreFit, BeginSave
<1>7. OnlyLateIsLeft'
  <2> SUFFICES ASSUME NEW a \in Articles
               PROVE  /\ feed[a].all <= feed[a].all /\ feed[a].late <= feed[a].late
                      /\ feed[a].all - feed[a].all = feed[a].late - feed[a].late
    BY <1>2 DEF OnlyLateIsLeft, BeginSave
  <2>1. feed[a].all \in Nat /\ feed[a].late \in Nat
    BY DEF FeedTypeOK
  <2> QED  BY <2>1
<1>8. LateAreSome' /\ SaveIsToCome' /\ FeedHonoursExclusions'
  BY DEF BeginSave, FeedInv, LateAreSome, SaveIsToCome, FeedHonoursExclusions
<1> QED  BY <1>5, <1>6, <1>7, <1>8 DEF FeedInv

LEMMA CommitSaveFits ==
  ASSUME FeedTypeOK, FeedInv, CommitSave PROVE FeedTypeOK' /\ FeedInv'
<1>1. ASSUME NEW a \in Articles
      PROVE  /\ feed'[a] = [all |-> feed[a].all - save.doomed[a].all,
                            late |-> feed[a].late - save.doomed[a].late]
             /\ feed[a].all - save.doomed[a].all \in Nat
             /\ feed[a].late - save.doomed[a].late \in Nat
             /\ feed'[a].all = feed'[a].late
  <2>1. /\ feed[a].all \in Nat /\ feed[a].late \in Nat
        /\ save.doomed[a].all \in Nat /\ save.doomed[a].late \in Nat
    BY DEF FeedTypeOK
  <2>2. /\ save.doomed[a].all <= feed[a].all /\ save.doomed[a].late <= feed[a].late
        /\ feed[a].all - save.doomed[a].all = feed[a].late - save.doomed[a].late
    BY DEF FeedInv, OnlyLateIsLeft, CommitSave
  <2>3. feed'[a] = [all |-> feed[a].all - save.doomed[a].all,
                    late |-> feed[a].late - save.doomed[a].late]
    BY DEF CommitSave
  <2> QED  BY <2>1, <2>2, <2>3
<1>2. feed' \in [Articles -> [all : Nat, late : Nat]]
  BY <1>1 DEF CommitSave
<1>3. NoSave.phase = "idle" /\ NoSave.next = NoPreference /\ NoSave.doomed = NoRows
  BY DEF NoSave
<1>4. NoRows \in [Articles -> [all : Nat, late : Nat]] /\ DOMAIN NoPreference = PreferenceFields
  BY DEF NoRows, NoPreference
<1>5. saved + 1 \in 0..SaveBound
  BY FeedAssumption DEF FeedTypeOK, FeedInv, SaveIsToCome, CommitSave
<1>6. FeedTypeOK'
  BY <1>2, <1>3, <1>4, <1>5 DEF CommitSave, FeedTypeOK
<1>7. ReadOfNow' /\ SaveOvertakesAll' /\ RowsAreFit'
  BY <1>3 DEF CommitSave, FeedInv, ReadOfNow, SaveOvertakesAll, RowsAreFit
<1>8. OnlyLateIsLeft' /\ LateAreSome' /\ SaveIsToCome' /\ FeedHonoursExclusions'
  <2>1. \A a \in Articles : feed'[a].all \in Nat /\ feed'[a].late \in Nat
    BY <1>2
  <2>2. \A a \in Articles : feed'[a].late <= feed'[a].all /\ ~(feed'[a].all > feed'[a].late)
    <3> SUFFICES ASSUME NEW a \in Articles
                 PROVE  feed'[a].late <= feed'[a].all /\ ~(feed'[a].all > feed'[a].late)
      OBVIOUS
    <3>1. feed'[a].all = feed'[a].late
      BY <1>1
    <3> QED  BY <2>1, <3>1
  <2>3. save'.phase = "idle"
    BY <1>3 DEF CommitSave
  <2> QED  BY <2>2, <2>3 DEF OnlyLateIsLeft, LateAreSome, SaveIsToCome, FeedHonoursExclusions
<1> QED  BY <1>6, <1>7, <1>8 DEF FeedInv

LEMMA FeedGoesOn == FeedTypeOK /\ FeedInv /\ [FeedNext]_feedVars => (FeedTypeOK /\ FeedInv)'
<1> SUFFICES ASSUME FeedTypeOK, FeedInv, [FeedNext]_feedVars PROVE FeedTypeOK' /\ FeedInv'
  OBVIOUS
<1>1. ASSUME UNCHANGED <<pref, saved, feed, gen, save>>, recent' \subseteq Articles
      PROVE  FeedTypeOK' /\ FeedInv'
  <2>1. FeedTypeOK'
    BY <1>1 DEF FeedTypeOK
  <2>2. FeedStays
    BY <1>1 DEF FeedStays
  <2>3. ReadOfNow' /\ SaveOvertakesAll' /\ RowsAreFit'
    BY <1>1 DEF FeedInv, ReadOfNow, SaveOvertakesAll, RowsAreFit
  <2> QED  BY <2>1, <2>2, <2>3, FeedStaysFit DEF FeedInv
<1>2. CASE UNCHANGED feedVars
  BY <1>1, <1>2 DEF feedVars, FeedTypeOK
<1>3. ASSUME NEW g \in Generators,
             ReadPreference(g) \/ ReadExisting(g) \/ Choose(g) \/ CommitFeed(g) \/ FailFeed(g)
      PROVE  FeedTypeOK' /\ FeedInv'
  BY <1>3, GenerationFits, CommitFeedFits
<1>4. CASE BeginSave
  BY <1>4, BeginSaveFits
<1>5. CASE CommitSave
  BY <1>5, CommitSaveFits
<1>6. CASE FailSave
  <2>1. NoSave.phase = "idle" /\ NoSave.next = NoPreference /\ NoSave.doomed = NoRows
    BY DEF NoSave
  <2>2. NoRows \in [Articles -> [all : Nat, late : Nat]] /\ DOMAIN NoPreference = PreferenceFields
    BY DEF NoRows, NoPreference
  <2>3. FeedTypeOK'
    BY <1>6, <2>1, <2>2 DEF FailSave, FeedTypeOK
  <2>4. ReadOfNow' /\ SaveOvertakesAll' /\ RowsAreFit'
    BY <1>6, <2>1 DEF FailSave, FeedInv, ReadOfNow, SaveOvertakesAll, RowsAreFit
  <2>5. OnlyLateIsLeft' /\ SaveIsToCome' /\ LateAreSome' /\ FeedHonoursExclusions'
    BY <1>6, <2>1 DEF FailSave, FeedInv, OnlyLateIsLeft, SaveIsToCome, LateAreSome,
                      FeedHonoursExclusions
  <2> QED  BY <2>3, <2>4, <2>5 DEF FeedInv
<1>7. CASE Publish
  BY <1>1, <1>7 DEF Publish, FeedTypeOK
<1>8. CASE Age
  BY <1>1, <1>8 DEF Age, FeedTypeOK
<1> QED  BY <1>2, <1>3, <1>4, <1>5, <1>6, <1>7, <1>8 DEF FeedNext

(***************************************************************************)
(* A feed honours the exclusions its user has saved last, for every set of *)
(* articles, preferences and aliases, and however generations and saves    *)
(* overlap and fail: what hits one is of a generation a save overtook      *)
(* (pipeline.py, preference_manager.py:117-118).                           *)
(***************************************************************************)
THEOREM FeedHonoursExclusionsHolds == FeedSpec => [](FeedTypeOK /\ FeedHonoursExclusions)
<1>1. FeedTypeOK /\ FeedInv => FeedTypeOK /\ FeedHonoursExclusions
  BY DEF FeedInv
<1> QED  BY <1>1, FeedStarts, FeedGoesOn, PTL DEF FeedSpec

----------------------------------------------------------------------------
(***************************************************************************)
(* The registry of suppliers.                                              *)
(***************************************************************************)

Someone == SupplierIds \cup {Nobody}
Row == [to : Someone, late : BOOLEAN]
Maps(S, T) == UNION {[U -> T] : U \in SUBSET S}
Findings == Maps(Names, Someone)

Writing == [phase : {"idle", "enriching", "filling"}, found : Findings,
            new : SUBSET Names, late : BOOLEAN]
Screening == [phase : {"idle", "selected", "resolved"}, batch : SUBSET Documents,
              found : Maps(Documents, Findings), late : BOOLEAN]

RegistryTypes == /\ supplier \in [SupplierIds -> {"unknown", "active", "merged"}]
                 /\ holder \in [Names -> Someone]
                 /\ registrar \in [Registrars -> Someone]

MentionTypes == /\ mention \in [Documents -> Maps(Names, Row)]
                /\ enriched \subseteq Documents
                /\ screened \in [Documents -> BOOLEAN]

HandTypes == /\ writer \in [Documents -> Writing]
             /\ screener \in [Screeners -> Screening]

RegisterTypes == RegistryTypes /\ MentionTypes /\ HandTypes

\* What a name resolved to is active, or a merge has come since.
Stands(s, late) == s = Nobody \/ supplier[s] = "active" \/ late

FormsHeld ==
  \A s \in SupplierIds : supplier[s] = "active" => \A n \in FormsOf[s] : holder[n] = s

MentionsStand == \A d \in Documents : \A n \in DOMAIN mention[d] :
                   Stands(mention[d][n].to, mention[d][n].late)

\* The same of what is resolved and not yet committed.
HandsStand ==
  /\ \A d \in Documents : writer[d].phase # "idle" =>
       \A n \in DOMAIN writer[d].found : Stands(writer[d].found[n], writer[d].late)
  /\ \A c \in Screeners : screener[c].phase = "resolved" =>
       \A d \in DOMAIN screener[c].found : \A n \in DOMAIN screener[c].found[d] :
         Stands(screener[c].found[d][n], screener[c].late)

SuppliersInv == RegisterTypes /\ FormsHeld /\ MentionsStand /\ HandsStand

----------------------------------------------------------------------------
\* A map is a function on some of S, into T.
LEMMA MapsAre ==
  ASSUME NEW S, NEW T, NEW f \in Maps(S, T)
  PROVE  f = [x \in DOMAIN f |-> f[x]] /\ DOMAIN f \subseteq S /\ \A x \in DOMAIN f : f[x] \in T
BY DEF Maps

LEMMA MapIs ==
  ASSUME NEW S, NEW T, NEW U \in SUBSET S, NEW f \in [U -> T]
  PROVE  f \in Maps(S, T)
BY DEF Maps

\* Names resolve to active suppliers or to nobody.
LEMMA Resolution ==
  ASSUME RegisterTypes, NEW names \in SUBSET Names
  PROVE  /\ Resolve(names) \in Findings /\ DOMAIN Resolve(names) = names
         /\ \A n \in names : \/ Resolve(names)[n] = Nobody
                             \/ supplier[Resolve(names)[n]] = "active"
<1>1. /\ DOMAIN Resolve(names) = names
      /\ \A n \in names : /\ Resolve(names)[n] \in Someone
                          /\ \/ Resolve(names)[n] = Nobody
                             \/ supplier[Resolve(names)[n]] = "active"
  BY DEF Resolve, RegisterTypes, RegistryTypes, Someone
<1>2. Resolve(names) \in [names -> Someone]
  BY <1>1 DEF Resolve
<1>3. QED BY <1>1, <1>2, MapIs DEF Findings

\* Rows made of findings say what these say.
LEMMA RowsOfFindings ==
  ASSUME NEW found \in Findings, NEW late \in BOOLEAN
  PROVE  /\ Rows(found, late) \in Maps(Names, Row)
         /\ DOMAIN Rows(found, late) = DOMAIN found
         /\ \A n \in DOMAIN found : /\ Rows(found, late)[n].to = found[n]
                                    /\ Rows(found, late)[n].late = late
<1>1. DOMAIN found \in SUBSET Names /\ \A n \in DOMAIN found : found[n] \in Someone
  BY MapsAre DEF Findings
<1>2. Rows(found, late) \in [DOMAIN found -> Row]
  BY <1>1 DEF Rows, Row
<1>3. QED BY <1>1, <1>2, MapIs DEF Rows

\* One map laid over another.
LEMMA Upserted ==
  ASSUME NEW f \in Maps(Names, Row), NEW g \in Maps(Names, Row)
  PROVE  /\ Upsert(f, g) \in Maps(Names, Row)
         /\ DOMAIN Upsert(f, g) = DOMAIN f \cup DOMAIN g
         /\ \A n \in DOMAIN f \cup DOMAIN g :
              Upsert(f, g)[n] = IF n \in DOMAIN f THEN f[n] ELSE g[n]
<1>1. /\ DOMAIN f \subseteq Names /\ \A n \in DOMAIN f : f[n] \in Row
      /\ DOMAIN g \subseteq Names /\ \A n \in DOMAIN g : g[n] \in Row
  BY MapsAre
<1>2. Upsert(f, g) \in [DOMAIN f \cup DOMAIN g -> Row]
  BY <1>1 DEF Upsert
<1>3. QED BY <1>1, <1>2, MapIs DEF Upsert

\* A merge leaves the domain of what is mentioned.
LEMMA MergedRows ==
  ASSUME NEW m \in Maps(Names, Row), NEW from \in SupplierIds, NEW keep \in SupplierIds, RegisterTypes
  PROVE  [n \in DOMAIN m |-> Merged(from, keep, m[n])] \in Maps(Names, Row)
<1>1. DOMAIN m \subseteq Names /\ \A n \in DOMAIN m : m[n] \in Row
  BY MapsAre
<1>2. \A n \in DOMAIN m : Merged(from, keep, m[n]) \in Row
  BY <1>1 DEF Merged, Row, Someone
<1>3. QED BY <1>1, <1>2, MapIs

LEMMA Blank ==
  /\ NoMentions \in Maps(Names, Row) /\ DOMAIN NoMentions = {}
  /\ NoWriter \in Writing /\ NoWriter.phase = "idle"
  /\ NoScreener \in Screening /\ NoScreener.phase = "idle"
<1>1. NoMentions \in [{} -> Row] /\ NoMentions \in [{} -> Someone] /\ DOMAIN NoMentions = {}
  BY DEF NoMentions
<1>2. NoMentions \in Maps(Names, Row) /\ NoMentions \in Findings
  BY <1>1, MapIs DEF Findings
<1>3. [d \in {} |-> NoMentions] \in [{} -> Findings]
  OBVIOUS
<1>4. [d \in {} |-> NoMentions] \in Maps(Documents, Findings)
  BY <1>3, MapIs
<1>5. NoWriter \in Writing /\ NoWriter.phase = "idle"
  BY <1>2 DEF NoWriter, Writing
<1>6. NoScreener \in Screening /\ NoScreener.phase = "idle"
  BY <1>4 DEF NoScreener, Screening
<1>7. QED BY <1>1, <1>2, <1>5, <1>6

\* Every step keeps the types.
LEMMA RegisterTypesStep == RegisterTypes /\ [SuppliersNext]_suppliersVars => RegisterTypes'
<1> SUFFICES ASSUME RegisterTypes, [SuppliersNext]_suppliersVars PROVE RegisterTypes'
  OBVIOUS
<1> USE RegistryAssumption, NobodyAssumption DEF RegisterTypes
<1>1. ASSUME NEW d \in Documents, NEW w \in Writing, writer' = [writer EXCEPT ![d] = w],
             UNCHANGED screener
      PROVE  HandTypes'
  BY <1>1 DEF HandTypes
<1>2. ASSUME NEW c \in Screeners, NEW r \in Screening, screener' = [screener EXCEPT ![c] = r],
             UNCHANGED writer
      PROVE  HandTypes'
  BY <1>2 DEF HandTypes
<1>3. ASSUME NEW r \in Registrars, Register(r) PROVE RegisterTypes'
  BY <1>3 DEF Register, RegistryTypes, MentionTypes, HandTypes, Someone
<1>4. ASSUME NEW r \in Registrars, NEW s \in SupplierIds, CheckRegistration(r, s) PROVE RegisterTypes'
  BY <1>4 DEF CheckRegistration, RegistryTypes, MentionTypes, HandTypes, Someone
<1>5. CASE AddAlias
  BY <1>5 DEF AddAlias, RegistryTypes, MentionTypes, HandTypes, Someone
<1>6. CASE Merge
  <2>1. PICK keep \in SupplierIds, from \in SupplierIds :
          /\ supplier' = [supplier EXCEPT ![from] = "merged"]
          /\ holder' = [n \in Names |-> IF holder[n] = from THEN keep ELSE holder[n]]
          /\ mention' = [d \in Documents |->
                           [n \in DOMAIN mention[d] |-> Merged(from, keep, mention[d][n])]]
    BY <1>6 DEF Merge
  <2>2. RegistryTypes'
    BY <1>6, <2>1 DEF Merge, RegistryTypes, Someone
  <2>3. MentionTypes'
    BY SMTT(30), <1>6, <2>1, MergedRows DEF Merge, MentionTypes
  <2>4. HandTypes'
    <3>1. ASSUME NEW w \in Writing, NEW b \in BOOLEAN PROVE [w EXCEPT !.late = b] \in Writing
      BY DEF Writing
    <3>2. ASSUME NEW r \in Screening, NEW b \in BOOLEAN PROVE [r EXCEPT !.late = b] \in Screening
      BY DEF Screening
    <3>3. \A w \in Writing : [w EXCEPT !.late = w.phase # "idle"] \in Writing
      BY <3>1
    <3>4. \A r \in Screening : [r EXCEPT !.late = r.phase = "resolved"] \in Screening
      BY <3>2
    <3>5. QED BY <1>6, <3>3, <3>4 DEF Merge, HandTypes
  <2>5. QED BY <2>2, <2>3, <2>4
<1>7. ASSUME NEW d \in Documents, Enrich(d) PROVE RegisterTypes'
  <2>1. [NoWriter EXCEPT !.phase = "enriching", !.found = Resolve(Recognised[d])] \in Writing
    BY Resolution, Blank DEF Writing
  <2>2. QED BY <1>1, <1>7, <2>1 DEF Enrich, RegistryTypes, MentionTypes
<1>8. ASSUME NEW d \in Documents, Backfill(d) PROVE RegisterTypes'
  <2> DEFINE open == (Recognised[d] \ DOMAIN mention[d])
                       \cup {n \in DOMAIN mention[d] : mention[d][n].to = Nobody}
             w == [NoWriter EXCEPT !.phase = "filling", !.found = Resolve(open),
                                   !.new = open \ DOMAIN mention[d]]
  <2>1. open \in SUBSET Names
    BY MapsAre DEF MentionTypes
  <2>2. writer' = [writer EXCEPT ![d] = w]
    BY <1>8 DEF Backfill
  <2> HIDE DEF open
  <2>3. w \in Writing
    BY <2>1, Resolution, Blank DEF Writing
  <2>4. QED BY <1>1, <1>8, <2>2, <2>3 DEF Backfill, RegistryTypes, MentionTypes
<1>9. ASSUME NEW d \in Documents, CommitEnrichment(d) PROVE RegisterTypes'
  <2>1. Rows(writer[d].found, writer[d].late) \in Maps(Names, Row)
    BY RowsOfFindings DEF HandTypes, Writing
  <2>2. MentionTypes'
    BY <1>9, <2>1 DEF CommitEnrichment, MentionTypes
  <2>3. QED BY <1>1, <1>9, <2>2, Blank DEF CommitEnrichment, RegistryTypes
<1>10. ASSUME NEW d \in Documents, CommitBackfill(d) PROVE RegisterTypes'
  <2>1. Rows(writer[d].found, writer[d].late) \in Maps(Names, Row)
    BY RowsOfFindings DEF HandTypes, Writing
  <2>2. Upsert(Rows(writer[d].found, writer[d].late), mention[d]) \in Maps(Names, Row)
    BY <2>1, Upserted DEF MentionTypes
  <2>3. MentionTypes'
    BY <1>10, <2>2 DEF CommitBackfill, MentionTypes
  <2>4. QED BY <1>1, <1>10, <2>3, Blank DEF CommitBackfill, RegistryTypes
<1>11. ASSUME NEW d \in Documents, LoseWriter(d) PROVE RegisterTypes'
  BY <1>1, <1>11, Blank DEF LoseWriter, RegistryTypes, MentionTypes
<1>12. ASSUME NEW c \in Screeners, BeginScreening(c) PROVE RegisterTypes'
  <2> DEFINE batch == {d \in ToScreen : Cardinality({e \in ToScreen : e < d}) < BatchLimit}
  <2>1. batch \in SUBSET Documents
    BY DEF ToScreen, MentionTypes
  <2> HIDE DEF batch
  <2>2. [NoScreener EXCEPT !.phase = "selected", !.batch = batch] \in Screening
    BY <2>1, Blank DEF Screening
  <2>3. QED BY <1>2, <1>12, <2>2 DEF BeginScreening, RegistryTypes, MentionTypes, batch
<1>13. ASSUME NEW c \in Screeners, Screen(c) PROVE RegisterTypes'
  <2> DEFINE found == [d \in Screenable(c) |-> Resolve(Designated[d] \ DOMAIN mention[d])]
  <2>1. Screenable(c) \in SUBSET Documents
    BY DEF Screenable, HandTypes, Screening
  <2>2. found \in [Screenable(c) -> Findings]
    BY <2>1, Resolution
  <2>3. found \in Maps(Documents, Findings)
    BY <2>1, <2>2, MapIs
  <2> HIDE DEF found
  <2>4. screener' = [screener EXCEPT ![c] = [@ EXCEPT !.phase = "resolved", !.found = found]]
    BY <1>13 DEF Screen, found
  <2>5. [screener[c] EXCEPT !.phase = "resolved", !.found = found] \in Screening
    BY <2>3 DEF HandTypes, Screening
  <2>6. QED BY <1>2, <1>13, <2>4, <2>5 DEF Screen, RegistryTypes, MentionTypes
<1>14. ASSUME NEW c \in Screeners, CommitScreening(c) PROVE RegisterTypes'
  <2>1. ASSUME NEW d \in DOMAIN screener[c].found
        PROVE  Upsert(Rows(screener[c].found[d], screener[c].late), mention[d]) \in Maps(Names, Row)
    <3>1. d \in Documents /\ screener[c].found[d] \in Findings /\ screener[c].late \in BOOLEAN
      BY MapsAre DEF HandTypes, Screening
    <3>2. QED BY <3>1, RowsOfFindings, Upserted DEF MentionTypes
  <2>2. MentionTypes'
    BY <1>14, <2>1 DEF CommitScreening, MentionTypes
  <2>3. QED BY <1>2, <1>14, <2>2, Blank DEF CommitScreening, RegistryTypes
<1>15. ASSUME NEW c \in Screeners, LoseScreening(c) PROVE RegisterTypes'
  BY <1>2, <1>15, Blank DEF LoseScreening, RegistryTypes, MentionTypes
<1>16. CASE UNCHANGED suppliersVars
  BY <1>16 DEF suppliersVars, RegistryTypes, MentionTypes, HandTypes
<1>17. QED
  BY <1>3, <1>4, <1>5, <1>6, <1>7, <1>8, <1>9, <1>10, <1>11, <1>12, <1>13, <1>14, <1>15, <1>16
     DEF SuppliersNext

----------------------------------------------------------------------------
\* No step but a merge touches what stands.
LEMMA SuppliersStay ==
  ASSUME SuppliersInv, [SuppliersNext]_suppliersVars, ~Merge
  PROVE  /\ FormsHeld'
         /\ \A s \in Someone, late \in BOOLEAN : Stands(s, late) => Stands(s, late)'
<1> USE RegistryAssumption, NobodyAssumption DEF SuppliersInv, RegisterTypes, RegistryTypes
<1>1. ASSUME NEW r \in Registrars, Register(r)
      PROVE  FormsHeld' /\ \A s \in SupplierIds : supplier[s] = "active" => supplier'[s] = "active"
  BY <1>1 DEF Register, FormsHeld
<1>2. ASSUME AddAlias PROVE FormsHeld' /\ UNCHANGED supplier
  BY <1>2 DEF AddAlias, FormsHeld
<1>3. ASSUME UNCHANGED <<supplier, holder>> PROVE FormsHeld'
  BY <1>3 DEF FormsHeld
<1>4. FormsHeld' /\ \A s \in SupplierIds : supplier[s] = "active" => supplier'[s] = "active"
  <2>1. \/ \E r \in Registrars : Register(r)
        \/ AddAlias
        \/ UNCHANGED <<supplier, holder>>
    BY DEF SuppliersNext, suppliersVars, CheckRegistration, Enrich, CommitEnrichment, Backfill,
           CommitBackfill, LoseWriter, BeginScreening, Screen, CommitScreening, LoseScreening
  <2>2. QED BY <1>1, <1>2, <1>3, <2>1
<1>5. QED BY <1>4 DEF Stands, Someone

\* A merge: what stood on the supplier that is merged away moves, and what is in
\* hand is late from now on.
LEMMA MergeKeeps ==
  ASSUME SuppliersInv, Merge
  PROVE  FormsHeld' /\ MentionsStand' /\ HandsStand'
<1> USE RegistryAssumption, NobodyAssumption DEF SuppliersInv, RegisterTypes
<1>1. PICK keep \in SupplierIds, from \in SupplierIds :
        /\ keep # from
        /\ supplier' = [supplier EXCEPT ![from] = "merged"]
        /\ holder' = [n \in Names |-> IF holder[n] = from THEN keep ELSE holder[n]]
        /\ mention' = [d \in Documents |->
                         [n \in DOMAIN mention[d] |-> Merged(from, keep, mention[d][n])]]
  BY DEF Merge
<1>2. FormsHeld'
  BY <1>1 DEF FormsHeld, RegistryTypes
<1>3. MentionsStand'
  <2> SUFFICES ASSUME NEW d \in Documents, NEW n \in DOMAIN mention'[d]
               PROVE  Stands(mention[d][n].to, mention[d][n].late)'
    BY DEF MentionsStand
  <2>1. n \in DOMAIN mention[d] /\ mention'[d][n] = Merged(from, keep, mention[d][n])
    BY <1>1
  <2>2. mention[d][n] \in Row /\ Stands(mention[d][n].to, mention[d][n].late)
    BY <2>1, MapsAre DEF MentionTypes, MentionsStand
  <2>3. CASE mention[d][n].to = from
    BY <1>1, <2>1, <2>2, <2>3 DEF Merged, Stands, RegistryTypes
  <2>4. CASE mention[d][n].to # from
    BY <1>1, <2>1, <2>2, <2>4 DEF Merged, Stands, RegistryTypes, Row, Someone
  <2>5. QED BY <2>3, <2>4
<1>4. HandsStand'
  <2>1. \A d \in Documents : /\ writer'[d].phase = writer[d].phase
                             /\ writer'[d].late = (writer[d].phase # "idle")
    BY DEF Merge, HandTypes, Writing
  <2>2. \A c \in Screeners : /\ screener'[c].phase = screener[c].phase
                             /\ screener'[c].late = (screener[c].phase = "resolved")
    BY DEF Merge, HandTypes, Screening
  <2>3. QED BY <2>1, <2>2 DEF HandsStand, Stands
<1>5. QED BY <1>2, <1>3, <1>4

\* Everything else: a writer or a screening resolves names, or commits what it
\* has resolved.
LEMMA OthersKeep ==
  ASSUME SuppliersInv, [SuppliersNext]_suppliersVars, ~Merge
  PROVE  MentionsStand' /\ HandsStand'
<1> USE RegistryAssumption, NobodyAssumption DEF SuppliersInv, RegisterTypes
<1>1. \A s \in Someone, late \in BOOLEAN : Stands(s, late) => Stands(s, late)'
  BY SuppliersStay
<1>2. ASSUME UNCHANGED mention PROVE MentionsStand'
  <2> SUFFICES ASSUME NEW d \in Documents, NEW n \in DOMAIN mention[d]
               PROVE  Stands(mention[d][n].to, mention[d][n].late)'
    BY <1>2 DEF MentionsStand
  <2>1. mention[d][n] \in Row /\ Stands(mention[d][n].to, mention[d][n].late)
    BY MapsAre DEF MentionTypes, MentionsStand
  <2>2. QED BY <1>1, <1>2, <2>1 DEF Row, Stands
<1>3. ASSUME NEW found \in Findings, NEW late \in BOOLEAN,
             \A n \in DOMAIN found : Stands(found[n], late)
      PROVE  \A n \in DOMAIN Rows(found, late) :
               Stands(Rows(found, late)[n].to, Rows(found, late)[n].late)'
  <2> SUFFICES ASSUME NEW n \in DOMAIN found PROVE Stands(found[n], late)'
    BY RowsOfFindings
  <2>1. found[n] \in Someone
    BY MapsAre DEF Findings
  <2>2. QED BY <1>1, <1>3, <2>1
<1>4. ASSUME NEW found \in Findings, NEW late \in BOOLEAN, NEW m \in Maps(Names, Row),
             \A n \in DOMAIN found : Stands(found[n], late),
             \A n \in DOMAIN m : Stands(m[n].to, m[n].late)
      PROVE  LET u == Upsert(Rows(found, late), m)
             IN  \A n \in DOMAIN u : Stands(u[n].to, u[n].late)'
  <2>1. \A n \in DOMAIN m : Stands(m[n].to, m[n].late)'
    <3>1. \A n \in DOMAIN m : m[n] \in Row
      BY MapsAre
    <3>2. \A n \in DOMAIN m : m[n].to \in Someone /\ m[n].late \in BOOLEAN
      BY <3>1 DEF Row
    <3>3. QED BY <1>1, <1>4, <3>2
  <2> DEFINE rows == Rows(found, late)
  <2>2. \A n \in DOMAIN rows : Stands(rows[n].to, rows[n].late)'
    BY <1>3, <1>4
  <2>3. rows \in Maps(Names, Row)
    BY RowsOfFindings
  <2> HIDE DEF rows
  <2>4. LET u == Upsert(rows, m) IN \A n \in DOMAIN u : Stands(u[n].to, u[n].late)'
    <3> HIDE RegistryAssumption, NobodyAssumption DEF SuppliersInv, RegisterTypes
    <3>1. m \in Maps(Names, Row)
      OBVIOUS
    <3>2. /\ DOMAIN Upsert(rows, m) = DOMAIN rows \cup DOMAIN m
          /\ \A n \in DOMAIN rows \cup DOMAIN m :
               Upsert(rows, m)[n] = IF n \in DOMAIN rows THEN rows[n] ELSE m[n]
      BY <2>3, <3>1, Upserted
    <3>3. QED BY <2>1, <2>2, <3>2
  <2>5. QED BY <2>4 DEF rows
<1>5. ASSUME NEW d \in Documents, writer'[d] = writer[d], writer[d].phase # "idle",
             NEW n \in DOMAIN writer[d].found
      PROVE  Stands(writer[d].found[n], writer[d].late)'
  <2>1. writer[d].found \in Findings /\ writer[d].late \in BOOLEAN
    BY DEF HandTypes, Writing
  <2>2. writer[d].found[n] \in Someone /\ Stands(writer[d].found[n], writer[d].late)
    BY <1>5, <2>1, MapsAre DEF HandsStand, Findings
  <2>3. QED BY <1>1, <1>5, <2>1, <2>2 DEF Stands
<1>6. ASSUME NEW c \in Screeners, screener'[c] = screener[c], screener[c].phase = "resolved",
             NEW d \in DOMAIN screener[c].found, NEW n \in DOMAIN screener[c].found[d]
      PROVE  Stands(screener[c].found[d][n], screener[c].late)'
  <2>1. screener[c].found[d] \in Findings /\ screener[c].late \in BOOLEAN
    BY <1>6, MapsAre DEF HandTypes, Screening
  <2>2. /\ screener[c].found[d][n] \in Someone
        /\ Stands(screener[c].found[d][n], screener[c].late)
    BY <1>6, <2>1, MapsAre DEF HandsStand, Findings
  <2>3. QED BY <1>1, <1>6, <2>1, <2>2 DEF Stands
\* Where a writer or a screening has changed, what it found must stand.
<1>7. ASSUME NEW d \in Documents, NEW w \in Writing, writer' = [writer EXCEPT ![d] = w],
             w.phase # "idle" => \A n \in DOMAIN w.found : Stands(w.found[n], w.late)',
             UNCHANGED screener
      PROVE  HandsStand'
  <2>1. \A e \in Documents : writer'[e] = IF e = d THEN w ELSE writer[e]
    BY <1>7 DEF HandTypes
  <2>2. ASSUME NEW e \in Documents, writer'[e].phase # "idle", NEW n \in DOMAIN writer'[e].found
        PROVE  Stands(writer[e].found[n], writer[e].late)'
    BY <1>5, <1>7, <2>1, <2>2
  <2>3. QED BY <1>6, <1>7, <2>2 DEF HandsStand
<1>8. ASSUME NEW c \in Screeners, NEW r \in Screening, screener' = [screener EXCEPT ![c] = r],
             r.phase = "resolved" => \A d \in DOMAIN r.found : \A n \in DOMAIN r.found[d] :
                                       Stands(r.found[d][n], r.late)',
             UNCHANGED writer
      PROVE  HandsStand'
  <2>1. \A b \in Screeners : screener'[b] = IF b = c THEN r ELSE screener[b]
    BY <1>8 DEF HandTypes
  <2>2. ASSUME NEW b \in Screeners, screener'[b].phase = "resolved",
               NEW d \in DOMAIN screener'[b].found, NEW n \in DOMAIN screener'[b].found[d]
        PROVE  Stands(screener[b].found[d][n], screener[b].late)'
    BY <1>6, <1>8, <2>1, <2>2
  <2>3. QED BY <1>5, <1>8, <2>2 DEF HandsStand
<1>9. ASSUME UNCHANGED <<writer, screener>> PROVE HandsStand'
  BY <1>5, <1>6, <1>9 DEF HandsStand

<1>10. ASSUME NEW open \in SUBSET Names, UNCHANGED supplier
       PROVE  \A n \in DOMAIN Resolve(open), late \in BOOLEAN :
                \A s : s = Resolve(open)[n] => Stands(s, late)'
  BY <1>10, Resolution DEF Stands
<1>11. ASSUME NEW d \in Documents, Enrich(d) PROVE MentionsStand' /\ HandsStand'
  <2>1. [NoWriter EXCEPT !.phase = "enriching", !.found = Resolve(Recognised[d])] \in Writing
    BY Resolution, Blank DEF Writing
  <2>2. PICK w \in Writing : /\ w.found = Resolve(Recognised[d])
                             /\ writer' = [writer EXCEPT ![d] = w]
    BY <1>11, <2>1, Blank DEF Enrich, Writing
  <2>3. \A n \in DOMAIN w.found : Stands(w.found[n], w.late)'
    BY <1>10, <1>11, <2>2 DEF Enrich, Writing
  <2>4. QED BY <1>2, <1>7, <1>11, <2>2, <2>3 DEF Enrich
<1>12. ASSUME NEW d \in Documents, Backfill(d) PROVE MentionsStand' /\ HandsStand'
  <2> DEFINE open == (Recognised[d] \ DOMAIN mention[d])
                       \cup {n \in DOMAIN mention[d] : mention[d][n].to = Nobody}
             filling == [NoWriter EXCEPT !.phase = "filling", !.found = Resolve(open),
                                         !.new = open \ DOMAIN mention[d]]
  <2>1. open \in SUBSET Names
    BY MapsAre DEF MentionTypes
  <2>2. writer' = [writer EXCEPT ![d] = filling]
    BY <1>12 DEF Backfill
  <2> HIDE DEF open
  <2>3. filling \in Writing /\ filling.found = Resolve(open)
    BY <2>1, Resolution, Blank DEF Writing
  <2> HIDE DEF filling
  <2>4. PICK w \in Writing : w.found = Resolve(open) /\ writer' = [writer EXCEPT ![d] = w]
    BY <2>2, <2>3
  <2>5. \A n \in DOMAIN w.found : Stands(w.found[n], w.late)'
    BY <1>10, <1>12, <2>1, <2>4 DEF Backfill, Writing
  <2>6. QED BY <1>2, <1>7, <1>12, <2>4, <2>5 DEF Backfill
<1>13. ASSUME NEW c \in Screeners, Screen(c) PROVE MentionsStand' /\ HandsStand'
  <2> DEFINE found == [d \in Screenable(c) |-> Resolve(Designated[d] \ DOMAIN mention[d])]
  <2>1. Screenable(c) \in SUBSET Documents
    BY DEF Screenable, HandTypes, Screening
  <2>2. found \in Maps(Documents, Findings)
    <3>1. found \in [Screenable(c) -> Findings]
      BY <2>1, Resolution
    <3>2. QED BY <2>1, <3>1, MapIs
  <2>3. screener' = [screener EXCEPT ![c] = [@ EXCEPT !.phase = "resolved", !.found = found]]
    BY <1>13 DEF Screen
  <2>4. \A d \in DOMAIN found : \E open \in SUBSET Names : found[d] = Resolve(open)
    BY <2>1, RegistryAssumption
  <2> HIDE DEF found
  <2>5. PICK r \in Screening : r.found = found /\ screener' = [screener EXCEPT ![c] = r]
    <3>1. [screener[c] EXCEPT !.phase = "resolved", !.found = found] \in Screening
      BY <2>2 DEF HandTypes, Screening
    <3>2. QED BY <2>3, <3>1 DEF Screening
  <2>6. ASSUME NEW d \in DOMAIN r.found, NEW n \in DOMAIN r.found[d]
        PROVE  Stands(r.found[d][n], r.late)'
    <3>1. PICK open \in SUBSET Names : r.found[d] = Resolve(open)
      BY <2>4, <2>5
    <3>2. d \in Documents /\ r.late \in BOOLEAN
      BY <2>2, <2>5, MapsAre DEF Screening
    <3>3. QED BY <1>10, <1>13, <3>1, <3>2 DEF Screen
  <2>7. QED BY <1>2, <1>8, <1>13, <2>5, <2>6 DEF Screen
\* The rows of one document change; those of the others stay.
<1>14. ASSUME NEW d \in Documents, NEW m, m = mention[d], NEW n \in DOMAIN m
       PROVE  Stands(m[n].to, m[n].late) /\ Stands(m[n].to, m[n].late)'
  <2>1. m[n] \in Row /\ Stands(m[n].to, m[n].late)
    BY <1>14, MapsAre DEF MentionTypes, MentionsStand
  <2>2. QED BY <1>1, <2>1 DEF Row
<1>15. ASSUME NEW d \in Documents, CommitEnrichment(d) PROVE MentionsStand' /\ HandsStand'
  <2>1. PICK found \in Findings, late \in BOOLEAN, rows \in Maps(Names, Row) :
          /\ found = writer[d].found /\ late = writer[d].late /\ rows = Rows(found, late)
    <3>1. writer[d].found \in Findings /\ writer[d].late \in BOOLEAN
      BY DEF HandTypes, Writing
    <3>2. Rows(writer[d].found, writer[d].late) \in Maps(Names, Row)
      BY <3>1, RowsOfFindings
    <3>3. QED BY <3>1, <3>2
  <2>2. \A n \in DOMAIN found : Stands(found[n], late)
    BY <1>15, <2>1 DEF CommitEnrichment, HandsStand
  <2>3. \A n \in DOMAIN rows : Stands(rows[n].to, rows[n].late)'
    BY <1>3, <2>1, <2>2
  <2>4. \A e \in Documents : mention'[e] = IF e = d THEN rows ELSE mention[e]
    BY <1>15, <2>1 DEF CommitEnrichment, MentionTypes
  <2>5. MentionsStand'
    BY <1>14, <2>3, <2>4 DEF MentionsStand
  <2>6. QED BY <1>7, <1>15, <2>5, Blank DEF CommitEnrichment
<1>16. ASSUME NEW d \in Documents, CommitBackfill(d) PROVE MentionsStand' /\ HandsStand'
  <2>1. PICK found, late, m, rows :
          /\ found \in Findings /\ late \in BOOLEAN /\ m \in Maps(Names, Row)
          /\ found = writer[d].found /\ late = writer[d].late /\ m = mention[d]
          /\ rows = Upsert(Rows(found, late), m)
    BY DEF HandTypes, Writing, MentionTypes
  <2>2. /\ \A n \in DOMAIN found : Stands(found[n], late)
        /\ \A n \in DOMAIN m : Stands(m[n].to, m[n].late)
    BY <1>14, <1>16, <2>1 DEF CommitBackfill, HandsStand
  <2>3. \A n \in DOMAIN rows : Stands(rows[n].to, rows[n].late)'
    BY <1>4, <2>1, <2>2
  <2>4. \A e \in Documents : mention'[e] = IF e = d THEN rows ELSE mention[e]
    BY <1>16, <2>1 DEF CommitBackfill, MentionTypes
  <2>5. MentionsStand'
    BY <1>14, <2>3, <2>4 DEF MentionsStand
  <2>6. QED BY <1>7, <1>16, <2>5, Blank DEF CommitBackfill
<1>17. ASSUME NEW c \in Screeners, CommitScreening(c) PROVE MentionsStand' /\ HandsStand'
  <2>1. ASSUME NEW d \in Documents, d \in DOMAIN screener[c].found, NEW n \in DOMAIN mention'[d]
        PROVE  Stands(mention[d][n].to, mention[d][n].late)'
    <3>1. PICK found, late, m, rows :
            /\ found \in Findings /\ late \in BOOLEAN /\ m \in Maps(Names, Row)
            /\ found = screener[c].found[d] /\ late = screener[c].late /\ m = mention[d]
            /\ rows = Upsert(Rows(found, late), m)
      BY <2>1, MapsAre DEF HandTypes, Screening, MentionTypes
    <3>2. /\ \A k \in DOMAIN found : Stands(found[k], late)
          /\ \A k \in DOMAIN m : Stands(m[k].to, m[k].late)
      BY <1>14, <1>17, <2>1, <3>1 DEF CommitScreening, HandsStand
    <3>3. \A k \in DOMAIN rows : Stands(rows[k].to, rows[k].late)'
      BY <1>4, <3>1, <3>2
    <3>4. mention'[d] = rows
      BY <1>17, <2>1, <3>1 DEF CommitScreening
    <3>5. QED BY <2>1, <3>3, <3>4
  <2>2. ASSUME NEW d \in Documents, d \notin DOMAIN screener[c].found, NEW n \in DOMAIN mention'[d]
        PROVE  Stands(mention[d][n].to, mention[d][n].late)'
    <3>1. mention'[d] = mention[d]
      BY <1>17, <2>2 DEF CommitScreening
    <3>2. QED BY <1>14, <2>2, <3>1
  <2>3. MentionsStand'
    BY <2>1, <2>2 DEF MentionsStand
  <2>4. QED BY <1>8, <1>17, <2>3, Blank DEF CommitScreening
<1>18. ASSUME NEW c \in Screeners, BeginScreening(c) PROVE MentionsStand' /\ HandsStand'
  <2> DEFINE batch == {d \in ToScreen : Cardinality({e \in ToScreen : e < d}) < BatchLimit}
             r == [NoScreener EXCEPT !.phase = "selected", !.batch = batch]
  <2>1. batch \in SUBSET Documents /\ screener' = [screener EXCEPT ![c] = r]
    BY <1>18 DEF ToScreen, MentionTypes, BeginScreening
  <2> HIDE DEF batch
  <2>2. r \in Screening /\ r.phase = "selected"
    BY <2>1, Blank DEF Screening
  <2> HIDE DEF r
  <2>3. QED BY <1>2, <1>8, <1>18, <2>1, <2>2 DEF BeginScreening
<1>19. ASSUME NEW d \in Documents, LoseWriter(d) PROVE MentionsStand' /\ HandsStand'
  BY <1>2, <1>7, <1>19, Blank DEF LoseWriter
<1>20. ASSUME NEW c \in Screeners, LoseScreening(c) PROVE MentionsStand' /\ HandsStand'
  BY <1>2, <1>8, <1>20, Blank DEF LoseScreening
<1>21. ASSUME UNCHANGED <<mention, writer, screener>> PROVE MentionsStand' /\ HandsStand'
  BY <1>2, <1>9, <1>21
<1>22. QED
  BY <1>11, <1>12, <1>13, <1>15, <1>16, <1>17, <1>18, <1>19, <1>20, <1>21
     DEF SuppliersNext, suppliersVars, Register, CheckRegistration, AddAlias

LEMMA SuppliersInvariance == SuppliersSpec => []SuppliersInv
<1>1. SuppliersInit => SuppliersInv
  <2> SUFFICES ASSUME SuppliersInit PROVE SuppliersInv
    OBVIOUS
  <2>1. RegisterTypes
    BY Blank DEF SuppliersInit, RegisterTypes, RegistryTypes, MentionTypes, HandTypes, Someone
  <2>2. FormsHeld /\ MentionsStand /\ HandsStand
    BY Blank DEF SuppliersInit, FormsHeld, MentionsStand, HandsStand
  <2>3. QED BY <2>1, <2>2 DEF SuppliersInv
<1>2. SuppliersInv /\ [SuppliersNext]_suppliersVars => SuppliersInv'
  <2> SUFFICES ASSUME SuppliersInv, [SuppliersNext]_suppliersVars PROVE SuppliersInv'
    OBVIOUS
  <2>1. RegisterTypes'
    BY RegisterTypesStep DEF SuppliersInv
  <2>2. CASE Merge
    BY <2>1, <2>2, MergeKeeps DEF SuppliersInv
  <2>3. CASE ~Merge
    BY <2>1, <2>3, SuppliersStay, OthersKeep DEF SuppliersInv
  <2>4. QED BY <2>2, <2>3
<1>3. QED BY <1>1, <1>2, PTL DEF SuppliersSpec

(***************************************************************************)
(* Whatever registrations race and whatever writers a merge overtakes, an  *)
(* active supplier holds every form of its name, and a mention points to   *)
(* an active supplier unless the merge came while it was being written, or *)
(* its survivor was merged away before (RegistryConsistent: registry.py).  *)
(***************************************************************************)
THEOREM RegistryConsistentHolds == SuppliersSpec => []RegistryConsistent
<1>1. SuppliersInv => RegistryConsistent
  BY DEF SuppliersInv, FormsHeld, MentionsStand, Stands, RegistryConsistent
<1>2. QED BY <1>1, SuppliersInvariance, PTL

(***************************************************************************)
(* Registry, mentions and what is in hand keep their types                 *)
(* (models/suppliers.py).                                                  *)
(***************************************************************************)
THEOREM SuppliersTypeCorrect == SuppliersSpec => []SuppliersTypeOK
<1>1. SuppliersInv => SuppliersTypeOK
  <2> SUFFICES ASSUME SuppliersInv PROVE SuppliersTypeOK
    OBVIOUS
  <2>1. \A d \in Documents : /\ DOMAIN mention[d] \subseteq Names
                             /\ \A n \in DOMAIN mention[d] : mention[d][n].to \in Someone
    <3>1. ASSUME NEW d \in Documents PROVE DOMAIN mention[d] \subseteq Names
                                           /\ \A n \in DOMAIN mention[d] : mention[d][n] \in Row
      BY MapsAre DEF SuppliersInv, RegisterTypes, MentionTypes
    <3>2. QED BY <3>1 DEF Row
  <2>2. QED BY <2>1 DEF SuppliersInv, RegisterTypes, RegistryTypes, MentionTypes, HandTypes, Writing,
                        Someone, SuppliersTypeOK
<1>2. QED BY <1>1, SuppliersInvariance, PTL

----------------------------------------------------------------------------
(***************************************************************************)
(* The rules that match events and the outbox of their notifications, for  *)
(* every number of events, addressees, evaluations and drains, and every   *)
(* limit.                                                                  *)
(***************************************************************************)

OutboxRow == [to : Events \X Addressees, status : {"pending", "delivered", "failed"},
              attempts : 0..MaxAttempts, tries : 0..MaxAttempts]

Evaluation == [phase : {"idle", "matched", "enqueued"}, seen : SUBSET Events,
               adds : SUBSET (Events \X Addressees), current : BOOLEAN]

\* The attempts of the rows a drain has loaded.
Loads == UNION {[S -> Nat] : S \in SUBSET Nat}

Draining == [phase : {"idle", "sending", "sent"}, loaded : Loads]

OutboxTypes == /\ recorded \in 0..NumEvents
               /\ outbox \in Seq(OutboxRow)
               /\ eval \in [Evaluators -> Evaluation]
               /\ drain \in [Drains -> Draining]

\* A row is counted at most as often as it was tried, and is not pending when
\* that was often enough.
RowsAreCounted == \A i \in DOMAIN outbox :
             /\ outbox[i].attempts <= outbox[i].tries
             /\ outbox[i].status = "pending" => outbox[i].attempts < MaxAttempts
             /\ outbox[i].status = "failed" => outbox[i].tries = MaxAttempts

\* What a drain counts from was true of the row once, and one try ago when it
\* has sent it: stale counts are never too high.
LoadedCounts ==
  \A d \in Drains : \A i \in DOMAIN drain[d].loaded :
    /\ i \in DOMAIN outbox
    /\ drain[d].loaded[i] < MaxAttempts
    /\ drain[d].loaded[i] <= outbox[i].tries
    /\ drain[d].phase = "sent" => drain[d].loaded[i] + 1 <= outbox[i].tries

OutboxInv == OutboxTypes /\ OwedOnce /\ RowsAreCounted /\ LoadedCounts

----------------------------------------------------------------------------
LEMMA Limits == MaxAttempts \in Nat /\ MaxAttempts >= 1 /\ NumEvents \in Nat
  BY LimitsAssumption

LEMMA LoadsType == ASSUME NEW l \in Loads
                   PROVE  DOMAIN l \subseteq Nat /\ \A i \in DOMAIN l : l[i] \in Nat
  BY DEF Loads

LEMMA Nothings == NoEval \in Evaluation /\ NoDrain \in Draining /\ DOMAIN NoDrain.loaded = {}
<1>1. <<>> \in Loads /\ DOMAIN <<>> = {}
  <2>1. <<>> \in [{} -> Nat]
    OBVIOUS
  <2>2. QED BY <2>1 DEF Loads
<1>2. QED BY <1>1 DEF NoEval, NoDrain, Evaluation, Draining

LEMMA OutboxNumbered ==
  ASSUME OutboxTypes
  PROVE  /\ Len(outbox) \in Nat /\ DOMAIN outbox = 1..Len(outbox)
         /\ \A i \in DOMAIN outbox : outbox[i] \in OutboxRow
  BY DEF OutboxTypes

\* Rows that are replaced one by one are an outbox again.
LEMMA Rewritten ==
  ASSUME OutboxTypes, NEW rows, rows = [i \in DOMAIN outbox |-> rows[i]],
         \A i \in DOMAIN outbox : rows[i] \in OutboxRow
  PROVE  rows \in Seq(OutboxRow) /\ DOMAIN rows = DOMAIN outbox
<1>1. rows \in [1..Len(outbox) -> OutboxRow] /\ Len(outbox) \in Nat
  BY OutboxNumbered
<1>2. QED BY <1>1, OutboxNumbered

----------------------------------------------------------------------------
\* An order of a set of addressees names each once.
LEMMA Orders ==
  ASSUME NEW S \in SUBSET (Events \X Addressees), NEW order \in SetToSeqs(S)
  PROVE  /\ Cardinality(S) \in Nat /\ DOMAIN order = 1..Cardinality(S)
         /\ \A i \in DOMAIN order : order[i] \in S
         /\ \A i, j \in DOMAIN order : order[i] = order[j] => i = j
<1>1. IsFiniteSet(Events)
  BY FS_Interval, Limits DEF Events
<1>2. IsFiniteSet(Events \X Addressees)
  BY <1>1, AddresseesAssumption, FS_Product
<1>3. IsFiniteSet(S) /\ Cardinality(S) \in Nat
  BY <1>2, FS_Subset, FS_CardinalityType
<1>4. QED BY <1>3 DEF SetToSeqs

\* The rows an evaluation commits come behind the others, all pending.
LEMMA Appended ==
  ASSUME OutboxTypes, NEW S \in SUBSET (Events \X Addressees), NEW order \in SetToSeqs(S),
         outbox' = outbox \o [i \in DOMAIN order |-> PendingRow(order[i])]
  PROVE  /\ outbox' \in Seq(OutboxRow)
         /\ DOMAIN outbox' = 1..(Len(outbox) + Cardinality(S)) /\ Cardinality(S) \in Nat
         /\ \A i \in DOMAIN outbox : outbox'[i] = outbox[i]
         /\ \A i \in DOMAIN outbox' \ DOMAIN outbox :
              i - Len(outbox) \in DOMAIN order /\ outbox'[i] = PendingRow(order[i - Len(outbox)])
<1> DEFINE new == [i \in DOMAIN order |-> PendingRow(order[i])]
           n == Cardinality(S)
<1>1. n \in Nat /\ DOMAIN order = 1..n
  BY Orders
<1>2. \A i \in 1..n : PendingRow(order[i]) \in OutboxRow
  BY <1>1, Orders, Limits DEF PendingRow, OutboxRow
<1>3. new \in Seq(OutboxRow) /\ Len(new) = n /\ \A i \in 1..n : new[i] = PendingRow(order[i])
  BY <1>1, <1>2
<1> HIDE DEF new, n
<1>4. outbox' = outbox \o new /\ outbox \in Seq(OutboxRow) /\ Len(outbox) \in Nat
  BY DEF new, OutboxTypes
<1>5. /\ outbox' \in Seq(OutboxRow) /\ Len(outbox') = Len(outbox) + n
      /\ DOMAIN outbox' = 1..(Len(outbox) + n)
      /\ \A i \in 1..(Len(outbox) + n) :
           outbox'[i] = IF i <= Len(outbox) THEN outbox[i] ELSE new[i - Len(outbox)]
  BY <1>1, <1>3, <1>4
<1>6. \A i \in DOMAIN outbox : outbox'[i] = outbox[i]
  BY <1>1, <1>5, OutboxNumbered
<1>7. \A i \in DOMAIN outbox' \ DOMAIN outbox :
        i - Len(outbox) \in 1..n /\ outbox'[i] = new[i - Len(outbox)]
  BY <1>1, <1>4, <1>5, OutboxNumbered
<1>8. QED BY <1>1, <1>3, <1>5, <1>6, <1>7 DEF n

LEMMA CommitStep ==
  ASSUME OutboxInv, NEW w \in Evaluators, CommitEvaluation(w)
  PROVE  OutboxInv'
<1> USE DEF OutboxInv
<1> DEFINE S == eval[w].adds
<1>1. S \in SUBSET (Events \X Addressees)
  BY DEF OutboxTypes, Evaluation
<1>2. PICK order \in SetToSeqs(S) :
        outbox' = outbox \o [i \in DOMAIN order |-> PendingRow(order[i])]
  BY DEF CommitEvaluation
<1>3. /\ \A i \in DOMAIN order : order[i] \in S
      /\ \A i, j \in DOMAIN order : order[i] = order[j] => i = j
  BY <1>1, <1>2, Orders
<1>4. \A i \in DOMAIN outbox, s \in S : outbox[i].to # s
  BY DEF CommitEvaluation, Queued
<1> HIDE DEF S
<1>5. /\ outbox' \in Seq(OutboxRow) /\ DOMAIN outbox \subseteq DOMAIN outbox'
      /\ \A i \in DOMAIN outbox : outbox'[i] = outbox[i]
      /\ \A i \in DOMAIN outbox' \ DOMAIN outbox :
           i \in Int /\ i - Len(outbox) \in DOMAIN order
           /\ outbox'[i] = PendingRow(order[i - Len(outbox)])
  <2>1. /\ outbox' \in Seq(OutboxRow)
        /\ DOMAIN outbox' = 1..(Len(outbox) + Cardinality(S)) /\ Cardinality(S) \in Nat
        /\ \A i \in DOMAIN outbox : outbox'[i] = outbox[i]
        /\ \A i \in DOMAIN outbox' \ DOMAIN outbox :
             i - Len(outbox) \in DOMAIN order /\ outbox'[i] = PendingRow(order[i - Len(outbox)])
    BY <1>1, <1>2, Appended
  <2>2. DOMAIN outbox \subseteq DOMAIN outbox' /\ DOMAIN outbox' \subseteq Int
    BY <2>1, OutboxNumbered
  <2>3. QED BY <2>1, <2>2
<1>6. OutboxTypes'
  BY <1>5, Nothings DEF CommitEvaluation, OutboxTypes, eventVars
<1>7. OwedOnce'
  <2>1. ASSUME NEW i \in DOMAIN outbox', NEW j \in DOMAIN outbox', outbox'[i].to = outbox'[j].to
        PROVE  i = j
    <3>1. CASE i \in DOMAIN outbox /\ j \in DOMAIN outbox
      BY <1>5, <2>1, <3>1 DEF OwedOnce
    <3>2. CASE i \notin DOMAIN outbox /\ j \notin DOMAIN outbox
      <4>1. order[i - Len(outbox)] = order[j - Len(outbox)]
        BY <1>5, <2>1, <3>2 DEF PendingRow
      <4>2. i - Len(outbox) = j - Len(outbox)
        BY <1>3, <1>5, <3>2, <4>1
      <4>3. QED BY <1>5, <3>2, <4>2, OutboxNumbered
    <3>3. CASE i \in DOMAIN outbox /\ j \notin DOMAIN outbox
      BY <1>3, <1>4, <1>5, <2>1, <3>3 DEF PendingRow
    <3>4. CASE i \notin DOMAIN outbox /\ j \in DOMAIN outbox
      BY <1>3, <1>4, <1>5, <2>1, <3>4 DEF PendingRow
    <3>5. QED BY <3>1, <3>2, <3>3, <3>4
  <2>2. QED BY <2>1 DEF OwedOnce
<1>8. RowsAreCounted'
  <2>1. ASSUME NEW i \in DOMAIN outbox' \ DOMAIN outbox
        PROVE  outbox'[i].attempts = 0 /\ outbox'[i].tries = 0 /\ outbox'[i].status = "pending"
    BY <1>5 DEF PendingRow
  <2>2. QED BY <1>5, <2>1, Limits DEF RowsAreCounted
<1>9. LoadedCounts'
  BY <1>5 DEF LoadedCounts, CommitEvaluation
<1>10. QED BY <1>6, <1>7, <1>8, <1>9

----------------------------------------------------------------------------
LEMMA LoadStep ==
  ASSUME OutboxInv, NEW d \in Drains, Load(d)
  PROVE  OutboxInv'
<1> USE DEF OutboxInv
<1> DEFINE batch == Oldest(Pending, DrainLimit)
           loaded == [i \in batch |-> outbox[i].attempts]
<1>1. drain' = [drain EXCEPT ![d] = [phase |-> "sending", loaded |-> loaded]]
      /\ UNCHANGED <<recorded, outbox, eval>>
  BY DEF Load, eventVars
<1>2. \A i \in batch : i \in DOMAIN outbox /\ outbox[i].status = "pending"
  BY DEF Oldest, Pending
<1> HIDE DEF batch
<1>3. \A i \in batch : /\ i \in Nat /\ loaded[i] \in Nat
                       /\ loaded[i] < MaxAttempts /\ loaded[i] <= outbox[i].tries
  BY <1>2, OutboxNumbered DEF RowsAreCounted, OutboxRow
<1>4. loaded \in [batch -> Nat] /\ batch \in SUBSET Nat
  BY <1>3
<1>5. loaded \in Loads
  BY <1>4 DEF Loads
<1> HIDE DEF loaded
<1>6. OutboxTypes'
  BY <1>1, <1>5 DEF OutboxTypes, Draining
<1>7. LoadedCounts'
  <2>1. ASSUME NEW c \in Drains, NEW i \in DOMAIN drain'[c].loaded
        PROVE  /\ i \in DOMAIN outbox
               /\ drain'[c].loaded[i] < MaxAttempts
               /\ drain'[c].loaded[i] <= outbox[i].tries
               /\ drain'[c].phase = "sent" => drain'[c].loaded[i] + 1 <= outbox[i].tries
    <3>1. CASE c = d
      <4>1. drain'[c].loaded = loaded /\ drain'[c].phase = "sending"
        BY <1>1, <3>1 DEF OutboxTypes
      <4>2. i \in batch
        BY <2>1, <4>1 DEF loaded
      <4>3. QED BY <1>2, <1>3, <4>1, <4>2
    <3>2. CASE c # d
      BY <1>1, <2>1, <3>2 DEF OutboxTypes, LoadedCounts
    <3>3. QED BY <3>1, <3>2
  <2>2. QED BY <1>1, <2>1 DEF LoadedCounts
<1>8. QED BY <1>1, <1>6, <1>7 DEF OwedOnce, RowsAreCounted

LEMMA SendStep ==
  ASSUME OutboxInv, NEW d \in Drains, Send(d)
  PROVE  OutboxInv'
<1> USE DEF OutboxInv
<1>1. /\ drain' = [drain EXCEPT ![d].phase = "sent"]
      /\ UNCHANGED <<recorded, eval>>
      /\ DOMAIN outbox' = DOMAIN outbox
      /\ \A i \in DOMAIN outbox :
           outbox'[i] = IF i \in DOMAIN drain[d].loaded /\ outbox[i].tries < MaxAttempts
                        THEN [outbox[i] EXCEPT !.tries = @ + 1] ELSE outbox[i]
      /\ outbox' = [i \in DOMAIN outbox |-> outbox'[i]]
  BY DEF Send, eventVars
<1>2. ASSUME NEW i \in DOMAIN outbox
      PROVE  /\ outbox'[i] \in OutboxRow
             /\ outbox'[i].to = outbox[i].to /\ outbox'[i].status = outbox[i].status
             /\ outbox'[i].attempts = outbox[i].attempts
             /\ outbox[i].tries <= outbox'[i].tries /\ outbox'[i].tries <= MaxAttempts
             /\ i \in DOMAIN drain[d].loaded /\ outbox[i].tries < MaxAttempts
                  => outbox'[i].tries = outbox[i].tries + 1
             /\ outbox[i].tries \in 0..MaxAttempts /\ outbox'[i].tries \in 0..MaxAttempts
             /\ outbox[i].attempts \in 0..MaxAttempts
  <2>1. outbox[i] \in OutboxRow
    BY OutboxNumbered
  <2>2. CASE i \in DOMAIN drain[d].loaded /\ outbox[i].tries < MaxAttempts
    BY <1>1, <2>1, <2>2, Limits DEF OutboxRow
  <2>3. CASE ~(i \in DOMAIN drain[d].loaded /\ outbox[i].tries < MaxAttempts)
    BY <1>1, <2>1, <2>3, Limits DEF OutboxRow
  <2>4. QED BY <2>2, <2>3
<1>3. outbox' \in Seq(OutboxRow)
  BY <1>1, <1>2, Rewritten
<1>4. drain' \in [Drains -> Draining]
  BY <1>1 DEF OutboxTypes, Draining
<1>5. OutboxTypes' /\ OwedOnce' /\ RowsAreCounted'
  BY <1>1, <1>2, <1>3, <1>4, Limits DEF OutboxTypes, OwedOnce, RowsAreCounted
<1>6. LoadedCounts'
  <2>1. ASSUME NEW c \in Drains, NEW i \in DOMAIN drain'[c].loaded
        PROVE  /\ i \in DOMAIN outbox
               /\ drain'[c].loaded[i] < MaxAttempts
               /\ drain'[c].loaded[i] <= outbox'[i].tries
               /\ drain'[c].phase = "sent" => drain'[c].loaded[i] + 1 <= outbox'[i].tries
    <3>1. /\ drain'[c].loaded = drain[c].loaded
          /\ drain'[c].phase = IF c = d THEN "sent" ELSE drain[c].phase
      BY <1>1 DEF OutboxTypes, Draining
    <3>2. /\ i \in DOMAIN outbox /\ drain[c].loaded[i] < MaxAttempts
          /\ drain[c].loaded[i] <= outbox[i].tries
          /\ drain[c].phase = "sent" => drain[c].loaded[i] + 1 <= outbox[i].tries
      BY <2>1, <3>1 DEF LoadedCounts
    <3>3. drain[c].loaded[i] \in Nat
      BY <2>1, <3>1, LoadsType DEF OutboxTypes, Draining
    <3>4. CASE c = d
      BY <1>2, <2>1, <3>1, <3>2, <3>3, <3>4, Limits
    <3>5. CASE c # d
      BY <1>2, <3>1, <3>2, <3>3, <3>5, Limits
    <3>6. QED BY <3>4, <3>5
  <2>2. QED BY <1>1, <2>1 DEF LoadedCounts
<1>7. QED BY <1>5, <1>6

LEMMA CommitDrainStep ==
  ASSUME OutboxInv, NEW d \in Drains, CommitDrain(d)
  PROVE  OutboxInv'
<1> USE DEF OutboxInv
<1> DEFINE loaded == drain[d].loaded
<1>1. PICK sent \in SUBSET DOMAIN loaded :
        outbox' = [i \in DOMAIN outbox |->
                     IF i \notin DOMAIN loaded THEN outbox[i]
                     ELSE IF i \in sent THEN Delivered(outbox[i])
                     ELSE Failed(outbox[i], loaded[i])]
  BY DEF CommitDrain
<1>2. \A i \in DOMAIN loaded : /\ loaded[i] \in Nat /\ loaded[i] < MaxAttempts
                               /\ loaded[i] + 1 <= outbox[i].tries
  BY LoadsType DEF CommitDrain, LoadedCounts, OutboxTypes, Draining
<1> HIDE DEF loaded
<1>3. ASSUME NEW i \in DOMAIN outbox
      PROVE  /\ outbox'[i] \in OutboxRow
             /\ outbox'[i].to = outbox[i].to /\ outbox'[i].tries = outbox[i].tries
             /\ outbox'[i].attempts <= outbox'[i].tries
             /\ outbox'[i].status = "pending" => outbox'[i].attempts < MaxAttempts
             /\ outbox'[i].status = "failed" => outbox'[i].tries = MaxAttempts
  <2>1. /\ outbox[i] \in OutboxRow
        /\ outbox[i].attempts <= outbox[i].tries
        /\ outbox[i].status = "pending" => outbox[i].attempts < MaxAttempts
        /\ outbox[i].status = "failed" => outbox[i].tries = MaxAttempts
    BY OutboxNumbered DEF RowsAreCounted
  <2>2. CASE i \notin DOMAIN loaded
    BY <1>1, <2>1, <2>2
  <2>3. CASE i \in DOMAIN loaded /\ i \in sent
    BY <1>1, <2>1, <2>3 DEF Delivered, OutboxRow
  <2>4. CASE i \in DOMAIN loaded /\ i \notin sent
    <3>1. outbox'[i] = Failed(outbox[i], loaded[i])
      BY <1>1, <2>4
    <3>2. loaded[i] + 1 \in 0..MaxAttempts /\ loaded[i] + 1 <= outbox[i].tries
      BY <1>2, <2>4, Limits
    <3>3. Failed(outbox[i], loaded[i]) \in OutboxRow
      BY <2>1, <3>2 DEF Failed, OutboxRow
    <3>4. QED BY <2>1, <3>1, <3>2, <3>3, Limits DEF Failed, OutboxRow
  <2>5. QED BY <2>2, <2>3, <2>4
<1>4. DOMAIN outbox' = DOMAIN outbox /\ outbox' = [i \in DOMAIN outbox |-> outbox'[i]]
  BY <1>1
<1>5. outbox' \in Seq(OutboxRow)
  BY <1>3, <1>4, Rewritten
<1>6. drain' = [drain EXCEPT ![d] = NoDrain] /\ UNCHANGED <<recorded, eval>>
  BY DEF CommitDrain, eventVars
<1>7. OutboxTypes' /\ OwedOnce' /\ RowsAreCounted'
  BY <1>3, <1>4, <1>5, <1>6, Nothings DEF OutboxTypes, OwedOnce, RowsAreCounted
<1>8. LoadedCounts'
  BY <1>3, <1>4, <1>6, Nothings DEF LoadedCounts, OutboxTypes
<1>9. QED BY <1>7, <1>8

----------------------------------------------------------------------------
LEMMA InitOutboxInv == AlertInit => OutboxInv
<1> SUFFICES ASSUME AlertInit PROVE OutboxInv
  OBVIOUS
<1>1. outbox = <<>> /\ DOMAIN outbox = {} /\ outbox \in Seq(OutboxRow)
  BY DEF AlertInit
<1>2. OutboxTypes
  BY <1>1, Nothings, Limits DEF AlertInit, OutboxTypes
<1>3. QED BY <1>1, <1>2, Nothings DEF AlertInit, OutboxInv, OwedOnce, RowsAreCounted, LoadedCounts

LEMMA StepOutboxInv == OutboxInv /\ [AlertNext]_alertVars => OutboxInv'
<1> SUFFICES ASSUME OutboxInv, [AlertNext]_alertVars PROVE OutboxInv'
  OBVIOUS
<1>1. ASSUME UNCHANGED <<outbox, drain>>, OutboxTypes' PROVE OutboxInv'
  BY <1>1 DEF OutboxInv, OwedOnce, RowsAreCounted, LoadedCounts
<1>2. CASE RecordEvent \/ BecomeRelevant
  <2>1. recorded' \in 0..NumEvents /\ UNCHANGED <<outbox, eval, drain>>
    BY <1>2, Limits DEF RecordEvent, BecomeRelevant, OutboxInv, OutboxTypes
  <2>2. QED BY <1>1, <2>1 DEF OutboxInv, OutboxTypes
<1>3. CASE HourPasses
  <2>1. eval' \in [Evaluators -> Evaluation]
    BY <1>3 DEF HourPasses, OutboxInv, OutboxTypes, Evaluation
  <2>2. QED BY <1>1, <1>3, <2>1 DEF HourPasses, OutboxInv, OutboxTypes
<1>4. ASSUME NEW w \in Evaluators, Evaluate(w) PROVE OutboxInv'
  <2>1. Matched \in SUBSET Events
    BY Limits DEF Matched, Considered, Recent, Events, OutboxInv, OutboxTypes
  <2>2. eval' \in [Evaluators -> Evaluation]
    <3>1. [phase |-> "matched", adds |-> {}, current |-> TRUE, seen |-> Matched] \in Evaluation
      BY <2>1 DEF Evaluation
    <3>2. QED BY <1>4, <3>1 DEF Evaluate, OutboxInv, OutboxTypes
  <2>3. QED BY <1>1, <1>4, <2>2 DEF Evaluate, eventVars, OutboxInv, OutboxTypes
<1>5. ASSUME NEW w \in Evaluators, Enqueue(w) PROVE OutboxInv'
  <2>1. (eval[w].seen \X Addressees) \ Queued \in SUBSET (Events \X Addressees)
    BY DEF OutboxInv, OutboxTypes, Evaluation
  <2>2. eval' \in [Evaluators -> Evaluation]
    <3>1. [eval[w] EXCEPT !.phase = "enqueued", !.seen = {},
                          !.adds = (eval[w].seen \X Addressees) \ Queued] \in Evaluation
      BY <2>1 DEF OutboxInv, OutboxTypes, Evaluation
    <3>2. eval' = [eval EXCEPT ![w] = [eval[w] EXCEPT !.phase = "enqueued", !.seen = {},
                                         !.adds = (eval[w].seen \X Addressees) \ Queued]]
      BY <1>5 DEF Enqueue, OutboxInv, OutboxTypes
    <3>3. QED BY <3>1, <3>2 DEF OutboxInv, OutboxTypes
  <2>3. QED BY <1>1, <1>5, <2>2 DEF Enqueue, eventVars, OutboxInv, OutboxTypes
<1>6. ASSUME NEW w \in Evaluators, LoseEvaluation(w) PROVE OutboxInv'
  BY <1>1, <1>6, Nothings DEF LoseEvaluation, eventVars, OutboxInv, OutboxTypes
<1>7. ASSUME NEW d \in Drains, LoseDrain(d) PROVE OutboxInv'
  BY <1>7, Nothings
  DEF LoseDrain, eventVars, OutboxInv, OutboxTypes, OwedOnce, RowsAreCounted, LoadedCounts
<1>8. CASE UNCHANGED alertVars
  BY <1>1, <1>8 DEF alertVars, eventVars, OutboxInv, OutboxTypes
<1>9. QED
  BY <1>2, <1>3, <1>4, <1>5, <1>6, <1>7, <1>8, CommitStep, LoadStep, SendStep, CommitDrainStep
  DEF AlertNext, DrainStep

LEMMA OutboxInvariance == AlertSpec => []OutboxInv
  BY InitOutboxInv, StepOutboxInv, PTL DEF AlertSpec

----------------------------------------------------------------------------
\* Events come in order of age, at most Burst of each, and none is known before
\* it is recorded.
Aged(k) == {e \in 1..recorded : shown[e] = k}

EventOrder ==
  /\ shown \in [Events -> 0..Window]
  /\ relevant \in [Events -> {"no", "yes", "late"}]
  /\ \A e \in Events : e > recorded => shown[e] = 0
  /\ \A e, f \in 1..recorded : e < f => shown[f] <= shown[e]
  /\ \A k \in 0..(Window - 1) : Cardinality(Aged(k)) <= Burst

\* The alerts that are due in the last evaluation of their events.
Leaving == {e \in 1..recorded : shown[e] = Window - 1 /\ relevant[e] = "yes"} \X Addressees

\* An evaluation of this period has them in hand, wherever it stands.
LeavingAreSeen ==
  /\ evaluated => Leaving \subseteq Queued
  /\ \A w \in Evaluators : eval[w].current =>
       /\ eval[w].phase = "matched" => Leaving \subseteq eval[w].seen \X Addressees
       /\ eval[w].phase = "enqueued" => Leaving \subseteq eval[w].adds \cup Queued

MissInv == OutboxInv /\ EventOrder /\ LeavingAreSeen /\ NoneMissed

LEMMA AgedFinite ==
  ASSUME OutboxTypes, NEW k
  PROVE  /\ 1..recorded \subseteq Events /\ IsFiniteSet(Aged(k)) /\ Cardinality(Aged(k)) \in Nat
         /\ \A S \in SUBSET Aged(k) : IsFiniteSet(S) /\ Cardinality(S) \in Nat
                                      /\ Cardinality(S) <= Cardinality(Aged(k))
<1>1. recorded \in Nat /\ recorded <= NumEvents
  BY Limits DEF OutboxTypes
<1>2. IsFiniteSet(1..recorded) /\ Aged(k) \subseteq 1..recorded
  BY <1>1, FS_Interval DEF Aged
<1>3. IsFiniteSet(Aged(k))
  BY <1>2, FS_Subset
<1>4. Cardinality(Aged(k)) \in Nat
  BY <1>3, FS_CardinalityType
<1>5. ASSUME NEW S \in SUBSET Aged(k)
      PROVE  IsFiniteSet(S) /\ Cardinality(S) \in Nat /\ Cardinality(S) <= Cardinality(Aged(k))
  <2>1. IsFiniteSet(S) /\ Cardinality(S) <= Cardinality(Aged(k))
    BY <1>3, FS_Subset
  <2>2. QED BY <2>1, FS_CardinalityType
<1>6. 1..recorded \subseteq Events
  BY <1>1, Limits DEF Events
<1>7. QED BY <1>3, <1>4, <1>5, <1>6

\* The oldest events fit into what an evaluation looks at.
LEMMA LeavingAreMatched ==
  ASSUME OutboxTypes, EventOrder PROVE Leaving \subseteq Matched \X Addressees
<1>1. ASSUME NEW e \in 1..recorded, shown[e] = Window - 1, relevant[e] = "yes" PROVE e \in Matched
  <2> DEFINE k == Window - 1
             before == {f \in Recent : f < e}
  <2>1. k \in 0..(Window - 1) /\ Window \in Nat /\ EventLimit \in Nat /\ Burst \in Nat
        /\ Burst <= EventLimit /\ recorded \in Nat /\ 1..recorded \subseteq Events
    BY LimitsAssumption, WindowAssumption, AgedFinite DEF OutboxTypes
  <2>2. before \subseteq Aged(k) \ {e} /\ e \in Aged(k)
    BY <1>1, <2>1 DEF Recent, Aged, EventOrder
  <2> HIDE DEF before, k
  <2>3. IsFiniteSet(Aged(k)) /\ Cardinality(Aged(k)) <= Burst /\ Cardinality(Aged(k)) \in Nat
    BY <2>1, AgedFinite DEF EventOrder
  <2>4. Cardinality(Aged(k) \ {e}) = Cardinality(Aged(k)) - 1 /\ IsFiniteSet(Aged(k) \ {e})
    BY <2>2, <2>3, FS_RemoveElement
  <2>5. Cardinality(before) <= Cardinality(Aged(k) \ {e}) /\ Cardinality(before) \in Nat
    BY <2>2, <2>4, FS_Subset, FS_CardinalityType
  <2>6. Cardinality(before) < EventLimit
    BY <2>1, <2>3, <2>4, <2>5
  <2>7. e \in Recent
    BY <1>1, <2>1 DEF Recent
  <2>8. QED BY <1>1, <2>6, <2>7 DEF Matched, Considered, before
<1>2. QED BY <1>1 DEF Leaving

\* What is queued stays queued; what a commit adds is queued.
LEMMA QueuedGrows ==
  ASSUME OutboxInv, AlertNext
  PROVE  /\ Queued \subseteq Queued'
         /\ \A w \in Evaluators : CommitEvaluation(w) => eval[w].adds \subseteq Queued'
<1> USE DEF OutboxInv
<1>1. ASSUME NEW w \in Evaluators, CommitEvaluation(w)
      PROVE  Queued \subseteq Queued' /\ eval[w].adds \subseteq Queued'
  <2> DEFINE S == eval[w].adds
  <2>1. S \in SUBSET (Events \X Addressees)
    BY DEF OutboxTypes, Evaluation
  <2>2. PICK order \in SetToSeqs(S) :
          outbox' = outbox \o [i \in DOMAIN order |-> PendingRow(order[i])]
    BY <1>1 DEF CommitEvaluation
  <2>3. /\ Cardinality(S) \in Nat /\ DOMAIN order = 1..Cardinality(S)
        /\ \A i \in DOMAIN order : order[i] \in S
        /\ \A i, j \in DOMAIN order : order[i] = order[j] => i = j
    BY <2>1, <2>2, Orders
  <2>4. /\ DOMAIN outbox' = 1..(Len(outbox) + Cardinality(S))
        /\ \A i \in DOMAIN outbox : outbox'[i] = outbox[i]
        /\ \A i \in DOMAIN outbox' \ DOMAIN outbox : outbox'[i] = PendingRow(order[i - Len(outbox)])
    BY <2>1, <2>2, Appended
  <2>5. DOMAIN outbox = 1..Len(outbox) /\ Len(outbox) \in Nat
    BY OutboxNumbered
  <2>6. ASSUME NEW s \in S PROVE \E j \in DOMAIN order : order[j] = s
    <3>1. IsFiniteSet(S)
      <4>1. IsFiniteSet(Events)
        BY FS_Interval, Limits DEF Events
      <4>2. IsFiniteSet(Events \X Addressees)
        BY <4>1, AddresseesAssumption, FS_Product
      <4>3. QED BY <2>1, <4>2, FS_Subset
    <3>2. /\ IsFiniteSet(1..Cardinality(S))
          /\ Cardinality(1..Cardinality(S)) = Cardinality(S)
      BY <2>3, FS_Interval
    <3>3. order \in [1..Cardinality(S) -> S]
      BY <2>2 DEF SetToSeqs
    <3>4. order \in Injection(1..Cardinality(S), S)
      <4>1. \A a, b \in 1..Cardinality(S) : order[a] = order[b] => a = b
        BY <2>3
      <4>2. QED BY <3>3, <4>1 DEF Injection, IsInjective
    <3>5. order \in Surjection(1..Cardinality(S), S)
      BY <3>1, <3>2, <3>4, FS_Injection
    <3>6. QED BY <2>3, <3>5 DEF Surjection
  <2> HIDE DEF S
  <2>7. ASSUME NEW s \in S PROVE \E i \in DOMAIN outbox' : outbox'[i].to = s
    <3>1. PICK j \in DOMAIN order : order[j] = s
      BY <2>6
    <3>2. /\ j + Len(outbox) \in DOMAIN outbox' \ DOMAIN outbox
          /\ (j + Len(outbox)) - Len(outbox) = j
      BY <2>3, <2>4, <2>5, <3>1
    <3>3. outbox'[j + Len(outbox)] = PendingRow(s)
      BY <2>4, <3>1, <3>2
    <3>4. QED BY <3>2, <3>3 DEF PendingRow
  <2>8. S \subseteq Queued'
    BY <2>7 DEF Queued
  <2>9. Queued \subseteq Queued'
    <3>1. DOMAIN outbox \subseteq DOMAIN outbox'
      BY <2>3, <2>4, <2>5
    <3>2. QED BY <2>4, <3>1 DEF Queued
  <2>10. QED BY <2>8, <2>9 DEF S
<1>2. ASSUME NEW d \in Drains, Send(d) \/ CommitDrain(d) PROVE Queued' = Queued
  <2>1. DOMAIN outbox' = DOMAIN outbox
    BY <1>2 DEF Send, CommitDrain
  <2>2. \A i \in DOMAIN outbox : outbox[i] \in OutboxRow
    BY OutboxNumbered
  <2>3. \A i \in DOMAIN outbox : outbox'[i].to = outbox[i].to
    <3>1. CASE Send(d)
      BY <2>2, <3>1 DEF Send, OutboxRow
    <3>2. CASE CommitDrain(d)
      <4>1. \A r \in OutboxRow : Delivered(r).to = r.to /\ \A n : Failed(r, n).to = r.to
        BY DEF Delivered, Failed, OutboxRow
      <4>2. PICK sent \in SUBSET DOMAIN drain[d].loaded :
              outbox' = [i \in DOMAIN outbox |->
                           IF i \notin DOMAIN drain[d].loaded THEN outbox[i]
                           ELSE IF i \in sent THEN Delivered(outbox[i])
                           ELSE Failed(outbox[i], drain[d].loaded[i])]
        BY <3>2 DEF CommitDrain
      <4>3. QED BY <2>2, <4>1, <4>2
    <3>3. QED BY <1>2, <3>1, <3>2
  <2>4. QED BY <2>1, <2>3 DEF Queued
<1>3. CASE outbox' = outbox
  BY <1>1, <1>3 DEF Queued
<1>4. QED
  BY <1>1, <1>2, <1>3
  DEF AlertNext, DrainStep, RecordEvent, BecomeRelevant, HourPasses, Evaluate, Enqueue,
      LoseEvaluation, Load, LoseDrain

LEMMA OrderStep ==
  ASSUME OutboxTypes, EventOrder, [AlertNext]_alertVars
  PROVE  EventOrder'
<1> USE DEF EventOrder
<1>1. recorded \in Nat /\ recorded <= NumEvents /\ Window \in Nat /\ Window > 1 /\ Burst \in Nat
      /\ NumEvents \in Nat
  BY LimitsAssumption, WindowAssumption DEF OutboxTypes
<1>2. CASE UNCHANGED eventVars
  BY <1>2 DEF eventVars, Aged
<1>3. CASE RecordEvent
  <2>1. /\ recorded' = recorded + 1 /\ shown' = shown /\ recorded + 1 \in Events
        /\ shown[recorded + 1] = 0
    BY <1>1, <1>3 DEF RecordEvent, Events
  <2>2. relevant' \in [Events -> {"no", "yes", "late"}]
    BY <1>3 DEF RecordEvent
  <2>3. ASSUME NEW e \in 1..(recorded + 1), NEW f \in 1..(recorded + 1), e < f
        PROVE  shown[f] <= shown[e]
    <3>1. e \in Events /\ shown[e] \in 0..Window /\ e \in 1..recorded
      BY <1>1, <2>1, <2>3 DEF Events
    <3>2. CASE f = recorded + 1
      BY <1>1, <2>1, <3>1, <3>2
    <3>3. CASE f # recorded + 1
      BY <1>1, <2>3, <3>1, <3>3
    <3>4. QED BY <3>2, <3>3
  <2>4. ASSUME NEW k \in 0..(Window - 1) PROVE Cardinality(Aged(k)') <= Burst
    <3>1. CASE k = 0
      <4>1. Aged(0)' = Aged(0) \cup {recorded + 1}
        BY <1>1, <2>1 DEF Aged
      <4>2. Cardinality(Aged(0)) < Burst
        BY <1>3 DEF RecordEvent, Aged
      <4>3. IsFiniteSet(Aged(0)) /\ Cardinality(Aged(0)) \in Nat
        BY AgedFinite
      <4>4. Cardinality(Aged(0) \cup {recorded + 1}) =
              IF recorded + 1 \in Aged(0) THEN Cardinality(Aged(0)) ELSE Cardinality(Aged(0)) + 1
        BY <4>3, FS_AddElement
      <4>5. Cardinality(Aged(0) \cup {recorded + 1}) <= Burst
        BY <1>1, <4>2, <4>3, <4>4
      <4>6. Cardinality(Aged(0)') <= Burst
        BY <4>1, <4>5
      <4>7. QED BY <3>1, <4>6
    <3>2. CASE k # 0
      <4>1. Aged(k)' = Aged(k)
        BY <1>1, <2>1, <3>2 DEF Aged
      <4>2. QED BY <4>1
    <3>3. QED BY <3>1, <3>2
  <2>5. \A e \in Events : e > recorded' => shown'[e] = 0
    BY <1>1, <2>1 DEF Events
  <2>6. shown' \in [Events -> 0..Window]
    BY <2>1
  <2>7. \A e, f \in 1..recorded' : e < f => shown'[f] <= shown'[e]
    BY <2>1, <2>3
  <2>8. QED BY <2>2, <2>4, <2>5, <2>6, <2>7
<1>4. CASE BecomeRelevant
  BY <1>4 DEF BecomeRelevant, Aged
<1>5. CASE HourPasses
  <2>1. /\ UNCHANGED <<recorded, relevant>>
        /\ shown' = [e \in Events |-> IF e <= recorded /\ shown[e] < Window THEN shown[e] + 1
                                      ELSE shown[e]]
    BY <1>5 DEF HourPasses
  <2>2. shown' \in [Events -> 0..Window] /\ \A e \in Events : e > recorded => shown'[e] = 0
    BY <1>1, <2>1 DEF Events
  <2>3. ASSUME NEW e \in 1..recorded
        PROVE  e \in Events /\ shown[e] \in 0..Window
               /\ shown'[e] = IF shown[e] < Window THEN shown[e] + 1 ELSE shown[e]
    BY <1>1, <2>1 DEF Events
  <2>4. \A e, f \in 1..recorded : e < f => shown'[f] <= shown'[e]
    BY <1>1, <2>3
  <2>5. ASSUME NEW k \in 0..(Window - 1) PROVE Cardinality(Aged(k)') <= Burst
    <3>1. CASE k = 0
      <4>1. Aged(k)' = {}
        BY <1>1, <2>1, <2>3, <3>1 DEF Aged
      <4>2. QED BY <1>1, <4>1, FS_EmptySet
    <3>2. CASE k # 0
      <4>1. Aged(k)' = Aged(k - 1)
        BY <1>1, <2>1, <2>3, <2>5, <3>2 DEF Aged
      <4>2. k - 1 \in 0..(Window - 1)
        BY <1>1, <2>5, <3>2
      <4>3. QED BY <4>1, <4>2
    <3>3. QED BY <3>1, <3>2
  <2>6. QED BY <2>1, <2>2, <2>4, <2>5
<1>6. QED
  BY <1>2, <1>3, <1>4, <1>5
  DEF AlertNext, alertVars, DrainStep, Evaluate, Enqueue, CommitEvaluation, LoseEvaluation,
      Load, Send, CommitDrain, LoseDrain

\* The alerts of the last evaluation of their events change with the hour only.
LEMMA LeavingSame ==
  ASSUME OutboxTypes, EventOrder, AlertNext, ~HourPasses
  PROVE  Leaving' = Leaving
         /\ \A e \in 1..recorded' : shown'[e] = Window /\ relevant'[e] = "yes" =>
              e \in 1..recorded /\ shown[e] = Window /\ relevant[e] = "yes"
<1> USE DEF EventOrder
<1>1. recorded \in Nat /\ recorded <= NumEvents /\ Window \in Nat /\ Window > 1 /\ NumEvents \in Nat
  BY LimitsAssumption, WindowAssumption DEF OutboxTypes
<1>2. CASE RecordEvent
  <2>1. /\ recorded' = recorded + 1 /\ shown' = shown /\ recorded + 1 \in Events
        /\ shown[recorded + 1] = 0
        /\ \A e \in 1..recorded : relevant'[e] = relevant[e]
    BY <1>1, <1>2 DEF RecordEvent, Events
  <2>2. \A e \in 1..(recorded + 1) : e \in 1..recorded \/ e = recorded + 1
    BY <1>1
  <2>3. 1..recorded \subseteq 1..(recorded + 1)
    BY <1>1
  <2>4. {e \in 1..(recorded + 1) : shown[e] = Window - 1 /\ relevant'[e] = "yes"}
          = {e \in 1..recorded : shown[e] = Window - 1 /\ relevant[e] = "yes"}
    BY <1>1, <2>1, <2>2, <2>3
  <2>5. QED BY <1>1, <2>1, <2>2, <2>4 DEF Leaving
<1>3. CASE BecomeRelevant
  <2>1. /\ UNCHANGED <<recorded, shown>>
        /\ \A e \in Events : relevant'[e] = "yes" <=> relevant[e] = "yes"
    BY <1>1, <1>3 DEF BecomeRelevant, Events
  <2>2. 1..recorded \subseteq Events
    BY <1>1 DEF Events
  <2>3. {e \in 1..recorded : shown[e] = Window - 1 /\ relevant'[e] = "yes"}
          = {e \in 1..recorded : shown[e] = Window - 1 /\ relevant[e] = "yes"}
    BY <2>1, <2>2
  <2>4. QED BY <2>1, <2>2, <2>3 DEF Leaving
<1>4. CASE UNCHANGED eventVars
  BY <1>4 DEF eventVars, Leaving
<1>5. QED
  BY <1>2, <1>3, <1>4
  DEF AlertNext, DrainStep, Evaluate, Enqueue, CommitEvaluation, LoseEvaluation,
      Load, Send, CommitDrain, LoseDrain

LEMMA SeenStep ==
  ASSUME OutboxInv, EventOrder, LeavingAreSeen, AlertNext
  PROVE  LeavingAreSeen'
<1> USE DEF LeavingAreSeen
<1>0. OutboxTypes /\ Queued \subseteq Queued'
  BY QueuedGrows DEF OutboxInv
<1>1. CASE HourPasses
  BY <1>0, <1>1 DEF HourPasses, OutboxTypes, Evaluation
<1>2. ASSUME NEW w \in Evaluators, Evaluate(w), ~HourPasses PROVE LeavingAreSeen'
  <2>1. Leaving' = Leaving /\ Leaving \subseteq Matched \X Addressees /\ Queued' = Queued
    BY <1>0, <1>2, LeavingSame, LeavingAreMatched DEF Evaluate, Queued
  <2>2. Unqueued = {} => Leaving \subseteq Queued
    BY <2>1 DEF Unqueued
  <2>3. QED BY <1>0, <1>2, <2>1, <2>2 DEF Evaluate, OutboxTypes
<1>3. ASSUME NEW w \in Evaluators, Enqueue(w), ~HourPasses PROVE LeavingAreSeen'
  <2>1. Leaving' = Leaving /\ Queued' = Queued
    BY <1>0, <1>3, LeavingSame DEF Enqueue, Queued
  <2>2. QED BY <1>0, <1>3, <2>1 DEF Enqueue, OutboxTypes, Evaluation
<1>4. ASSUME NEW w \in Evaluators, CommitEvaluation(w), ~HourPasses PROVE LeavingAreSeen'
  <2>1. Leaving' = Leaving /\ eval[w].adds \cup Queued \subseteq Queued'
    BY <1>0, <1>4, LeavingSame, QueuedGrows
  <2>2. evaluated' => Leaving \subseteq Queued'
    BY <1>4, <2>1 DEF CommitEvaluation
  <2>3. eval' = [eval EXCEPT ![w] = NoEval]
    BY <1>4 DEF CommitEvaluation
  <2>4. \A v \in Evaluators : eval'[v] = IF v = w THEN NoEval ELSE eval[v]
    BY <1>0, <2>3 DEF OutboxTypes
  <2>5. QED BY <2>1, <2>2, <2>4 DEF NoEval
<1>5. ASSUME NEW w \in Evaluators, LoseEvaluation(w), ~HourPasses PROVE LeavingAreSeen'
  <2>1. Leaving' = Leaving /\ Queued' = Queued
    BY <1>0, <1>5, LeavingSame DEF LoseEvaluation, Queued
  <2>2. QED BY <1>0, <1>5, <2>1 DEF LoseEvaluation, OutboxTypes, NoEval
<1>6. ASSUME UNCHANGED <<evaluated, eval>>, ~HourPasses PROVE LeavingAreSeen'
  <2>1. Leaving' = Leaving
    BY <1>0, <1>6, LeavingSame
  <2>2. QED BY <1>0, <1>6, <2>1
<1>7. QED
  BY <1>1, <1>2, <1>3, <1>4, <1>5, <1>6
  DEF AlertNext, DrainStep, RecordEvent, BecomeRelevant, Load, Send, CommitDrain, LoseDrain

LEMMA MissedStep ==
  ASSUME OutboxInv, EventOrder, LeavingAreSeen, NoneMissed, AlertNext
  PROVE  NoneMissed'
<1>1. Queued \subseteq Queued' /\ OutboxTypes
  BY QueuedGrows DEF OutboxInv
<1>2. CASE HourPasses
  <2>1. ASSUME NEW e \in 1..recorded, shown'[e] = Window, relevant[e] = "yes"
        PROVE  {e} \X Addressees \subseteq Queued
    <3>1. shown[e] \in {Window - 1, Window} /\ evaluated
      BY <1>1, <1>2, <2>1, LimitsAssumption
      DEF HourPasses, EventOrder, OutboxTypes, Events
    <3>2. CASE shown[e] = Window
      BY <2>1, <3>2 DEF NoneMissed
    <3>3. CASE shown[e] = Window - 1
      BY <2>1, <3>1, <3>3 DEF LeavingAreSeen, Leaving
    <3>4. QED BY <3>1, <3>2, <3>3
  <2>2. QED BY <1>1, <1>2, <2>1 DEF NoneMissed, HourPasses
<1>3. CASE ~HourPasses
  BY <1>1, <1>3, LeavingSame DEF NoneMissed
<1>4. QED BY <1>2, <1>3

LEMMA MissInvariance == AlertSpec => []MissInv
<1>1. AlertInit => MissInv
  <2>1. ASSUME AlertInit PROVE EventOrder
    <3>1. recorded = 0 /\ Window \in Nat /\ Burst \in Nat
      BY <2>1, LimitsAssumption DEF AlertInit
    <3>2. \A k : Aged(k) = {}
      BY <3>1 DEF Aged
    <3>3. Cardinality({}) = 0 /\ 0 \in 0..Window
      BY <3>1, FS_EmptySet
    <3>4. \A e, f \in 1..recorded : e < f => shown[f] <= shown[e]
      BY <3>1
    <3>5. shown \in [Events -> 0..Window] /\ \A e \in Events : shown[e] = 0
      BY <2>1, <3>3 DEF AlertInit
    <3>6. relevant \in [Events -> {"no", "yes", "late"}]
      BY <2>1 DEF AlertInit
    <3>7. \A k \in 0..(Window - 1) : Cardinality(Aged(k)) <= Burst
      BY <3>1, <3>2, <3>3
    <3>8. QED BY <3>4, <3>5, <3>6, <3>7 DEF EventOrder
  <2>2. ASSUME AlertInit PROVE LeavingAreSeen /\ NoneMissed
    BY <2>2 DEF AlertInit, LeavingAreSeen, NoneMissed, NoEval
  <2>3. QED BY <2>1, <2>2, InitOutboxInv DEF MissInv
<1>2. MissInv /\ [AlertNext]_alertVars => MissInv'
  <2>1. ASSUME MissInv, AlertNext PROVE MissInv'
    BY <2>1, StepOutboxInv, OrderStep, SeenStep, MissedStep DEF MissInv, OutboxInv
  <2>2. ASSUME MissInv, UNCHANGED alertVars PROVE MissInv'
    <3>1. OutboxInv' /\ EventOrder'
      BY <2>2, StepOutboxInv, OrderStep DEF MissInv, OutboxInv
    <3>2. LeavingAreSeen' /\ NoneMissed'
      BY <2>2 DEF MissInv, alertVars, eventVars, LeavingAreSeen, NoneMissed, Leaving, Queued
    <3>3. QED BY <3>1, <3>2 DEF MissInv
  <2>3. QED BY <2>1, <2>2
<1>3. QED BY <1>1, <1>2, PTL DEF AlertSpec

----------------------------------------------------------------------------
(***************************************************************************)
(* For any number of evaluations that overlap, fail and are repeated,      *)
(* enqueue_matches and uq_notification_idempotency leave one row for each  *)
(* event, rule and recipient.                                              *)
(***************************************************************************)
THEOREM OwedOnceHolds == AlertSpec => []OwedOnce
<1>1. OutboxInv => OwedOnce
  BY DEF OutboxInv
<1>2. QED BY <1>1, OutboxInvariance, PTL

(***************************************************************************)
(* For any number of overlapping drains, mark_failed gives a row up only   *)
(* after the transport has been asked MAX_DELIVERY_ATTEMPTS times.         *)
(***************************************************************************)
THEOREM GivenUpAfterMaxTriesHolds == AlertSpec => []GivenUpAfterMaxTries
<1>1. OutboxInv => GivenUpAfterMaxTries
  BY DEF OutboxInv, RowsAreCounted, GivenUpAfterMaxTries
<1>2. QED BY <1>1, OutboxInvariance, PTL

(***************************************************************************)
(* For any number of rules, recipients and overlapping evaluations: when   *)
(* every hour sees an evaluation through, and brings no more events than   *)
(* one evaluation looks at, no alert leaves the window unqueued.           *)
(***************************************************************************)
THEOREM NoneMissedHolds == AlertSpec => []NoneMissed
<1>1. MissInv => NoneMissed
  BY DEF MissInv
<1>2. QED BY <1>1, MissInvariance, PTL
=============================================================================
