---------------------------- MODULE AlgorithmProofs ----------------------------
(***************************************************************************)
(* The algorithms that keep no state, for every input.  Each theorem is    *)
(* about an operator that TLC evaluates on the samples of MCSamples.       *)
(***************************************************************************)
EXTENDS EnrichmentVerdict, RiskDetection, Impact, Ingestion, Ranking, Currency, SignalScan,
        SequenceTheorems, DataProofs

(***************************************************************************)
(* What should_include_article lets through scores at least 0.3: a part of *)
(* the score is below that only where something excluded was found in it.  *)
(***************************************************************************)
THEOREM EligibleScoresEnoughAlways ==
  ASSUME NEW a, NEW p PROVE EligibleScoresEnough(a, p)
<1> SUFFICES ASSUME ShouldInclude(a, p), p.suppliers \cap p.noSuppliers = {}
             PROVE  Overall(a, p) >= Threshold
  BY DEF EligibleScoresEnough
<1>1. ~HasExcludedMatch(a, p)
  BY DEF ShouldInclude
<1>2. CategoryScore(a, p) \in {30, Neutral, 100}
  BY <1>1 DEF CategoryScore, HasExcludedMatch, ArticleCategories
<1>3. \A matches : Points(matches) \in {30, 75, 100}
  BY DEF Points
<1>4. SupplierScore(a, p) \in {30, Neutral, 75, 100}
  <2>1. /\ a.ids \cap p.noSupplierIds = {}
        /\ (a.names \cup (a.said \cap p.suppliers)) \cap p.noSuppliers = {}
    BY <1>1 DEF HasExcludedMatch
  <2>2. QED BY <1>3, <2>1 DEF SupplierScore
<1>5. RegionScore(a, p) \in {30, Neutral, 75, 100}
  BY <1>1, <1>3 DEF RegionScore, HasExcludedMatch
<1>6. SignalScore(a, p) \in {30, Neutral, 75, 100}
  <2>1. (ArticleSignals(a) \cup SignalContext(a)) \cap Expand(p.noSignals) = {}
    BY <1>1 DEF HasExcludedMatch, SignalMatches
  <2>2. QED BY <1>3, <2>1 DEF SignalScore
<1>7. QED BY <1>2, <1>4, <1>5, <1>6 DEF Overall, Threshold, Neutral

\* An article as RiskDetection has it.
RiskArticle(Phrases) ==
  [said : SUBSET Phrases, tags : SUBSET Phrases, priority : BOOLEAN, suppliers : BOOLEAN,
   regions : BOOLEAN, alarms : BOOLEAN]

(***************************************************************************)
(* A conservative type of risk takes its text; what makes a conflict regional *)
(* makes it geopolitical too, no less surely; and a text that alarms never *)
(* lowers a severity (detector.py:99-141, 203-207, 238-260).               *)
(***************************************************************************)
THEOREM DetectionIsConservativeAlways ==
  ASSUME NEW Phrases, NEW a \in RiskArticle(Phrases) PROVE DetectionIsConservative(a)
<1>1. ASSUME NEW t \in DetectRiskEvents(a), Conservative(t) PROVE a.said \cap TextAliases[t] # {}
  BY <1>1 DEF DetectRiskEvents, Candidates, MetadataMatch, TextMatch
<1>2. "regional_conflict" \notin DetectRiskEvents(a)
  <2> DEFINE geo == "geopolitical"  reg == "regional_conflict"
  <2> SUFFICES ASSUME reg \in Candidates(a)
               PROVE  geo \in Candidates(a) /\ Stronger(a, geo, reg)
    BY DEF DetectRiskEvents, ConflictFamily
  <2>1. TextMatch(a, geo) = TextMatch(a, reg)
    BY ConflictAssumption DEF TextMatch, Conservative, ConflictFamily
  <2>2. MetadataMatch(a, reg) => MetadataMatch(a, geo)
    BY <2>1, ConflictAssumption DEF MetadataMatch, Conservative, ConflictFamily, RiskTerms
  <2>3. /\ Confidence(a, geo) >= Confidence(a, reg)
        /\ Confidence(a, geo) \in Nat /\ Confidence(a, reg) \in Nat
    BY <2>1, <2>2 DEF Confidence, Capped, RiskArticle
  <2>4. Confidence(a, reg) >= 55 /\ Acted(a) /\ (MetadataMatch(a, reg) \/ TextMatch(a, reg))
    BY DEF Candidates, ConflictFamily
  <2>5. geo \in Candidates(a)
    BY <2>1, <2>2, <2>3, <2>4, ConflictAssumption DEF Candidates, ConflictFamily
  <2>6. QED BY <2>3, <2>5, ConflictAssumption DEF Stronger
<1>3. ASSUME NEW t \in ToSet(RiskTypes)
      PROVE  SeverityLevel[Severity([a EXCEPT !.alarms = FALSE], t)]
               <= SeverityLevel[Severity([a EXCEPT !.alarms = TRUE], t)]
  <2>1. /\ [a EXCEPT !.alarms = FALSE].alarms = FALSE
        /\ [a EXCEPT !.alarms = TRUE].alarms = TRUE
    BY DEF RiskArticle
  <2>2. QED BY <2>1 DEF Severity, UsualSeverity, SeverityLevel
<1>4. QED BY <1>1, <1>2, <1>3 DEF DetectionIsConservative

\* A stored article as the quality checks have it.
RawArticle(Languages) ==
  [title : {"none", "blank", "short", "spam", "long", "fine"},
   description : {"none", "blank", "short", "fine"}, snippet : {"none", "blank", "short", "fine"},
   link : {"none", "blank", "scheme", "long", "fine"}, date : {"none", "future", "old", "fine"},
   detected : Languages, declared : Languages, blocked : BOOLEAN]

(***************************************************************************)
(* The quality checks and the normaliser reject what has a defect, and that *)
(* only (quality_filters.py, normalizer.py).                                 *)
(***************************************************************************)
THEOREM OnlyDefectsRejectAlways ==
  ASSUME NEW Languages, NEW a \in RawArticle(Languages) PROVE OnlyDefectsReject(a)
<1>1. CheckTitle(a) \in {Passed, "warning"} <=> a.title \in {"fine", "spam"}
  BY DEF CheckTitle, Passed, RawArticle
<1>2. CheckContent(a) \in {Passed, "warning"} <=> {a.description, a.snippet} # {"none"}
  BY DEF CheckContent, Passed, RawArticle
<1>3. CheckUrl(a) \in {Passed, "warning"} <=> a.link = "fine"
  BY DEF CheckUrl, Passed, RawArticle
<1>4. CheckTimestamp(a) \in {Passed, "warning"} <=> a.date # "none"
  BY DEF CheckTimestamp, Passed, RawArticle
<1>5. {Text(a.description), Text(a.snippet)} # {"none"}
        <=> ~({a.description, a.snippet} \subseteq {"none", "blank"})
  BY DEF Text, RawArticle
<1>6. QED BY <1>1, <1>2, <1>3, <1>4, <1>5 DEF OnlyDefectsReject, Normalized, CheckAll, LanguageOk

\* Of finitely many places one has the best value before all that are as good.
LEMMA FirstOfTheBest ==
  ASSUME NEW S \in SUBSET Nat, IsFiniteSet(S), S # {}, NEW f \in [S -> Nat]
  PROVE  \E b \in S : \A d \in S : f[b] > f[d] \/ (f[b] = f[d] /\ b <= d)
<1>1. PICK N : N = {f[i] : i \in S}
  OBVIOUS
<1>2. N \subseteq Nat /\ N # {} /\ IsFiniteSet(N)
  <2>1. f \in Surjection(S, N)
    BY <1>1 DEF Surjection
  <2>2. QED BY <1>1, <2>1, FS_Surjection
<1>3. PICK top \in N : \A n \in N : top >= n
  BY <1>2, GreatestExists
<1>4. PICK M : M = {i \in S : f[i] = top}
  OBVIOUS
<1>5. M \in SUBSET Nat /\ M # {}
  BY <1>1, <1>3, <1>4
<1>6. PICK b \in M : \A d \in M : b <= d
  BY <1>5, LeastNumber
<1>7. \A d \in S : f[b] > f[d] \/ (f[b] = f[d] /\ b <= d)
  BY <1>1, <1>3, <1>4, <1>6
<1>8. QED BY <1>4, <1>6, <1>7

LEMMA UptoIsFinite == ASSUME NEW n \in Nat PROVE IsFiniteSet(1..n) /\ Cardinality(1..n) = n
<1>1. IsFiniteSet(1..n)
  BY FS_Interval
<1>2. Cardinality(1..n) = IF 1 > n THEN 0 ELSE n - 1 + 1
  BY FS_Interval
<1>3. QED BY <1>1, <1>2

\* The terms that a category can be told from.
KnownTerms == STRING \cap (Categories \cup DOMAIN CategoryAliases \cup DOMAIN WordsOf)

\* An article, and an answer of the model's, as EnrichmentVerdict has them.
EnrichedText(People) ==
  [written : BOOLEAN, signals : SUBSET DOMAIN Sureness, suppliers : SUBSET People,
   regions : SUBSET People, term : KnownTerms]
EnrichedArticle(People) ==
  [texts : [1..3 -> EnrichedText(People)], grouped : BOOLEAN, group : KnownTerms, source : KnownTerms]

\* canonical_category answers with a string, whatever shares how many words.
LEMMA CategoryIsString == ASSUME NEW t \in KnownTerms PROVE CanonicalCategory(t) \in STRING
<1> USE VocabularyAssumption
<1>easy. ASSUME t \in Categories \/ t \in DOMAIN CategoryAliases
          PROVE  CanonicalCategory(t) \in STRING
  BY <1>easy DEF CanonicalCategory
<1> SUFFICES ASSUME t \in DOMAIN WordsOf PROVE CanonicalCategory(t) \in STRING
  BY <1>easy DEF KnownTerms
<1>n. PICK n : n = Len(CategoryWords)
  OBVIOUS
<1>1. n \in Nat /\ n >= 1 /\ DOMAIN CategoryWords = 1..n
  <2>1. CategoryWords \in Seq(STRING \X SUBSET STRING)
    OBVIOUS
  <2>2. n \in Nat /\ DOMAIN CategoryWords = 1..n
    BY <1>n, <2>1
  <2>3. n # 0
    BY <1>n, <2>1
  <2>4. QED BY <2>2, <2>3
<1> DEFINE Sooner(c, d) == \/ Shared(c, t) > Shared(d, t)
                           \/ Shared(c, t) = Shared(d, t) /\ c <= d
           best == CHOOSE c \in DOMAIN CategoryWords : \A d \in DOMAIN CategoryWords : Sooner(c, d)
<1>2. best \in DOMAIN CategoryWords
  <2>1. PICK f : f = [c \in 1..n |-> Shared(c, t)]
    OBVIOUS
  <2>2. f \in [1..n -> Nat]
    <3> SUFFICES ASSUME NEW c \in 1..n PROVE Shared(c, t) \in Nat
      BY <2>1
    <3>1. IsFiniteSet(WordsOf[t] \cap CategoryWords[c][2])
      <4>1. IsFiniteSet(WordsOf[t]) /\ WordsOf[t] \cap CategoryWords[c][2] \in SUBSET WordsOf[t]
        OBVIOUS
      <4>2. QED BY <4>1, FS_Subset
    <3>2. QED BY <3>1, FS_CardinalityType DEF Shared
  <2>3. IsFiniteSet(1..n) /\ 1..n \in SUBSET Nat /\ 1..n # {}
    <3>1. IsFiniteSet(1..n)
      BY <1>1, UptoIsFinite
    <3>2. 1 \in 1..n /\ \A i \in 1..n : i \in Nat
      BY <1>1
    <3>3. QED BY <3>1, <3>2
  <2>4. \E b \in 1..n : \A d \in 1..n : f[b] > f[d] \/ (f[b] = f[d] /\ b <= d)
    BY <2>2, <2>3, FirstOfTheBest
  <2>5. \E b \in DOMAIN CategoryWords : \A d \in DOMAIN CategoryWords : Sooner(b, d)
    <3>1. PICK b \in 1..n : \A d \in 1..n : f[b] > f[d] \/ (f[b] = f[d] /\ b <= d)
      BY <2>4
    <3>2. \A c \in 1..n : f[c] = Shared(c, t)
      BY <2>1
    <3>3. \A d \in 1..n : Sooner(b, d)
      BY <3>1, <3>2
    <3> HIDE DEF Sooner
    <3>4. QED BY <1>1, <3>3
  <2> HIDE DEF Sooner
  <2>6. QED BY <2>5
<1>3. CategoryWords[best][1] \in STRING
  <2> HIDE DEF best
  <2>1. CategoryWords[best] \in STRING \X SUBSET STRING
    BY <1>2
  <2>2. QED BY <2>1
<1>4. CASE t \in Categories \/ t \in DOMAIN CategoryAliases
  BY <1>4, <1>easy
<1>5. CASE ~(t \in Categories \/ t \in DOMAIN CategoryAliases)
  <2>1. CanonicalCategory(t) = IF Shared(best, t) > 0 THEN CategoryWords[best][1] ELSE t
    BY <1>5 DEF CanonicalCategory
  <2>2. t \in STRING
    BY DEF KnownTerms
  <2> HIDE DEF best
  <2>3. QED BY <1>3, <2>1, <2>2
<1>6. QED BY <1>4, <1>5

\* _infer_category has five opinions,
LEMMA OpinionsAre ==
  ASSUME NEW People, NEW a \in EnrichedArticle(People)
  PROVE  Opinions(a) \in [1..5 -> STRING]
<1>1. \A i \in 1..3 : CanonicalCategory(a.texts[i].term) \in STRING
  BY CategoryIsString DEF EnrichedArticle, EnrichedText
<1>2. CanonicalCategory(a.group) \in STRING /\ CanonicalCategory(a.source) \in STRING
  BY CategoryIsString DEF EnrichedArticle
<1>3. PICK g, s, p : /\ g = CanonicalCategory(a.group) /\ s = CanonicalCategory(a.source)
                     /\ p = [i \in 1..3 |-> CanonicalCategory(a.texts[i].term)]
  OBVIOUS
<1>4. PICK X : X = STRING
  OBVIOUS
<1>5. p = [i \in 1..3 |-> p[i]] /\ (\A i \in 1..3 : p[i] \in X) /\ g \in X /\ s \in X
  BY <1>1, <1>2, <1>3, <1>4
<1>6. p \in Seq(X) /\ Len(p) = 3
  BY <1>5, IsASeq, LenProperties
<1>7. PICK q : q = <<g, s>>
  OBVIOUS
<1>8. q \in Seq(X) /\ Len(q) = 2
  BY <1>5, <1>7
<1>9. p \o q \in Seq(X) /\ Len(p \o q) = 5
  <2>1. p \o q \in Seq(X) /\ Len(p \o q) = Len(p) + Len(q)
    BY <1>6, <1>8, ConcatProperties
  <2>2. QED BY <1>6, <1>8, <2>1
<1>10. p \o q \in [1..5 -> X]
  BY <1>9, LenProperties
<1>11. QED BY <1>3, <1>4, <1>7, <1>10 DEF Opinions

\* of which a heaviest exists, and it is a category.
LEMMA InferredIsCategory ==
  ASSUME NEW People, NEW a \in EnrichedArticle(People)
  PROVE  Inferred(a) \in Categories
<1>1. PICK o \in [1..5 -> STRING] : o = Opinions(a)
  BY OpinionsAre
<1> DEFINE usable == {i \in 1..5 : o[i] \in Categories \ {"general"}}
           votes == [i \in usable |-> SumOf([j \in {k \in usable : o[k] = o[i]} |-> Weight[j]])]
           Ahead(i, j) == votes[i] > votes[j] \/ (votes[i] = votes[j] /\ i <= j)
<1>2. Heaviest[o] = IF usable = {} THEN "general"
                    ELSE o[CHOOSE i \in usable : \A j \in usable : Ahead(i, j)]
  BY DEF Heaviest
<1>3. ASSUME usable # {} PROVE (CHOOSE i \in usable : \A j \in usable : Ahead(i, j)) \in usable
  <2>1. IsFiniteSet(usable) /\ usable \in SUBSET Nat
    <3>1. IsFiniteSet(1..5)
      BY 5 \in Nat, UptoIsFinite
    <3>2. usable \in SUBSET (1..5)
      OBVIOUS
    <3>3. IsFiniteSet(usable)
      BY <3>1, <3>2, FS_Subset
    <3>4. QED BY <3>2, <3>3
  <2>2. votes \in [usable -> Nat]
    <3> SUFFICES ASSUME NEW i \in usable
                 PROVE  SumOf([j \in {k \in usable : o[k] = o[i]} |-> Weight[j]]) \in Nat
      OBVIOUS
    <3>1. PICK T : T = {k \in usable : o[k] = o[i]}
      OBVIOUS
    <3>2. IsFiniteSet(T)
      BY <2>1, <3>1, FS_Subset
    <3>3. [j \in T |-> Weight[j]] \in [T -> Nat]
      BY <3>1 DEF Weight
    <3>4. QED BY <3>1, <3>2, <3>3, SumIsNumber
  <2> HIDE DEF usable, votes
  <2>3. \E b \in usable : \A d \in usable : votes[b] > votes[d] \/ (votes[b] = votes[d] /\ b <= d)
    BY <1>3, <2>1, <2>2, FirstOfTheBest
  <2>4. \E b \in usable : \A d \in usable : Ahead(b, d)
    BY <2>3
  <2> HIDE DEF Ahead
  <2>5. QED BY <2>4
<1>4. QED BY <1>1, <1>2, <1>3, VocabularyAssumption DEF Inferred

LEMMA EntitiesAre ==
  ASSUME NEW People, IsFiniteSet(People), NEW a \in EnrichedArticle(People)
  PROVE  Entities(a) \in 0..2
<1>1. NamedSuppliers(a) \in SUBSET People /\ NamedRegions(a) \in SUBSET People
  BY DEF NamedSuppliers, NamedRegions, EnrichedArticle, EnrichedText
<1>2. Cardinality(NamedSuppliers(a)) \in Nat /\ Cardinality(NamedRegions(a)) \in Nat
  BY <1>1, FS_Subset, FS_CardinalityType
<1>3. QED BY <1>2 DEF Entities

(***************************************************************************)
(* Without a signal the rules' certainty is at most 0.55, whatever else they *)
(* recognise, and a signal alone makes an article relevant.                *)
(***************************************************************************)
THEOREM SureRestsOnASignalAlways ==
  ASSUME NEW People, IsFiniteSet(People), NEW a \in EnrichedArticle(People)
  PROVE  SureRestsOnASignal(a)
<1>1. PICK e \in 0..2 : e = Entities(a)
  BY EntitiesAre
<1>2. PICK w \in 0..3 : w = Cardinality({i \in DOMAIN a.texts : a.texts[i].written})
  <2>1. PICK W : W = {i \in DOMAIN a.texts : a.texts[i].written}
    OBVIOUS
  <2>2. W \in SUBSET (1..3)
    BY <2>1 DEF EnrichedArticle
  <2>3. IsFiniteSet(1..3) /\ Cardinality(1..3) = 3
    <3>1. QED BY 3 \in Nat, UptoIsFinite
  <2>4. Cardinality(W) \in Nat /\ Cardinality(W) <= 3
    BY <2>2, <2>3, FS_Subset, FS_CardinalityType
  <2>5. QED BY <2>1, <2>4
<1>3. ASSUME SignalsOf(a) = {} PROVE ~(Certainty(a) >= MinConfidence)
  <2>1. Surest(a) = 0
    BY <1>3 DEF Surest
  <2>2. PICK c \in {0, 2000} : c = IF Inferred(a) # "general" THEN 2000 ELSE 0
    OBVIOUS
  <2>3. Certainty(a) = 45 * 0 + 1000 * e + c + 500 * w
    BY <1>1, <1>2, <2>1, <2>2 DEF Certainty
  <2>4. QED BY <2>3, PolicyAssumption
<1>4. ASSUME SignalsOf(a) # {} PROVE Relevance(a) >= MinRelevance
  <2>1. PICK g \in {0, 2500} : g = IF a.grouped THEN 2500 ELSE 0
    OBVIOUS
  <2>2. PICK c \in {0, 1000} : c = IF Inferred(a) # "general" THEN 1000 ELSE 0
    OBVIOUS
  <2>3. Relevance(a) = 4500 + g + 1000 * e + c
    BY <1>1, <1>4, <2>1, <2>2 DEF Relevance
  <2>4. QED BY <2>3, PolicyAssumption
<1>5. QED BY <1>3, <1>4 DEF SureRestsOnASignal

\* The output has what the rules found, under a category that there is.
Carries(a, out) ==
  /\ NamedSuppliers(a) \subseteq out.suppliers /\ NamedRegions(a) \subseteq out.regions
  /\ Inferred(a) \in out.categories /\ out.category \in Categories

(***************************************************************************)
(* Neither the budget nor the model changes what the article is: three ways *)
(* the run may go, and the same article is skipped in all or none of them, *)
(* decided by the rules in all or none, and keeps the names they found.    *)
(***************************************************************************)
THEOREM VerdictStandsAlways ==
  ASSUME NEW People, IsFiniteSet(People), NEW a \in EnrichedArticle(People),
         NEW Named, NEW answer \in [category : STRING, tags : SUBSET STRING,
                        suppliers : SUBSET Named, regions : SUBSET Named, categories : SUBSET STRING]
  PROVE  VerdictStands(a, answer)
<1>1. Carries(a, Local(a))
  BY InferredIsCategory DEF Carries, Local
<1>2. Carries(a, WithLocal(Parsed(answer), a))
  BY VocabularyAssumption DEF Carries, WithLocal, Parsed
<1>3. SureRestsOnASignal(a)
  BY SureRestsOnASignalAlways
<1>4. PICK good, rules, model :
        /\ good = (Certainty(a) >= MinConfidence) /\ rules = Local(a)
        /\ model = WithLocal(Parsed(answer), a)
  OBVIOUS
<1>5. ASSUME Relevance(a) < MinRelevance
      PROVE  \A b \in BOOLEAN, xs \in {{answer}, {}} :
               Verdict(a, b, xs) = [status |-> "skipped", output |-> {}]
  BY <1>5 DEF Verdict, Route
<1>6. ASSUME ~(Relevance(a) < MinRelevance), Certainty(a) >= MinConfidence
      PROVE  \A b \in BOOLEAN, xs \in {{answer}, {}} :
               Verdict(a, b, xs) = [status |-> "completed", output |-> {rules}]
  BY <1>4, <1>6 DEF Verdict, Route
<1>7. ASSUME ~(Relevance(a) < MinRelevance), ~(Certainty(a) >= MinConfidence)
      PROVE  \A b \in BOOLEAN, xs \in {{answer}, {}} :
               /\ Verdict(a, b, xs).status # "skipped"
               /\ Verdict(a, b, xs).output \in {{}, {rules}, {model}}
  <2>1. Verdict(a, FALSE, {}) = [status |-> "deferred", output |-> {}]
    BY <1>7 DEF Verdict, Route
  <2>2. Verdict(a, FALSE, {answer}) = [status |-> "deferred", output |-> {}]
    BY <1>7 DEF Verdict, Route
  <2>3. \/ Verdict(a, TRUE, {}) = [status |-> "completed", output |-> {rules}]
        \/ Verdict(a, TRUE, {}) = [status |-> "enrichment_retry", output |-> {}]
    BY <1>4, <1>7 DEF Verdict, Route
  <2>4. (CHOOSE x \in {answer} : TRUE) = answer /\ {answer} # {}
    OBVIOUS
  <2>5. Verdict(a, TRUE, {answer}) = [status |-> "completed", output |-> {model}]
    BY <1>4, <1>7, <2>4 DEF Verdict, Route
  <2>6. ASSUME NEW b \in BOOLEAN, NEW xs \in {{answer}, {}}
        PROVE  /\ Verdict(a, b, xs).status # "skipped"
               /\ Verdict(a, b, xs).output \in {{}, {rules}, {model}}
    <3>1. \E st \in {"completed", "deferred", "enrichment_retry"}, o \in {{}, {rules}, {model}} :
            Verdict(a, b, xs) = [status |-> st, output |-> o]
      <4>1. CASE b = FALSE /\ xs = {} BY <2>1, <4>1
      <4>2. CASE b = FALSE /\ xs = {answer} BY <2>2, <4>2
      <4>3. CASE b = TRUE /\ xs = {} BY <2>3, <4>3
      <4>4. CASE b = TRUE /\ xs = {answer} BY <2>5, <4>4
      <4>5. QED BY <4>1, <4>2, <4>3, <4>4
    <3>2. QED BY <3>1
  <2>7. QED BY <2>6
<1>8. \A out \in {rules, model} : Carries(a, out)
  BY <1>1, <1>2, <1>4
<1>9. ASSUME NEW b \in BOOLEAN, NEW xs \in {{answer}, {}},
             NEW c \in BOOLEAN, NEW ys \in {{answer}, {}}
      PROVE  /\ Verdict(a, b, xs).status = "skipped" => Verdict(a, c, ys).status = "skipped"
             /\ Certainty(a) >= MinConfidence => Verdict(a, b, xs) = Verdict(a, c, ys)
             /\ \A out \in Verdict(a, b, xs).output : Carries(a, out)
  <2>1. CASE Relevance(a) < MinRelevance
    <3>1. /\ Verdict(a, b, xs) = [status |-> "skipped", output |-> {}]
          /\ Verdict(a, c, ys) = [status |-> "skipped", output |-> {}]
      BY <1>5, <2>1
    <3>2. QED BY <3>1
  <2>2. CASE ~(Relevance(a) < MinRelevance) /\ Certainty(a) >= MinConfidence
    <3>1. /\ Verdict(a, b, xs) = [status |-> "completed", output |-> {rules}]
          /\ Verdict(a, c, ys) = [status |-> "completed", output |-> {rules}]
      BY <1>6, <2>2
    <3>2. QED BY <1>8, <3>1
  <2>3. CASE ~(Relevance(a) < MinRelevance) /\ ~(Certainty(a) >= MinConfidence)
    <3>1. /\ Verdict(a, b, xs).status # "skipped"
          /\ Verdict(a, b, xs).output \in {{}, {rules}, {model}}
      BY <1>7, <2>3
    <3>2. QED BY <1>8, <2>3, <3>1
  <2>4. QED BY <2>1, <2>2, <2>3
<1>10. ASSUME NEW v, NEW w, NEW b \in BOOLEAN, NEW xs \in {{answer}, {}},
              NEW c \in BOOLEAN, NEW ys \in {{answer}, {}},
              v = Verdict(a, b, xs), w = Verdict(a, c, ys)
       PROVE  /\ v.status = "skipped" => w.status = "skipped"
              /\ Certainty(a) >= MinConfidence => v = w
              /\ \A out \in v.output : Carries(a, out)
  BY <1>9, <1>10
<1>11. PICK V : V = {Verdict(a, TRUE, {answer}), Verdict(a, TRUE, {}), Verdict(a, FALSE, {})}
  OBVIOUS
<1>12. \A v \in V : \E b \in BOOLEAN, xs \in {{answer}, {}} : v = Verdict(a, b, xs)
  BY <1>11
<1>13. \A v, w \in V : /\ v.status = "skipped" => w.status = "skipped"
                       /\ Certainty(a) >= MinConfidence => v = w
                       /\ \A out \in v.output : Carries(a, out)
  BY ZenonT(30), <1>10, <1>12
<1>14. QED BY <1>11, <1>13 DEF Carries, VerdictStands

----------------------------------------------------------------------------
LEMMA BothParts ==
  ASSUME NEW X, NEW s \in Seq(X), NEW t \in Seq(X)
  PROVE  ToSet(s \o t) = ToSet(s) \cup ToSet(t)
<1>1. /\ Len(s) \in Nat /\ Len(t) \in Nat /\ DOMAIN (s \o t) = 1..(Len(s) + Len(t))
      /\ DOMAIN s = 1..Len(s) /\ DOMAIN t = 1..Len(t)
  OBVIOUS
<1>2. \A k \in 1..(Len(s) + Len(t)) : (s \o t)[k] = IF k <= Len(s) THEN s[k] ELSE t[k - Len(s)]
  OBVIOUS
<1>3. ToSet(s) \cup ToSet(t) \subseteq ToSet(s \o t)
  <2>1. \A k \in 1..Len(t) : Len(s) + k \in DOMAIN (s \o t) /\ t[k] = (s \o t)[Len(s) + k]
    BY <1>1, <1>2
  <2>2. \A k \in 1..Len(s) : k \in DOMAIN (s \o t) /\ s[k] = (s \o t)[k]
    BY <1>1, <1>2
  <2> QED  BY <1>1, <2>1, <2>2 DEF ToSet
<1>4. ToSet(s \o t) \subseteq ToSet(s) \cup ToSet(t)
  <2>1. \A k \in 1..(Len(s) + Len(t)) :
          k \in 1..Len(s) \/ (~(k <= Len(s)) /\ k - Len(s) \in 1..Len(t))
    BY <1>1
  <2> QED  BY <1>1, <1>2, <2>1 DEF ToSet
<1> QED  BY <1>3, <1>4

\* Articles in the order of whole articles, in which no two are alike, each with an
\* address that is a place and parameters.
Comparable(A) == /\ \A a \in A : a.rank \in Nat
                 /\ \E Places, Extras : \A a \in A : a.url \in [at : Places, extras : Extras]
                 /\ \A a, b \in A : a.rank = b.rank => a = b

\* What is kept of a set.
BestOf(S) == {a \in S : \A b \in {c \in S : Fingerprint(c) = Fingerprint(a)} : Preferred(a, b)}

LEMMA SetOfSeq ==
  ASSUME NEW A, NEW s \in Seq(A)
  PROVE  /\ IsFiniteSet(ToSet(s)) /\ ToSet(s) \subseteq A
         /\ Len(s) \in Nat /\ DOMAIN s = 1..Len(s)
<1>1. Len(s) \in Nat /\ DOMAIN s = 1..Len(s)
  OBVIOUS
<1>2. s \in Surjection(1..Len(s), ToSet(s))
  BY <1>1 DEF Surjection, ToSet
<1>3. IsFiniteSet(1..Len(s))
  BY <1>1, FS_Interval
<1>4. IsFiniteSet(ToSet(s))
  BY <1>2, <1>3, FS_Surjection
<1> QED  BY <1>1, <1>4 DEF ToSet

\* Of the articles with one fingerprint one is preferred to the others.
LEMMA GroupHasBest ==
  ASSUME NEW A, Comparable(A), NEW S \in SUBSET A, IsFiniteSet(S), NEW a \in S
  PROVE  \E b \in BestOf(S) : Fingerprint(b) = Fingerprint(a)
<1> DEFINE G == {c \in S : Fingerprint(c) = Fingerprint(a)}
           ahead == {p \in G \X G : p[1] # p[2] /\ Preferred(p[1], p[2])}
<1>1. IsFiniteSet(G)
  BY FS_Subset
<1>2. \A c \in S : Authority(c.class) \in Nat /\ c.rank \in Nat
  BY DEF Authority, Comparable
<1>3. \A c, d \in S : c.rank = d.rank => c = d
  BY DEF Comparable
<1>4. StrictOrder(G, ahead)
  <2>1. \A x \in G : <<x, x>> \notin ahead
    OBVIOUS
  <2>2. \A x, y \in G : <<x, y>> \in ahead <=> x # y /\ Preferred(x, y)
    OBVIOUS
  <2>3. \A x, y, z \in G : <<x, y>> \in ahead /\ <<y, z>> \in ahead => <<x, z>> \in ahead
    BY <1>2, <1>3, <2>2 DEF Preferred
  <2>4. \A x, y \in G : x # y => <<x, y>> \in ahead \/ <<y, x>> \in ahead
    BY <1>2, <1>3, <2>2 DEF Preferred
  <2> QED  BY <2>1, <2>3, <2>4 DEF StrictOrder
<1>5. /\ Cardinality(G) \in Nat /\ InOrder(G, ahead) \in [1..Cardinality(G) -> G]
      /\ \A x \in G : \E i \in 1..Cardinality(G) : InOrder(G, ahead)[i] = x
      /\ \A i, j \in 1..Cardinality(G) : i < j <=> <<InOrder(G, ahead)[i], InOrder(G, ahead)[j]>> \in ahead
  <2> HIDE DEF G, ahead
  <2> QED  BY <1>1, <1>4, InOrderIsSorted
<1>6. Cardinality(G) # 0
  BY <1>1, FS_EmptySet
<1> DEFINE b == InOrder(G, ahead)[1]
<1>7. b \in G
  BY <1>5, <1>6
<1>8. \A c \in G : Preferred(b, c)
  <2> SUFFICES ASSUME NEW c \in G PROVE Preferred(b, c)
    OBVIOUS
  <2>1. PICK i \in 1..Cardinality(G) : InOrder(G, ahead)[i] = c
    BY <1>5
  <2>2. CASE i = 1
    BY <1>2, <2>1, <2>2 DEF Preferred
  <2>3. CASE 1 < i
    <3>1. <<b, c>> \in ahead
      BY <1>5, <2>1, <2>3
    <3> QED  BY <3>1
  <2> QED  BY <1>5, <2>2, <2>3
<1>9. Fingerprint(b) = Fingerprint(a) /\ b \in S
  BY <1>7
<1>10. b \in BestOf(S)
  BY <1>8, <1>9 DEF BestOf
<1> QED  BY <1>9, <1>10

\* What deduplication gives, of a sequence with that set.
Deduplicates(s, S) ==
  /\ \E n \in Nat : s \in [1..n -> BestOf(S)]
  /\ ToSet(s) = BestOf(S)
  /\ \A i, j \in DOMAIN s : s[i] = s[j] => i = j

LEMMA DeduplicatesAlways ==
  ASSUME NEW A, Comparable(A), NEW articles \in Seq(A)
  PROVE  Deduplicates(Deduplicated(articles), ToSet(articles))
<1> DEFINE S == ToSet(articles)
           B == BestOf(S)
           ahead == OrderBy(B, LAMBDA a, b : a.rank < b.rank)
           s == InOrder(B, ahead)
<1>1. IsFiniteSet(S) /\ S \subseteq A
  BY SetOfSeq
<1>2. B \subseteq S /\ IsFiniteSet(B)
  BY <1>1, FS_Subset DEF BestOf
<1>3. Deduplicated(articles) = s
  BY DEF Deduplicated, BestOf
<1>4. StrictOrder(B, ahead)
  <2>1. \A a \in B : a.rank \in Nat
    BY <1>1, <1>2 DEF Comparable
  <2>2. \A a, b \in B : a.rank = b.rank => a = b
    BY <1>1, <1>2 DEF Comparable
  <2>3. \A a, b \in B : <<a, b>> \in ahead <=> a.rank < b.rank
    BY DEF OrderBy
  <2> HIDE DEF B, ahead
  <2> QED  BY <2>1, <2>2, <2>3 DEF StrictOrder
<1> HIDE DEF ahead, B, S
<1>5. /\ Cardinality(B) \in Nat /\ s \in [1..Cardinality(B) -> B]
      /\ \A x \in B : \E i \in 1..Cardinality(B) : s[i] = x
      /\ \A i, j \in 1..Cardinality(B) : i < j <=> <<s[i], s[j]>> \in ahead
  BY <1>2, <1>4, InOrderIsSorted
<1>6. ToSet(s) = B
  BY <1>5 DEF ToSet
<1>7. ASSUME NEW i \in DOMAIN s, NEW j \in DOMAIN s, s[i] = s[j] PROVE i = j
  <2>1. i \in 1..Cardinality(B) /\ j \in 1..Cardinality(B) /\ s[i] \in B
    BY <1>5
  <2>2. <<s[i], s[j]>> \notin ahead /\ <<s[j], s[i]>> \notin ahead
    BY <1>4, <1>7, <2>1 DEF StrictOrder
  <2> QED  BY <1>5, <2>1, <2>2
<1> QED  BY <1>3, <1>5, <1>6, <1>7 DEF Deduplicates, B, S

THEOREM FetchOrderDoesNotMatterAlways ==
  ASSUME NEW A, Comparable(A), NEW articles \in Seq(A)
  PROVE  FetchOrderDoesNotMatter(articles)
<1> DEFINE S == ToSet(articles)
           kept == Deduplicated(articles)
<1>1. IsFiniteSet(S) /\ S \in SUBSET A
  BY SetOfSeq
<1>2. PICK n \in Nat : kept \in [1..n -> BestOf(S)]
  BY DeduplicatesAlways DEF Deduplicates
<1>3. ToSet(kept) = BestOf(S) /\ \A i, j \in DOMAIN kept : kept[i] = kept[j] => i = j
  BY DeduplicatesAlways DEF Deduplicates
<1>4. \A s, t : ToSet(s) = ToSet(t) => Deduplicated(s) = Deduplicated(t)
  BY DEF Deduplicated
<1>5. ASSUME NEW i \in DOMAIN articles, NEW j \in DOMAIN articles
      PROVE  Deduplicated([articles EXCEPT ![i] = articles[j], ![j] = articles[i]]) = kept
  <2>1. ToSet([articles EXCEPT ![i] = articles[j], ![j] = articles[i]]) = S
    BY DEF ToSet
  <2> QED  BY <1>4, <2>1
<1>6. ASSUME NEW i \in DOMAIN kept, NEW j \in DOMAIN kept,
             Fingerprint(kept[i]) = Fingerprint(kept[j])
      PROVE  i = j
  <2>1. kept[i] \in BestOf(S) /\ kept[j] \in BestOf(S)
    BY <1>2
  <2>2. /\ kept[i] \in S /\ kept[j] \in S
        /\ Preferred(kept[i], kept[j]) /\ Preferred(kept[j], kept[i])
    BY <1>6, <2>1 DEF BestOf
  <2>3. kept[i].rank \in Nat /\ kept[j].rank \in Nat
    BY <1>1, <2>2 DEF Comparable
  <2>4. Authority(kept[i].class) \in Nat /\ Authority(kept[j].class) \in Nat
    BY DEF Authority
  <2>5. kept[i].rank = kept[j].rank
    <3> HIDE DEF kept
    <3> QED  BY <2>2, <2>3, <2>4 DEF Preferred
  <2>6. kept[i] = kept[j]
    BY <1>1, <2>2, <2>5 DEF Comparable
  <2> QED  BY <1>3, <2>6
<1>7. ASSUME NEW a \in S
      PROVE  \E b \in ToSet(kept) : Fingerprint(a) = Fingerprint(b) /\ Authority(b.class) >= Authority(a.class)
  <2>1. PICK b \in BestOf(S) : Fingerprint(b) = Fingerprint(a)
    BY <1>1, GroupHasBest
  <2>2. Preferred(b, a)
    BY <2>1 DEF BestOf
  <2>3. Authority(a.class) \in Nat /\ Authority(b.class) \in Nat
    BY DEF Authority
  <2>4. Authority(b.class) >= Authority(a.class)
    BY <2>2, <2>3 DEF Preferred
  <2> QED  BY <1>3, <2>1, <2>4
<1>8. Deduplicated(kept \o articles) = kept
  <2>1. BestOf(S) \subseteq S /\ S \subseteq A
    BY <1>1 DEF BestOf
  <2>2. kept \in Seq(A) /\ Len(kept) = n
    BY <1>2, <2>1
  <2> HIDE DEF kept
  <2>3. ToSet(kept \o articles) = ToSet(kept) \cup ToSet(articles)
    <3>1. /\ Len(kept \o articles) = Len(kept) + Len(articles)
          /\ Len(kept) \in Nat /\ Len(articles) \in Nat
          /\ DOMAIN (kept \o articles) = 1..(Len(kept) + Len(articles))
          /\ DOMAIN kept = 1..Len(kept) /\ DOMAIN articles = 1..Len(articles)
      BY <2>2
    <3>2. \A k \in 1..(Len(kept) + Len(articles)) :
            (kept \o articles)[k] = IF k <= Len(kept) THEN kept[k] ELSE articles[k - Len(kept)]
      BY <2>2
    <3>3. \A k \in 1..Len(articles) : articles[k] = (kept \o articles)[Len(kept) + k]
      BY <3>1, <3>2
    <3>4. \A k \in 1..Len(kept) : kept[k] = (kept \o articles)[k]
      BY <3>1, <3>2
    <3>5. ToSet(kept) \cup ToSet(articles) \subseteq ToSet(kept \o articles)
      <4>1. \A k \in 1..Len(articles) : Len(kept) + k \in DOMAIN (kept \o articles)
        BY <3>1
      <4>2. \A k \in 1..Len(kept) : k \in DOMAIN (kept \o articles)
        BY <3>1
      <4> QED  BY ZenonT(30), <3>1, <3>3, <3>4, <4>1, <4>2 DEF ToSet
    <3>6. ToSet(kept \o articles) \subseteq ToSet(kept) \cup ToSet(articles)
      <4>1. \A k \in 1..(Len(kept) + Len(articles)) :
               k \in 1..Len(kept) \/ (~(k <= Len(kept)) /\ k - Len(kept) \in 1..Len(articles))
        BY <3>1
      <4> QED  BY <3>1, <3>2, <4>1 DEF ToSet
    <3> QED  BY <3>5, <3>6
  <2>4. ToSet(kept \o articles) = S
    BY <1>3, <2>1, <2>3
  <2>5. Deduplicated(kept \o articles) = Deduplicated(articles)
    BY <1>4, <2>4
  <2> QED  BY <2>5 DEF kept
<1> QED  BY <1>5, <1>6, <1>7, <1>8 DEF FetchOrderDoesNotMatter

THEOREM EveryRecordIsStoredAlways ==
  ASSUME NEW A, Comparable(A), NEW articles \in Seq(A)
  PROVE  EveryRecordIsStored(articles)
<1> DEFINE S == ToSet(articles)
           kept == Deduplicated(articles)
<1>1. PICK n \in Nat : kept \in [1..n -> BestOf(S)]
  BY DeduplicatesAlways DEF Deduplicates
<1>2. ToSet(kept) = BestOf(S) /\ BestOf(S) \subseteq S /\ S \in SUBSET A /\ IsFiniteSet(S)
  BY DeduplicatesAlways, SetOfSeq DEF Deduplicates, BestOf
<1>3. FetchOrderDoesNotMatter(articles)
  BY FetchOrderDoesNotMatterAlways
<1>4. ASSUME NEW a \in ToSet(kept), NEW b \in ToSet(kept), Fingerprint(a) = Fingerprint(b) PROVE a = b
  <2>1. PICK i \in DOMAIN kept, j \in DOMAIN kept : a = kept[i] /\ b = kept[j]
    BY DEF ToSet
  <2>2. i = j
    BY <1>3, <1>4, <2>1 DEF FetchOrderDoesNotMatter
  <2> QED  BY <2>1, <2>2
<1>5. ASSUME NEW a \in ToSet(kept), NEW b \in ToSet(kept), a.url.at = b.url.at,
             ~HasStableId(a), ~HasStableId(b),
             a.url.extras \ TrackingParameters = b.url.extras \ TrackingParameters
      PROVE  a = b
  <2>1. a \in A /\ b \in A
    BY <1>2
  <2>2. CanonicalUrl(a.url) = CanonicalUrl(b.url)
    <3>1. PICK Places, Extras : \A c \in A : c.url \in [at : Places, extras : Extras]
      BY DEF Comparable
    <3>2. \A u \in [at : Places, extras : Extras] :
            CanonicalUrl(u) = [at |-> u.at, extras |-> u.extras \ TrackingParameters]
      <4> SUFFICES ASSUME NEW u \in [at : Places, extras : Extras]
                   PROVE  CanonicalUrl(u) = [at |-> u.at, extras |-> u.extras \ TrackingParameters]
        OBVIOUS
      <4>1. \A x : [u EXCEPT !.extras = x] = [at |-> u.at, extras |-> x]
        OBVIOUS
      <4>2. CanonicalUrl(u) = [u EXCEPT !.extras = u.extras \ TrackingParameters]
        BY DEF CanonicalUrl
      <4> QED  BY <4>1, <4>2
    <3>3. /\ CanonicalUrl(a.url) = [at |-> a.url.at, extras |-> a.url.extras \ TrackingParameters]
          /\ CanonicalUrl(b.url) = [at |-> b.url.at, extras |-> b.url.extras \ TrackingParameters]
      BY <2>1, <3>1, <3>2
    <3> QED  BY <1>5, <3>3
  <2>3. Fingerprint(a) = Fingerprint(b)
    BY <1>5, <2>2 DEF Fingerprint
  <2> QED  BY <1>4, <2>3
<1>6. ASSUME NEW a \in S, HasStableId(a)
      PROVE  \E b \in Saved(kept) : HasStableId(b) /\ b.id = a.id /\ b.provider = a.provider
  <2>1. PICK b \in BestOf(S) : Fingerprint(b) = Fingerprint(a)
    BY <1>2, GroupHasBest
  <2>2. HasStableId(b) /\ b.id = a.id /\ b.provider = a.provider
    BY <1>6, <2>1 DEF Fingerprint
  <2>3. PICK i \in 1..n : kept[i] = b
    BY <1>1, <1>2 DEF ToSet
  <2> DEFINE J == {j \in 1..n : IngestKey(kept[j]) = IngestKey(b)}
  <2>4. J \in SUBSET Nat /\ J # {}
    BY <2>3
  <2>5. PICK j \in J : \A k \in J : j <= k
    <3> HIDE DEF J
    <3> QED  BY <2>4, LeastNumber
  <2>6. j \in DOMAIN kept /\ \A k \in 1..(j - 1) : IngestKey(kept[k]) # IngestKey(kept[j])
    BY <1>1, <2>5
  <2>7. kept[j] \in Saved(kept)
    BY <2>6 DEF Saved
  <2>8. IngestKey(kept[j]) = [by |-> "provider", provider |-> a.provider, id |-> a.id]
    BY <2>2, <2>5 DEF IngestKey
  <2>9. HasStableId(kept[j]) /\ kept[j].id = a.id /\ kept[j].provider = a.provider
    <3> HIDE DEF kept
    <3> QED  BY <2>8 DEF IngestKey
  <2> QED  BY <2>7, <2>9
<1> QED  BY <1>5, <1>6 DEF EveryRecordIsStored

----------------------------------------------------------------------------
\* Power(b) up to n.
IsPower(g, b, n) == g = [k \in 0..n |-> IF k = 0 THEN 1 ELSE b * g[k - 1]]

LEMMA PowerExists ==
  ASSUME NEW b \in Nat PROVE \A n \in Nat : \E g : IsPower(g, b, n)
<1> DEFINE B == {n \in Nat : ~ \E g : IsPower(g, b, n)}
<1> SUFFICES ASSUME B # {} PROVE FALSE
  OBVIOUS
<1>1. PICK n \in B : \A m \in B : n <= m
  BY LeastNumber
<1>2. CASE n = 0
  <2> DEFINE g == [k \in 0..0 |-> 1]
  <2>1. IsPower(g, b, 0)
    BY DEF IsPower
  <2> QED  BY <1>1, <1>2, <2>1
<1>3. CASE n # 0
  <2>1. n - 1 \in Nat /\ n - 1 \notin B
    BY <1>1, <1>3
  <2>2. PICK g : IsPower(g, b, n - 1)
    BY <2>1
  <2> DEFINE h == [k \in 0..n |-> IF k = 0 THEN 1 ELSE b * g[k - 1]]
  <2>3. \A k \in 0..(n - 1) : g[k] = IF k = 0 THEN 1 ELSE b * g[k - 1]
    BY <2>2 DEF IsPower
  <2>4. \A k \in 0..(n - 1) : h[k] = g[k] /\ k \in 0..n
    BY <2>1, <2>3
  <2>5. \A k \in 0..n : k # 0 => k - 1 \in 0..(n - 1)
    BY <2>1
  <2>6. \A k \in 0..n : k # 0 => h[k - 1] = g[k - 1]
    BY <2>4, <2>5
  <2>7. h = [k \in 0..n |-> IF k = 0 THEN 1 ELSE b * h[k - 1]]
    BY <2>6
  <2>8. IsPower(h, b, n)
    BY <2>7 DEF IsPower
  <2> QED  BY <1>1, <2>8
<1> QED  BY <1>2, <1>3

LEMMA Powers ==
  ASSUME NEW b \in Nat
  PROVE  /\ Power(b)[0] = 1
         /\ \A n \in 1..MaxEvents : Power(b)[n] = b * Power(b)[n - 1]
<1>1. MaxEvents \in Nat \ {0}
  BY ImpactAssumption
<1>2. PICK g : IsPower(g, b, MaxEvents)
  BY <1>1, PowerExists
<1>3. Power(b) = [k \in 0..MaxEvents |-> IF k = 0 THEN 1 ELSE b * Power(b)[k - 1]]
  BY <1>2 DEF Power, IsPower
<1>4. \A k \in 0..MaxEvents : Power(b)[k] = IF k = 0 THEN 1 ELSE b * Power(b)[k - 1]
  BY <1>3
<1> QED  BY <1>1, <1>4

LEMMA PowersArePositive ==
  ASSUME NEW b \in Nat \ {0}
  PROVE  \A n \in 0..MaxEvents : Power(b)[n] \in Nat \ {0}
<1> DEFINE B == {n \in 0..MaxEvents : Power(b)[n] \notin Nat \ {0}}
<1> SUFFICES ASSUME B # {} PROVE FALSE
  OBVIOUS
<1>0. B \in SUBSET Nat
  BY ImpactAssumption
<1>1. PICK n \in B : \A m \in B : n <= m
  <2> HIDE DEF B
  <2> QED  BY <1>0, LeastNumber
<1>2. n # 0
  BY Powers
<1>3. n - 1 \notin B /\ n - 1 \in 0..MaxEvents /\ n \in 1..MaxEvents
  <2>1. n \in 0..MaxEvents /\ MaxEvents \in Nat
    BY <1>1, ImpactAssumption
  <2>2. n - 1 \in 0..MaxEvents /\ n \in 1..MaxEvents /\ ~(n <= n - 1)
    BY <1>2, <2>1
  <2> HIDE DEF B
  <2> QED  BY <1>1, <2>2
<1>4. PICK p \in Nat \ {0} : p = Power(b)[n - 1]
  BY <1>3
<1>5. Power(b)[n] = b * p
  BY <1>3, <1>4, Powers
<1>6. b * p \in Nat \ {0}
  BY <1>4
<1> QED  BY <1>5, <1>6

\* What the position-th strongest event keeps of its contribution.
Share(position) == Power(7)[position] * Power(20)[MaxEvents - 1 - position]

LEMMA Shares ==
  /\ MaxEvents \in Nat /\ Share(0) = Power(20)[MaxEvents - 1]
  /\ \A k \in 0..(MaxEvents - 1) : Share(k) \in Nat \ {0}
  /\ \A k \in 1..(MaxEvents - 1) : 20 * Share(k) = 7 * Share(k - 1)
<1>1. MaxEvents \in Nat \ {0}
  BY ImpactAssumption
<1>2. ASSUME NEW k \in 0..(MaxEvents - 1) PROVE Share(k) \in Nat \ {0}
  <2>1. k \in 0..MaxEvents /\ MaxEvents - 1 - k \in 0..MaxEvents
    BY <1>1
  <2>2. PICK p \in Nat \ {0}, q \in Nat \ {0} : p = Power(7)[k] /\ q = Power(20)[MaxEvents - 1 - k]
    BY <2>1, PowersArePositive
  <2>3. p * q \in Nat \ {0}
    BY <2>2
  <2> QED  BY <2>2, <2>3 DEF Share
<1>3. ASSUME NEW k \in 1..(MaxEvents - 1) PROVE 20 * Share(k) = 7 * Share(k - 1)
  <2>1. /\ k \in 1..MaxEvents /\ MaxEvents - 1 - (k - 1) \in 1..MaxEvents
        /\ (MaxEvents - 1 - (k - 1)) - 1 = MaxEvents - 1 - k
        /\ k - 1 \in 0..MaxEvents /\ MaxEvents - 1 - k \in 0..MaxEvents
    BY <1>1
  <2>2. PICK p \in Nat \ {0}, q \in Nat \ {0} : p = Power(7)[k - 1] /\ q = Power(20)[MaxEvents - 1 - k]
    BY SMTT(30), <2>1, PowersArePositive
  <2>3. Power(7)[k] = 7 * p
    BY <2>1, <2>2, Powers
  <2>4. Power(20)[MaxEvents - 1 - (k - 1)] = 20 * q
    BY <2>1, <2>2, Powers
  <2>5. 20 * ((7 * p) * q) = 7 * (p * (20 * q))
    BY <2>2
  <2>6. Share(k) = (7 * p) * q
    BY <2>2, <2>3 DEF Share
  <2>7. Share(k - 1) = p * (20 * q)
    BY <2>2, <2>4 DEF Share
  <2> QED  BY <2>5, <2>6, <2>7
<1>4. Share(0) = Power(20)[MaxEvents - 1]
  <2>1. MaxEvents - 1 \in 0..MaxEvents /\ MaxEvents - 1 - 0 = MaxEvents - 1
    BY <1>1
  <2>2. PICK q \in Nat \ {0} : q = Power(20)[MaxEvents - 1]
    BY <2>1, PowersArePositive
  <2>3. Power(7)[0] = 1
    BY Powers
  <2>4. Share(0) = 1 * q
    BY <2>1, <2>2, <2>3 DEF Share
  <2> QED  BY <2>2, <2>4
<1> QED  BY <1>1, <1>2, <1>3, <1>4

\* Events a supplier may have, no two with the same key.
EventsAre(E) ==
  /\ IsFiniteSet(E) /\ Cardinality(E) <= MaxEvents
  /\ \A e \in E : e.key \in Nat /\ e.age \in Int /\ e.age <= 3 /\ e.confidence \in Int
  /\ \A e, f \in E : e.key = f.key => e = f

LEMMA ContributionIsNumber ==
  ASSUME NEW e, e.age \in Int, e.age <= 3, e.confidence \in Int
  PROVE  /\ Contribution(e) \in Nat
         /\ e.severity = "medium" => Contribution(e) <= 640
         /\ e.confidence > 0 => Contribution(e) > 0
<1> DEFINE sure == IF e.confidence > 20 THEN 20 ELSE IF e.confidence < 0 THEN 0 ELSE e.confidence
           w == SeverityWeight(e.severity)
           r == Recency(e)
<1>1. w \in {2, 4, 7, 10} /\ (e.severity = "medium" => w = 4)
  BY DEF SeverityWeight
<1>2. r \in {1, 2, 4, 8}
  <2>1. CASE e.age <= 0
    BY <2>1 DEF Recency
  <2>2. CASE e.age = 1
    BY <2>2 DEF Recency
  <2>3. CASE e.age = 2
    BY <2>3 DEF Recency
  <2>4. CASE e.age = 3
    BY <2>4 DEF Recency
  <2> QED  BY <2>1, <2>2, <2>3, <2>4
<1>3. sure \in 0..20 /\ (e.confidence > 0 => sure > 0)
  OBVIOUS
<1>4. Contribution(e) = w * r * sure
  BY DEF Contribution
<1> HIDE DEF sure, w, r
<1>5. PICK p \in Nat : p = w * r /\ p > 0 /\ (w = 4 => p <= 32)
  BY <1>1, <1>2
<1>6. /\ p * sure \in Nat
      /\ w = 4 => p * sure <= 640
      /\ sure > 0 => p * sure > 0
  <2>1. p * sure \in Nat /\ (sure > 0 => p * sure > 0)
    BY <1>3, <1>5
  <2>2. w = 4 => p * sure <= 32 * sure
    BY <1>3, <1>5
  <2> QED  BY <1>3, <2>1, <2>2
<1> QED  BY <1>1, <1>3, <1>4, <1>5, <1>6

\* The last of some events in the order of their contributions.
Weakest(w, E) == w \in E /\ \A f \in E \ {w} : Before(f, w)

LEMMA ContributionsAreOrdered ==
  ASSUME NEW E, EventsAre(E)
  PROVE  /\ StrictOrder(E, OrderBy(E, Before))
         /\ \A e \in E : Position(e, E) = Place(E, OrderBy(E, Before), e)
         /\ \A e \in E : Position(e, E) \in 0..(Cardinality(E) - 1)
         /\ Cardinality(E) \in 0..MaxEvents
<1>1. \A e \in E : Contribution(e) \in Nat /\ e.key \in Nat
  BY ContributionIsNumber DEF EventsAre
<1>2. \A e, f \in E : e.key = f.key => e = f
  BY DEF EventsAre
<1> DEFINE before == OrderBy(E, Before)
<1>3. \A e, f \in E : <<e, f>> \in before <=> Before(e, f)
  BY DEF OrderBy
<1>4. StrictOrder(E, before)
  <2>1. \A x \in E : ~Before(x, x)
    BY <1>1 DEF Before
  <2>2. \A x, y, z \in E : Before(x, y) /\ Before(y, z) => Before(x, z)
    BY <1>1 DEF Before
  <2>3. \A x, y \in E : x # y => Before(x, y) \/ Before(y, x)
    BY <1>1, <1>2 DEF Before
  <2> HIDE DEF before
  <2> QED  BY <1>3, <2>1, <2>2, <2>3 DEF StrictOrder
<1>5. \A e \in E : Position(e, E) = Place(E, before, e)
  <2> SUFFICES ASSUME NEW e \in E PROVE Position(e, E) = Place(E, before, e)
    OBVIOUS
  <2>1. {f \in E : Before(f, e)} = {y \in E : <<y, e>> \in before}
    BY <1>3
  <2> QED  BY <2>1 DEF Position, Place
<1>6. IsFiniteSet(E) /\ Cardinality(E) \in 0..MaxEvents
  BY FS_CardinalityType, ImpactAssumption DEF EventsAre
<1> HIDE DEF before
<1>7. \A e \in E : Place(E, before, e) \in 0..(Cardinality(E) - 1)
  BY <1>4, <1>6, EarlierIsLower
<1> QED  BY <1>4, <1>5, <1>6, <1>7 DEF before

LEMMA SomeAreEvents ==
  ASSUME NEW E, EventsAre(E), NEW T \in SUBSET E PROVE EventsAre(T) /\ Cardinality(T) \in 0..MaxEvents
<1>1. IsFiniteSet(T) /\ Cardinality(T) <= Cardinality(E)
  BY FS_Subset DEF EventsAre
<1>2. Cardinality(T) \in Nat /\ Cardinality(E) \in Nat /\ MaxEvents \in Nat
  BY <1>1, FS_CardinalityType, ImpactAssumption DEF EventsAre
<1>3. Cardinality(T) <= MaxEvents
  BY <1>1, <1>2 DEF EventsAre
<1> QED  BY <1>1, <1>2, <1>3 DEF EventsAre

LEMMA LastExists ==
  ASSUME NEW E, EventsAre(E), E # {} PROVE \E w \in E : Weakest(w, E)
<1> DEFINE before == OrderBy(E, Before)
           s == InOrder(E, before)
           n == Cardinality(E)
<1>1. IsFiniteSet(E) /\ StrictOrder(E, before)
  BY ContributionsAreOrdered DEF EventsAre
<1>2. /\ n \in Nat /\ s \in [1..n -> E]
      /\ \A x \in E : \E i \in 1..n : s[i] = x
      /\ \A i, j \in 1..n : i < j <=> <<s[i], s[j]>> \in before
  <2> HIDE DEF before
  <2> QED  BY <1>1, InOrderIsSorted
<1>3. n # 0
  BY <1>1, FS_EmptySet
<1>4. \A e, f \in E : <<e, f>> \in before <=> Before(e, f)
  BY DEF OrderBy
<1> HIDE DEF before, s, n
<1>5. n \in 1..n /\ s[n] \in E
  BY <1>2, <1>3
<1>6. ASSUME NEW f \in E \ {s[n]} PROVE Before(f, s[n])
  <2>1. PICK i \in 1..n : s[i] = f
    BY <1>2
  <2>2. i < n
    BY <1>2, <2>1
  <2> QED  BY <1>2, <1>4, <1>5, <2>1, <2>2
<1> QED  BY <1>5, <1>6 DEF Weakest

\* The last one adds what is left of its contribution and changes no other's place.
LEMMA TotalTakesLast ==
  ASSUME NEW E, EventsAre(E), NEW w \in E, Weakest(w, E)
  PROVE  /\ Total(E) \in Nat /\ Total(E \ {w}) \in Nat
         /\ Cardinality(E) \in 1..MaxEvents /\ Cardinality(E \ {w}) = Cardinality(E) - 1
         /\ Contribution(w) \in Nat /\ Share(Cardinality(E) - 1) \in Nat \ {0}
         /\ Total(E) = Total(E \ {w}) + Contribution(w) * Share(Cardinality(E) - 1)
<1> DEFINE n == Cardinality(E)
           f == [e \in E |-> Contribution(e) * Discount(e, E)]
           R == E \ {w}
<1>1. IsFiniteSet(E) /\ EventsAre(R) /\ IsFiniteSet(R)
  BY SomeAreEvents DEF EventsAre
<1>2. n \in 1..MaxEvents /\ Cardinality(R) = n - 1
  <2>1. n \in 0..MaxEvents
    BY ContributionsAreOrdered
  <2>2. Cardinality(R) = n - 1 /\ Cardinality(R) \in Nat
    BY <1>1, FS_RemoveElement, FS_CardinalityType
  <2> HIDE DEF n, R
  <2> QED  BY <2>1, <2>2, ImpactAssumption
<1>3. \A T \in SUBSET E : \A e \in T :
        Position(e, T) \in 0..(MaxEvents - 1) /\ Contribution(e) * Discount(e, T) \in Nat
  <2> SUFFICES ASSUME NEW T \in SUBSET E, NEW e \in T
               PROVE  /\ Position(e, T) \in 0..(MaxEvents - 1)
                      /\ Contribution(e) * Discount(e, T) \in Nat
    OBVIOUS
  <2>1. EventsAre(T)
    BY SomeAreEvents
  <2>2. Position(e, T) \in 0..(Cardinality(T) - 1) /\ Cardinality(T) \in 0..MaxEvents
    BY <2>1, ContributionsAreOrdered
  <2>3. Position(e, T) \in 0..(MaxEvents - 1)
    BY <2>2, ImpactAssumption
  <2>4. Discount(e, T) \in Nat
    BY <2>3, Shares DEF Discount, Share
  <2>5. Contribution(e) \in Nat
    BY <2>1, ContributionIsNumber DEF EventsAre
  <2>6. Contribution(e) * Discount(e, T) \in Nat
    BY <2>4, <2>5
  <2> QED  BY <2>3, <2>6
<1>4. f \in [E -> Nat] /\ [e \in R |-> Contribution(e) * Discount(e, R)] \in [R -> Nat]
  BY <1>3
<1>5. ASSUME NEW e \in R PROVE Discount(e, R) = Discount(e, E)
  <2>1. ~Before(w, e)
    <3>1. Before(e, w) /\ e \in E
      BY DEF Weakest
    <3>2. Contribution(e) \in Nat /\ Contribution(w) \in Nat /\ e.key \in Nat /\ w.key \in Nat
      BY <3>1, ContributionIsNumber DEF EventsAre
    <3> QED  BY <3>1, <3>2 DEF Before
  <2>2. {g \in R : Before(g, e)} = {g \in E : Before(g, e)}
    BY <2>1
  <2>3. Position(e, R) = Position(e, E)
    BY <2>2 DEF Position
  <2> QED  BY <2>3 DEF Discount
<1>6. Total(R) = SumOf([e \in R |-> f[e]])
  <2>1. [e \in R |-> f[e]] = [e \in R |-> Contribution(e) * Discount(e, R)]
    BY <1>5
  <2> QED  BY <2>1 DEF Total
<1>7. Position(w, E) = n - 1
  <2>1. {g \in E : Before(g, w)} = R
    <3>1. ~Before(w, w)
      <4>1. Contribution(w) \in Nat /\ w.key \in Nat
        BY ContributionIsNumber DEF EventsAre
      <4> QED  BY <4>1 DEF Before
    <3> QED  BY <3>1 DEF Weakest
  <2> QED  BY <1>2, <2>1 DEF Position
<1>8. f[w] = Contribution(w) * Share(n - 1)
  BY <1>7 DEF Discount, Share
<1>9. Total(E) = SumOf(f) /\ SumOf(f) = f[w] + SumOf([e \in R |-> f[e]])
  <2>1. Total(E) = SumOf(f)
    BY DEF Total
  <2>2. SumOf(f) = f[w] + SumOf([e \in E \ {w} |-> f[e]])
    <3> HIDE DEF f
    <3> QED  BY <1>1, <1>4, SumWithout
  <2> QED  BY <2>1, <2>2
<1>10. SumOf(f) \in Nat /\ SumOf([e \in R |-> f[e]]) \in Nat
  <2>1. [e \in R |-> f[e]] \in [R -> Nat]
    BY <1>4
  <2> HIDE DEF f, R
  <2> QED  BY <1>1, <1>4, <2>1, SumIsNumber
<1>11. Contribution(w) \in Nat /\ Share(n - 1) \in Nat \ {0}
  <2>1. Contribution(w) \in Nat
    BY ContributionIsNumber DEF EventsAre
  <2>2. n - 1 \in 0..(MaxEvents - 1)
    BY <1>2, ImpactAssumption
  <2> QED  BY <2>1, <2>2, Shares
<1>12. Total(E) = Contribution(w) * Share(n - 1) + Total(R)
  BY <1>6, <1>8, <1>9
<1>13. Contribution(w) * Share(n - 1) \in Nat
  BY <1>11
<1>14. Total(E) \in Nat /\ Total(R) \in Nat
  BY <1>6, <1>9, <1>10
<1> HIDE DEF n, R, f
<1>15. Total(E) = Total(R) + Contribution(w) * Share(n - 1)
  BY <1>12, <1>13, <1>14
<1> QED  BY <1>2, <1>11, <1>14, <1>15 DEF n, R

\* Taking one event away takes at least what is left of the weakest one's contribution.
EveryOneWeighs(E) ==
  \A e \in E, w \in E : Weakest(w, E) =>
    Total(E) >= Total(E \ {e}) + Contribution(w) * Share(Cardinality(E) - 1)

LEMMA EveryOneWeighsAlways ==
  ASSUME NEW E, EventsAre(E) PROVE EveryOneWeighs(E)
<1> DEFINE B == {T \in SUBSET E : ~EveryOneWeighs(T)}
<1> SUFFICES ASSUME B # {} PROVE FALSE
  OBVIOUS
<1>0. B \in SUBSET SUBSET E /\ IsFiniteSet(E)
  BY DEF EventsAre
<1>1. PICK T \in B : \A U \in B : U \subseteq T => U = T
  <2> HIDE DEF B
  <2> QED  BY <1>0, LeastPart
<1>2. PICK e \in T, w \in T :
        /\ Weakest(w, T)
        /\ ~(Total(T) >= Total(T \ {e}) + Contribution(w) * Share(Cardinality(T) - 1))
  BY <1>1 DEF EveryOneWeighs
<1> DEFINE n == Cardinality(T)
           U == T \ {w}
           V == T \ {e}
           W == (T \ {w}) \ {e}
<1>3. EventsAre(T)
  BY <1>1, SomeAreEvents
<1>4. /\ Total(T) \in Nat /\ Total(U) \in Nat /\ n \in 1..MaxEvents /\ Cardinality(U) = n - 1
      /\ Contribution(w) \in Nat /\ Share(n - 1) \in Nat \ {0}
      /\ Total(T) = Total(U) + Contribution(w) * Share(n - 1)
  BY <1>2, <1>3, TotalTakesLast
<1>5. e # w
  <2>1. Contribution(w) * Share(n - 1) \in Nat
    BY <1>4
  <2>2. e = w => Total(T) = Total(T \ {e}) + Contribution(w) * Share(n - 1)
    BY <1>4
  <2> HIDE DEF n, U
  <2>3. e = w => Total(T \ {e}) = Total(U)
    BY DEF U
  <2>4. ~(Total(T) >= Total(T \ {e}) + Contribution(w) * Share(n - 1))
    BY <1>2 DEF n
  <2> QED  BY <1>4, <2>1, <2>2, <2>3, <2>4
<1>6. EventsAre(U) /\ EventsAre(V) /\ e \in U /\ U # {}
  BY <1>3, <1>5, SomeAreEvents
<1>7. PICK l \in U : Weakest(l, U)
  BY <1>6, LastExists
<1>8. U \notin B
  <2>1. U \subseteq T /\ U # T
    BY <1>2
  <2> HIDE DEF B, U
  <2> QED  BY <1>1, <2>1
<1>9. Total(U) >= Total(W) + Contribution(l) * Share((n - 1) - 1)
  <2>1. EveryOneWeighs(U)
    BY <1>1, <1>8
  <2> HIDE DEF n
  <2> QED  BY <1>4, <1>6, <1>7, <2>1 DEF EveryOneWeighs
<1>10. Weakest(w, V) /\ w \in V
  BY <1>2, <1>5 DEF Weakest
<1>11. /\ Total(V) \in Nat /\ Total(V \ {w}) \in Nat
       /\ Share(Cardinality(V) - 1) \in Nat
       /\ Total(V) = Total(V \ {w}) + Contribution(w) * Share(Cardinality(V) - 1)
  <2> HIDE DEF V
  <2> QED  BY <1>6, <1>10, TotalTakesLast
<1>12. V \ {w} = W
  OBVIOUS
<1>13. Cardinality(V) = n - 1
  <2>1. IsFiniteSet(T) /\ e \in T
    BY <1>3 DEF EventsAre
  <2> QED  BY <2>1, FS_RemoveElement
<1>14. Contribution(l) >= Contribution(w) /\ Contribution(l) \in Nat
  <2>1. Before(l, w)
    BY <1>2, <1>7 DEF Weakest
  <2>2. l.age \in Int /\ l.age <= 3 /\ l.confidence \in Int
    BY <1>7, <1>3 DEF EventsAre
  <2>3. Contribution(l) \in Nat
    BY <2>2, ContributionIsNumber
  <2> QED  BY <1>4, <2>1, <2>3 DEF Before
<1> HIDE DEF U, V, W, n
<1>15. PICK s \in Nat : s = Share((n - 1) - 1)
  BY <1>11, <1>13
<1>16. PICK c \in Nat, d \in Nat : c = Contribution(w) /\ d = Contribution(l)
  BY <1>4, <1>14
<1>17. d * s >= c * s /\ d * s \in Nat /\ c * s \in Nat
  <2>1. d >= c
    BY <1>14, <1>16
  <2>2. PICK k \in Nat : d = c + k
    <3>1. d - c \in Nat /\ d = c + (d - c)
      BY <2>1
    <3> QED  BY <3>1
  <2>3. d * s = c * s + k * s /\ k * s \in Nat /\ c * s \in Nat
    BY <2>2
  <2> QED  BY <2>3
<1>18. PICK q \in Nat : q = Contribution(w) * Share(n - 1)
  <2>1. Contribution(w) * Share(n - 1) \in Nat
    BY <1>4
  <2> QED  BY <2>1
<1>19. Total(U) >= Total(W) + d * s
  BY <1>9, <1>15, <1>16
<1>20. Total(V) = Total(W) + c * s /\ Total(W) \in Nat
  BY <1>11, <1>12, <1>13, <1>15, <1>16
<1>21. Total(T) = Total(U) + q
  BY <1>4, <1>18
<1>22. ~(Total(T) >= Total(V) + q)
  BY <1>2, <1>18 DEF n, V
<1>23. Total(U) >= Total(V)
  BY <1>4, <1>11, <1>17, <1>19, <1>20
<1> QED  BY <1>4, <1>11, <1>18, <1>21, <1>22, <1>23

LEMMA TotalOfNone == Total({}) = 0
<1> DEFINE f == [e \in {} |-> Contribution(e) * Discount(e, {})]
<1>1. IsFiniteSet({}) /\ f \in [{} -> Nat] /\ \A y \in {} : f[y] = 0
  BY FS_EmptySet
<1>2. SumOf(f) = 0
  <2> HIDE DEF f
  <2> QED  BY <1>1, SumOfNothing
<1> QED  BY <1>2 DEF Total

LEMMA TotalIsNumber == ASSUME NEW E, EventsAre(E) PROVE Total(E) \in Nat
<1>1. CASE E = {}
  BY <1>1, TotalOfNone
<1>2. CASE E # {}
  BY <1>2, LastExists, TotalTakesLast
<1> QED  BY <1>1, <1>2

(***************************************************************************)
(* More news never lowers a score (impact.py:121-125), and as long as the  *)
(* detector believes an event at all it raises it.                         *)
(***************************************************************************)
THEOREM NewsNeverLowersAlways ==
  ASSUME NEW events, EventsAre(events)
  PROVE  /\ NewsNeverLowers(events)
         /\ (\A e \in events : e.confidence > 0) =>
               \A e \in events : Total(events) > Total(events \ {e})
<1> SUFFICES ASSUME NEW e \in events
             PROVE  /\ Total(events) >= Total(events \ {e})
                    /\ (\A f \in events : f.confidence > 0) => Total(events) > Total(events \ {e})
  BY DEF NewsNeverLowers
<1>1. PICK w \in events : Weakest(w, events)
  BY LastExists
<1>2. Total(events) >= Total(events \ {e}) + Contribution(w) * Share(Cardinality(events) - 1)
  BY <1>1, EveryOneWeighsAlways DEF EveryOneWeighs
<1>3. Contribution(w) \in Nat /\ (w.confidence > 0 => Contribution(w) > 0)
  BY ContributionIsNumber DEF EventsAre
<1>4. PICK s \in Nat \ {0} : s = Share(Cardinality(events) - 1)
  BY <1>1, TotalTakesLast
<1>5. PICK p : p = Contribution(w) * s
  OBVIOUS
<1>6. p \in Nat /\ (w.confidence > 0 => p > 0)
  BY <1>3, <1>4, <1>5
<1>7. Total(events) \in Int /\ Total(events \ {e}) \in Int
  <2>1. Total(events) \in Nat
    BY <1>1, TotalTakesLast
  <2>2. EventsAre(events \ {e})
    BY SomeAreEvents
  <2> QED  BY <2>1, <2>2, TotalIsNumber
<1>8. Total(events) >= Total(events \ {e}) + p
  BY <1>2, <1>4, <1>5
<1> QED  BY <1>6, <1>7, <1>8

(***************************************************************************)
(* The drivers of a score stand in the order of their contributions, each  *)
(* pair decided, by the key if by nothing else (impact.py:126-143).        *)
(***************************************************************************)
THEOREM DriversDecidedAlways ==
  ASSUME NEW events, EventsAre(events) PROVE DriversDecided(events)
<1> DEFINE before == OrderBy(events, Before)
           s == InOrder(events, before)
<1>1. IsFiniteSet(events) /\ StrictOrder(events, before)
  BY ContributionsAreOrdered DEF EventsAre
<1>2. /\ s \in [1..Cardinality(events) -> events]
      /\ \A i, j \in 1..Cardinality(events) : i < j <=> <<s[i], s[j]>> \in before
  <2> HIDE DEF before
  <2> QED  BY <1>1, InOrderIsSorted
<1>3. \A e, f \in events : <<e, f>> \in before <=> Before(e, f)
  BY DEF OrderBy
<1>4. Drivers(events) = s
  BY DEF Drivers
<1> HIDE DEF s, before
<1> QED  BY <1>2, <1>3, <1>4 DEF DriversDecided

\* What positions could still add leaves room for it.
MediumIsBounded(T) ==
  T # {} => 13 * Total(T) + 4480 * Share(Cardinality(T) - 1) <= 12800 * Share(0)

LEMMA MediumIsBoundedAlways ==
  ASSUME NEW E, EventsAre(E), \A e \in E : e.severity = "medium" PROVE MediumIsBounded(E)
<1> DEFINE B == {T \in SUBSET E : ~MediumIsBounded(T)}
<1> SUFFICES ASSUME B # {} PROVE FALSE
  OBVIOUS
<1>0. B \in SUBSET SUBSET E /\ IsFiniteSet(E)
  BY DEF EventsAre
<1>1. PICK T \in B : \A U \in B : U \subseteq T => U = T
  <2> HIDE DEF B
  <2> QED  BY <1>0, LeastPart
<1>2. T # {} /\ T \in SUBSET E /\ ~(13 * Total(T) + 4480 * Share(Cardinality(T) - 1) <= 12800 * Share(0))
  BY <1>1 DEF MediumIsBounded
<1>3. EventsAre(T)
  BY <1>2, SomeAreEvents
<1>4. PICK w \in T : Weakest(w, T)
  BY <1>2, <1>3, LastExists
<1> DEFINE n == Cardinality(T)
           U == T \ {w}
<1>5. /\ Total(T) \in Nat /\ Total(U) \in Nat /\ n \in 1..MaxEvents /\ Cardinality(U) = n - 1
      /\ Contribution(w) \in Nat /\ Share(n - 1) \in Nat \ {0}
      /\ Total(T) = Total(U) + Contribution(w) * Share(n - 1)
  BY <1>3, <1>4, TotalTakesLast
<1>6. Contribution(w) <= 640
  <2>1. w \in E
    BY <1>2
  <2> QED  BY <2>1, ContributionIsNumber DEF EventsAre
<1>7. PICK c \in Nat, s \in Nat : c = Contribution(w) /\ s = Share(n - 1)
  BY <1>5
<1>8. c * s \in Nat /\ c * s <= 640 * s
  <2>1. c * s \in Nat
    BY <1>7
  <2>2. PICK k \in Nat : c + k = 640
    <3>1. 640 - c \in Nat /\ c + (640 - c) = 640
      BY <1>6, <1>7
    <3> QED  BY <3>1
  <2>3. 640 * s = c * s + k * s /\ k * s \in Nat
    <3>1. (c + k) * s = c * s + k * s /\ k * s \in Nat
      BY <1>7, <2>2
    <3> QED  BY <2>2, <3>1
  <2> QED  BY <2>1, <2>3
<1>9. U \notin B /\ U \in SUBSET E
  <2>1. U \subseteq T /\ U # T
    BY <1>4
  <2> HIDE DEF B, U
  <2> QED  BY <1>1, <1>2, <2>1
<1>10. Total(T) = Total(U) + c * s /\ 13 * Total(T) + 4480 * s > 12800 * Share(0) /\ Share(0) \in Nat
  <2>1. Share(0) \in Nat
    BY Shares, ImpactAssumption
  <2> HIDE DEF U, n
  <2>2. ~(13 * Total(T) + 4480 * s <= 12800 * Share(0))
    BY <1>2, <1>7 DEF n
  <2> QED  BY <1>5, <1>7, <2>1, <2>2
<1>11. PICK p : p = c * s
  OBVIOUS
<1>12. CASE U = {}
  <2>1. n = 1
    <3>1. Cardinality(U) = 0
      BY <1>12, FS_EmptySet
    <3> HIDE DEF U, n
    <3> QED  BY <1>5, <3>1
  <2>2. s = Share(0)
    <3>1. n - 1 = 0
      BY <2>1
    <3> QED  BY <1>7, <3>1
  <2>3. Total(T) = p
    <3>1. Total(U) = 0
      BY <1>12, TotalOfNone
    <3> HIDE DEF U
    <3> QED  BY <1>8, <1>10, <1>11, <3>1
  <2> QED  BY <1>7, <1>8, <1>10, <1>11, <2>2, <2>3
<1>13. CASE U # {}
  <2>1. n # 1 /\ n - 1 \in 1..(MaxEvents - 1)
    <3>1. IsFiniteSet(U)
      BY <1>3, SomeAreEvents DEF EventsAre
    <3>2. Cardinality(U) # 0
      BY <1>13, <3>1, FS_EmptySet
    <3> HIDE DEF n, U
    <3> QED  BY <1>5, <3>2, ImpactAssumption
  <2>2. 20 * Share(n - 1) = 7 * Share((n - 1) - 1) /\ Share((n - 1) - 1) \in Nat
    <3>1. (n - 1) - 1 \in 0..(MaxEvents - 1)
      BY <2>1, ImpactAssumption
    <3> HIDE DEF n
    <3> QED  BY <2>1, <3>1, Shares
  <2>3. 13 * Total(U) + 4480 * Share((n - 1) - 1) <= 12800 * Share(0)
    <3>1. MediumIsBounded(U)
      BY <1>9
    <3> HIDE DEF U, n
    <3> QED  BY <1>5, <1>13, <3>1 DEF MediumIsBounded
  <2> HIDE DEF U, n
  <2> QED  BY <1>5, <1>7, <1>8, <1>10, <1>11, <2>2, <2>3
<1> QED  BY <1>12, <1>13

LEMMA OneEvent ==
  ASSUME NEW e, EventsAre({e})
  PROVE  Total({e}) = Contribution(e) * Share(0)
<1>1. Weakest(e, {e}) /\ {e} \ {e} = {} /\ Cardinality({e}) = 1
  BY FS_Singleton DEF Weakest
<1>2. /\ Contribution(e) \in Nat /\ Share(1 - 1) \in Nat
      /\ Total({e}) = Total({}) + Contribution(e) * Share(1 - 1)
  <2>1. e \in {e}
    OBVIOUS
  <2> QED  BY <1>1, <2>1, TotalTakesLast
<1>3. 1 - 1 = 0
  OBVIOUS
<1>4. Contribution(e) * Share(0) \in Nat
  BY <1>2, <1>3
<1> QED  BY <1>2, <1>3, <1>4, TotalOfNone

(***************************************************************************)
(* However many reports of medium severity, however fresh and certain,     *)
(* they come to less than one critical event of that day that the detector *)
(* is 0.95 sure of (impact.py:35-41), which alone is severe.               *)
(***************************************************************************)
THEOREM SwarmStaysBelowAlways ==
  ASSUME NEW events, EventsAre(events) PROVE SwarmStaysBelow(events)
<1> DEFINE x == Fresh("critical")
<1>1. EventsAre({x})
  <2>1. x.key = 0 /\ x.age = 0 /\ x.confidence = 19
    BY DEF Fresh
  <2> HIDE DEF x
  <2>2. IsFiniteSet({x}) /\ Cardinality({x}) = 1
    BY FS_Singleton
  <2> QED  BY <2>1, <2>2, ImpactAssumption DEF EventsAre
<1>2. Contribution(x) = 1520
  <2>1. x.severity = "critical" /\ x.age = 0 /\ x.confidence = 19
    BY DEF Fresh
  <2> HIDE DEF x
  <2>2. SeverityWeight(x.severity) = 10 /\ Recency(x) = 8
    BY <2>1 DEF SeverityWeight, Recency
  <2> QED  BY <2>1, <2>2 DEF Contribution
<1>3. PICK p \in Nat \ {0} : p = Share(0) /\ p = Power(20)[MaxEvents - 1]
  BY Shares, ImpactAssumption
<1>4. Total({x}) = 1520 * p
  BY <1>1, <1>2, <1>3, OneEvent
<1>5. Band({x}) = "severe"
  <2>1. Scale = p * 1600
    BY <1>3 DEF Scale, Full
  <2>2. 1300 * Total({x}) >= 20 * 50 * Scale
    BY <1>3, <1>4, <2>1
  <2>3. AtLeast({x}, 50)
    BY <2>2 DEF AtLeast
  <2> QED  BY <2>3 DEF Band
<1>6. ASSUME \A e \in events : e.severity = "medium" PROVE Total(events) < Total({x})
  <2>1. CASE events = {}
    BY <1>3, <1>4, <2>1, TotalOfNone
  <2>2. CASE events # {}
    <3>1. 13 * Total(events) + 4480 * Share(Cardinality(events) - 1) <= 12800 * p
      BY <1>3, <1>6, <2>2, MediumIsBoundedAlways DEF MediumIsBounded
    <3>2. Share(Cardinality(events) - 1) \in Nat /\ Total(events) \in Nat
      BY <2>2, LastExists, TotalTakesLast
    <3> QED  BY <1>3, <1>4, <3>1, <3>2
  <2> QED  BY <2>1, <2>2
<1> QED  BY <1>5, <1>6 DEF SwarmStaysBelow

LEMMA FewerWeighLess ==
  ASSUME NEW E, EventsAre(E), \A e \in E : e.confidence > 0, NEW F \in SUBSET E, F # E
  PROVE  Total(F) < Total(E)
<1> DEFINE B == {U \in SUBSET E : F \subseteq U /\ F # U /\ ~(Total(F) < Total(U))}
<1> SUFFICES ASSUME B # {} PROVE FALSE
  BY DEF B
<1>0. B \in SUBSET SUBSET E /\ IsFiniteSet(E)
  BY DEF EventsAre
<1>1. PICK U \in B : \A V \in B : V \subseteq U => V = U
  <2> HIDE DEF B
  <2> QED  BY <1>0, LeastPart
<1>2. PICK e : e \in U /\ e \notin F
  BY <1>1
<1> DEFINE V == U \ {e}
<1>3. EventsAre(U) /\ EventsAre(V) /\ EventsAre(F)
  BY <1>1, SomeAreEvents
<1>4. Total(U) \in Nat /\ Total(V) \in Nat /\ Total(F) \in Nat
  BY <1>3, TotalIsNumber
<1>5. Total(U) > Total(V)
  <2>1. \A f \in U : f.confidence > 0
    BY <1>1
  <2> QED  BY <1>2, <1>3, <2>1, NewsNeverLowersAlways
<1>6. CASE V = F
  BY <1>1, <1>4, <1>5, <1>6
<1>7. CASE V # F
  <2>1. V \notin B
    <3>1. V \subseteq U /\ V # U
      BY <1>2
    <3> HIDE DEF B, V
    <3> QED  BY <1>1, <3>1
  <2>2. V \in SUBSET E /\ F \subseteq V
    BY <1>1, <1>2
  <2>3. Total(F) < Total(V)
    BY <1>7, <2>1, <2>2
  <2> QED  BY <1>1, <1>4, <1>5, <2>3
<1> QED  BY <1>6, <1>7

(***************************************************************************)
(* The watch page is never upside down: a supplier with more of the same   *)
(* recent news stands higher (impact.py:197-251, watchlist.py's order).    *)
(***************************************************************************)
THEOREM MostExposedFirstAlways ==
  ASSUME NEW watched \in SUBSET Nat, IsFiniteSet(watched), NEW active, NEW events,
         EventsAre(events), \A e \in events : e.confidence > 0
  PROVE  MostExposedFirst(watched, active, events)
<1> DEFINE W == watched \cap active
           total == [s \in W |-> Total(EventsOf(s, events))]
           Above(s, t) == total[s] > total[t] \/ (total[s] = total[t] /\ s < t)
           before == OrderBy(W, Above)
           shown == InOrder(W, before)
<1>1. WatchedImpact(watched, active, events) = shown
  BY DEF WatchedImpact
<1>2. \A s : EventsOf(s, events) \in SUBSET events /\ EventsAre(EventsOf(s, events))
  <2>1. \A s : EventsOf(s, events) \in SUBSET events
    BY DEF EventsOf
  <2> QED  BY <2>1, SomeAreEvents
<1>3. \A s \in W : s \in Nat /\ total[s] \in Nat /\ total[s] = Total(EventsOf(s, events))
  BY <1>2, TotalIsNumber
<1>4. \A s, t \in W : <<s, t>> \in before <=> Above(s, t)
  BY DEF OrderBy
<1>5. IsFiniteSet(W)
  BY FS_Subset
<1>6. StrictOrder(W, before)
  <2>1. \A s, t \in W : <<s, t>> \in before <=> total[s] > total[t] \/ (total[s] = total[t] /\ s < t)
    BY <1>4
  <2> HIDE DEF W, total, before
  <2> QED  BY <1>3, <2>1 DEF StrictOrder
<1>7. /\ Cardinality(W) \in Nat /\ shown \in [1..Cardinality(W) -> W]
      /\ \A x \in W : \E i \in 1..Cardinality(W) : shown[i] = x
      /\ \A i, j \in 1..Cardinality(W) : i < j <=> <<shown[i], shown[j]>> \in before
  <2> HIDE DEF W, before
  <2> QED  BY <1>5, <1>6, InOrderIsSorted
<1>8. ASSUME NEW s \in watched
      PROVE  ImpactOf(s, active, events) = {} <=> \A i \in DOMAIN shown : shown[i] # s
  <2>1. ImpactOf(s, active, events) = {} <=> s \notin W
    <3>1. ImpactOf(s, active, events) = {[supplier |-> t, band |-> Band(EventsOf(t, events))] : t \in {s} \cap active}
      BY DEF ImpactOf
    <3>2. s \notin active => {s} \cap active = {}
      OBVIOUS
    <3>3. s \in active => s \in {s} \cap active
      OBVIOUS
    <3> QED  BY <3>1, <3>2, <3>3
  <2>2. s \notin W <=> \A i \in DOMAIN shown : shown[i] # s
    <3> HIDE DEF W, shown
    <3> QED  BY <1>7
  <2> QED  BY <2>1, <2>2
<1>9. ASSUME NEW i \in DOMAIN shown, NEW j \in DOMAIN shown, i < j,
             EventsOf(shown[i], events) \subseteq EventsOf(shown[j], events),
             EventsOf(shown[i], events) # EventsOf(shown[j], events)
      PROVE  FALSE
  <2>1. i \in 1..Cardinality(W) /\ j \in 1..Cardinality(W) /\ shown[i] \in W /\ shown[j] \in W
    <3> HIDE DEF W, shown
    <3> QED  BY <1>7
  <2>2. PICK s \in W, t \in W : s = shown[i] /\ t = shown[j]
    BY <2>1
  <2>3. Above(s, t)
    <3>1. <<s, t>> \in before
      <4> HIDE DEF W, shown, before
      <4> QED  BY <1>7, <1>9, <2>1, <2>2
    <3> QED  BY <1>4, <3>1
  <2>4. Total(EventsOf(s, events)) < Total(EventsOf(t, events))
    <3> DEFINE E == EventsOf(t, events)
               F == EventsOf(s, events)
    <3>1. EventsAre(E) /\ F \in SUBSET E /\ F # E /\ \A e \in E : e.confidence > 0
      <4>1. F \subseteq E /\ F # E
        BY <1>9, <2>2
      <4>2. EventsAre(E) /\ E \in SUBSET events
        BY <1>2
      <4> HIDE DEF E, F
      <4> QED  BY <4>1, <4>2
    <3> HIDE DEF E, F
    <3>2. Total(F) < Total(E)
      BY <3>1, FewerWeighLess
    <3> QED  BY <3>2 DEF E, F
  <2>5. total[s] >= total[t]
    <3>1. PICK a, b : a = total[s] /\ b = total[t]
      OBVIOUS
    <3>2. a \in Nat /\ b \in Nat
      BY <1>3, <3>1
    <3>3. a > b \/ (a = b /\ s < t)
      BY <2>3, <3>1
    <3> HIDE DEF W, total, before, shown, Above
    <3>4. a >= b
      BY <3>2, <3>3
    <3> QED  BY <3>1, <3>4
  <2>6. PICK a, b \in Nat : a = Total(EventsOf(s, events)) /\ b = Total(EventsOf(t, events))
    BY <1>2, TotalIsNumber
  <2>7. a >= b /\ a < b
    BY <1>3, <2>4, <2>5, <2>6
  <2> HIDE DEF W, total, before, shown, Above
  <2> QED  BY <2>6, <2>7
<1> HIDE DEF shown
<1> QED  BY <1>1, <1>8, <1>9 DEF MostExposedFirst

----------------------------------------------------------------------------
\* What a retriever may give.
ResultsOver(X) == {s \in Seq(X) : IsInjective(s)}

LEMMA ScalingKeepsOrder ==
  ASSUME NEW p \in Nat, NEW q \in Nat, NEW r \in Nat \ {0}
  PROVE  p > q <=> p * r > q * r
<1>1. ASSUME NEW x \in Nat, NEW y \in Nat, x > y PROVE x * r > y * r
  <2>1. PICK k \in Nat \ {0} : x = y + k
    <3>1. x - y \in Nat \ {0} /\ x = y + (x - y)
      BY <1>1
    <3> QED  BY <3>1
  <2>2. x * r = y * r + k * r /\ k * r \in Nat \ {0} /\ y * r \in Nat
    BY <2>1
  <2> QED  BY <2>2
<1>2. p * r \in Nat /\ q * r \in Nat
  OBVIOUS
<1>3. CASE p > q
  BY <1>1, <1>3
<1>4. CASE p = q
  BY <1>2, <1>4
<1>5. CASE q > p
  <2>1. q * r > p * r
    BY <1>1, <1>5
  <2> QED  BY <1>2, <1>5, <2>1
<1> QED  BY <1>3, <1>4, <1>5

\* a/b, c/d and e/f: what is at least as large as something larger is larger.
LEMMA FractionsAreOrdered ==
  ASSUME NEW a \in Nat \ {0}, NEW b \in Nat \ {0}, NEW c \in Nat \ {0}, NEW d \in Nat \ {0},
         NEW e \in Nat \ {0}, NEW f \in Nat \ {0}
  PROVE  /\ a * d > c * b /\ c * f > e * d => a * f > e * b
         /\ a * d > c * b /\ c * f = e * d => a * f > e * b
         /\ a * d = c * b /\ c * f > e * d => a * f > e * b
         /\ a * d = c * b /\ c * f = e * d => a * f = e * b
<1>1. PICK ad \in Nat, cb \in Nat, cf \in Nat, ed \in Nat, af \in Nat, eb \in Nat :
        ad = a * d /\ cb = c * b /\ cf = c * f /\ ed = e * d /\ af = a * f /\ eb = e * b
  <2>1. a * d \in Nat /\ c * b \in Nat /\ c * f \in Nat /\ e * d \in Nat /\ a * f \in Nat /\ e * b \in Nat
    OBVIOUS
  <2> QED  BY <2>1
<1>2. ad * f = af * d /\ cb * f = cf * b /\ ed * b = eb * d
  <2>1. (a * d) * f = (a * f) * d
    OBVIOUS
  <2>2. (c * b) * f = (c * f) * b
    OBVIOUS
  <2>3. (e * d) * b = (e * b) * d
    OBVIOUS
  <2> QED  BY <1>1, <2>1, <2>2, <2>3
<1>3. PICK x \in Nat, y \in Nat, z \in Nat : x = af * d /\ y = cf * b /\ z = eb * d
  <2>1. af * d \in Nat /\ cf * b \in Nat /\ eb * d \in Nat
    OBVIOUS
  <2> QED  BY <2>1
<1>4. /\ ad > cb <=> x > y
      /\ cf > ed <=> y > z
      /\ af > eb <=> x > z
      /\ eb > af <=> z > x
  <2>1. ad > cb <=> ad * f > cb * f
    BY ScalingKeepsOrder
  <2>2. cf > ed <=> cf * b > ed * b
    BY ScalingKeepsOrder
  <2>3. (af > eb <=> af * d > eb * d) /\ (eb > af <=> eb * d > af * d)
    BY ScalingKeepsOrder
  <2> QED  BY <1>2, <1>3, <2>1, <2>2, <2>3
<1>5. (ad = cb => x = y) /\ (cf = ed => y = z)
  BY <1>2, <1>3
<1>6. (x = z => af = eb)
  BY <1>4
<1> QED  BY <1>1, <1>3, <1>4, <1>5, <1>6

----------------------------------------------------------------------------
LEMMA RankIs ==
  ASSUME NEW X, NEW s \in ResultsOver(X)
  PROVE  /\ IsFiniteSet(ToSet(s)) /\ ToSet(s) \subseteq X /\ Len(s) \in Nat /\ DOMAIN s = 1..Len(s)
         /\ \A i \in 1..Len(s) : s[i] \in ToSet(s) /\ RankIn(s[i], s) = i
         /\ \A x \in ToSet(s) : RankIn(x, s) \in 1..Len(s) /\ s[RankIn(x, s)] = x
<1>1. s \in Seq(X) /\ Len(s) \in Nat /\ DOMAIN s = 1..Len(s)
  BY DEF ResultsOver
<1>2. s \in Surjection(1..Len(s), ToSet(s))
  BY <1>1 DEF Surjection, ToSet
<1>3. IsFiniteSet(ToSet(s))
  BY <1>1, <1>2, FS_Interval, FS_Surjection
<1>4. ASSUME NEW x \in ToSet(s) PROVE RankIn(x, s) \in 1..Len(s) /\ s[RankIn(x, s)] = x
  <2>1. \E i \in DOMAIN s : s[i] = x
    BY DEF ToSet
  <2> QED  BY <1>1, <2>1 DEF RankIn
<1>5. ASSUME NEW i \in 1..Len(s) PROVE s[i] \in ToSet(s) /\ RankIn(s[i], s) = i
  <2>1. s[i] \in ToSet(s)
    BY <1>1 DEF ToSet
  <2>2. RankIn(s[i], s) \in DOMAIN s /\ s[RankIn(s[i], s)] = s[i]
    BY <1>1, <1>4, <2>1
  <2> QED  BY <1>1, <2>1, <2>2 DEF ResultsOver, IsInjective
<1>6. ToSet(s) \subseteq X
  BY <1>1 DEF ToSet
<1> QED  BY <1>1, <1>3, <1>4, <1>5, <1>6

FoundBy(lexical, vector) == ToSet(lexical) \cup ToSet(vector)

Standing(x, lexical, vector) ==
  IF x \in ToSet(lexical) THEN RankIn(x, lexical) ELSE Len(lexical) + RankIn(x, vector)

\* One of the found before another: Fused's order.
Higher(x, y, lexical, vector) ==
  LET a == Score(x, lexical, vector)
      b == Score(y, lexical, vector)
  IN \/ a.num * b.den > b.num * a.den
     \/ a.num * b.den = b.num * a.den /\ Standing(x, lexical, vector) < Standing(y, lexical, vector)

HigherFirst(lexical, vector) ==
  {p \in FoundBy(lexical, vector) \X FoundBy(lexical, vector) : Higher(p[1], p[2], lexical, vector)}

LEMMA FusedIs ==
  ASSUME NEW lexical, NEW vector
  PROVE  Fused(lexical, vector) = InOrder(FoundBy(lexical, vector), HigherFirst(lexical, vector))
<1> DEFINE D == ToSet(lexical) \cup ToSet(vector)
           score == [x \in D |-> Score(x, lexical, vector)]
           Scaled(x, y) == score[x].num * score[y].den
           Stands(x) == IF x \in ToSet(lexical) THEN RankIn(x, lexical)
                        ELSE Len(lexical) + RankIn(x, vector)
           Above(x, y) == \/ Scaled(x, y) > Scaled(y, x)
                          \/ Scaled(x, y) = Scaled(y, x) /\ Stands(x) < Stands(y)
<1>1. Fused(lexical, vector) = InOrder(D, OrderBy(D, Above))
  BY DEF Fused
<1>2. \A x, y \in D : Above(x, y) <=> Higher(x, y, lexical, vector)
  BY DEF Higher, Standing
<1>3. OrderBy(D, Above) = {p \in D \X D : Above(p[1], p[2])}
  BY DEF OrderBy
<1> HIDE DEF Above
<1>4. {p \in D \X D : Above(p[1], p[2])} = HigherFirst(lexical, vector)
  BY <1>2 DEF HigherFirst, FoundBy
<1> QED  BY <1>1, <1>3, <1>4 DEF FoundBy

LEMMA ScoreIsFraction ==
  ASSUME NEW X, NEW lexical \in ResultsOver(X), NEW vector \in ResultsOver(X), NEW x \in FoundBy(lexical, vector)
  PROVE  /\ Score(x, lexical, vector).num \in Nat \ {0} /\ Score(x, lexical, vector).den \in Nat \ {0}
         /\ x \notin ToSet(lexical) =>
              /\ x \in ToSet(vector)
              /\ Score(x, lexical, vector).num = 1
              /\ Score(x, lexical, vector).den = RrfK + RankIn(x, vector)
         /\ x \notin ToSet(vector) =>
              /\ x \in ToSet(lexical)
              /\ Score(x, lexical, vector).num = 1
              /\ Score(x, lexical, vector).den = RrfK + RankIn(x, lexical)
         /\ x \in ToSet(lexical) /\ x \in ToSet(vector) =>
              /\ Score(x, lexical, vector).num = (RrfK + RankIn(x, lexical)) + (RrfK + RankIn(x, vector))
              /\ Score(x, lexical, vector).den = (RrfK + RankIn(x, lexical)) * (RrfK + RankIn(x, vector))
<1>1. RrfK \in Nat
  BY RankingAssumption
<1>2. CASE x \in ToSet(lexical) /\ x \in ToSet(vector)
  <2>1. PICK i \in Nat \ {0}, j \in Nat \ {0} :
          i = RrfK + RankIn(x, lexical) /\ j = RrfK + RankIn(x, vector)
    <3>1. RankIn(x, lexical) \in Nat \ {0} /\ RankIn(x, vector) \in Nat \ {0}
      BY <1>2, RankIs
    <3>2. RrfK + RankIn(x, lexical) \in Nat \ {0} /\ RrfK + RankIn(x, vector) \in Nat \ {0}
      BY <1>1, <3>1
    <3> QED  BY <3>2
  <2>2. Score(x, lexical, vector) = [num |-> i + j, den |-> i * j]
    BY <1>2, <2>1 DEF Score
  <2>3. i + j \in Nat \ {0} /\ i * j \in Nat \ {0}
    BY <2>1
  <2> QED  BY <1>2, <2>1, <2>2, <2>3
<1>3. CASE x \notin ToSet(vector)
  <2>1. x \in ToSet(lexical)
    BY <1>3 DEF FoundBy
  <2>2. PICK i \in Nat \ {0} : i = RrfK + RankIn(x, lexical)
    <3>1. RankIn(x, lexical) \in Nat \ {0}
      BY <2>1, RankIs
    <3>2. RrfK + RankIn(x, lexical) \in Nat \ {0}
      BY <1>1, <3>1
    <3> QED  BY <3>2
  <2>3. Score(x, lexical, vector) = [num |-> 1, den |-> i]
    BY <1>3, <2>1, <2>2 DEF Score
  <2> QED  BY <1>3, <2>1, <2>2, <2>3
<1>4. CASE x \notin ToSet(lexical)
  <2>1. x \in ToSet(vector)
    BY <1>4 DEF FoundBy
  <2>2. PICK i \in Nat \ {0} : i = RrfK + RankIn(x, vector)
    <3>1. RankIn(x, vector) \in Nat \ {0}
      BY <2>1, RankIs
    <3>2. RrfK + RankIn(x, vector) \in Nat \ {0}
      BY <1>1, <3>1
    <3> QED  BY <3>2
  <2>3. Score(x, lexical, vector) = [num |-> 1, den |-> i]
    BY <1>4, <2>1, <2>2 DEF Score
  <2> QED  BY <1>4, <2>1, <2>2, <2>3
<1> QED  BY <1>2, <1>3, <1>4

LEMMA FusionIsDecided ==
  ASSUME NEW X, NEW lexical \in ResultsOver(X), NEW vector \in ResultsOver(X)
  PROVE  /\ IsFiniteSet(FoundBy(lexical, vector))
         /\ StrictOrder(FoundBy(lexical, vector), HigherFirst(lexical, vector))
<1> DEFINE D == FoundBy(lexical, vector)
           before == HigherFirst(lexical, vector)
           Num(x) == Score(x, lexical, vector).num
           Den(x) == Score(x, lexical, vector).den
           Stands(x) == Standing(x, lexical, vector)
<1>1. IsFiniteSet(D)
  BY RankIs, FS_Union DEF FoundBy
<1>2. \A x \in D : Num(x) \in Nat \ {0} /\ Den(x) \in Nat \ {0}
  BY ScoreIsFraction
<1>3. \A x \in D : Stands(x) \in Nat
  <2> SUFFICES ASSUME NEW x \in D PROVE Stands(x) \in Nat
    OBVIOUS
  <2>1. x \in ToSet(lexical) => RankIn(x, lexical) \in Nat
    BY RankIs
  <2>2. x \in ToSet(vector) => RankIn(x, vector) \in Nat
    BY RankIs
  <2>3. Len(lexical) \in Nat
    BY RankIs
  <2> QED  BY <2>1, <2>2, <2>3 DEF Standing, FoundBy
<1>4. \A x, y \in D : Stands(x) = Stands(y) => x = y
  <2> SUFFICES ASSUME NEW x \in D, NEW y \in D, Stands(x) = Stands(y) PROVE x = y
    OBVIOUS
  <2>1. \A z \in ToSet(lexical) : RankIn(z, lexical) \in 1..Len(lexical) /\ lexical[RankIn(z, lexical)] = z
    BY RankIs
  <2>2. \A z \in ToSet(vector) : RankIn(z, vector) \in 1..Len(vector) /\ vector[RankIn(z, vector)] = z
    BY RankIs
  <2>3. Len(lexical) \in Nat /\ Len(vector) \in Nat
    BY RankIs
  <2>4. CASE x \in ToSet(lexical) /\ y \in ToSet(lexical)
    BY <2>1, <2>4 DEF Standing
  <2>5. CASE x \notin ToSet(lexical) /\ y \notin ToSet(lexical)
    <3>1. x \in ToSet(vector) /\ y \in ToSet(vector)
      BY <2>5 DEF FoundBy
    <3>2. RankIn(x, vector) \in Nat /\ RankIn(y, vector) \in Nat
      BY <2>2, <3>1
    <3>3. Len(lexical) + RankIn(x, vector) = Len(lexical) + RankIn(y, vector)
      BY <2>5 DEF Standing
    <3>4. RankIn(x, vector) = RankIn(y, vector)
      BY <2>3, <3>2, <3>3
    <3> QED  BY <2>2, <3>1, <3>4
  <2>6. ASSUME NEW u \in D, NEW v \in D, u \in ToSet(lexical), v \notin ToSet(lexical)
        PROVE  Stands(u) < Stands(v)
    <3>1. v \in ToSet(vector)
      BY <2>6 DEF FoundBy
    <3>2. RankIn(u, lexical) \in 1..Len(lexical) /\ RankIn(v, vector) \in 1..Len(vector)
      BY <2>1, <2>2, <2>6, <3>1
    <3>3. Stands(u) = RankIn(u, lexical) /\ Stands(v) = Len(lexical) + RankIn(v, vector)
      BY <2>6 DEF Standing
    <3> QED  BY <2>3, <3>2, <3>3
  <2>7. CASE x \in ToSet(lexical) /\ y \notin ToSet(lexical)
    <3>1. Stands(x) < Stands(y) /\ Stands(x) \in Nat /\ Stands(y) \in Nat
      BY <1>3, <2>6, <2>7
    <3> HIDE DEF Stands
    <3> QED  BY <3>1
  <2>8. CASE y \in ToSet(lexical) /\ x \notin ToSet(lexical)
    <3>1. Stands(y) < Stands(x) /\ Stands(x) \in Nat /\ Stands(y) \in Nat
      BY <1>3, <2>6, <2>8
    <3> HIDE DEF Stands
    <3> QED  BY <3>1
  <2> QED  BY <2>4, <2>5, <2>7, <2>8
<1>5. \A x, y \in D : <<x, y>> \in before <=>
        \/ Num(x) * Den(y) > Num(y) * Den(x)
        \/ Num(x) * Den(y) = Num(y) * Den(x) /\ Stands(x) < Stands(y)
  BY DEF HigherFirst, Higher
<1> HIDE DEF D, before, Num, Den, Stands
<1>6. \A x \in D : <<x, x>> \notin before
  <2> SUFFICES ASSUME NEW x \in D PROVE <<x, x>> \notin before
    OBVIOUS
  <2>1. Num(x) * Den(x) \in Nat /\ Stands(x) \in Nat
    BY <1>2, <1>3
  <2> QED  BY <1>5, <2>1
<1>7. \A x, y, z \in D : <<x, y>> \in before /\ <<y, z>> \in before => <<x, z>> \in before
  <2> SUFFICES ASSUME NEW x \in D, NEW y \in D, NEW z \in D, <<x, y>> \in before, <<y, z>> \in before
               PROVE  <<x, z>> \in before
    OBVIOUS
  <2>1. /\ Num(x) * Den(y) > Num(y) * Den(x) /\ Num(y) * Den(z) > Num(z) * Den(y)
           => Num(x) * Den(z) > Num(z) * Den(x)
        /\ Num(x) * Den(y) > Num(y) * Den(x) /\ Num(y) * Den(z) = Num(z) * Den(y)
           => Num(x) * Den(z) > Num(z) * Den(x)
        /\ Num(x) * Den(y) = Num(y) * Den(x) /\ Num(y) * Den(z) > Num(z) * Den(y)
           => Num(x) * Den(z) > Num(z) * Den(x)
        /\ Num(x) * Den(y) = Num(y) * Den(x) /\ Num(y) * Den(z) = Num(z) * Den(y)
           => Num(x) * Den(z) = Num(z) * Den(x)
    BY <1>2, FractionsAreOrdered
  <2>2. Stands(x) < Stands(y) /\ Stands(y) < Stands(z) => Stands(x) < Stands(z)
    BY <1>3
  <2>3. \/ Num(x) * Den(z) > Num(z) * Den(x)
        \/ Num(x) * Den(z) = Num(z) * Den(x) /\ Stands(x) < Stands(z)
    BY <1>5, <2>1, <2>2
  <2> QED  BY <1>5, <2>3
<1>8. \A x, y \in D : x # y => <<x, y>> \in before \/ <<y, x>> \in before
  <2> SUFFICES ASSUME NEW x \in D, NEW y \in D, x # y PROVE <<x, y>> \in before \/ <<y, x>> \in before
    OBVIOUS
  <2>1. PICK a \in Nat, b \in Nat : a = Num(x) * Den(y) /\ b = Num(y) * Den(x)
    <3>1. Num(x) * Den(y) \in Nat /\ Num(y) * Den(x) \in Nat
      BY <1>2
    <3> QED  BY <3>1
  <2>2. Stands(x) < Stands(y) \/ Stands(y) < Stands(x)
    <3>1. Stands(x) # Stands(y) /\ Stands(x) \in Nat /\ Stands(y) \in Nat
      BY <1>3, <1>4
    <3> QED  BY <3>1
  <2>3. a > b \/ b > a \/ a = b
    OBVIOUS
  <2> QED  BY <1>5, <2>1, <2>2, <2>3
<1>9. StrictOrder(D, before)
  BY <1>6, <1>7, <1>8 DEF StrictOrder
<1> QED  BY <1>1, <1>9 DEF D, before

LEMMA FusedIsSorted ==
  ASSUME NEW X, NEW lexical \in ResultsOver(X), NEW vector \in ResultsOver(X)
  PROVE  /\ Fused(lexical, vector) \in ResultsOver(X)
         /\ ToSet(Fused(lexical, vector)) = FoundBy(lexical, vector)
         /\ \A x, y \in FoundBy(lexical, vector) :
              <<x, y>> \in HigherFirst(lexical, vector) =>
                RankIn(x, Fused(lexical, vector)) < RankIn(y, Fused(lexical, vector))
<1> DEFINE D == FoundBy(lexical, vector)
           before == HigherFirst(lexical, vector)
           s == Fused(lexical, vector)
           n == Cardinality(D)
<1>1. IsFiniteSet(D) /\ StrictOrder(D, before) /\ s = InOrder(D, before)
  BY FusionIsDecided, FusedIs
<1>2. D \subseteq X
  BY RankIs DEF FoundBy
<1> HIDE DEF D, before, s
<1>3. /\ n \in Nat /\ s \in [1..n -> D]
      /\ \A x \in D : \E i \in 1..n : s[i] = x
      /\ \A i, j \in 1..n : i < j <=> <<s[i], s[j]>> \in before
  BY <1>1, InOrderIsSorted
<1> HIDE DEF n
<1>4. s \in Seq(X) /\ DOMAIN s = 1..n /\ Len(s) = n
  BY <1>2, <1>3
<1>5. \A i, j \in 1..n : s[i] = s[j] => i = j
  <2> SUFFICES ASSUME NEW i \in 1..n, NEW j \in 1..n, s[i] = s[j] PROVE i = j
    OBVIOUS
  <2>1. s[i] \in D /\ s[j] \in D
    BY <1>3
  <2>2. <<s[i], s[j]>> \notin before /\ <<s[j], s[i]>> \notin before
    BY <1>1, <2>1 DEF StrictOrder
  <2> QED  BY <1>3, <2>2
<1>6. s \in ResultsOver(X)
  BY <1>4, <1>5 DEF ResultsOver, IsInjective
<1>7. ToSet(s) = D
  BY <1>3, <1>4 DEF ToSet
<1>8. ASSUME NEW x \in D, NEW y \in D, <<x, y>> \in before PROVE RankIn(x, s) < RankIn(y, s)
  <2>1. /\ RankIn(x, s) \in 1..n /\ s[RankIn(x, s)] = x
        /\ RankIn(y, s) \in 1..n /\ s[RankIn(y, s)] = y
    BY <1>4, <1>6, <1>7, RankIs
  <2> QED  BY <1>3, <1>8, <2>1
<1> QED  BY <1>6, <1>7, <1>8 DEF D, before, s

\* Higher, for both of two retrievers, is higher in what is made of them.
LEMMA BothHigher ==
  ASSUME NEW X, NEW lexical \in ResultsOver(X), NEW vector \in ResultsOver(X),
         NEW x \in ToSet(lexical), x \in ToSet(vector), NEW y \in FoundBy(lexical, vector),
         y \in ToSet(lexical) => RankIn(x, lexical) < RankIn(y, lexical),
         y \in ToSet(vector) => RankIn(x, vector) < RankIn(y, vector)
  PROVE  <<x, y>> \in HigherFirst(lexical, vector)
<1>1. RrfK \in Nat
  BY RankingAssumption
<1>2. RankIn(x, lexical) \in Nat \ {0} /\ RankIn(x, vector) \in Nat \ {0}
  BY RankIs
<1>3. PICK i \in Nat \ {0}, j \in Nat \ {0} :
        i = RrfK + RankIn(x, lexical) /\ j = RrfK + RankIn(x, vector)
  <2>1. RrfK + RankIn(x, lexical) \in Nat \ {0} /\ RrfK + RankIn(x, vector) \in Nat \ {0}
    BY <1>1, <1>2
  <2> QED  BY <2>1
<1>4. x \in FoundBy(lexical, vector)
  BY DEF FoundBy
<1>5. Score(x, lexical, vector).num = i + j /\ Score(x, lexical, vector).den = i * j
  BY <1>3, <1>4, ScoreIsFraction
<1>6. i * j \in Nat \ {0}
  BY <1>3
<1>7. Score(x, lexical, vector).num * Score(y, lexical, vector).den >
        Score(y, lexical, vector).num * Score(x, lexical, vector).den
  <2>1. CASE y \notin ToSet(lexical)
    <3>1. /\ y \in ToSet(vector) /\ Score(y, lexical, vector).num = 1
          /\ Score(y, lexical, vector).den = RrfK + RankIn(y, vector)
      BY <2>1, ScoreIsFraction
    <3>2. RankIn(y, vector) \in Nat
      BY <3>1, RankIs
    <3>3. PICK k \in Nat \ {0} : RrfK + RankIn(y, vector) = j + k
      <4>1. RankIn(y, vector) - RankIn(x, vector) \in Nat \ {0}
        BY <1>2, <3>1, <3>2
      <4>2. RrfK + RankIn(y, vector) = j + (RankIn(y, vector) - RankIn(x, vector))
        BY <1>1, <1>2, <1>3, <3>2
      <4> QED  BY <4>1, <4>2
    <3>4. (i + j) * (j + k) = i * j + (i * k + j * (j + k)) /\ i * k + j * (j + k) \in Nat \ {0}
      <4>1. i * k \in Nat \ {0} /\ j * (j + k) \in Nat \ {0}
        BY <1>3, <3>3
      <4>2. (i + j) * (j + k) = i * j + (i * k + j * (j + k))
        BY <1>3, <3>3
      <4> QED  BY <4>1, <4>2
    <3>5. (i + j) * (j + k) > 1 * (i * j)
      BY <1>6, <3>4
    <3> QED  BY <1>5, <3>1, <3>3, <3>5
  <2>2. CASE y \notin ToSet(vector)
    <3>1. /\ y \in ToSet(lexical) /\ Score(y, lexical, vector).num = 1
          /\ Score(y, lexical, vector).den = RrfK + RankIn(y, lexical)
      BY <2>2, ScoreIsFraction
    <3>2. RankIn(y, lexical) \in Nat
      BY <3>1, RankIs
    <3>3. PICK k \in Nat \ {0} : RrfK + RankIn(y, lexical) = i + k
      <4>1. RankIn(y, lexical) - RankIn(x, lexical) \in Nat \ {0}
        BY <1>2, <3>1, <3>2
      <4>2. RrfK + RankIn(y, lexical) = i + (RankIn(y, lexical) - RankIn(x, lexical))
        BY <1>1, <1>2, <1>3, <3>2
      <4> QED  BY <4>1, <4>2
    <3>4. (i + j) * (i + k) = i * j + (j * k + i * (i + k)) /\ j * k + i * (i + k) \in Nat \ {0}
      <4>1. j * k \in Nat \ {0} /\ i * (i + k) \in Nat \ {0}
        BY <1>3, <3>3
      <4>2. (i + j) * (i + k) = i * j + (j * k + i * (i + k))
        BY <1>3, <3>3
      <4> QED  BY <4>1, <4>2
    <3>5. (i + j) * (i + k) > 1 * (i * j)
      BY <1>6, <3>4
    <3> QED  BY <1>5, <3>1, <3>3, <3>5
  <2>3. CASE y \in ToSet(lexical) /\ y \in ToSet(vector)
    <3>1. RankIn(y, lexical) \in Nat /\ RankIn(y, vector) \in Nat
      BY <2>3, RankIs
    <3>2. PICK k \in Nat \ {0} : RrfK + RankIn(y, lexical) = i + k
      <4>1. RankIn(y, lexical) - RankIn(x, lexical) \in Nat \ {0}
        BY <1>2, <2>3, <3>1
      <4>2. RrfK + RankIn(y, lexical) = i + (RankIn(y, lexical) - RankIn(x, lexical))
        BY <1>1, <1>2, <1>3, <3>1
      <4> QED  BY <4>1, <4>2
    <3>3. PICK m \in Nat \ {0} : RrfK + RankIn(y, vector) = j + m
      <4>1. RankIn(y, vector) - RankIn(x, vector) \in Nat \ {0}
        BY <1>2, <2>3, <3>1
      <4>2. RrfK + RankIn(y, vector) = j + (RankIn(y, vector) - RankIn(x, vector))
        BY <1>1, <1>2, <1>3, <3>1
      <4> QED  BY <4>1, <4>2
    <3>4. /\ Score(y, lexical, vector).num = (i + k) + (j + m)
          /\ Score(y, lexical, vector).den = (i + k) * (j + m)
      BY <2>3, <3>2, <3>3, ScoreIsFraction
    <3>5. PICK p \in Nat \ {0}, q \in Nat \ {0} : p = i + k /\ q = j + m
      BY <1>3, <3>2, <3>3
    <3>6. (i + j) * (p * q) = i * (p * q) + j * (p * q)
      BY <1>3, <3>5
    <3>7. (p + q) * (i * j) = p * (i * j) + q * (i * j)
      BY <1>3, <3>5
    <3>8. i * (p * q) > p * (i * j)
      <4>1. i * (p * q) = q * (i * p) /\ p * (i * j) = j * (i * p) /\ i * p \in Nat \ {0}
        <5>1. i * (p * q) = q * (i * p)
          OBVIOUS
        <5>2. p * (i * j) = j * (i * p)
          OBVIOUS
        <5>3. i * p \in Nat \ {0}
          OBVIOUS
        <5> QED  BY <5>1, <5>2, <5>3
      <4>2. q > j
        BY <1>3, <3>3, <3>5
      <4>3. q * (i * p) > j * (i * p)
        BY <1>3, <3>5, <4>1, <4>2, ScalingKeepsOrder
      <4> QED  BY <4>1, <4>3
    <3>9. j * (p * q) > q * (i * j)
      <4>1. j * (p * q) = p * (j * q) /\ q * (i * j) = i * (j * q) /\ j * q \in Nat \ {0}
        <5>1. j * (p * q) = p * (j * q)
          OBVIOUS
        <5>2. q * (i * j) = i * (j * q)
          OBVIOUS
        <5>3. j * q \in Nat \ {0}
          OBVIOUS
        <5> QED  BY <5>1, <5>2, <5>3
      <4>2. p > i
        BY <1>3, <3>2, <3>5
      <4>3. p * (j * q) > i * (j * q)
        BY <1>3, <3>5, <4>1, <4>2, ScalingKeepsOrder
      <4> QED  BY <4>1, <4>3
    <3>10. PICK a \in Nat, b \in Nat, c \in Nat, d \in Nat :
             a = i * (p * q) /\ b = j * (p * q) /\ c = p * (i * j) /\ d = q * (i * j)
      <4>1. i * (p * q) \in Nat /\ j * (p * q) \in Nat /\ p * (i * j) \in Nat /\ q * (i * j) \in Nat
        BY <1>3, <3>5
      <4> QED  BY <4>1
    <3>11. a + b > c + d
      BY <3>8, <3>9, <3>10
    <3>12. (i + j) * (p * q) > (p + q) * (i * j)
      BY <3>6, <3>7, <3>10, <3>11
    <3> QED  BY <1>5, <3>4, <3>5, <3>12
  <2> QED  BY <2>1, <2>2, <2>3
<1> QED  BY <1>4, <1>7 DEF HigherFirst, Higher

\* What one retriever alone finds stays in its order.
LEMMA OneRetriever ==
  ASSUME NEW X, NEW s \in ResultsOver(X)
  PROVE  Fused(s, <<>>) = s /\ Fused(<<>>, s) = s
<1>1. <<>> \in ResultsOver(X) /\ ToSet(<<>>) = {}
  BY DEF ResultsOver, IsInjective, ToSet
<1>2. /\ Len(s) \in Nat /\ DOMAIN s = 1..Len(s) /\ s \in Seq(X)
      /\ \A i \in 1..Len(s) : s[i] \in ToSet(s) /\ RankIn(s[i], s) = i
      /\ \A x \in ToSet(s) : RankIn(x, s) \in 1..Len(s) /\ s[RankIn(x, s)] = x
  BY RankIs DEF ResultsOver
<1>3. \A x \in ToSet(s) : \E i \in 1..Len(s) : s[i] = x
  BY <1>2
<1>4. RrfK \in Nat
  BY RankingAssumption
<1>5. s \in [1..Len(s) -> ToSet(s)]
  BY <1>2
<1>6. ASSUME NEW lexical \in ResultsOver(X), NEW vector \in ResultsOver(X), FoundBy(lexical, vector) = ToSet(s),
             \A x \in ToSet(s) : /\ Score(x, lexical, vector).num = 1
                                 /\ Score(x, lexical, vector).den = RrfK + RankIn(x, s)
      PROVE  Fused(lexical, vector) = s
  <2>1. \A i, j \in 1..Len(s) : i < j => <<s[i], s[j]>> \in HigherFirst(lexical, vector)
    <3> SUFFICES ASSUME NEW i \in 1..Len(s), NEW j \in 1..Len(s), i < j
                 PROVE  <<s[i], s[j]>> \in HigherFirst(lexical, vector)
      OBVIOUS
    <3>1. PICK x \in ToSet(s), y \in ToSet(s) : x = s[i] /\ y = s[j]
      BY <1>2
    <3>2. /\ Score(x, lexical, vector).num = 1 /\ Score(x, lexical, vector).den = RrfK + i
          /\ Score(y, lexical, vector).num = 1 /\ Score(y, lexical, vector).den = RrfK + j
      BY <1>2, <1>6, <3>1
    <3>3. 1 * (RrfK + j) > 1 * (RrfK + i)
      BY <1>4
    <3>4. Higher(x, y, lexical, vector)
      BY <3>2, <3>3 DEF Higher
    <3> QED  BY <1>6, <3>1, <3>4 DEF HigherFirst
  <2>2. IsFiniteSet(ToSet(s)) /\ StrictOrder(ToSet(s), HigherFirst(lexical, vector))
    BY <1>6, FusionIsDecided
  <2>3. s = InOrder(ToSet(s), HigherFirst(lexical, vector))
    BY <1>2, <1>3, <1>5, <2>1, <2>2, OrderIsUnique
  <2> QED  BY <1>6, <2>3, FusedIs
<1>7. Fused(s, <<>>) = s
  <2>1. FoundBy(s, <<>>) = ToSet(s) /\ \A x \in ToSet(s) : x \notin ToSet(<<>>)
    BY <1>1 DEF FoundBy
  <2>2. \A x \in ToSet(s) : /\ Score(x, s, <<>>).num = 1
                            /\ Score(x, s, <<>>).den = RrfK + RankIn(x, s)
    BY <1>1, <2>1, ScoreIsFraction
  <2> QED  BY <1>1, <1>6, <2>1, <2>2
<1>8. Fused(<<>>, s) = s
  <2>1. FoundBy(<<>>, s) = ToSet(s) /\ \A x \in ToSet(s) : x \notin ToSet(<<>>)
    BY <1>1 DEF FoundBy
  <2>2. \A x \in ToSet(s) : /\ Score(x, <<>>, s).num = 1
                            /\ Score(x, <<>>, s).den = RrfK + RankIn(x, s)
    BY <1>1, <2>1, ScoreIsFraction
  <2> QED  BY <1>1, <1>6, <2>1, <2>2
<1> QED  BY <1>7, <1>8

(***************************************************************************)
(* Reciprocal rank fusion is fair, whatever RRF_K is (hybrid.py:fuse).     *)
(***************************************************************************)
THEOREM FusionIsFairAlways ==
  ASSUME NEW X, NEW lexical \in ResultsOver(X), NEW vector \in ResultsOver(X)
  PROVE  FusionIsFair(lexical, vector)
<1> DEFINE fused == Fused(lexical, vector)
           Above(x, y, hits) == /\ x \in ToSet(hits)
                                /\ y \in ToSet(hits) => RankIn(x, hits) < RankIn(y, hits)
<1>1. ToSet(fused) = FoundBy(lexical, vector) /\ IsInjective(fused)
  BY FusedIsSorted DEF ResultsOver
<1>2. ASSUME NEW x \in ToSet(fused), NEW y \in ToSet(fused), Above(x, y, lexical), Above(x, y, vector)
      PROVE  RankIn(x, fused) < RankIn(y, fused)
  <2>1. <<x, y>> \in HigherFirst(lexical, vector)
    BY <1>1, <1>2, BothHigher
  <2> QED  BY <1>1, <2>1, FusedIsSorted
<1>3. Fused(lexical, <<>>) = lexical /\ Fused(<<>>, vector) = vector
  BY OneRetriever
<1>4. ToSet(fused) = ToSet(lexical) \cup ToSet(vector)
  BY <1>1 DEF FoundBy
<1> QED  BY <1>1, <1>2, <1>3, <1>4 DEF FusionIsFair

LEMMA FirstIs ==
  ASSUME NEW X, NEW s \in ResultsOver(X), NEW m \in Nat
  PROVE  /\ First(s, m) \in ResultsOver(X) /\ Len(First(s, m)) \in Nat /\ Len(First(s, m)) <= m
         /\ Len(First(s, m)) = IF Len(s) > m THEN m ELSE Len(s)
         /\ \A i \in 1..Len(First(s, m)) : First(s, m)[i] = s[i]
<1> DEFINE n == IF Len(s) > m THEN m ELSE Len(s)
<1>1. s \in Seq(X) /\ Len(s) \in Nat /\ DOMAIN s = 1..Len(s) /\ IsInjective(s)
  BY DEF ResultsOver
<1>2. n \in Nat /\ n <= Len(s) /\ n <= m
  BY <1>1
<1>3. First(s, m) = SubSeq(s, 1, n)
  BY DEF First
<1> HIDE DEF n
<1>4. SubSeq(s, 1, n) = [i \in 1..n |-> s[i]]
  BY <1>1, <1>2
<1>5. SubSeq(s, 1, n) \in Seq(X) /\ Len(SubSeq(s, 1, n)) = n
  BY <1>1, <1>2, <1>4
<1>6. IsInjective(SubSeq(s, 1, n))
  <2>1. \A i \in 1..n : i \in DOMAIN s
    BY <1>1, <1>2
  <2> QED  BY <1>1, <1>4, <2>1 DEF IsInjective
<1>7. First(s, m) \in ResultsOver(X) /\ Len(First(s, m)) = n /\ \A i \in 1..n : First(s, m)[i] = s[i]
  BY <1>3, <1>4, <1>5, <1>6 DEF ResultsOver
<1>8. n = IF Len(s) > m THEN m ELSE Len(s)
  BY DEF n
<1> QED  BY <1>2, <1>7, <1>8

(***************************************************************************)
(* A page is never longer than asked for; without a neighbour the words'   *)
(* order stands, and what both put first is first (hybrid.py:search).      *)
(***************************************************************************)
THEOREM ModeTellsWhatContributedAlways ==
  ASSUME NEW X, NEW lexical \in ResultsOver(X), NEW vector \in ResultsOver(X), NEW asks \in BOOLEAN,
         NEW provider \in {"none", "fails", "answers"}, NEW limit \in Nat \ {0}
  PROVE  ModeTellsWhatContributed(asks, provider, lexical, vector, limit)
<1> DEFINE words == First(lexical, limit * Multiplier)
           near == First(vector, limit * Multiplier)
           outcome == Search(asks, provider, lexical, vector, limit)
<1>1. limit * Multiplier \in Nat /\ limit * Multiplier >= limit
  <2>1. PICK k \in Nat : Multiplier = k + 1
    <3>1. Multiplier - 1 \in Nat /\ Multiplier = (Multiplier - 1) + 1
      BY RankingAssumption
    <3> QED  BY <3>1
  <2>2. limit * (k + 1) = limit * k + limit /\ limit * k \in Nat
    BY <2>1
  <2> QED  BY <2>1, <2>2
<1>2. /\ words \in ResultsOver(X) /\ near \in ResultsOver(X) /\ Len(lexical) \in Nat /\ Len(vector) \in Nat
      /\ Len(words) = IF Len(lexical) > limit * Multiplier THEN limit * Multiplier ELSE Len(lexical)
      /\ Len(near) = IF Len(vector) > limit * Multiplier THEN limit * Multiplier ELSE Len(vector)
      /\ \A i \in 1..Len(words) : words[i] = lexical[i]
      /\ \A i \in 1..Len(near) : near[i] = vector[i]
  BY <1>1, FirstIs, RankIs
<1>3. outcome \in {[mode |-> "lexical", hits |-> <<>>],
                   [mode |-> "lexical", hits |-> First(Fused(words, <<>>), limit)],
                   [mode |-> "degraded", hits |-> First(Fused(words, <<>>), limit)],
                   [mode |-> "hybrid", hits |-> First(Fused(words, near), limit)]}
      /\ (outcome = [mode |-> "lexical", hits |-> <<>>] => ~asks
            \/ outcome = [mode |-> "lexical", hits |-> First(Fused(words, <<>>), limit)])
      /\ (outcome.mode = "hybrid" => near # <<>>)
  <2>1. CASE ~asks
    <3>1. outcome = [mode |-> "lexical", hits |-> <<>>]
      BY <2>1 DEF Search
    <3> HIDE DEF outcome, words, near
    <3> QED  BY <2>1, <3>1
  <2>2. CASE asks /\ provider = "none"
    <3>1. outcome = [mode |-> "lexical", hits |-> First(Fused(words, <<>>), limit)]
      BY <2>2 DEF Search
    <3> HIDE DEF outcome, words, near
    <3> QED  BY <3>1
  <2>3. CASE asks /\ provider = "fails"
    <3>1. outcome = [mode |-> "degraded", hits |-> First(Fused(words, <<>>), limit)]
      BY <2>3 DEF Search
    <3> HIDE DEF outcome, words, near
    <3> QED  BY <3>1
  <2>4. CASE asks /\ provider = "answers" /\ near = <<>>
    <3>1. outcome = [mode |-> "degraded", hits |-> First(Fused(words, <<>>), limit)]
      BY <2>4 DEF Search
    <3> HIDE DEF outcome, words, near
    <3> QED  BY <3>1
  <2>5. CASE asks /\ provider = "answers" /\ near # <<>>
    <3>1. outcome = [mode |-> "hybrid", hits |-> First(Fused(words, near), limit)]
      BY <2>5 DEF Search
    <3> HIDE DEF outcome, words, near
    <3> QED  BY <2>5, <3>1
  <2> QED  BY <2>1, <2>2, <2>3, <2>4, <2>5
<1> HIDE DEF outcome
<1>4. Fused(words, <<>>) = words /\ Fused(words, near) \in ResultsOver(X)
  BY <1>2, OneRetriever, FusedIsSorted
<1>5. First(words, limit) = First(lexical, limit)
  <2>1. /\ First(words, limit) \in ResultsOver(X) /\ First(lexical, limit) \in ResultsOver(X)
        /\ Len(First(words, limit)) = Len(First(lexical, limit))
        /\ \A i \in 1..Len(First(words, limit)) : First(words, limit)[i] = words[i]
        /\ \A i \in 1..Len(First(lexical, limit)) : First(lexical, limit)[i] = lexical[i]
    <3>1. /\ First(words, limit) \in ResultsOver(X) /\ First(lexical, limit) \in ResultsOver(X)
          /\ Len(First(words, limit)) = IF Len(words) > limit THEN limit ELSE Len(words)
          /\ Len(First(lexical, limit)) = IF Len(lexical) > limit THEN limit ELSE Len(lexical)
          /\ \A i \in 1..Len(First(words, limit)) : First(words, limit)[i] = words[i]
          /\ \A i \in 1..Len(First(lexical, limit)) : First(lexical, limit)[i] = lexical[i]
      <4> HIDE DEF words
      <4> QED  BY <1>2, FirstIs
    <3> HIDE DEF words
    <3>2. PICK m \in Nat : m = limit * Multiplier /\ m >= limit
      BY <1>1
    <3>3. Len(First(words, limit)) = Len(First(lexical, limit))
      BY <1>2, <3>1, <3>2
    <3> QED  BY <3>1, <3>3
  <2>2. \A i \in 1..Len(First(words, limit)) : i \in 1..Len(words)
    <3>1. /\ Len(First(words, limit)) \in Nat /\ Len(words) \in Nat
          /\ Len(First(words, limit)) = IF Len(words) > limit THEN limit ELSE Len(words)
      <4> HIDE DEF words
      <4> QED  BY <1>2, FirstIs, RankIs
    <3> HIDE DEF words
    <3> QED  BY <3>1
  <2>3. PICK a \in Seq(X), b \in Seq(X) : a = First(words, limit) /\ b = First(lexical, limit)
    BY <2>1 DEF ResultsOver
  <2>4. Len(a) = Len(b) /\ \A i \in 1..Len(a) : a[i] = b[i]
    <3> HIDE DEF words
    <3> QED  BY <1>2, <2>1, <2>2, <2>3
  <2>5. a = b
    BY <2>4
  <2> QED  BY <2>3, <2>5
<1>6. Len(outcome.hits) <= limit
  <2>1. \A s \in ResultsOver(X) : Len(First(s, limit)) <= limit
    BY FirstIs
  <2>2. outcome.hits = <<>> \/ \E s \in ResultsOver(X) : outcome.hits = First(s, limit)
    BY <1>2, <1>3, <1>4
  <2> QED  BY <2>1, <2>2
<1>7. outcome.mode # "hybrid" => outcome.hits = First(lexical, limit) \/ (outcome.hits = <<>> /\ ~asks)
  BY <1>3, <1>4, <1>5
<1>8. ASSUME outcome.mode = "hybrid", lexical # <<>>, Head(lexical) = Head(vector)
      PROVE  Head(outcome.hits) = Head(lexical)
  <2>1. outcome.hits = First(Fused(words, near), limit) /\ near # <<>>
    BY <1>3, <1>8
  <2>2. Len(words) >= 1 /\ Len(near) >= 1 /\ Len(vector) >= 1 /\ Len(lexical) >= 1
    <3>1. Len(near) \in Nat /\ Len(near) # 0
      BY <1>2, <2>1 DEF ResultsOver
    <3>2. Len(lexical) # 0
      BY <1>8 DEF ResultsOver
    <3> HIDE DEF words, near
    <3>3. PICK m \in Nat : m = limit * Multiplier /\ m >= limit
      BY <1>1
    <3> QED  BY <1>2, <3>1, <3>2, <3>3
  <2>3. PICK x : x = lexical[1]
    OBVIOUS
  <2>4. Head(lexical) = x /\ words[1] = x /\ near[1] = x
    <3>1. Head(lexical) = lexical[1] /\ Head(vector) = vector[1]
      BY DEF ResultsOver
    <3> HIDE DEF words, near
    <3>2. words[1] = lexical[1] /\ near[1] = vector[1]
      <4>1. Len(words) \in Nat /\ Len(near) \in Nat
        BY <1>2, RankIs
      <4> QED  BY <1>2, <2>2, <4>1
    <3> QED  BY <1>8, <2>3, <3>1, <3>2
  <2> HIDE DEF words, near
  <2>5. /\ Len(words) \in Nat /\ Len(near) \in Nat
        /\ x \in ToSet(words) /\ RankIn(x, words) = 1
        /\ x \in ToSet(near) /\ RankIn(x, near) = 1
    <3>1. Len(words) \in Nat /\ Len(near) \in Nat
      BY <1>2, RankIs
    <3>2. 1 \in 1..Len(words) /\ 1 \in 1..Len(near)
      BY <2>2, <3>1
    <3>3. words[1] \in ToSet(words) /\ RankIn(words[1], words) = 1
      BY <1>2, <3>2, RankIs
    <3>4. near[1] \in ToSet(near) /\ RankIn(near[1], near) = 1
      BY <1>2, <3>2, RankIs
    <3> QED  BY <2>4, <3>1, <3>3, <3>4
  <2> DEFINE fused == Fused(words, near)
  <2>6. fused \in ResultsOver(X) /\ ToSet(fused) = FoundBy(words, near) /\ x \in FoundBy(words, near)
    BY <1>2, <2>5, FusedIsSorted DEF FoundBy
  <2>7. ASSUME NEW y \in FoundBy(words, near), y # x PROVE RankIn(x, fused) < RankIn(y, fused)
    <3>1. y \in ToSet(words) => RankIn(x, words) < RankIn(y, words)
      <4> SUFFICES ASSUME y \in ToSet(words) PROVE 1 < RankIn(y, words)
        BY <2>5
      <4>1. RankIn(y, words) \in 1..Len(words) /\ words[RankIn(y, words)] = y
        BY <1>2, RankIs
      <4>2. RankIn(y, words) # 1
        BY <2>4, <2>7, <4>1
      <4> QED  BY <2>5, <4>1, <4>2
    <3>2. y \in ToSet(near) => RankIn(x, near) < RankIn(y, near)
      <4> SUFFICES ASSUME y \in ToSet(near) PROVE 1 < RankIn(y, near)
        BY <2>5
      <4>1. RankIn(y, near) \in 1..Len(near) /\ near[RankIn(y, near)] = y
        BY <1>2, RankIs
      <4>2. RankIn(y, near) # 1
        BY <2>4, <2>7, <4>1
      <4> QED  BY <2>5, <4>1, <4>2
    <3>3. <<x, y>> \in HigherFirst(words, near)
      BY <1>2, <2>5, <3>1, <3>2, BothHigher
    <3> QED  BY <1>2, <2>6, <3>3, FusedIsSorted
  <2> HIDE DEF fused
  <2>8. /\ Len(fused) \in Nat /\ RankIn(x, fused) \in 1..Len(fused) /\ fused[RankIn(x, fused)] = x
        /\ \A i \in 1..Len(fused) : fused[i] \in ToSet(fused) /\ RankIn(fused[i], fused) = i
    BY <2>6, RankIs
  <2>9. 1 \in 1..Len(fused)
    BY <2>8
  <2>10. fused[1] = x
    <3>1. fused[1] \in FoundBy(words, near) /\ RankIn(fused[1], fused) = 1
      BY <2>6, <2>8, <2>9
    <3>2. ~(RankIn(x, fused) < 1)
      BY <2>8
    <3> QED  BY <2>7, <3>1, <3>2
  <2>11. /\ First(fused, limit) \in ResultsOver(X) /\ Len(First(fused, limit)) >= 1
         /\ First(fused, limit)[1] = fused[1]
    <3>1. /\ First(fused, limit) \in ResultsOver(X)
          /\ Len(First(fused, limit)) = IF Len(fused) > limit THEN limit ELSE Len(fused)
          /\ \A i \in 1..Len(First(fused, limit)) : First(fused, limit)[i] = fused[i]
      BY <2>6, FirstIs
    <3>2. Len(First(fused, limit)) >= 1 /\ Len(First(fused, limit)) \in Nat
      BY <2>8, <2>9, <3>1
    <3> QED  BY <3>1, <3>2
  <2>12. Head(First(fused, limit)) = First(fused, limit)[1]
    BY <2>11 DEF ResultsOver
  <2> QED  BY <2>1, <2>4, <2>10, <2>11, <2>12 DEF fused
<1> QED  BY <1>6, <1>7, <1>8 DEF ModeTellsWhatContributed, outcome

----------------------------------------------------------------------------
LEMMA FieldScoreIsNumber ==
  ASSUME NEW fields \in SUBSET DOMAIN FieldWeight PROVE FieldScore(fields) \in Nat
<1>1. DOMAIN FieldWeight = {"normalized_title", "summary", "title", "description", "content_snippet"}
  BY DEF FieldWeight
<1>2. IsFiniteSet({"normalized_title", "summary", "title", "description", "content_snippet"})
  <2>1. IsFiniteSet({})
    BY FS_EmptySet
  <2>2. IsFiniteSet({} \cup {"normalized_title"})
    BY <2>1, FS_AddElement
  <2>3. IsFiniteSet({"normalized_title"} \cup {"summary"})
    BY FS_Singleton, FS_AddElement
  <2>4. IsFiniteSet({"normalized_title", "summary"} \cup {"title"})
    <3>1. {"normalized_title", "summary"} = {"normalized_title"} \cup {"summary"}
      OBVIOUS
    <3> QED  BY <2>3, <3>1, FS_AddElement
  <2>5. IsFiniteSet({"description"} \cup {"content_snippet"})
    BY FS_Singleton, FS_AddElement
  <2>6. {"normalized_title", "summary", "title", "description", "content_snippet"} =
          ({"normalized_title", "summary"} \cup {"title"}) \cup ({"description"} \cup {"content_snippet"})
    OBVIOUS
  <2>7. \A S, T : IsFiniteSet(S) /\ IsFiniteSet(T) => IsFiniteSet(S \cup T)
    BY FS_Union
  <2> QED  BY <2>4, <2>5, <2>6, <2>7
<1>3. IsFiniteSet(fields)
  BY <1>1, <1>2, FS_Subset
<1> DEFINE f == [x \in fields |-> FieldWeight[x]]
<1>4. f \in [fields -> Nat]
  BY <1>1 DEF FieldWeight
<1>5. SumOf(f) \in Nat
  <2> HIDE DEF f
  <2> QED  BY <1>3, <1>4, SumIsNumber
<1> QED  BY <1>5 DEF FieldScore

(***************************************************************************)
(* The words' search looks at the newest matches only, but no newer and    *)
(* better one is passed over for one shown (lexical.py:_substring_search). *)
(***************************************************************************)
THEOREM NewerAndBetterIsShownAlways ==
  ASSUME NEW candidates, IsFiniteSet(candidates), NEW limit \in Nat,
         \A c \in candidates : c.age \in Nat /\ c.fields \subseteq DOMAIN FieldWeight,
         \A c, d \in candidates : (c.id = d.id => c = d) /\ (c.age = d.age => c = d)
  PROVE  NewerAndBetterIsShown(candidates, limit)
<1> DEFINE found == {c \in candidates : c.fields # {}}
           newer(c) == {d \in found : d.age < c.age}
           newest == {c \in found : Cardinality(newer(c)) < 3 * limit}
           better(c, d) == \/ FieldScore(c.fields) > FieldScore(d.fields)
                           \/ FieldScore(c.fields) = FieldScore(d.fields) /\ c.age < d.age
           before == OrderBy(newest, better)
           ranked == InOrder(newest, before)
           cut == IF Len(ranked) > limit THEN limit ELSE Len(ranked)
           n == Cardinality(newest)
<1>1. SubstringSearch(candidates, limit) = [i \in 1..cut |-> ranked[i].id]
  BY DEF SubstringSearch
<1>2. found \subseteq candidates /\ newest \subseteq found /\ IsFiniteSet(newest) /\ IsFiniteSet(found)
  BY FS_Subset
<1>3. \A c \in candidates : FieldScore(c.fields) \in Nat /\ c.age \in Nat
  BY FieldScoreIsNumber
<1>4. \A c, d \in newest : <<c, d>> \in before <=> better(c, d)
  BY DEF OrderBy
<1>5. StrictOrder(newest, before)
  <2>1. \A c \in newest : FieldScore(c.fields) \in Nat /\ c.age \in Nat
    BY <1>2, <1>3
  <2>2. \A c, d \in newest : c.age = d.age => c = d
    BY <1>2
  <2> HIDE DEF newest, before
  <2>3. \A c \in newest : <<c, c>> \notin before
    BY <1>4, <2>1
  <2>4. \A c, d, e \in newest : <<c, d>> \in before /\ <<d, e>> \in before => <<c, e>> \in before
    BY <1>4, <2>1
  <2>5. \A c, d \in newest : c # d => <<c, d>> \in before \/ <<d, c>> \in before
    BY <1>4, <2>1, <2>2
  <2> QED  BY <2>3, <2>4, <2>5 DEF StrictOrder
<1>6. /\ n \in Nat /\ ranked \in [1..n -> newest]
      /\ \A x \in newest : \E i \in 1..n : ranked[i] = x
      /\ \A i, j \in 1..n : i < j <=> <<ranked[i], ranked[j]>> \in before
  <2> HIDE DEF newest, before
  <2> QED  BY <1>2, <1>5, InOrderIsSorted
<1>7. Len(ranked) = n
  <2> HIDE DEF ranked, n, newest, before, found, newer, better
  <2> QED  BY <1>6
<1>8. cut \in 0..n /\ (cut = n \/ cut = limit)
  <2> HIDE DEF ranked, n, newest, before, found, newer, better
  <2> QED  BY <1>6, <1>7
<1>9. ToSet(SubstringSearch(candidates, limit)) = {ranked[i].id : i \in 1..cut}
  <2> HIDE DEF ranked, cut
  <2> QED  BY <1>1 DEF ToSet
<1>10. ASSUME NEW c \in candidates, c.id \in {ranked[i].id : i \in 1..cut}
       PROVE  \E i \in 1..cut : i \in 1..n /\ ranked[i] = c /\ c \in newest
  <2> HIDE DEF cut, ranked, n, newest, before, found, newer, better
  <2>1. PICK i \in 1..cut : c.id = ranked[i].id
    BY <1>10
  <2>2. i \in 1..n
    BY <1>6, <1>8
  <2>3. ranked[i] \in newest
    BY <1>6, <2>2
  <2>4. ranked[i] \in candidates
    BY <1>2, <2>3
  <2>5. ranked[i] = c
    BY <2>1, <2>4
  <2> QED  BY <2>2, <2>3, <2>5
<1>11. ASSUME NEW c \in candidates, NEW d \in candidates, c.id \in {ranked[i].id : i \in 1..cut},
              d.fields # {}, d.age < c.age, FieldScore(d.fields) >= FieldScore(c.fields)
       PROVE  d.id \in {ranked[i].id : i \in 1..cut}
  <2>1. PICK i \in 1..cut : i \in 1..n /\ ranked[i] = c /\ c \in newest
    <3> HIDE DEF cut, ranked, n, newest
    <3> QED  BY <1>10, <1>11
  <2>2. d \in newest
    <3>1. newer(d) \subseteq newer(c)
      <4>1. \A e \in found : e.age \in Nat
        BY <1>2, <1>3
      <4>2. c.age \in Nat /\ d.age \in Nat
        BY <1>3
      <4> HIDE DEF cut, ranked, n, newest, before, found, better
      <4> QED  BY <1>11, <4>1, <4>2
    <3>2. IsFiniteSet(newer(c)) /\ newer(c) \subseteq found
      BY <1>2, FS_Subset
    <3>3. Cardinality(newer(d)) <= Cardinality(newer(c)) /\ IsFiniteSet(newer(d))
      <4> HIDE DEF newer
      <4> QED  BY <3>1, <3>2, FS_Subset
    <3>4. Cardinality(newer(d)) \in Nat /\ Cardinality(newer(c)) \in Nat
      <4> HIDE DEF newer
      <4> QED  BY <3>2, <3>3, FS_CardinalityType
    <3>5. Cardinality(newer(c)) < 3 * limit
      BY <2>1
    <3>6. Cardinality(newer(d)) < 3 * limit
      <4> HIDE DEF cut, ranked, n, newest, before, found, newer, better
      <4> QED  BY <3>3, <3>4, <3>5
    <3> QED  BY <1>11, <3>6
  <2>3. better(d, c)
    <3>1. FieldScore(d.fields) \in Nat /\ FieldScore(c.fields) \in Nat
      BY <1>3
    <3> HIDE DEF cut, ranked, n, newest, before, found, newer
    <3> QED  BY <1>11, <3>1
  <2>4. <<d, c>> \in before
    <3>1. c \in newest
      BY <2>1
    <3> HIDE DEF newest, before, better
    <3> QED  BY <1>4, <2>2, <2>3, <3>1
  <2> HIDE DEF cut, ranked, n, newest, before, found, newer, better
  <2>5. PICK j \in 1..n : ranked[j] = d
    BY <1>6, <2>2
  <2>6. j < i
    BY <1>6, <2>1, <2>4, <2>5
  <2>7. j \in 1..cut
    BY <1>6, <1>8, <2>1, <2>6
  <2> QED  BY <2>5, <2>7
<1>12. \A c \in newest : c.fields # {}
  OBVIOUS
<1>13. \A c \in candidates : c.id \in {ranked[i].id : i \in 1..cut} => c.fields # {}
  <2> HIDE DEF cut, ranked, n, newest
  <2> QED  BY <1>10, <1>12
<1>14. QED
  <2> HIDE DEF cut, ranked, n, newest, before, found, newer, better
  <2> QED  BY <1>9, <1>11, <1>13 DEF NewerAndBetterIsShown

----------------------------------------------------------------------------
\* What the provider may send.
Payloads(Words) == Seq([code : Words, rate : Nat])

LEMMA CleanQuotesAre ==
  ASSUME NEW Words, NEW quotes \in Seq(Words)
  PROVE  CleanQuotes(quotes) \in Seq(Codes) /\ IsInjective(CleanQuotes(quotes))
<1> DEFINE first == {i \in DOMAIN quotes : /\ quotes[i] \in Codes \ {"EUR"}
                                           /\ \A j \in 1..(i - 1) : quotes[j] # quotes[i]}
           n == Cardinality(first)
           t == Filtered(quotes, first)
<1>1. CASE first = {}
  <2>1. CleanQuotes(quotes) = DefaultQuotes
    BY <1>1 DEF CleanQuotes
  <2> QED  BY <2>1, CurrencyAssumption
<1>2. CASE first # {}
  <2>1. CleanQuotes(quotes) = t
    BY <1>2 DEF CleanQuotes
  <2>2. first \in SUBSET DOMAIN quotes
    OBVIOUS
  <2>3. \A i \in first : quotes[i] \in Codes
    OBVIOUS
  <2>4. \A i, j \in first : quotes[i] = quotes[j] => i = j
    <3> SUFFICES ASSUME NEW i \in first, NEW j \in first, quotes[i] = quotes[j] PROVE i = j
      OBVIOUS
    <3>1. i \in Nat \ {0} /\ j \in Nat \ {0}
      OBVIOUS
    <3>2. ~(i < j) /\ ~(j < i)
      BY <3>1
    <3> QED  BY <3>1, <3>2
  <2> HIDE DEF first
  <2>5. /\ t \in Seq(Words) /\ DOMAIN t = 1..n /\ n \in Nat
        /\ \A k \in 1..n : \E i \in first : t[k] = quotes[i]
    BY <2>2, FilteredIsPart
  <2>6. IsInjective(t)
    BY <2>2, <2>4, FilteredIsPart
  <2> HIDE DEF n, t
  <2>7. t \in Seq(Codes)
    <3>1. \A k \in 1..n : t[k] \in Codes
      BY <2>3, <2>5
    <3> QED  BY <2>5, <3>1
  <2> QED  BY <2>1, <2>6, <2>7
<1> QED  BY <1>1, <1>2

LEMMA GreatestAndLeast ==
  ASSUME NEW S, IsFiniteSet(S), S \in SUBSET Nat, S # {}
  PROVE  /\ Max(S) \in S /\ \A v \in S : Max(S) >= v
         /\ Min(S) \in S /\ \A v \in S : Min(S) <= v
<1>1. \E x \in S : \A y \in S : x >= y
  BY GreatestExists
<1>2. \E x \in S : \A y \in S : x <= y
  BY LeastNumber
<1> QED  BY <1>1, <1>2 DEF Max, Min

\* A currency has a rate when some row has one.
LEMMA RatesAreKnown ==
  ASSUME NEW Words, NEW rows \in Payloads(Words), NEW code
  PROVE  /\ RowsOf(rows, code) \in SUBSET Nat /\ IsFiniteSet(RowsOf(rows, code))
         /\ LastRate(rows, code) \in Nat
         /\ LastRate(rows, code) # 0 <=> \E r \in ToSet(rows) : r.code = code /\ r.rate # 0
         /\ IsFiniteSet(Values(rows, code)) /\ Values(rows, code) \in SUBSET Nat
<1> DEFINE I == RowsOf(rows, code)
<1>1. Len(rows) \in Nat /\ DOMAIN rows = 1..Len(rows) /\ rows \in Seq([code : Words, rate : Nat])
  BY DEF Payloads
<1>2. I \in SUBSET Nat /\ IsFiniteSet(I) /\ I \in SUBSET DOMAIN rows
  <2>1. IsFiniteSet(1..Len(rows)) /\ I \in SUBSET (1..Len(rows))
    BY <1>1, FS_Interval DEF RowsOf
  <2> HIDE DEF I
  <2>2. IsFiniteSet(I)
    BY <2>1, FS_Subset
  <2>3. PICK n \in Nat : DOMAIN rows = 1..n /\ Len(rows) = n
    BY <1>1
  <2>4. 1..n \in SUBSET Nat
    OBVIOUS
  <2> QED  BY <2>1, <2>2, <2>3, <2>4
<1>3. \A i \in I : rows[i].code = code /\ rows[i].rate # 0 /\ rows[i].rate \in Nat
  <2>1. \A i \in DOMAIN rows : rows[i] \in [code : Words, rate : Nat]
    <3>1. \A S : \A s \in Seq(S) : \A i \in DOMAIN s : s[i] \in S
      OBVIOUS
    <3> QED  BY <1>1, <3>1
  <2>2. \A i \in I : i \in DOMAIN rows /\ rows[i].code = code /\ rows[i].rate # 0
    BY DEF RowsOf
  <2> HIDE DEF I
  <2> QED  BY <2>1, <2>2
<1>4. I # {} <=> \E r \in ToSet(rows) : r.code = code /\ r.rate # 0
  BY DEF RowsOf, ToSet
<1> HIDE DEF I
<1>5. I # {} => Max(I) \in I
  BY <1>2, GreatestAndLeast
<1>6. LastRate(rows, code) \in Nat /\ (LastRate(rows, code) # 0 <=> I # {})
  <2>1. CASE I = {}
    BY <2>1 DEF LastRate, I
  <2>2. CASE I # {}
    <3>1. LastRate(rows, code) = rows[Max(I)].rate
      BY <2>2 DEF LastRate, I
    <3> QED  BY <1>3, <1>5, <2>2, <3>1
  <2> QED  BY <2>1, <2>2
<1>7. IsFiniteSet(Values(rows, code)) /\ Values(rows, code) \in SUBSET Nat
  <2> DEFINE V == Values(rows, code)
             f == [i \in I |-> rows[i].rate]
  <2>1. V = {rows[i].rate : i \in I}
    BY DEF Values, I
  <2>2. f \in Surjection(I, V)
    BY <2>1 DEF Surjection
  <2> HIDE DEF f
  <2>3. IsFiniteSet(V)
    BY <1>2, <2>2, FS_Surjection
  <2>4. V \in SUBSET Nat
    BY <1>3, <2>1
  <2> QED  BY <2>3, <2>4
<1> QED  BY <1>2, <1>4, <1>6, <1>7 DEF I

\* The advice and the range it is given against.
LEMMA AdviceIs ==
  ASSUME NEW rate \in Nat, NEW low \in Nat, NEW high \in Nat, low <= high
  PROVE  /\ low = high => Advice(rate, low, high) = "mid"
         /\ Advice(rate, low, high) = "high" => rate > low /\ low < high
         /\ Advice(rate, low, high) = "low" => rate < high /\ low < high
         /\ low < high /\ rate >= high => Advice(rate, low, high) = "high"
         /\ low < high /\ rate <= low => Advice(rate, low, high) = "low"
<1> DEFINE above == IF rate < low THEN 0 ELSE IF rate > high THEN high - low ELSE rate - low
<1>1. /\ above \in Nat /\ above <= high - low /\ high - low \in Nat
      /\ rate >= high => above = high - low
      /\ rate <= low => above = 0
      /\ above > 0 => rate > low
      /\ above < high - low => rate < high
  OBVIOUS
<1>2. Advice(rate, low, high) =
        CASE low = high -> "mid"
          [] low # high /\ 10 * above >= 8 * (high - low) -> "high"
          [] low # high /\ 10 * above <= 2 * (high - low) -> "low"
          [] OTHER -> "mid"
  BY DEF Advice
<1> HIDE DEF above
<1>3. CASE low = high
  BY <1>2, <1>3
<1>4. CASE low < high /\ 10 * above >= 8 * (high - low)
  <2>1. ~(10 * above <= 2 * (high - low)) /\ above > 0
    BY <1>1, <1>4
  <2>2. Advice(rate, low, high) = "high"
    BY <1>2, <1>4, <2>1
  <2> QED  BY <1>1, <1>4, <2>1, <2>2
<1>5. CASE low < high /\ 10 * above <= 2 * (high - low)
  <2>1. ~(10 * above >= 8 * (high - low)) /\ above < high - low
    BY <1>1, <1>5
  <2>2. Advice(rate, low, high) = "low"
    BY <1>2, <1>5, <2>1
  <2> QED  BY <1>1, <1>5, <2>1, <2>2
<1>6. CASE low < high /\ ~(10 * above >= 8 * (high - low)) /\ ~(10 * above <= 2 * (high - low))
  <2>1. Advice(rate, low, high) = "mid"
    BY <1>2, <1>6
  <2> QED  BY <1>1, <1>6, <2>1
<1> QED  BY <1>3, <1>4, <1>5, <1>6

LEMMA LineRestsOnRates ==
  ASSUME NEW Words, NEW latest \in Payloads(Words), NEW history \in Payloads(Words), NEW code
  PROVE  LET line == Line(latest, history, code)
             seen == Values(history, code)
         IN /\ line.code = code
            /\ line.advice = "high" => \E v \in seen : v < line.rate
            /\ line.advice = "low" => \E v \in seen : v > line.rate
            /\ Cardinality(seen) > 1 /\ (\A v \in seen : v <= line.rate) => line.advice = "high"
            /\ Cardinality(seen) > 1 /\ (\A v \in seen : v >= line.rate) => line.advice = "low"
<1> DEFINE line == Line(latest, history, code)
           seen == Values(history, code)
           rate == Rate(latest, history, code)
           range == IF seen = {} THEN {rate} ELSE seen
           low == Min(range)
           high == Max(range)
<1>1. line.code = code /\ line.rate = rate /\ line.advice = Advice(rate, low, high)
  BY DEF Line
<1>2. rate \in Nat /\ IsFiniteSet(seen) /\ seen \in SUBSET Nat
  BY RatesAreKnown DEF Rate
<1>3. IsFiniteSet(range) /\ range \in SUBSET Nat /\ range # {}
  BY <1>2, FS_Singleton
<1>4. seen = {} => low = rate /\ high = rate
  <2>1. low \in range /\ high \in range
    <3> HIDE DEF range
    <3> QED  BY <1>3, GreatestAndLeast
  <2> HIDE DEF low, high
  <2> QED  BY <2>1
<1>5. /\ low \in range /\ high \in range /\ low \in Nat /\ high \in Nat /\ low <= high
      /\ \A v \in range : low <= v /\ v <= high
  <2> HIDE DEF range
  <2>1. /\ low \in range /\ high \in range
        /\ \A v \in range : low <= v /\ high >= v
    BY <1>3, GreatestAndLeast
  <2> HIDE DEF low, high
  <2>2. low \in Nat /\ high \in Nat /\ \A v \in range : v \in Nat
    BY <1>3, <2>1
  <2> QED  BY <2>1, <2>2
<1>6. seen # {} => low \in seen /\ high \in seen /\ \A v \in seen : low <= v /\ v <= high
  BY <1>5
<1>7. Cardinality(seen) > 1 => low < high /\ seen # {}
  <2> SUFFICES ASSUME Cardinality(seen) > 1 PROVE low < high /\ seen # {}
    OBVIOUS
  <2>1. seen # {}
    <3>1. seen = {} => Cardinality(seen) = 0
      BY FS_EmptySet
    <3> HIDE DEF seen
    <3> QED  BY <3>1
  <2>2. low # high
    <3> SUFFICES ASSUME low = high PROVE FALSE
      OBVIOUS
    <3> HIDE DEF low, high, seen
    <3>1. \A v \in seen : v = low
      <4>1. \A v \in seen : v \in Nat
        BY <1>2
      <4> QED  BY <1>5, <1>6, <2>1, <4>1
    <3>2. seen = {low}
      BY <1>6, <2>1, <3>1
    <3>3. Cardinality({low}) = 1
      BY FS_Singleton
    <3> QED  BY <3>2, <3>3
  <2> HIDE DEF low, high, seen
  <2> QED  BY <1>5, <2>1, <2>2
<1>8. rate \in Nat /\ low \in Nat /\ high \in Nat /\ low <= high
  BY <1>2, <1>5
<1> HIDE DEF line, seen, rate, range, low, high
<1>9. /\ low = high => Advice(rate, low, high) = "mid"
      /\ Advice(rate, low, high) = "high" => rate > low /\ low < high
      /\ Advice(rate, low, high) = "low" => rate < high /\ low < high
      /\ low < high /\ rate >= high => Advice(rate, low, high) = "high"
      /\ low < high /\ rate <= low => Advice(rate, low, high) = "low"
  BY <1>8, AdviceIs
<1>10. ASSUME line.advice = "high" PROVE \E v \in seen : v < line.rate
  <2>1. rate > low /\ low < high /\ seen # {}
    <3>1. rate > low /\ low < high
      BY <1>1, <1>9, <1>10
    <3> QED  BY <1>4, <1>8, <3>1
  <2> QED  BY <1>1, <1>6, <1>8, <2>1
<1>11. ASSUME line.advice = "low" PROVE \E v \in seen : v > line.rate
  <2>1. rate < high /\ low < high /\ seen # {}
    <3>1. rate < high /\ low < high
      BY <1>1, <1>9, <1>11
    <3> QED  BY <1>4, <1>8, <3>1
  <2> QED  BY <1>1, <1>6, <1>8, <2>1
<1>12. ASSUME Cardinality(seen) > 1, \A v \in seen : v <= line.rate PROVE line.advice = "high"
  <2>1. low < high /\ high \in seen
    BY <1>6, <1>7, <1>12
  <2>2. rate >= high
    BY <1>1, <1>8, <1>12, <2>1
  <2> QED  BY <1>1, <1>9, <2>1, <2>2
<1>13. ASSUME Cardinality(seen) > 1, \A v \in seen : v >= line.rate PROVE line.advice = "low"
  <2>1. low < high /\ low \in seen
    BY <1>6, <1>7, <1>13
  <2>2. rate <= low
    BY <1>1, <1>8, <1>13, <2>1
  <2> QED  BY <1>1, <1>9, <2>1, <2>2
<1> QED  BY <1>1, <1>10, <1>11, <1>12, <1>13 DEF line, seen

(***************************************************************************)
(* Each currency asked for that a rate is known of has one line, and its   *)
(* advice rests on a rate of the period (currency/service.py:78-146,       *)
(* 258-272).                                                               *)
(***************************************************************************)
THEOREM AdviceRestsOnRatesAlways ==
  ASSUME NEW Words, NEW answered \in BOOLEAN, NEW quotes \in Seq(Words),
         NEW latest \in Payloads(Words), NEW history \in Payloads(Words)
  PROVE  AdviceRestsOnRates(answered, quotes, latest, history)
<1> DEFINE all == CleanQuotes(quotes)
           I == {i \in DOMAIN all : Rate(latest, history, all[i]) # 0}
           known == Filtered(all, I)
           n == Cardinality(I)
           lines == Monitor(answered, quotes, latest, history)
           codes == [i \in DOMAIN lines |-> lines[i].code]
           rated == {c \in ToSet(all) : ~answered \/ \E r \in ToSet(latest \o history) : r.code = c /\ r.rate # 0}
<1>1. all \in Seq(Codes) /\ IsInjective(all)
  BY CleanQuotesAre
<1>2. \A c : Rate(latest, history, c) # 0 <=>
               \E r \in ToSet(latest \o history) : r.code = c /\ r.rate # 0
  <2>1. ToSet(latest \o history) = ToSet(latest) \cup ToSet(history)
    BY BothParts DEF Payloads
  <2>2. \A c : /\ LastRate(latest, c) # 0 <=> \E r \in ToSet(latest) : r.code = c /\ r.rate # 0
               /\ LastRate(history, c) # 0 <=> \E r \in ToSet(history) : r.code = c /\ r.rate # 0
    BY RatesAreKnown
  <2> QED  BY <2>1, <2>2 DEF Rate
<1>3. CASE ~answered
  <2>1. lines = [i \in DOMAIN all |-> Unavailable(all[i])]
    BY <1>3 DEF Monitor
  <2>2. codes = all
    <3>1. \A i \in DOMAIN all : lines[i].code = all[i]
      BY <2>1 DEF Unavailable
    <3>2. codes = [i \in DOMAIN all |-> all[i]]
      BY <2>1, <3>1
    <3> HIDE DEF codes, all
    <3> QED  BY <1>1, <3>2
  <2>3. ToSet(codes) = rated
    BY <1>3, <2>2
  <2> HIDE DEF lines, all
  <2> QED  BY <1>1, <1>3, <2>2, <2>3 DEF AdviceRestsOnRates, lines, all
<1>4. CASE answered
  <2>1. lines = [k \in DOMAIN known |-> Line(latest, history, known[k])]
    BY <1>4 DEF Monitor
  <2>2. I \in SUBSET DOMAIN all
    OBVIOUS
  <2>3. /\ known \in Seq(Codes) /\ DOMAIN known = 1..n /\ n \in Nat
        /\ \A k \in 1..n : \E i \in I : known[k] = all[i]
        /\ \A i \in I : \E k \in 1..n : known[k] = all[i]
        /\ IsInjective(known)
    <3>1. \A i, j \in I : all[i] = all[j] => i = j
      BY <1>1 DEF IsInjective
    <3> HIDE DEF I, all
    <3> QED  BY <1>1, <2>2, <3>1, FilteredIsPart
  <2>4. \A k \in DOMAIN known : lines[k] = Line(latest, history, known[k]) /\ lines[k].code = known[k]
    <3>1. \A c : Line(latest, history, c).code = c
      BY DEF Line
    <3> HIDE DEF known
    <3> QED  BY <2>1, <3>1
  <2>5. codes = known /\ DOMAIN lines = DOMAIN known
    <3>1. codes = [k \in DOMAIN known |-> known[k]] /\ DOMAIN lines = DOMAIN known
      BY <2>1, <2>4
    <3> HIDE DEF codes, known, lines
    <3> QED  BY <2>3, <3>1
  <2>6. ToSet(known) = rated
    <3>1. ToSet(known) = {all[i] : i \in I}
      <4> HIDE DEF known, I
      <4> QED  BY SMTT(30), <2>3 DEF ToSet
    <3>2. {all[i] : i \in I} = {c \in ToSet(all) : Rate(latest, history, c) # 0}
      BY DEF ToSet
    <3>3. {c \in ToSet(all) : Rate(latest, history, c) # 0} = rated
      <4> HIDE DEF all
      <4> QED  BY <1>2, <1>4
    <3> QED  BY <3>1, <3>2, <3>3
  <2>7. ASSUME NEW i \in DOMAIN lines
        PROVE  LET seen == Values(history, codes[i]) IN
                 /\ lines[i].advice = "high" => \E v \in seen : v < lines[i].rate
                 /\ lines[i].advice = "low" => \E v \in seen : v > lines[i].rate
                 /\ Cardinality(seen) > 1 /\ (\A v \in seen : v <= lines[i].rate) => lines[i].advice = "high"
                 /\ Cardinality(seen) > 1 /\ (\A v \in seen : v >= lines[i].rate) => lines[i].advice = "low"
    <3>1. lines[i] = Line(latest, history, codes[i])
      <4> HIDE DEF known, lines, codes
      <4> QED  BY <2>4, <2>5
    <3> HIDE DEF known, lines, codes
    <3> QED  BY <3>1, LineRestsOnRates
  <2>8. IsInjective(codes) /\ ToSet(codes) = rated
    BY <2>3, <2>5, <2>6
  <2> HIDE DEF known, lines, all, I
  <2> QED  BY <2>7, <2>8 DEF AdviceRestsOnRates, lines, all
<1> QED  BY <1>3, <1>4

----------------------------------------------------------------------------
(***************************************************************************)
(* Whatever a text says, a signal called more severe scores higher, though *)
(* the two tables are written apart (classifier.py, risk_scorer.py), and a *)
(* failing task has stored what was found first.                           *)
(***************************************************************************)
THEOREM ScoreFollowsSeverityAlways ==
  ASSUME NEW text, NEW headline, NEW failsAt PROVE ScoreFollowsSeverity(text, headline, failsAt)
<1> DEFINE I == {i \in DOMAIN Checks : Checks[i].type \in text \cup headline}
           X == {Checks[1], Checks[2], Checks[3], Checks[4], Checks[5], Checks[6]}
           signals == Classify(text, headline)
           stored == StoredSignals(text, headline, failsAt)
           ScoresHigher(a, b) == SeverityMultiplier(a.severity) > SeverityMultiplier(b.severity) =>
                             OverallRisk(a.type, a.severity) > OverallRisk(b.type, b.severity)
<1>1. Checks \in Seq(X) /\ DOMAIN Checks = 1..6
  <2>1. Checks \in Seq(X) /\ Len(Checks) = 6
    BY DEF Checks
  <2> HIDE DEF X
  <2> QED  BY <2>1
<1>2. signals = Filtered(Checks, I) /\ I \in SUBSET DOMAIN Checks
  BY DEF Classify
<1>3. /\ signals \in Seq(X) /\ Cardinality(I) \in Nat /\ DOMAIN signals = 1..Cardinality(I)
      /\ \A k \in 1..Cardinality(I) : \E i \in I : signals[k] = Checks[i]
  <2> HIDE DEF I, X
  <2> QED  BY <1>1, <1>2, FilteredIsPart
<1> DEFINE Table == {<<100, 31500>>, <<85, 24650>>, <<85, 28900>>, <<65, 15925>>, <<65, 16900>>, <<85, 26775>>}
<1>4. \A i \in 1..6 : <<SeverityMultiplier(Checks[i].severity),
                        OverallRisk(Checks[i].type, Checks[i].severity)>> \in Table
  <2>1. <<SeverityMultiplier(Checks[1].severity), OverallRisk(Checks[1].type, Checks[1].severity)>> = <<100, 31500>>
    BY DEF Checks, SeverityMultiplier, OverallRisk, Impacts, BaseScores
  <2>2. <<SeverityMultiplier(Checks[2].severity), OverallRisk(Checks[2].type, Checks[2].severity)>> = <<85, 24650>>
    BY DEF Checks, SeverityMultiplier, OverallRisk, Impacts, BaseScores
  <2>3. <<SeverityMultiplier(Checks[3].severity), OverallRisk(Checks[3].type, Checks[3].severity)>> = <<85, 28900>>
    BY DEF Checks, SeverityMultiplier, OverallRisk, Impacts, BaseScores
  <2>4. <<SeverityMultiplier(Checks[4].severity), OverallRisk(Checks[4].type, Checks[4].severity)>> = <<65, 15925>>
    BY DEF Checks, SeverityMultiplier, OverallRisk, Impacts, BaseScores
  <2>5. <<SeverityMultiplier(Checks[5].severity), OverallRisk(Checks[5].type, Checks[5].severity)>> = <<65, 16900>>
    BY DEF Checks, SeverityMultiplier, OverallRisk, Impacts, BaseScores
  <2>6. <<SeverityMultiplier(Checks[6].severity), OverallRisk(Checks[6].type, Checks[6].severity)>> = <<85, 26775>>
    BY DEF Checks, SeverityMultiplier, OverallRisk, Impacts, BaseScores
  <2>7. \A i \in 1..6 : i \in {1, 2, 3, 4, 5, 6}
    OBVIOUS
  <2> QED  BY <2>1, <2>2, <2>3, <2>4, <2>5, <2>6, <2>7
<1>5. ASSUME NEW i \in 1..6, NEW j \in 1..6 PROVE ScoresHigher(Checks[i], Checks[j])
  <2>1. PICK a, b, c, d :
          /\ a = SeverityMultiplier(Checks[i].severity) /\ b = OverallRisk(Checks[i].type, Checks[i].severity)
          /\ c = SeverityMultiplier(Checks[j].severity) /\ d = OverallRisk(Checks[j].type, Checks[j].severity)
    OBVIOUS
  <2>2. <<a, b>> \in Table /\ <<c, d>> \in Table
    BY <1>4, <2>1
  <2>3. a > c => b > d
    BY <2>2
  <2> QED  BY <2>1, <2>3
<1> HIDE DEF I, X, signals, stored
<1>6. \A k, l \in DOMAIN signals : ScoresHigher(signals[k], signals[l])
  <2> SUFFICES ASSUME NEW k \in DOMAIN signals, NEW l \in DOMAIN signals
               PROVE  ScoresHigher(signals[k], signals[l])
    OBVIOUS
  <2>1. PICK i \in 1..6, j \in 1..6 : signals[k] = Checks[i] /\ signals[l] = Checks[j]
    BY <1>1, <1>2, <1>3
  <2> HIDE DEF ScoresHigher
  <2> QED  BY <1>5, <2>1
<1>7. IsPrefix(stored, signals)
  <2> DEFINE n == IF failsAt \in DOMAIN signals THEN failsAt - 1 ELSE Len(signals)
  <2>1. stored = SubSeq(signals, 1, n)
    BY DEF StoredSignals, stored, signals
  <2>2. n \in Nat /\ n <= Len(signals) /\ Len(signals) \in Nat
    BY <1>3
  <2> HIDE DEF n
  <2>3. Len(stored) = n
    BY <1>3, <2>1, <2>2
  <2>4. SubSeq(stored, 1, n) = stored
    BY <1>3, <2>1, <2>2, <2>3
  <2> QED  BY <2>1, <2>2, <2>3, <2>4 DEF IsPrefix
<1> QED  BY <1>6, <1>7 DEF ScoreFollowsSeverity, signals, stored
===============================================================================
