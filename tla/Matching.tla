------------------------------ MODULE Matching ------------------------------
(***************************************************************************)
(* How an article is matched against a user's preferences                  *)
(* (src/shared/procuresignal/personalization/matcher.py).                  *)
(*                                                                         *)
(* An article is a record:                                                 *)
(*   top, detected    its categories, canonical                            *)
(*   names            suppliers detected in it, as written                 *)
(*   said             names and signal terms that are whole words of its   *)
(*                    title or summary (and long enough to be matched)     *)
(*   ids              suppliers of the registry it was resolved to         *)
(*   regions          regions detected in it or named in its text          *)
(*   tags, priority   its signals; priority has at most one                *)
(* A preference is a record of sets: what the user watches, and, with the  *)
(* prefix "no", what the user excludes.  Scores are in hundredths.         *)
(***************************************************************************)
EXTENDS Integers, FiniteSets

CONSTANT AliasGroups  \* SIGNAL_ALIAS_GROUPS: sets of terms that mean the same

ASSUME AliasGroupsAssumption ==
  \A g, h \in AliasGroups : g = h \/ g \cap h = {}

\* expand_signal_terms.  A term is one, however its words are joined.
Expand(terms) == terms \cup UNION {g \in AliasGroups : g \cap terms # {}}

ArticleCategories(a) == {a.top} \cup a.detected
ArticleSignals(a) == Expand(a.tags \cup a.priority)
SignalContext(a) == a.said \cup a.regions

\* Older rows have only excluded_topics.
ExcludedCategories(p) == IF p.noCategories # {} THEN p.noCategories ELSE p.noTopics

\* _signal_matches_article: regions count as signals too, and the text is read.
SignalMatches(a, terms) ==
  Expand(terms) \cap (ArticleSignals(a) \cup Expand(a.regions) \cup SignalContext(a)) # {}

HasExcludedMatch(a, p) ==
  \/ a.ids \cap p.noSupplierIds # {}
  \/ ArticleCategories(a) \cap ExcludedCategories(p) # {}
  \/ a.names \cap p.noSuppliers # {}
  \/ a.regions \cap p.noRegions # {}
  \/ SignalMatches(a, p.noSignals)

\* _supplier_matches: identity decides once the article is resolved.
SupplierMatches(a, p) ==
  IF a.ids # {} THEN a.ids \cap p.supplierIds # {}
  ELSE (a.names \cup a.said) \cap p.suppliers # {}

\* should_include_article
ShouldInclude(a, p) ==
  /\ ~HasExcludedMatch(a, p)
  /\ IF p.categories \cup p.suppliers # {}
     THEN ArticleCategories(a) \cap p.categories # {} \/ SupplierMatches(a, p)
     ELSE IF p.regions # {} THEN a.regions \cap p.regions # {}
     ELSE IF p.signals # {} THEN SignalMatches(a, p.signals)
     ELSE TRUE

----------------------------------------------------------------------------
Neutral == 50

\* 0.5 + 0.25 for each match, at most 1; 0.3 without any.
Points(matches) == CASE matches = 0 -> 30
                     [] matches = 1 -> 75
                     [] OTHER -> 100

\* calculate_category_match: the top category alone.
CategoryScore(a, p) ==
  IF a.top \in ExcludedCategories(p) THEN 0
  ELSE IF p.categories = {} THEN Neutral
  ELSE IF a.top \in p.categories THEN 100
  ELSE 30

\* calculate_supplier_match: watched names found in the text count as detected.
SupplierScore(a, p) ==
  LET tokens == a.names \cup (a.said \cap p.suppliers)
  IN IF a.ids \cap p.noSupplierIds # {} \/ tokens \cap p.noSuppliers # {} THEN 0
     ELSE IF tokens = {} \/ p.suppliers = {} THEN Neutral
     ELSE Points(Cardinality(tokens \cap p.suppliers)
                   + Cardinality(a.ids \cap p.supplierIds))

\* calculate_region_match
RegionScore(a, p) ==
  IF a.regions \cap p.noRegions # {} THEN 0
  ELSE IF a.regions = {} \/ p.regions = {} THEN Neutral
  ELSE Points(Cardinality(a.regions \cap p.regions))

\* calculate_signal_match: a priority signal counts in full, a mention in the
\* text as one more match.
SignalScore(a, p) ==
  LET wanted == Expand(p.signals)
      unwanted == Expand(p.noSignals)
      mention == IF SignalContext(a) \cap wanted # {} THEN 1 ELSE 0
  IN IF (ArticleSignals(a) \cup SignalContext(a)) \cap unwanted # {} THEN 0
     ELSE IF p.signals = {} THEN Neutral
     ELSE IF Expand(a.priority) \cap wanted # {} THEN 100
     ELSE Points(Cardinality(ArticleSignals(a) \cap wanted) + mention)

\* score_article: 30, 30, 20 and 20 per cent.
Overall(a, p) == 30 * CategoryScore(a, p) + 30 * SupplierScore(a, p)
                   + 20 * RegionScore(a, p) + 20 * SignalScore(a, p)

\* An overall score of 0.3.
Threshold == 3000

----------------------------------------------------------------------------
(***************************************************************************)
(* Eligibility and score are decided by different code, from different     *)
(* parts of the article.  They agree where it matters: the threshold of    *)
(* _score_articles drops nothing that should_include_article lets through, *)
(* however little of it matches (matcher.py:285-300, 498-505), but for who  *)
(* watches and excludes one supplier.                                      *)
(***************************************************************************)
EligibleScoresEnough(a, p) ==
  (ShouldInclude(a, p) /\ p.suppliers \cap p.noSuppliers = {})
    => Overall(a, p) >= Threshold
=============================================================================
