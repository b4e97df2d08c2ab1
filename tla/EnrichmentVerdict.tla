-------------------------- MODULE EnrichmentVerdict --------------------------
(***************************************************************************)
(* What enrichment makes of one article                                    *)
(* (src/shared/procuresignal/enrichment/deterministic.py, router.py and    *)
(* the body of pipeline.py's loop): the local rules score it, the router   *)
(* chooses a route, and the model's answer, if there is one, is merged     *)
(* with what the rules found.                                              *)
(*                                                                         *)
(* An article is a sequence of its texts - title, description, snippet -   *)
(* and whether its query group is one of QUERY_GROUPS.  A text is a record *)
(* of what the rules recognise in it:                                      *)
(*   written    it is not blank                                            *)
(*   signals    the signal types whose keywords it has                     *)
(*   suppliers, regions    the names and places it has                     *)
(*   term       what it says about its category                            *)
(* "group" and "source" are the terms of its query group and source name.  *)
(* Scores are in ten-thousandths; they are within 0 and 1, so _bounded     *)
(* changes nothing.                                                        *)
(***************************************************************************)
EXTENDS Integers, FiniteSets, Sequences, Sums, Matching

CONSTANTS Categories,        \* CANONICAL_CATEGORIES
          CategoryAliases,   \* CATEGORY_ALIASES: a function from terms to categories
          CategoryWords,     \* CATEGORY_KEYWORDS: a sequence of <<category, words>>
          WordsOf,           \* the words of a term
          ValidTags,         \* VALID_SIGNAL_TAGS in CANONICAL_SIGNAL_TAG_ORDER
          MinRelevance, MinConfidence, MinFallback  \* EnrichmentPolicy

\* EnrichmentPolicy's own check, and what its default values keep to: a signal
\* makes an article relevant, and no article is certain without one.
ASSUME PolicyAssumption ==
  /\ MinRelevance \in 0..4500
  /\ MinConfidence \in 5501..10000
  /\ MinFallback \in 0..MinConfidence

\* The vocabulary of personalization/categories.py: "general" is a category,
\* aliases stand for strings, and there are keywords.
ASSUME VocabularyAssumption ==
  /\ "general" \in Categories /\ Categories \subseteq STRING
  /\ \A term \in DOMAIN CategoryAliases : CategoryAliases[term] \in STRING
  /\ CategoryWords \in Seq(STRING \X SUBSET STRING) /\ CategoryWords # <<>>
  /\ \A term \in DOMAIN WordsOf : IsFiniteSet(WordsOf[term])

----------------------------------------------------------------------------
Shared(c, term) == Cardinality(WordsOf[term] \cap CategoryWords[c][2])

\* canonical_category: the name itself, an alias, the category whose keywords
\* the term shares most words with (the first of them), or the term as it is.
CanonicalCategory(term) ==
  IF term \in Categories THEN term
  ELSE IF term \in DOMAIN CategoryAliases THEN CategoryAliases[term]
  ELSE LET Before(c, d) == \/ Shared(c, term) > Shared(d, term)
                           \/ Shared(c, term) = Shared(d, term) /\ c <= d
           best == CHOOSE c \in DOMAIN CategoryWords : \A d \in DOMAIN CategoryWords : Before(c, d)
       IN IF Shared(best, term) > 0 THEN CategoryWords[best][1] ELSE term

\* canonical_signal_tag: a set of at most one tag.
CanonicalTag(term) ==
  LET Among(terms) == {i \in DOMAIN ValidTags : ValidTags[i] \in terms}
      hits == IF Among({term}) # {} THEN Among({term}) ELSE Among(Expand({term}))
  IN {ValidTags[i] : i \in {j \in hits : \A k \in hits : j <= k}}

----------------------------------------------------------------------------
SignalsOf(a) == UNION {a.texts[i].signals : i \in DOMAIN a.texts}
NamedSuppliers(a) == UNION {a.texts[i].suppliers : i \in DOMAIN a.texts}
NamedRegions(a) == UNION {a.texts[i].regions : i \in DOMAIN a.texts}

\* The classifier's checks: how sure each is, in hundredths.
Sureness == [bankruptcy |-> 85, m_and_a |-> 80, tariff |-> 78,
             strike |-> 88, regulatory |-> 75, supply_disruption |-> 82]
Surest(a) == IF SignalsOf(a) = {} THEN 0
             ELSE Sureness[CHOOSE s \in SignalsOf(a) :
                             \A t \in SignalsOf(a) : Sureness[s] >= Sureness[t]]

\* _infer_category's candidates, and what each weighs.
Opinions(a) == [i \in 1..3 |-> CanonicalCategory(a.texts[i].term)]
                 \o <<CanonicalCategory(a.group), CanonicalCategory(a.source)>>
Weight == <<3, 3, 2, 1, 1>>

\* _infer_category: the heaviest, the one named first among equals.
Heaviest == [opinions \in [1..5 -> STRING] |->
  LET named == {i \in 1..5 : opinions[i] \in Categories \ {"general"}}
      votes == [i \in named |->
                  SumOf([j \in {k \in named : opinions[k] = opinions[i]} |-> Weight[j]])]
      Ahead(i, j) == votes[i] > votes[j] \/ (votes[i] = votes[j] /\ i <= j)
  IN IF named = {} THEN "general"
     ELSE opinions[CHOOSE i \in named : \A j \in named : Ahead(i, j)]]

Inferred(a) == Heaviest[Opinions(a)]

Entities(a) == LET n == Cardinality(NamedSuppliers(a)) + Cardinality(NamedRegions(a))
               IN IF n > 2 THEN 2 ELSE n

Relevance(a) ==
  (IF SignalsOf(a) # {} THEN 4500 ELSE 0) + (IF a.grouped THEN 2500 ELSE 0)
    + 1000 * Entities(a) + (IF Inferred(a) # "general" THEN 1000 ELSE 0)

Certainty(a) ==
  45 * Surest(a) + 1000 * Entities(a) + (IF Inferred(a) # "general" THEN 2000 ELSE 0)
    + 500 * Cardinality({i \in DOMAIN a.texts : a.texts[i].written})

\* What the rules say of the article.
Local(a) == [category |-> Inferred(a), tags |-> SignalsOf(a), suppliers |-> NamedSuppliers(a),
             regions |-> NamedRegions(a), categories |-> {Inferred(a)}]

----------------------------------------------------------------------------
\* EnrichmentRouter.decide, after the cache had nothing.
Route(a, budget) ==
  IF Relevance(a) < MinRelevance THEN "skipped"
  ELSE IF Certainty(a) >= MinConfidence THEN "deterministic"
  ELSE IF budget THEN "llm" ELSE "deferred"

\* EnrichmentOutput's validators: what is kept of the model's answer.
Parsed(answer) ==
  LET category == CanonicalCategory(answer.category)
  IN [category |-> IF category \in Categories THEN category ELSE "general",
      tags |-> UNION {CanonicalTag(t) : t \in answer.tags},
      suppliers |-> answer.suppliers, regions |-> answer.regions,
      categories |-> answer.categories]

\* Mutant of WithLocal: the answer as it is.
AnswerAlone(out, a) == out

\* _merge_deterministic_evidence; the signals are not among what it keeps.
WithLocal(out, a) ==
  [out EXCEPT !.suppliers = @ \cup NamedSuppliers(a), !.regions = @ \cup NamedRegions(a),
              !.categories = @ \cup {out.category, Inferred(a)}]

\* One article's verdict: the status of its row, and the output stored, if
\* any.  "reachable": the budget allows a call and a client can be made;
\* "answers": the answers that came, none when the call or its parsing fails.
Verdict(a, reachable, answers) ==
  LET Completed(output) == [status |-> "completed", output |-> {output}]
      Without(status) == [status |-> status, output |-> {}]
      Unsure == IF Certainty(a) >= MinFallback THEN Completed(Local(a))
                ELSE Without("enrichment_retry")
      On == [skipped       |-> Without("skipped"),
             deterministic |-> Completed(Local(a)),
             deferred      |-> Without("deferred"),
             llm           |-> IF answers = {} THEN Unsure
                               ELSE Completed(WithLocal(Parsed(CHOOSE x \in answers : TRUE), a))]
  IN On[Route(a, reachable)]

----------------------------------------------------------------------------
(* The rules answer by themselves only for an article that shows a signal   *)
(* and is relevant, so no article is skipped that they are sure of.         *)
SureRestsOnASignal(a) ==
  Certainty(a) >= MinConfidence => SignalsOf(a) # {} /\ Relevance(a) >= MinRelevance

(* Neither the budget nor the model changes what the article is: it is      *)
(* skipped, or decided by the rules, whatever they are; and what the rules  *)
(* found of names and places is in the output whoever wrote it.             *)
VerdictStands(a, answer) ==
  \A v, w \in {Verdict(a, TRUE, {answer}), Verdict(a, TRUE, {}), Verdict(a, FALSE, {})} :
    /\ v.status = "skipped" => w.status = "skipped"
    /\ Certainty(a) >= MinConfidence => v = w
    /\ \A out \in v.output : /\ NamedSuppliers(a) \subseteq out.suppliers
                             /\ NamedRegions(a) \subseteq out.regions
                             /\ Inferred(a) \in out.categories /\ out.category \in Categories
=============================================================================
