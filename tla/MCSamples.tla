------------------------------ MODULE MCSamples ------------------------------
(***************************************************************************)
(* Inputs for the algorithms that keep no state.  TLC takes every sample   *)
(* as a state of its own and checks what the algorithm's module says of    *)
(* it.                                                                     *)
(***************************************************************************)
EXTENDS EnrichmentVerdict, RiskDetection, Impact, Ingestion, Ranking, Currency, SignalScan, TLC

VARIABLE sample  \* <<kind, input ...>>

NoSample == <<"none">>

\* What the samples say is in the vocabulary, and their events are not too many.
\* (That a literal is a string is said for the provers, which do not know it.)
ASSUME SampleAssumption ==
  /\ {"", "mine", "gas mine", "weather", "steel"} \subseteq
       Categories \cup DOMAIN CategoryAliases \cup DOMAIN WordsOf
  /\ {"", "mine", "gas mine", "weather", "steel", "energy", "walkout", "gossip"} \subseteq STRING
  /\ MaxEvents >= 3

----------------------------------------------------------------------------
\* Two groups of SIGNAL_ALIAS_GROUPS, and three tags of one of them in
\* CANONICAL_SIGNAL_TAG_ORDER.
MCAliasGroups == {{"bankruptcy", "chapter 11"}, {"strike", "port_strike", "walkout"}}
MCValidTags == <<"bankruptcy", "strike", "port_strike", "expansion">>
MCCategories == {"metals", "energy", "general"}
MCCategoryAliases == ("steel" :> "metals")
MCCategoryWords == <<<<"metals", {"copper", "mine"}>>, <<"energy", {"gas", "mine"}>>>>
MCWordsOf == [t \in {"", "gas mine", "mine", "weather"} |->
                CASE t = "gas mine" -> {"gas", "mine"} [] t = "mine" -> {"mine"} [] OTHER -> {}]

Containing(written, signals, suppliers, regions, term) ==
  [written |-> written, signals |-> signals, suppliers |-> suppliers, regions |-> regions,
   term |-> term]
SampleTexts ==
  {Containing(FALSE, {}, {}, {}, ""),
   Containing(TRUE, {}, {}, {}, "weather"),
   Containing(TRUE, {"bankruptcy"}, {}, {}, "steel"),
   Containing(TRUE, {"strike", "tariff"}, {"Bosch"}, {}, ""),
   Containing(TRUE, {}, {"Siemens"}, {"Spain"}, "gas mine")}
SampleAnswers ==
  {[category |-> c, tags |-> {"walkout", "gossip"}, suppliers |-> s, regions |-> {},
    categories |-> {}] : c \in {"energy", "mine", "weather"}, s \in {{}, {"Bosch"}}}

VerdictSample ==
  \E t, d, s \in SampleTexts, g \in BOOLEAN, src \in {"weather", "steel"}, x \in SampleAnswers :
    sample = <<"verdict", [texts |-> <<t, d, s>>, grouped |-> g, group |-> "mine",
                           source |-> src], x>>

----------------------------------------------------------------------------
\* Preferences with at most one thing watched and one excluded, of each kind.
Watching(c, s, r, g) == [categories |-> c, suppliers |-> s, supplierIds |-> {}, regions |-> r,
                         signals |-> g]
MatchSample ==
  \E a \in [top : {"metals", "energy"}, detected : {{}}, ids : {{}, {"sup1"}},
             names : {{}, {"Bosch"}}, said : {{}}, regions : {{}, {"Spain"}},
             tags : {{}, {"strike"}}, priority : {{}, {"bankruptcy"}}],
     p \in [categories : {{}, {"metals"}}, suppliers : {{}, {"Bosch"}}, supplierIds : {{}},
            regions : {{}, {"Spain"}}, signals : {{}, {"walkout"}},
            noCategories : {{}, {"metals"}}, noTopics : {{}}, noSuppliers : {{}, {"Bosch"}},
            noSupplierIds : {{}}, noRegions : {{}}, noSignals : {{}, {"walkout"}}] :
    sample = <<"match", a, p>>

MCRiskTypes == <<"geopolitical", "regional_conflict", "bankruptcy", "strike">>
MCRiskAliases == [bankruptcy |-> {"bankruptcy", "insolvency"}, geopolitical |-> {"geopolitical", "missile"},
                  regional_conflict |-> {"regional_conflict", "red sea"}, strike |-> {"strike", "walkout"}]
MCTextAliases == [geopolitical |-> {"missile"}, regional_conflict |-> {"missile"}, strike |-> {"walkout"}]
\* The tags stored are VALID_SIGNAL_TAGS, none of which stands for a conflict.
DetectionSample ==
  \E said \in SUBSET {"insolvency", "missile", "red sea", "strike", "walkout"},
     tags \in {{}, {"bankruptcy", "insolvency"}, {"strike", "walkout"}}, priority, some, alarms \in BOOLEAN :
    sample = <<"detection", [said |-> said, tags |-> tags, priority |-> priority,
                             suppliers |-> some, regions |-> FALSE, alarms |-> alarms]>>

----------------------------------------------------------------------------
Url(at, extras) == [at |-> at, extras |-> extras]
Fetched(rank, provider, id, url, class, headline) ==
  [rank |-> rank, provider |-> provider, id |-> id, url |-> url, class |-> class,
   headline |-> headline]
SampleFetched ==
  {Fetched(1, "eu_sanctions", {"d1"}, Url("list", {}), "official", "h1"),
   Fetched(2, "eu_sanctions", {"d2"}, Url("list", {}), "official", "h1"),
   Fetched(3, "rss", {"i1"}, Url("story", {"utm"}), "industry", "h2"),
   Fetched(4, "newsapi", {}, Url("story", {}), "established_media", "h2"),
   Fetched(5, "gdelt", {}, Url("story", {"page"}), "", "h2")}
FetchSample == \E fetched \in UNION {[1..n -> SampleFetched] : n \in 0..4} :
                 sample = <<"fetch", fetched>>

RawSample ==
  \E a \in [title : {"none", "blank", "short", "spam", "long", "fine"},
             description : {"none", "blank", "short", "fine"},
             snippet : {"none", "blank", "short", "fine"}, link : {"none", "scheme", "fine"},
             date : {"none", "future", "fine"}, detected : {"none", "en", "de"},
             declared : {"en"}, blocked : BOOLEAN] :
    sample = <<"raw", a>>

----------------------------------------------------------------------------
SampleEvents(key, suppliers) ==
  [key : {key}, type : {"strike"}, severity : {"critical", "medium", "low"}, age : {-1, 0, 1, 2},
   confidence : {11, 19}, ids : suppliers]
ImpactSample ==
  \E e \in SampleEvents(0, {{}}), f \in SampleEvents(1, {{}}), g \in SampleEvents(2, {{}}) :
    sample \in {<<"impact", {e, f, g}>>, <<"impact", {e, f}>>}

\* Two suppliers, of which one may no longer be active.
WatchSample ==
  \E e \in SampleEvents(0, {{1}, {2}, {1, 2}}), f \in SampleEvents(1, {{1}, {2}, {1, 2}}),
     active \in {{1, 2}, {2}} :
    sample = <<"watch", active, {e, f}>>

\* Four articles, of which three are looked at when one is asked for.
WordsSample ==
  \E fields \in [1..4 -> {{}, {"summary"}, {"title", "summary"}, {"normalized_title"}}] :
    sample = <<"words", {[id |-> i, fields |-> fields[i], age |-> i] : i \in 1..4}>>

HitsSample ==
  \E lexical, vector \in UNION {Injection(1..n, 1..4) : n \in 0..3}, limit \in 1..2,
     provider \in {"none", "fails", "answers"} :
    sample = <<"hits", lexical, vector, provider, limit>>

MCDefaultQuotes == <<"USD", "GBP">>

\* Two currencies, a word that is none, and the euro itself.
Rates(n) == UNION {[1..k -> [code : {"USD", "CHF"}, rate : {0, 2, 6}]] : k \in 0..n}
CurrencySample ==
  \E answered \in BOOLEAN, quotes \in {<<>>, <<"EUR", "word">>, <<"USD", "USD">>, <<"CHF", "USD">>},
     latest \in {<<>>} \cup {<<[code |-> "USD", rate |-> r]>> : r \in {0, 1, 3, 6, 9}},
     history \in Rates(2) :
    sample = <<"currency", answered, quotes, latest, history>>

SignalTypes == {Checks[i].type : i \in DOMAIN Checks}
SignalSample ==
  \E text \in SUBSET SignalTypes, headline \in {{}, {"strike"}}, failsAt \in {0, 2} :
    sample = <<"signals", text, headline, failsAt>>

Samples == \/ CurrencySample \/ SignalSample \/ VerdictSample \/ MatchSample
           \/ DetectionSample \/ FetchSample \/ RawSample
           \/ ImpactSample \/ WatchSample \/ WordsSample \/ HitsSample

----------------------------------------------------------------------------
(* No algorithm on an article's way loses what it should keep or keeps what *)
(* it should drop: the enrichment's verdict (SureRestsOnASignal,            *)
(* VerdictStands), risk detection (DetectionIsConservative), the feed's     *)
(* threshold (EligibleScoresEnough), deduplication and storage              *)
(* (FetchOrderDoesNotMatter, EveryRecordIsStored) and the quality checks    *)
(* (OnlyDefectsReject).                                                     *)
EvidenceIsKept ==
  /\ sample[1] = "verdict" => SureRestsOnASignal(sample[2]) /\ VerdictStands(sample[2], sample[3])
  /\ sample[1] = "match" => EligibleScoresEnough(sample[2], sample[3])
  /\ sample[1] = "detection" => DetectionIsConservative(sample[2])
  /\ sample[1] = "fetch" => FetchOrderDoesNotMatter(sample[2]) /\ EveryRecordIsStored(sample[2])
  /\ sample[1] = "raw" => OnlyDefectsReject(sample[2])

(* What is shown in an order is shown in the right one: a supplier's score  *)
(* never falls with more news, nor rises to the top by coverage alone       *)
(* (NewsNeverLowers, SwarmStaysBelow, DriversDecided, MostExposedFirst);    *)
(* a search shows the best of what it has, and fused results respect both   *)
(* retrievers (NewerAndBetterIsShown, FusionIsFair,                         *)
(* ModeTellsWhatContributed); so do the advice on a currency                *)
(* (AdviceRestsOnRates) and the scores of signals (ScoreFollowsSeverity).   *)
RankingIsFair ==
  /\ sample[1] = "impact" => /\ NewsNeverLowers(sample[2]) /\ SwarmStaysBelow(sample[2])
                             /\ DriversDecided(sample[2])
  /\ sample[1] = "watch" => MostExposedFirst({1, 2}, sample[2], sample[3])
  /\ sample[1] = "words" => NewerAndBetterIsShown(sample[2], 1)
  /\ sample[1] = "hits" =>
       /\ FusionIsFair(sample[2], sample[3])
       /\ ModeTellsWhatContributed(TRUE, sample[4], sample[2], sample[3], sample[5])
  /\ sample[1] = "currency" => AdviceRestsOnRates(sample[2], sample[3], sample[4], sample[5])
  /\ sample[1] = "signals" => ScoreFollowsSeverity(sample[2], sample[3], sample[4])
=============================================================================
