------------------------------ MODULE SignalScan ------------------------------
(***************************************************************************)
(* The signals an article's text gives and what they score                 *)
(* (src/worker/signal_tasks.py, signals/classifier.py, risk_scorer.py).    *)
(*                                                                         *)
(* A text is the set of the types one of whose keywords it contains.       *)
(***************************************************************************)
EXTENDS Ordering, SequencesExt

\* The classifier's checks, in its order; confidence in hundredths.
Checks ==
  <<[type |-> "bankruptcy",        severity |-> "critical", confidence |-> 85],
    [type |-> "m_and_a",           severity |-> "high",     confidence |-> 80],
    [type |-> "tariff",            severity |-> "high",     confidence |-> 78],
    [type |-> "strike",            severity |-> "medium",   confidence |-> 88],
    [type |-> "regulatory",        severity |-> "medium",   confidence |-> 75],
    [type |-> "supply_disruption", severity |-> "high",     confidence |-> 82]>>

\* classify: a signal for every check that finds a word in text or headline.
Classify(text, headline) ==
  Filtered(Checks, {i \in DOMAIN Checks : Checks[i].type \in text \cup headline})

\* RiskScorer's base scores, in hundredths: procurement, supply chain,
\* compliance, pricing.
BaseScores(type) ==
  CASE type = "bankruptcy"        -> <<95, 90, 60, 70>>
    [] type = "m_and_a"           -> <<80, 75, 70, 65>>
    [] type = "tariff"            -> <<85, 70, 90, 95>>
    [] type = "strike"            -> <<70, 85, 40, 50>>
    [] type = "regulatory"        -> <<75, 50, 95, 40>>
    [] type = "supply_disruption" -> <<90, 95, 50, 80>>
    [] OTHER                      -> <<50, 50, 50, 50>>

SeverityMultiplier(severity) ==
  CASE severity = "critical" -> 100
    [] severity = "high"     -> 85
    [] severity = "medium"   -> 65
    [] severity = "low"      -> 40
    [] OTHER                 -> 50

\* score_signal: each impact, in ten thousandths and at most one, and their sum.
Impacts(type, severity) ==
  [i \in 1..4 |-> LET s == BaseScores(type)[i] * SeverityMultiplier(severity)
                  IN IF s > 10000 THEN 10000 ELSE s]

OverallRisk(type, severity) ==
  LET s == Impacts(type, severity) IN s[1] + s[2] + s[3] + s[4]

\* process_article_for_signals: every signal is stored in a transaction of its
\* own, and an exception ends the task; the scores are not stored.
StoredSignals(text, headline, failsAt) ==
  LET signals == Classify(text, headline)
  IN SubSeq(signals, 1, IF failsAt \in DOMAIN signals THEN failsAt - 1 ELSE Len(signals))

----------------------------------------------------------------------------
(* Two tables written apart, the classifier's severities and the scorer's   *)
(* base scores, never disagree: a signal that is called more severe scores  *)
(* higher, whatever its type and that of the other, and what a failing task *)
(* has stored by then is what it found first.                               *)
ScoreFollowsSeverity(text, headline, failsAt) ==
  LET signals == Classify(text, headline)
      stored == StoredSignals(text, headline, failsAt)
  IN /\ \A i, j \in DOMAIN signals :
          SeverityMultiplier(signals[i].severity) > SeverityMultiplier(signals[j].severity) =>
            OverallRisk(signals[i].type, signals[i].severity) >
              OverallRisk(signals[j].type, signals[j].severity)
     /\ IsPrefix(stored, signals)
=============================================================================
