---------------------------- MODULE RiskDetection ----------------------------
(***************************************************************************)
(* What risk events one processed article gives                            *)
(* (src/shared/procuresignal/risk_events/detector.py and taxonomy.py).     *)
(*                                                                         *)
(* An article is a record of the risk terms that are whole phrases of its  *)
(* text (said), the terms its signals expand to (tags), whether it has a   *)
(* priority signal, suppliers and regions, and whether its text alarms     *)
(* (names a bankruptcy, a missile, a shutdown or an embargo).  Confidence  *)
(* is in hundredths.                                                       *)
(***************************************************************************)
EXTENDS Integers, FiniteSets, SequencesExt

CONSTANTS RiskTypes,    \* RISK_TYPE_ORDER, or a part of it in that order
          RiskAliases,  \* RISK_ALIASES: for each type its terms, itself included
          TextAliases   \* _CONSERVATIVE_TEXT_ALIASES: terms, for types it names

ASSUME DetectionAssumption ==
  /\ DOMAIN RiskAliases = ToSet(RiskTypes)
  /\ DOMAIN TextAliases \subseteq ToSet(RiskTypes)

ConflictFamily == {"geopolitical", "regional_conflict"}
Rank(t) == CHOOSE i \in DOMAIN RiskTypes : RiskTypes[i] = t

\* Both conflicts are conservative, with the same texts, and the geopolitical one
\* comes first.
ASSUME ConflictAssumption ==
  /\ ConflictFamily \subseteq ToSet(RiskTypes) \cap DOMAIN TextAliases
  /\ TextAliases["regional_conflict"] = TextAliases["geopolitical"]
  /\ Rank("geopolitical") < Rank("regional_conflict")

\* risk_terms_for one type: the geopolitical terms take in the regional ones.
RiskTerms(t) ==
  RiskAliases[t] \cup IF t = "geopolitical" THEN RiskAliases["regional_conflict"] ELSE {}

Conservative(t) == t \in DOMAIN TextAliases

TextMatch(a, t) ==
  a.said \cap (IF Conservative(t) THEN TextAliases[t] ELSE RiskTerms(t)) # {}

\* What a conservative type's signal says counts only with its text.
MetadataMatch(a, t) ==
  a.tags \cap RiskTerms(t) # {} /\ (Conservative(t) => TextMatch(a, t))

\* A conflict takes an action, not just a place.
Acted(a) == (a.tags \cup a.said) \cap TextAliases["geopolitical"] # {}

Capped(score) == IF score > 95 THEN 95 ELSE score

\* _confidence
Confidence(a, t) ==
  Capped(50 + (IF MetadataMatch(a, t) THEN 25 ELSE 0) + (IF TextMatch(a, t) THEN 25 ELSE 0)
            + (IF a.priority THEN 5 ELSE 0) + (IF a.suppliers THEN 3 ELSE 0)
            + (IF a.regions THEN 2 ELSE 0))

Candidates(a) == {t \in ToSet(RiskTypes) :
                    /\ t \in ConflictFamily => Acted(a)
                    /\ MetadataMatch(a, t) \/ TextMatch(a, t)
                    /\ Confidence(a, t) >= 55}

Stronger(a, t, u) == \/ Confidence(a, t) > Confidence(a, u)
                     \/ Confidence(a, t) = Confidence(a, u) /\ Rank(t) < Rank(u)

\* detect_risk_events, with _dedupe_events: of the conflict family the
\* strongest stays.
DetectRiskEvents(a) ==
  {t \in Candidates(a) : ~\E u \in ConflictFamily \cap Candidates(a) :
                            t \in ConflictFamily /\ Stronger(a, u, t)}

\* SEVERITY_BY_RISK_TYPE
UsualSeverity(t) ==
  CASE t = "bankruptcy" -> "critical"
    [] t \in {"geopolitical", "regional_conflict", "sanctions", "supply_disruption",
              "cybersecurity"} -> "high"
    [] OTHER -> "medium"

\* _severity
Severity(a, t) ==
  IF ~a.alarms THEN UsualSeverity(t)
  ELSE IF t \in {"bankruptcy", "geopolitical", "sanctions"} THEN "critical" ELSE "high"

----------------------------------------------------------------------------
SeverityLevel == [medium |-> 1, high |-> 2, critical |-> 3]

(***************************************************************************)
(* Detection is conservative where it says so, and consistent: an article  *)
(* whose text says nothing of a conservative type is not reported under    *)
(* it, whatever it is tagged (detector.py:114-120); a conflict is reported *)
(* once, and always under one name, so that its event keys agree           *)
(* (detector.py:247-257); a text that alarms never makes a type less       *)
(* severe than one that does not (detector.py:203-207).                    *)
(***************************************************************************)
DetectionIsConservative(a) ==
  /\ \A t \in DetectRiskEvents(a) : Conservative(t) => a.said \cap TextAliases[t] # {}
  /\ "regional_conflict" \notin DetectRiskEvents(a)
  /\ \A t \in ToSet(RiskTypes) :
       SeverityLevel[Severity([a EXCEPT !.alarms = FALSE], t)]
         <= SeverityLevel[Severity([a EXCEPT !.alarms = TRUE], t)]
=============================================================================
