------------------------------- MODULE Impact -------------------------------
(***************************************************************************)
(* How exposed a supplier is (src/shared/procuresignal/scoring/impact.py). *)
(*                                                                         *)
(* An event is a record: its key, risk type, severity, the age of its      *)
(* publication in half-lives (never below zero: a date in the future       *)
(* counts as now), its confidence in twentieths, the suppliers it was      *)
(* resolved to.  A contribution is a weight times a decay times a          *)
(* confidence, here in sixteen hundredths; a total has a discount of 7/20  *)
(* for each stronger event.  The bounds are whole half-lives, at most      *)
(* three, and at most MaxEvents events of one supplier.                    *)
(***************************************************************************)
EXTENDS Sums, Ordering, Sequences

CONSTANTS MaxEvents,   \* events of one supplier
          WindowAge    \* risk_event_days, in half-lives

ASSUME ImpactAssumption == MaxEvents \in Nat \ {0} /\ WindowAge \in 0..3

----------------------------------------------------------------------------
\* SEVERITY_WEIGHTS in tenths; a severity nobody knows lands mid-scale.
SeverityWeight(s) == CASE s = "critical" -> 10
                       [] s = "high"     -> 7
                       [] s = "medium"   -> 4
                       [] s = "low"      -> 2
                       [] OTHER          -> 4

\* _recency, in eighths.
Recency(e) == LET age == IF e.age > 0 THEN e.age ELSE 0 IN 8 \div 2^age

\* _contribution.  A confidence out of range counts as the nearest within it.
Contribution(e) ==
  LET sure == IF e.confidence > 20 THEN 20 ELSE IF e.confidence < 0 THEN 0 ELSE e.confidence
  IN SeverityWeight(e.severity) * Recency(e) * sure

Full == 10 * 8 * 20  \* a critical event, published now, certain

----------------------------------------------------------------------------
\* A driver before another: the larger contribution, then the smaller key.
Before(e, f) == \/ Contribution(e) > Contribution(f)
                \/ Contribution(e) = Contribution(f) /\ e.key < f.key

Position(e, events) == Cardinality({f \in events : Before(f, e)})

\* b to the power of n, for the powers that occur.
Power(b) == LET power[n \in 0..MaxEvents] == IF n = 0 THEN 1 ELSE b * power[n - 1] IN power

\* Mutant of Discount: the strongest event is discounted most.
DiscountOfStrongest(e, events) ==
  LET after == Cardinality({f \in events : Before(e, f)})
  IN Power(7)[after] * Power(20)[MaxEvents - 1 - after]

\* CORROBORATION_DISCOUNT to the power of the position, in 20^(MaxEvents-1)ths.
Discount(e, events) ==
  LET before == Position(e, events)
  IN Power(7)[before] * Power(20)[MaxEvents - 1 - before]

Total(events) == SumOf([e \in events |-> Contribution(e) * Discount(e, events)])

\* What a total may reach before the score is capped at one.
Scale == Power(20)[MaxEvents - 1] * Full

\* score_supplier's value, at least b hundredths: the total over _MAXIMUM_TOTAL,
\* which is 20/13.
AtLeast(events, b) == 1300 * Total(events) >= 20 * b * Scale

\* _band: the first threshold that is reached; sanctions are outside all of it.
Band(events) ==
  IF \E e \in events : e.type = "sanctions" \/ AtLeast(events, 50) THEN "severe"
  ELSE IF AtLeast(events, 25) THEN "elevated"
  ELSE IF AtLeast(events, 5) THEN "low"
  ELSE "none"

\* The drivers of a score, in the order they are shown.
Drivers(events) == InOrder(events, OrderBy(events, Before))

\* _events_by_supplier: by what they were resolved to, published in the window.
EventsOf(supplier, events) == {e \in events : supplier \in e.ids /\ e.age <= WindowAge}

\* supplier_impact: nothing of a supplier that is not active.
ImpactOf(supplier, active, events) ==
  {[supplier |-> s, band |-> Band(EventsOf(s, events))] : s \in {supplier} \cap active}

\* watched_impact: the watched active suppliers, most exposed first.
WatchedImpact(watched, active, events) ==
  LET total == [s \in watched \cap active |-> Total(EventsOf(s, events))]
      Above(s, t) == total[s] > total[t] \/ (total[s] = total[t] /\ s < t)
  IN InOrder(watched \cap active, OrderBy(watched \cap active, Above))

----------------------------------------------------------------------------
Fresh(severity) == [key |-> 0, type |-> "other", severity |-> severity, age |-> 0,
                    confidence |-> 19, ids |-> {}]

(* A supplier's number cannot fall as more bad news arrives, however weak   *)
(* the news is and wherever it lands in the order.                          *)
NewsNeverLowers(events) ==
  \A e \in events : Total(events) >= Total(events \ {e})

(* Coverage is not an incident: no swarm of medium reports reaches a single *)
(* critical event the detector is sure of, and that event alone is severe.  *)
SwarmStaysBelow(events) ==
  /\ Band({Fresh("critical")}) = "severe"
  /\ (\A e \in events : e.severity = "medium") =>
       Total(events) < Total({Fresh("critical")})

(* The strongest driver comes first, and the order is the same however the  *)
(* rows arrive: every pair is decided.                                      *)
DriversDecided(events) ==
  \A i, j \in DOMAIN Drivers(events) :
    i < j => Before(Drivers(events)[i], Drivers(events)[j])

(* On the watch page nobody stands below a supplier whose recent events are *)
(* all among their own, and a supplier no longer active stands nowhere.     *)
MostExposedFirst(watched, active, events) ==
  LET shown == WatchedImpact(watched, active, events) IN
  /\ \A s \in watched : ImpactOf(s, active, events) = {} <=> \A i \in DOMAIN shown : shown[i] # s
  /\ \A i, j \in DOMAIN shown :
       i < j => ~ /\ EventsOf(shown[i], events) \subseteq EventsOf(shown[j], events)
                  /\ EventsOf(shown[i], events) # EventsOf(shown[j], events)
=============================================================================
