------------------------------- MODULE Currency -------------------------------
(***************************************************************************)
(* What the currency monitor says of each currency                         *)
(* (src/shared/procuresignal/currency/service.py).                         *)
(*                                                                         *)
(* A payload of the provider is a sequence of rows, in the order the       *)
(* provider sends them: [code, rate], rate 0 standing for one that is      *)
(* missing; a dictionary is a sequence without two rows of a code.  Rates  *)
(* are whole numbers, and a position is a fraction of a range.             *)
(***************************************************************************)
EXTENDS Ordering, SequencesExt

CONSTANTS Codes,         \* what a quote may be, in capitals, three letters
          DefaultQuotes  \* DEFAULT_EUR_QUOTES

ASSUME CurrencyAssumption ==
  DefaultQuotes \in Seq(Codes \ {"EUR"}) /\ IsInjective(DefaultQuotes)

\* _normalize_quotes: each once, in the order asked for, or the default.
CleanQuotes(quotes) ==
  LET first == {i \in DOMAIN quotes : /\ quotes[i] \in Codes \ {"EUR"}
                                      /\ \A j \in 1..(i - 1) : quotes[j] # quotes[i]}
  IN IF first = {} THEN DefaultQuotes ELSE Filtered(quotes, first)

\* The rows that have a rate of a currency.
RowsOf(rows, code) == {i \in DOMAIN rows : rows[i].code = code /\ rows[i].rate # 0}

\* _extract_history_rates, of one currency.
Values(history, code) == {history[i].rate : i \in RowsOf(history, code)}

\* _extract_latest_rates: a later row replaces an earlier one; 0 without any.
LastRate(rows, code) ==
  IF RowsOf(rows, code) = {} THEN 0 ELSE rows[Max(RowsOf(rows, code))].rate

\* _procurement_signal; the position is (rate - low) / (high - low), in [0, 1].
Advice(rate, low, high) ==
  LET above == IF rate < low THEN 0 ELSE IF rate > high THEN high - low ELSE rate - low
  IN CASE low = high -> "mid"
       [] low # high /\ 10 * above >= 8 * (high - low) -> "high"
       [] low # high /\ 10 * above <= 2 * (high - low) -> "low"
       [] OTHER -> "mid"

\* A currency's rate: the latest or, without one, the last of its history.
Rate(latest, history, code) ==
  IF LastRate(latest, code) # 0 THEN LastRate(latest, code) ELSE LastRate(history, code)

Line(latest, history, code) ==
  LET rate == Rate(latest, history, code)
      range == IF Values(history, code) = {} THEN {rate} ELSE Values(history, code)
  IN [code |-> code, rate |-> rate, low |-> Min(range), high |-> Max(range),
      advice |-> Advice(rate, Min(range), Max(range))]

\* _fallback_response: every currency, with a rate nobody should read.
Unavailable(code) == [code |-> code, rate |-> 1, low |-> 1, high |-> 1, advice |-> "unavailable"]

\* get_eur_monitor: a currency of which no rate is known has no line.
Monitor(answered, quotes, latest, history) ==
  LET codes == CleanQuotes(quotes)
      known == Filtered(codes, {i \in DOMAIN codes : Rate(latest, history, codes[i]) # 0})
  IN IF answered THEN [k \in DOMAIN known |-> Line(latest, history, known[k])]
     ELSE [i \in DOMAIN codes |-> Unavailable(codes[i])]

----------------------------------------------------------------------------
(* Every currency asked for that the provider has a rate of is shown once,  *)
(* in the order asked for, and no other; the advice to buy now or to wait   *)
(* is given only against a rate of the period that was really lower, or     *)
(* higher, and a rate beyond the whole period is never called mid-range.    *)
AdviceRestsOnRates(answered, quotes, latest, history) ==
  LET lines == Monitor(answered, quotes, latest, history)
      codes == [i \in DOMAIN lines |-> lines[i].code]
  IN /\ IsInjective(codes)
     /\ ToSet(codes) = {c \in ToSet(CleanQuotes(quotes)) :
                          ~answered \/ \E r \in ToSet(latest \o history) : r.code = c /\ r.rate # 0}
     /\ \A i \in DOMAIN lines : answered =>
          LET seen == Values(history, codes[i]) IN
            /\ lines[i].advice = "high" => \E v \in seen : v < lines[i].rate
            /\ lines[i].advice = "low" => \E v \in seen : v > lines[i].rate
            /\ Cardinality(seen) > 1 /\ (\A v \in seen : v <= lines[i].rate) => lines[i].advice = "high"
            /\ Cardinality(seen) > 1 /\ (\A v \in seen : v >= lines[i].rate) => lines[i].advice = "low"
=============================================================================
