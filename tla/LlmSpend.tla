------------------------------ MODULE LlmSpend ------------------------------
(***************************************************************************)
(* The durable daily cap on model tokens                                   *)
(* (src/shared/procuresignal/enrichment/budget.py) and its three kinds of  *)
(* spender, all of which draw on the shared bucket:                        *)
(*                                                                         *)
(*   "enrichment"  process_raw_articles: many calls in one transaction,    *)
(*                 bounded by the per-run EnrichmentBudget too;            *)
(*   "agent"       run_loop: a commit after every turn;                    *)
(*   "embedding"   embed_pending_articles: a commit after every batch.     *)
(*                                                                         *)
(* Isolation is READ COMMITTED: a check sees what is committed and what    *)
(* its own transaction has added.  The upsert of _increment locks the      *)
(* day's row until its transaction ends, and adds in the database, so it   *)
(* is represented by the amount it adds.  Amounts are small numbers.       *)
(***************************************************************************)
EXTENDS Integers, FiniteSetsExt, Sums

CONSTANTS Enrichers, Agents, Embedders,  \* the spenders, by kind
          Days,         \* bound: the days looked at are 1..Days
          Cap,          \* DAILY_TOKEN_BUDGET
          Estimates,    \* what a call is expected to cost
          Usages,       \* what a call may really cost
          RunCalls,     \* calls of a run: max_llm_calls, max_steps, limit / batch_size
          RunTokens,    \* max_llm_tokens
          BillBound     \* bound: no further call once this much has been billed

Clients == Enrichers \cup Agents \cup Embedders

ASSUME AmountsAssumption == /\ Cap \in Nat /\ RunCalls \in Nat /\ RunTokens \in Nat
                            /\ Estimates \subseteq Nat \ {0} /\ Estimates # {}
                            /\ Usages \subseteq Nat
                            /\ IsFiniteSet(Usages \cup Estimates)
                            /\ IsFiniteSet(Clients) /\ Clients # {}
                            /\ Days \in Nat \ {0}

VARIABLES
  today,     \* date.today()
  spent,     \* committed tokens_used of each day's row
  own,       \* what each open transaction has added to each day's row
  standing,  \* where each client stands
  estimate,  \* of the call it is making
  due,       \* what its last call cost, not yet charged
  made,      \* calls of this run (_calls_reserved, turns, batches)
  reserved,  \* _tokens_reserved of this run
  billed,    \* tokens the provider has been paid for, in all
  lost       \* of these, tokens whose charge was rolled back

spendVars == <<today, spent, own, standing, estimate, due, made, reserved, billed, lost>>

ClientPhases == {"idle", "open", "calling", "charging", "charged"}
NothingAdded == [d \in 1..Days |-> 0]

SpendInit ==
  /\ today = 1
  /\ spent = NothingAdded
  /\ own = [c \in Clients |-> NothingAdded]
  /\ standing = [c \in Clients |-> "idle"]
  /\ estimate = [c \in Clients |-> 0]
  /\ due = [c \in Clients |-> 0]
  /\ made = [c \in Clients |-> 0]
  /\ reserved = [c \in Clients |-> 0]
  /\ billed = 0
  /\ lost = 0

\* remaining_tokens, as this client's transaction sees the row.
Remaining(c) == LET used == spent[today] + own[c][today]
                IN IF used < Cap THEN Cap - used ELSE 0

\* EnrichmentBudget.reserve, MAX_STEPS, the batches of one embedding task.
RunAllows(c, tokens) == /\ made[c] < RunCalls
                        /\ c \in Enrichers => reserved[c] + tokens <= RunTokens

Begin(c) == /\ standing[c] = "idle"
            /\ standing' = [standing EXCEPT ![c] = "open"]
            /\ UNCHANGED <<today, spent, own, estimate, due, made, reserved, billed, lost>>

Unrecorded(c) == due[c] + SumOf(own[c])

\* Mutant of Over: the session is left open, its transaction with it.
OverLeakingTransaction(c) ==
  /\ standing' = [standing EXCEPT ![c] = "idle"]
  /\ due' = [due EXCEPT ![c] = 0]
  /\ estimate' = [estimate EXCEPT ![c] = 0]
  /\ made' = [made EXCEPT ![c] = 0]
  /\ reserved' = [reserved EXCEPT ![c] = 0]
  /\ UNCHANGED <<today, billed, own>>

\* The run is over: its transaction is committed or rolled back.
Over(c) == /\ standing' = [standing EXCEPT ![c] = "idle"]
           /\ own' = [own EXCEPT ![c] = NothingAdded]
           /\ due' = [due EXCEPT ![c] = 0]
           /\ estimate' = [estimate EXCEPT ![c] = 0]
           /\ made' = [made EXCEPT ![c] = 0]
           /\ reserved' = [reserved EXCEPT ![c] = 0]
           /\ UNCHANGED <<today, billed>>

\* Mutant of AskBudget: only the run's own budget is asked.
AskRunBudgetOnly(c) ==
  /\ standing[c] = "open"
  /\ \E tokens \in Estimates :
       /\ RunAllows(c, tokens)
       /\ estimate' = [estimate EXCEPT ![c] = tokens]
       /\ reserved' = [reserved EXCEPT ![c] = IF c \in Enrichers THEN @ + tokens ELSE 0]
  /\ billed < BillBound
  /\ made' = [made EXCEPT ![c] = @ + 1]
  /\ standing' = [standing EXCEPT ![c] = "calling"]
  /\ UNCHANGED <<today, spent, own, due, billed, lost>>

\* within_budget and the run's own budget both allow the call.
AskBudget(c) ==
  /\ standing[c] = "open"
  /\ \E tokens \in Estimates :
       /\ tokens <= Remaining(c)
       /\ RunAllows(c, tokens)
       /\ estimate' = [estimate EXCEPT ![c] = tokens]
       /\ reserved' = [reserved EXCEPT ![c] = IF c \in Enrichers THEN @ + tokens ELSE 0]
  /\ billed < BillBound
  /\ made' = [made EXCEPT ![c] = @ + 1]
  /\ standing' = [standing EXCEPT ![c] = "calling"]
  /\ UNCHANGED <<today, spent, own, due, billed, lost>>

\* The answer, or the failure, and its usage.  The embedder charges its estimate.
Answer(c) ==
  /\ standing[c] = "calling"
  /\ \E used \in IF c \in Embedders THEN {estimate[c]} ELSE Usages :
       /\ due' = [due EXCEPT ![c] = used]
       /\ billed' = billed + used
  /\ standing' = [standing EXCEPT ![c] = "charging"]
  /\ UNCHANGED <<today, spent, own, estimate, made, reserved, lost>>

\* Nobody else's transaction has upserted the row of the day.
RowFree(c) == \A d \in Clients \ {c} : own[d][today] = 0

\* Mutant of Charge: an overage is refused and nothing records it.
ChargeWithinCap(c) ==
  /\ standing[c] = "charging"
  /\ due[c] > 0 => RowFree(c)
  /\ own' = IF due[c] <= Remaining(c) THEN [own EXCEPT ![c][today] = @ + due[c]] ELSE own
  /\ due' = [due EXCEPT ![c] = 0]
  /\ standing' = [standing EXCEPT ![c] = "charged"]
  /\ UNCHANGED <<today, spent, estimate, made, reserved, billed, lost>>

\* consume, or consume_overage when consume refuses: either way _increment
\* adds the usage, waiting for the row's lock; nothing is done when it is 0.
Charge(c) ==
  /\ standing[c] = "charging"
  /\ due[c] > 0 => RowFree(c)
  /\ own' = [own EXCEPT ![c][today] = @ + due[c]]
  /\ due' = [due EXCEPT ![c] = 0]
  /\ standing' = [standing EXCEPT ![c] = "charged"]
  /\ UNCHANGED <<today, spent, estimate, made, reserved, billed, lost>>

Recorded(c) == [d \in 1..Days |-> spent[d] + own[c][d]]

\* Enrichment goes on in the same transaction; the others commit.
Proceed(c) ==
  /\ standing[c] = "charged"
  /\ standing' = [standing EXCEPT ![c] = "open"]
  /\ \/ /\ c \in Enrichers
        /\ UNCHANGED <<spent, own>>
     \/ /\ c \notin Enrichers
        /\ spent' = Recorded(c)
        /\ own' = [own EXCEPT ![c] = NothingAdded]
  /\ UNCHANGED <<today, estimate, due, made, reserved, billed, lost>>

\* The run has dealt with its last article, turn or batch, or was refused a
\* call (enrichment defers the article and goes on).
FinishRun(c) == /\ standing[c] = "open"
             /\ spent' = Recorded(c)
             /\ lost' = lost
             /\ Over(c)

\* It raises, deadlocks or dies: the transaction is rolled back.
FailCall(c) == /\ standing[c] # "idle"
           /\ lost' = lost + Unrecorded(c)
           /\ spent' = spent
           /\ Over(c)

Midnight == /\ today < Days
            /\ today' = today + 1
            /\ UNCHANGED <<spent, own, standing, estimate, due, made, reserved, billed, lost>>

SpendStep(c) == Begin(c) \/ AskBudget(c) \/ Answer(c) \/ Charge(c) \/ Proceed(c) \/ FinishRun(c)

SpendNext == Midnight \/ \E c \in Clients : SpendStep(c) \/ FailCall(c)

SpendSpec == SpendInit /\ [][SpendNext]_spendVars

(***************************************************************************)
(* A live client goes on, and a lock that keeps coming free is granted     *)
(* (PostgreSQL queues for row locks).  Nothing obliges anyone to fail.     *)
(***************************************************************************)
SpendFairSpec ==
  /\ SpendSpec
  /\ \A c \in Clients : /\ WF_spendVars(Answer(c) \/ Proceed(c) \/ FinishRun(c))
                        /\ SF_spendVars(Charge(c))

----------------------------------------------------------------------------
SpendTypeOK ==
  /\ today \in 1..Days
  /\ spent \in [1..Days -> Nat]
  /\ own \in [Clients -> [1..Days -> Nat]]
  /\ standing \in [Clients -> ClientPhases]
  /\ estimate \in [Clients -> Estimates \cup {0}]
  /\ due \in [Clients -> Nat]
  /\ made \in [Clients -> 0..RunCalls]
  /\ reserved \in [Clients -> 0..RunTokens]
  /\ billed \in Nat
  /\ lost \in Nat

OneCall == Max(Usages \cup Estimates)
Slack == Cardinality(Clients) * OneCall

(***************************************************************************)
(* The stop is as hard as it can be: what is recorded for a day, charged   *)
(* or about to be, exceeds the cap by less than one call per client,       *)
(* although checks and charges interleave, hold the row across a whole     *)
(* enrichment run, and straddle midnight (budget.py:105-135).              *)
(***************************************************************************)
OvershootBounded ==
  \A d \in 1..Days :
    LET recorded == spent[d] + SumOf([c \in Clients |-> own[c][d]])
        coming == IF d = today THEN SumOf(due) ELSE 0
    IN recorded + coming < Cap + Slack

(***************************************************************************)
(* No charge is lost but by a rollback: what the provider was paid for is  *)
(* in a row, in a transaction, about to be charged, or was rolled back     *)
(* (_increment: "Read-modify-write loses updates").                        *)
(***************************************************************************)
NothingElseIsLost ==
  billed = SumOf(spent) + lost + SumOf([c \in Clients |-> Unrecorded(c)])

(***************************************************************************)
(* A run that waits for the day's row gets it: nobody holds it for ever.   *)
(***************************************************************************)
ChargesGoThrough == \A c \in Clients : standing[c] = "charging" ~> standing[c] # "charging"

(***************************************************************************)
(* budget.py:8: "A hard stop, not a throttle. Refusing the call is the     *)
(* point".  So the tokens paid for in a day, not only those recorded, stay *)
(* within the cap and its slack.                                           *)
(***************************************************************************)
HardStop == today = 1 => billed < Cap + Slack
=============================================================================
