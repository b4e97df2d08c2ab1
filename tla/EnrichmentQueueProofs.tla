------------------------ MODULE EnrichmentQueueProofs ------------------------
(***************************************************************************)
(* EnrichmentQueue for every number of workers and articles and every      *)
(* choice of the delays: types, exclusive work, live workers keep their    *)
(* leases, the promise of ArticleWork is kept, the two records of success  *)
(* agree, and verdicts are final; and, beside the normaliser's task, no    *)
(* success is forged and nothing enriched is enriched again.               *)
(***************************************************************************)
EXTENDS EnrichmentWithNormalizer, TLAPS

(***************************************************************************)
(* The invariant.  Retention may delete rows under an execution, so the    *)
(* lease facts are about present rows; that nobody else takes a deleted    *)
(* article follows because ids are never reused (TypeOK: everything held   *)
(* has been ingested).  A lease and the age of the execution that took it  *)
(* add up to at least LeaseLen, which is why no live execution, being      *)
(* younger than LeaseLen, ever sees its lease expire.                      *)
(***************************************************************************)
LeaseInv == \A w \in Workers : \A a \in Held(w) \cap Present :
              row[a].owner = w /\ row[a].lease + age[w] >= LeaseLen

HeldUnprocessed == \A w \in Workers : Held(w) \cap processed = {}

IdleHoldsNothing == \A w \in Workers : phase[w] = "idle" => Held(w) = {}

\* exclude_ids works: an execution never claims a row twice.
ClaimedOnce == \A w \in Workers : Held(w) \subseteq scanned[w] /\ batch[w] \cap fresh[w] = {}

IInv == /\ TypeOK /\ ExclusiveWork /\ LeaseInv
        /\ HeldUnprocessed /\ IdleHoldsNothing /\ ClaimedOnce

----------------------------------------------------------------------------
\* Attempt counters saturate, and countdowns step towards 0.
LEMMA OneMoreType == \A n \in 0..AttemptCap : OneMore(n) \in 0..AttemptCap
  BY SizesAssumption DEF OneMore

\* A tick takes at most one from a countdown.
LEMMA LessType == \A n \in Nat : Less(n) \in Nat /\ Less(n) <= n /\ Less(n) + 1 >= n
  BY DEF Less

\* The updates of a row keep its type.
LEMMA RowUpdates ==
  ASSUME NEW r \in Row, NEW w \in Workers
  PROVE  /\ Leased(r, w) \in Row
         /\ Rejected(r) \in Row
         /\ \A d \in Nat : Raised(r, d) \in Row
         /\ Released(r) \in Row
         /\ \A o \in Outcomes : Transitioned(r, o) \in Row
         /\ Orphaned(r, w) \in Row
<1>1. OneMore(r.attempts) \in 0..AttemptCap
  BY OneMoreType DEF Row
<1>2. Leased(r, w) \in Row
  BY LeaseAssumption DEF Row, Statuses, Leased
<1>3. Rejected(r) \in Row
  BY DEF Row, Statuses, Rejected
<1>4. ASSUME NEW d \in Nat PROVE Raised(r, d) \in Row
  BY <1>1 DEF Row, Statuses, Raised
<1>5. Released(r) \in Row
  BY <1>1, DelaysAssumption DEF Row, Statuses, Released
<1>6. ASSUME NEW o \in Outcomes PROVE Transitioned(r, o) \in Row
  <2>1. CASE o \in {"deferred", "failed"}
    BY <1>1, <2>1, DelaysAssumption DEF Row, Statuses, Transitioned
  <2>2. CASE o \notin {"deferred", "failed"}
    BY <2>2 DEF Row, Statuses, Outcomes, Transitioned
  <2>3. QED BY <2>1, <2>2
<1>7. Orphaned(r, w) \in Row
  BY DEF Row, Orphaned
<1>8. QED BY <1>2, <1>3, <1>4, <1>5, <1>6, <1>7

\* Rows are well typed to begin with.
LEMMA NewRowType == NewRow \in Row
  BY SizesAssumption DEF Row, Statuses, NewRow

\* The initial state is well typed.
LEMMA InitTypeOK == Init => TypeOK
  BY NewRowType, SizesAssumption, LeaseAssumption DEF Init, TypeOK, Phases

----------------------------------------------------------------------------
(***************************************************************************)
(* What one turn of the claim loop does to the rows.                       *)
(***************************************************************************)
LEMMA FlushedType ==
  ASSUME TypeOK, NEW w \in Workers, NEW v \in Verdicts(w),
         NEW delay \in [v.raised -> 0..BackoffMax]
  PROVE  /\ Flushed(v, delay) \in [Articles -> Row]
         /\ \A a \in Articles \ batch[w] : Flushed(v, delay)[a] = row[a]
<1>1. \A a \in Articles : row[a] \in Row
  BY DEF TypeOK
<1>2. \A a \in v.raised : delay[a] \in Nat
  BY DelaysAssumption
<1>3. \A a \in Articles : Flushed(v, delay)[a] \in Row
  BY <1>1, <1>2, RowUpdates DEF Flushed
<1>4. v.raised \subseteq batch[w] /\ v.rejected \subseteq batch[w]
  BY DEF Verdicts
<1>5. QED BY <1>3, <1>4 DEF Flushed

\* What a turn of the claim loop leases is due after its flush.
LEMMA ClaimsAreDue ==
  ASSUME TypeOK, NEW w \in Workers, NEW v, NEW delay
  PROVE  /\ Claims(w, v, delay) \subseteq Due(Flushed(v, delay), w)
         /\ Claims(w, v, delay) \subseteq Present
         /\ Claims(w, v, delay) \subseteq Articles
         /\ Claims(w, v, delay) \subseteq 1..ingested
<1>1. Claims(w, v, delay) \subseteq Due(Flushed(v, delay), w)
  BY DEF Claims, Newest
<1>2. Due(Flushed(v, delay), w) \subseteq Present
  BY DEF Due
<1>3. Present \subseteq 1..ingested /\ 1..ingested \subseteq Articles
  BY SizesAssumption DEF Present, Articles, TypeOK
<1>4. QED BY <1>1, <1>2, <1>3

----------------------------------------------------------------------------
(***************************************************************************)
(* Type correctness: one step per action.                                  *)
(***************************************************************************)
LEMMA IdleType ==
  ASSUME TypeOK, NEW w \in Workers, Idle(w), ingested' = ingested
  PROVE  /\ phase' \in [Workers -> Phases]
         /\ age' \in [Workers -> 0..TaskLimit]
         /\ batch' \in [Workers -> SUBSET (1..ingested')]
         /\ scanned' \in [Workers -> SUBSET (1..ingested')]
         /\ fresh' \in [Workers -> SUBSET (1..ingested')]
  BY LeaseAssumption DEF TypeOK, Idle, Phases

\* Every step keeps the types.
LEMMA TypeStep == TypeOK /\ [Next]_vars => TypeOK'
<1> SUFFICES ASSUME TypeOK, [Next]_vars PROVE TypeOK'
  OBVIOUS
<1> USE SizesAssumption, LeaseAssumption, DelaysAssumption
<1>0. \A a \in Articles : row[a] \in Row
  BY DEF TypeOK
<1>1. CASE UNCHANGED vars
  BY <1>1 DEF TypeOK, vars
<1>2. CASE Ingest
  <2>1. ingested' \in 0..NumArticles /\ pruned' \in 0..ingested' /\ 1..ingested \subseteq 1..ingested'
    BY <1>2 DEF Ingest, TypeOK
  <2>2. UNCHANGED <<row, processed, phase, age, batch, scanned, fresh>>
    BY <1>2 DEF Ingest, workerVars
  <2>3. QED BY <2>1, <2>2 DEF TypeOK
<1>3. CASE Prune
  <2>1. PICK n \in (pruned + 1)..ingested :
               /\ pruned' = n
               /\ row' = [a \in Articles |-> IF a <= n THEN NewRow ELSE row[a]]
    BY <1>3 DEF Prune
  <2>2. row' \in [Articles -> Row]
    BY <2>1, <1>0, NewRowType
  <2>3. pruned' \in 0..ingested
    BY <2>1 DEF TypeOK
  <2>4. QED BY <1>3, <2>2, <2>3 DEF Prune, workerVars, TypeOK
<1>4. CASE Tick
  <2>1. \A a \in Articles : [row[a] EXCEPT !.wait = Less(@), !.lease = Less(@)] \in Row
    BY <1>0, LessType DEF Row
  <2>2. row' \in [Articles -> Row]
    BY <1>4, <2>1 DEF Tick
  <2>3. age' \in [Workers -> 0..TaskLimit]
    <3>1. age' = [w \in Workers |-> IF phase[w] = "idle" THEN 0 ELSE age[w] + 1]
      BY <1>4 DEF Tick
    <3>2. ASSUME NEW w \in Workers
          PROVE  (IF phase[w] = "idle" THEN 0 ELSE age[w] + 1) \in 0..TaskLimit
      <4>1. age[w] \in 0..TaskLimit /\ (phase[w] # "idle" => age[w] < TaskLimit)
        BY <1>4 DEF Tick, TypeOK
      <4>2. QED BY <4>1
    <3>3. QED BY <3>1, <3>2
  <2>4. QED BY <1>4, <2>2, <2>3 DEF Tick, TypeOK
<1>5. ASSUME NEW w \in Workers, WorkerStep(w) PROVE TypeOK'
  <2>1. CASE Start(w)
    BY <2>1 DEF Start, queueVars, TypeOK, Phases
  <2>2. CASE ClaimRound(w)
    <3>1. PICK v \in Verdicts(w) : \E delay \in [v.raised -> 0..BackoffMax] :
                 ClaimAfter(w, v, delay)
      BY <2>2 DEF ClaimRound
    <3>2. PICK delay \in [v.raised -> 0..BackoffMax] : ClaimAfter(w, v, delay)
      BY <3>1
    <3> DEFINE claims == Claims(w, v, delay)
               rows == Flushed(v, delay)
    <3>3. rows \in [Articles -> Row]
      BY FlushedType
    <3>4. \A a \in Articles : Leased(rows[a], w) \in Row
      BY <3>3, RowUpdates
    <3>5. row' \in [Articles -> Row]
      BY <3>2, <3>3, <3>4 DEF ClaimAfter
    <3>6. claims \subseteq 1..ingested
      BY ClaimsAreDue
    <3>7. Accepted(w, v) \subseteq 1..ingested
      BY DEF Accepted, TypeOK
    <3>8. /\ batch' \in [Workers -> SUBSET (1..ingested)]
          /\ scanned' \in [Workers -> SUBSET (1..ingested)]
          /\ fresh' \in [Workers -> SUBSET (1..ingested)]
          /\ phase' \in [Workers -> Phases]
      BY <3>2, <3>6, <3>7 DEF ClaimAfter, TypeOK, Phases
    <3>9. UNCHANGED <<ingested, pruned, processed, age>>
      BY <2>2 DEF ClaimRound
    <3>10. QED BY <3>5, <3>8, <3>9 DEF TypeOK
  <2>3. CASE EndEmpty(w)
    <3>1. row' \in [Articles -> Row]
      BY <2>3, <1>0, RowUpdates DEF EndEmpty
    <3>2. QED BY <2>3, <3>1, IdleType DEF EndEmpty, TypeOK
  <2>4. CASE BeginProcessing(w)
    BY <2>4 DEF BeginProcessing, queueVars, TypeOK, Phases
  <2>5. CASE Finish(w)
    <3>1. PICK outcome \in [fresh[w] -> Outcomes] :
             /\ processed' = processed \cup {a \in fresh[w] : outcome[a] = "completed"}
             /\ row' = [a \in Articles |->
                          IF a \in fresh[w] /\ row[a].owner = w
                          THEN Transitioned(row[a], outcome[a])
                          ELSE Orphaned(row[a], w)]
      BY <2>5 DEF Finish
    <3>2. row' \in [Articles -> Row]
      BY <3>1, <1>0, RowUpdates
    <3>3. processed' \subseteq 1..ingested
      BY <3>1 DEF TypeOK
    <3>4. QED BY <2>5, <3>2, <3>3, IdleType DEF Finish, TypeOK
  <2>6. CASE Fail(w)
    <3>1. row' \in [Articles -> Row]
      BY <2>6, <1>0, RowUpdates DEF Fail
    <3>2. QED BY <2>6, <3>1, IdleType DEF Fail, TypeOK
  <2>7. CASE Crash(w)
    <3>1. row' \in [Articles -> Row]
      BY <2>7, <1>0, RowUpdates DEF Crash
    <3>2. QED BY <2>7, <3>1, IdleType DEF Crash, TypeOK
  <2>8. QED BY <1>5, <2>1, <2>2, <2>3, <2>4, <2>5, <2>6, <2>7 DEF WorkerStep
<1>6. QED BY <1>1, <1>2, <1>3, <1>4, <1>5 DEF Next

(***************************************************************************)
(* Every variable has its type: rows keep legal statuses and non-negative  *)
(* timers, no execution is older than the task's time limit, and nothing   *)
(* is held or enriched that was not ingested.                              *)
(***************************************************************************)
THEOREM TypeCorrect == Spec => []TypeOK
  BY InitTypeOK, TypeStep, PTL DEF Spec

----------------------------------------------------------------------------
(***************************************************************************)
(* The lease argument.                                                     *)
(***************************************************************************)
\* A row that is due is in nobody's hands: whoever held it would own an
\* unexpired lease on it.
LEMMA DueIsUnheld ==
  ASSUME IInv, NEW a \in Present, NEW u \in Workers, Claimable(row[a])
  PROVE  a \notin Held(u)
<1>1. SUFFICES ASSUME a \in Held(u) PROVE FALSE
  OBVIOUS
<1>2. row[a].owner = u /\ row[a].lease + age[u] >= LeaseLen
  BY <1>1 DEF IInv, LeaseInv
<1>3. age[u] \in 0..TaskLimit
  BY DEF IInv, TypeOK
<1>4. row[a].lease # 0
  BY <1>2, <1>3, LeaseAssumption
<1>5. row[a].owner # None
  BY <1>2, WorkersAssumption
<1>6. QED BY <1>4, <1>5 DEF Claimable

\* So what a turn of the claim loop takes was in nobody's hands, its own
\* execution's included, and nobody had enriched it.
LEMMA ClaimsWereUnheld ==
  ASSUME IInv, NEW w \in Workers, NEW v \in Verdicts(w),
         NEW delay \in [v.raised -> 0..BackoffMax], NEW a \in Claims(w, v, delay),
         NEW u \in Workers, u # w
  PROVE  a \notin Held(u) /\ a \notin processed
<1>1. a \in Present /\ a \in Articles /\ a \notin processed /\ Claimable(Flushed(v, delay)[a])
  BY ClaimsAreDue DEF Due, IInv
<1>2. CASE a \in batch[w]
  BY <1>1, <1>2 DEF IInv, ExclusiveWork, Held
<1>3. CASE a \notin batch[w]
  <2>1. Flushed(v, delay)[a] = row[a]
    BY <1>1, <1>3, FlushedType DEF IInv
  <2>2. QED BY <1>1, <2>1, DueIsUnheld
<1>4. QED BY <1>2, <1>3

\* The inductive invariant holds to begin with.
LEMMA InitIInv == Init => IInv
<1> SUFFICES ASSUME Init PROVE IInv
  OBVIOUS
<1>1. \A w \in Workers : Held(w) = {}
  BY DEF Init, Held
<1>2. QED BY <1>1, InitTypeOK DEF IInv, ExclusiveWork, LeaseInv, HeldUnprocessed, IdleHoldsNothing,
                                    ClaimedOnce, Init

\* An execution that ends and changes no other execution's rows.
LEMMA EndingKeepsIInv ==
  ASSUME IInv, TypeOK', NEW w \in Workers, Idle(w), UNCHANGED <<ingested, pruned>>,
         \A a \in Articles : row[a].owner # w => row'[a] = row[a],
         processed' \ processed \subseteq Held(w)
  PROVE  IInv'
<1>1. Held(w)' = {} /\ phase'[w] = "idle"
  BY DEF Idle, Held, IInv, TypeOK
<1>2. \A u \in Workers \ {w} :
        Held(u)' = Held(u) /\ age'[u] = age[u] /\ phase'[u] = phase[u]
  BY DEF Idle, Held, IInv, TypeOK
<1>3. ExclusiveWork'
  BY <1>1, <1>2 DEF IInv, ExclusiveWork
<1>4. LeaseInv'
  <2> SUFFICES ASSUME NEW u \in Workers, NEW a \in (Held(u) \cap Present)'
               PROVE  row'[a].owner = u /\ row'[a].lease + age'[u] >= LeaseLen
    BY DEF LeaseInv
  <2>1. u # w
    BY <1>1
  <2>2. a \in Held(u) /\ a \in Present
    BY <1>2, <2>1 DEF Present
  <2>3. row[a].owner = u /\ row[a].lease + age[u] >= LeaseLen
    BY <2>2 DEF IInv, LeaseInv
  <2>4. a \in Articles
    BY <2>2, SizesAssumption DEF Present, Articles, IInv, TypeOK
  <2>5. QED BY <1>2, <2>1, <2>3, <2>4
<1>5. HeldUnprocessed'
  <2>1. \A u \in Workers \ {w} : Held(u) \cap (processed' \ processed) = {}
    BY DEF IInv, ExclusiveWork
  <2>2. QED BY <1>1, <1>2, <2>1 DEF IInv, HeldUnprocessed
<1>6. IdleHoldsNothing'
  BY <1>1, <1>2 DEF IInv, IdleHoldsNothing
<1>7. ClaimedOnce'
  BY DEF IInv, ClaimedOnce, Held, Idle, TypeOK
<1>8. QED BY <1>3, <1>4, <1>5, <1>6, <1>7 DEF IInv

\* Every step keeps the inductive invariant, one case per action.
LEMMA StepIInv == IInv /\ [Next]_vars => IInv'
<1> SUFFICES ASSUME IInv, [Next]_vars PROVE IInv'
  OBVIOUS
<1> USE SizesAssumption
<1>0. TypeOK /\ TypeOK'
  BY TypeStep DEF IInv
<1>1. CASE UNCHANGED vars
  BY <1>0, <1>1 DEF vars, IInv, ExclusiveWork, LeaseInv, HeldUnprocessed, IdleHoldsNothing,
                    ClaimedOnce, Held, Present
<1>2. CASE Ingest
  <2>1. ingested' = ingested + 1 /\ UNCHANGED <<row, pruned, processed, workerVars>>
    BY <1>2 DEF Ingest
  <2>2. \A u \in Workers : Held(u) \cap Present' \subseteq Present
    BY <2>1, <1>0 DEF Held, Present, TypeOK
  <2>3. \A u \in Workers : Held(u)' = Held(u)
    BY <2>1 DEF Held, workerVars
  <2>4. LeaseInv'
    BY <2>1, <2>2, <2>3 DEF IInv, LeaseInv, workerVars
  <2>5. QED BY <1>0, <2>1, <2>3, <2>4 DEF IInv, ExclusiveWork, HeldUnprocessed,
                                          IdleHoldsNothing, ClaimedOnce, workerVars
<1>3. CASE Prune
  <2>1. PICK n \in (pruned + 1)..ingested :
               /\ pruned' = n
               /\ row' = [a \in Articles |-> IF a <= n THEN NewRow ELSE row[a]]
    BY <1>3 DEF Prune
  <2>2. UNCHANGED <<ingested, processed, workerVars>>
    BY <1>3 DEF Prune
  <2>3. \A a \in Present' : a \in Present /\ row'[a] = row[a]
    BY <2>1, <2>2, <1>0 DEF Present, Articles, TypeOK
  <2>4. \A u \in Workers : Held(u)' = Held(u)
    BY <2>2 DEF Held, workerVars
  <2>5. LeaseInv'
    BY <2>2, <2>3, <2>4 DEF IInv, LeaseInv, workerVars
  <2>6. QED BY <1>0, <2>2, <2>4, <2>5 DEF IInv, ExclusiveWork, HeldUnprocessed,
                                          IdleHoldsNothing, ClaimedOnce, workerVars
<1>4. CASE Tick
  <2>1. UNCHANGED <<ingested, pruned, processed, phase, batch, scanned, fresh>>
    BY <1>4 DEF Tick
  <2>2. \A u \in Workers : Held(u)' = Held(u)
    BY <2>1 DEF Held
  <2>3. LeaseInv'
    <3> SUFFICES ASSUME NEW u \in Workers, NEW a \in Held(u), a \in Present
                 PROVE  row'[a].owner = u /\ row'[a].lease + age'[u] >= LeaseLen
      BY <2>1, <2>2 DEF LeaseInv, Present
    <3>1. row[a].owner = u /\ row[a].lease + age[u] >= LeaseLen
      BY DEF IInv, LeaseInv
    <3>2. a \in Articles /\ row[a] \in Row /\ age[u] \in Nat
      BY <1>0, LeaseAssumption DEF Present, Articles, TypeOK
    <3>3. phase[u] # "idle"
      BY DEF IInv, IdleHoldsNothing
    <3>4. age'[u] = age[u] + 1
      BY <1>4, <3>3 DEF Tick
    <3>5. row'[a].owner = row[a].owner /\ row'[a].lease = Less(row[a].lease)
      BY <1>4, <3>2 DEF Tick, Row
    <3>6. row[a].lease \in Nat
      BY <3>2 DEF Row
    <3>7. row'[a].lease + 1 >= row[a].lease /\ row'[a].lease \in Nat
      BY <3>5, <3>6, LessType
    <3>8. QED BY <3>1, <3>2, <3>4, <3>5, <3>6, <3>7, LeaseAssumption
  <2>4. QED BY <1>0, <2>1, <2>2, <2>3 DEF IInv, ExclusiveWork, HeldUnprocessed, IdleHoldsNothing,
                                          ClaimedOnce
<1>5. ASSUME NEW w \in Workers, WorkerStep(w) PROVE IInv'
  <2>1. CASE Start(w)
    <3>1. UNCHANGED <<row, ingested, pruned, processed, age, batch, scanned, fresh>>
      BY <2>1 DEF Start, queueVars
    <3>2. \A u \in Workers : phase'[u] = "idle" => phase[u] = "idle"
      BY <2>1, <1>0 DEF Start, TypeOK
    <3>3. \A u \in Workers : Held(u)' = Held(u)
      BY <3>1 DEF Held
    <3>4. QED BY <1>0, <3>1, <3>2, <3>3 DEF IInv, ExclusiveWork, LeaseInv, HeldUnprocessed,
                                            IdleHoldsNothing, ClaimedOnce, Present
  <2>2. CASE ClaimRound(w)
    <3>1. PICK v \in Verdicts(w) : \E delay \in [v.raised -> 0..BackoffMax] :
                 ClaimAfter(w, v, delay)
      BY <2>2 DEF ClaimRound
    <3>2. PICK delay \in [v.raised -> 0..BackoffMax] : ClaimAfter(w, v, delay)
      BY <3>1
    <3> DEFINE claims == Claims(w, v, delay)
               rows == Flushed(v, delay)
    <3>3. UNCHANGED <<ingested, pruned, processed, age>>
      BY <2>2 DEF ClaimRound
    <3>4. claims \subseteq Present /\ claims \subseteq Articles
      BY <1>0, ClaimsAreDue
    <3>5. \A u \in Workers \ {w} : claims \cap Held(u) = {}
      BY ClaimsWereUnheld
    <3>6. claims \cap processed = {}
      BY <1>0, ClaimsAreDue DEF Due
    <3>7. /\ \A u \in Workers \ {w} : Held(u)' = Held(u) /\ phase'[u] = phase[u]
          /\ Held(w)' = Accepted(w, v) \cup claims
          /\ phase'[w] # "idle"
      BY <3>2, <1>0 DEF ClaimAfter, Held, TypeOK
    <3>8. Accepted(w, v) \cap (v.raised \cup v.rejected) = {}
      BY DEF Accepted, IInv, ClaimedOnce, Verdicts
    <3>9. Accepted(w, v) \subseteq Held(w)
      BY DEF Accepted, Held
    <3>10. ExclusiveWork'
      BY <3>5, <3>7, <3>9 DEF IInv, ExclusiveWork
    <3>11. HeldUnprocessed'
      BY <3>3, <3>6, <3>7, <3>9 DEF IInv, HeldUnprocessed
    <3>12. IdleHoldsNothing'
      BY <3>7 DEF IInv, IdleHoldsNothing
    <3>13. ClaimedOnce'
      <4>1. claims \cap scanned[w] = {}
        BY <1>0, ClaimsAreDue DEF Due
      <4>2. /\ \A u \in Workers \ {w} : /\ batch'[u] = batch[u] /\ fresh'[u] = fresh[u]
                                        /\ scanned'[u] = scanned[u]
            /\ batch'[w] = claims /\ fresh'[w] = Accepted(w, v)
            /\ scanned'[w] = scanned[w] \cup claims
        BY <3>2, <1>0 DEF ClaimAfter, TypeOK
      <4>3. Accepted(w, v) \subseteq scanned[w]
        BY <3>9 DEF IInv, ClaimedOnce
      <4>4. QED BY <4>1, <4>2, <4>3 DEF IInv, ClaimedOnce, Held
    <3>14. LeaseInv'
      <4>1. \A a \in Articles : row'[a] = IF a \in claims THEN Leased(rows[a], w) ELSE rows[a]
        BY <3>2 DEF ClaimAfter
      <4>2. \A a \in claims : row'[a].owner = w /\ row'[a].lease = LeaseLen
        <5>1. \A a \in claims : rows[a] \in Row
          BY <3>4, <1>0, FlushedType
        <5>2. \A a \in claims : row'[a] = Leased(rows[a], w)
          BY <4>1, <3>4
        <5>3. QED BY ZenonT(30), <5>1, <5>2 DEF Leased, Row
      <4>3. \A a \in Articles \ (claims \cup v.raised \cup v.rejected) : row'[a] = row[a]
        BY <4>1 DEF Flushed
      <4> SUFFICES ASSUME NEW u \in Workers, NEW a \in Held(u)', a \in Present
                   PROVE  row'[a].owner = u /\ row'[a].lease + age[u] >= LeaseLen
        BY <3>3 DEF LeaseInv, Present
      <4>4. a \in Articles /\ age[u] \in Nat
        BY <1>0, LeaseAssumption DEF Present, Articles, TypeOK
      <4>5. CASE a \in claims
        <5>1. u = w
          BY <4>5, <3>5, <3>7
        <5>2. QED BY <4>2, <4>4, <4>5, <5>1, LeaseAssumption
      <4>6. CASE a \notin claims
        <5>1. a \in Held(u)
          BY <4>6, <3>7, <3>9
        <5>2. a \notin v.raised \cup v.rejected
          <6>1. CASE u = w
            BY <4>6, <6>1, <3>7, <3>8
          <6>2. CASE u # w
            BY <5>1, <6>2 DEF Verdicts, IInv, ExclusiveWork, Held
          <6>3. QED BY <6>1, <6>2
        <5>3. row'[a] = row[a]
          BY <4>3, <4>4, <4>6, <5>2
        <5>4. QED BY <5>1, <5>3 DEF IInv, LeaseInv
      <4>7. QED BY <4>5, <4>6
    <3>15. QED BY <1>0, <3>10, <3>11, <3>12, <3>13, <3>14 DEF IInv
  <2>3. CASE EndEmpty(w)
    <3>1. \A a \in Articles : row[a].owner # w => row'[a] = row[a]
      BY <2>3 DEF EndEmpty, Orphaned
    <3>2. processed' \ processed \subseteq Held(w)
      BY <2>3 DEF EndEmpty
    <3>3. Idle(w) /\ UNCHANGED <<ingested, pruned>>
      BY <2>3 DEF EndEmpty
    <3>4. QED BY <1>0, <3>1, <3>2, <3>3, EndingKeepsIInv
  <2>4. CASE BeginProcessing(w)
    <3>1. UNCHANGED <<row, ingested, pruned, processed, age, batch, scanned>>
      BY <2>4 DEF BeginProcessing, queueVars
    <3>2. \A u \in Workers : Held(u)' \subseteq Held(u) /\ (phase'[u] = "idle" => phase[u] = "idle")
      BY <2>4, <1>0 DEF BeginProcessing, Held, TypeOK
    <3>3. ClaimedOnce'
      BY <2>4, <3>1, <1>0 DEF BeginProcessing, IInv, ClaimedOnce, Held, TypeOK
    <3>4. QED BY <1>0, <3>1, <3>2, <3>3 DEF IInv, ExclusiveWork, LeaseInv, HeldUnprocessed,
                                            IdleHoldsNothing, Present
  <2>5. CASE Finish(w)
    <3>1. PICK outcome \in [fresh[w] -> Outcomes] :
             /\ processed' = processed \cup {a \in fresh[w] : outcome[a] = "completed"}
             /\ row' = [a \in Articles |->
                          IF a \in fresh[w] /\ row[a].owner = w
                          THEN Transitioned(row[a], outcome[a])
                          ELSE Orphaned(row[a], w)]
      BY <2>5 DEF Finish
    <3>2. \A a \in Articles : row[a].owner # w => row'[a] = row[a]
      BY <3>1 DEF Orphaned
    <3>3. processed' \ processed \subseteq Held(w)
      BY <3>1 DEF Held
    <3>4. QED BY <1>0, <2>5, <3>1, <3>2, <3>3, EndingKeepsIInv DEF Finish
  <2>6. CASE Fail(w)
    <3>1. \A a \in Articles : row[a].owner # w => row'[a] = row[a]
      BY <2>6 DEF Fail
    <3>2. processed' \ processed \subseteq Held(w)
      BY <2>6 DEF Fail
    <3>3. QED BY <1>0, <2>6, <3>1, <3>2, EndingKeepsIInv DEF Fail
  <2>7. CASE Crash(w)
    <3>1. \A a \in Articles : row[a].owner # w => row'[a] = row[a]
      BY <2>7 DEF Crash, Orphaned
    <3>2. processed' \ processed \subseteq Held(w)
      BY <2>7 DEF Crash
    <3>3. QED BY <1>0, <2>7, <3>1, <3>2, EndingKeepsIInv DEF Crash
  <2>8. QED BY <1>5, <2>1, <2>2, <2>3, <2>4, <2>5, <2>6, <2>7 DEF WorkerStep
<1>6. QED BY <1>1, <1>2, <1>3, <1>4, <1>5 DEF Next

----------------------------------------------------------------------------
\* The inductive invariant holds in every reachable state.
LEMMA Invariance == Spec => []IInv
  BY InitIInv, StepIInv, PTL DEF Spec

(***************************************************************************)
(* No article is worked on by two live executions at once, for any number  *)
(* of workers and articles, any batch limit and any interleaving of        *)
(* failures, crashes and deletions, as long as TaskLimit < LeaseLen.       *)
(***************************************************************************)
THEOREM ExclusiveWorkHolds == Spec => []ExclusiveWork
<1>1. IInv => ExclusiveWork
  BY DEF IInv
<1>2. QED BY <1>1, Invariance, PTL

(***************************************************************************)
(* tasks.py:55: a live worker cannot lose its lease.  (Only while every    *)
(* writer of the lease columns is an enrichment execution: see             *)
(* EnrichmentWithNormalizer.)                                              *)
(***************************************************************************)
THEOREM LiveWorkerKeepsLeaseHolds == Spec => []LiveWorkerKeepsLease
<1>1. IInv => LiveWorkerKeepsLease
  <2> SUFFICES ASSUME IInv, NEW w \in Workers, NEW a \in Held(w) \cap Present
               PROVE  row[a].owner = w /\ row[a].lease > 0
    BY DEF LiveWorkerKeepsLease
  <2>1. row[a].owner = w /\ row[a].lease + age[w] >= LeaseLen
    BY DEF IInv, LeaseInv
  <2>2. a \in Articles
    BY SizesAssumption DEF Present, Articles, IInv, TypeOK
  <2>3. age[w] \in 0..TaskLimit /\ row[a].lease \in Nat
    BY <2>2 DEF IInv, TypeOK, Row
  <2>4. QED BY <2>1, <2>3, LeaseAssumption
<1>2. QED BY <1>1, Invariance, PTL

----------------------------------------------------------------------------
(***************************************************************************)
(* The refinement: w works on Held(w), and enriched means processed.       *)
(***************************************************************************)
LEMMA InitRefines == Init => AW!Init
  BY DEF Init, AW!Init, Held

\* An execution that ends: its articles that were enriched become done.
LEMMA EndingRefines ==
  ASSUME IInv, NEW w \in Workers, Idle(w),
         processed \subseteq processed', processed' \ processed \subseteq Held(w)
  PROVE  AW!Next
<1> DEFINE S == processed' \ processed
<1>1. S \in SUBSET Articles
  BY SizesAssumption DEF Held, Articles, IInv, TypeOK
<1>2. \A u \in Workers : Held(u)' = IF u = w THEN {} ELSE Held(u)
  BY DEF Idle, Held, IInv, TypeOK
<1>3. AW!Complete(w, S)
  BY <1>2 DEF AW!Complete
<1>4. QED BY <1>1, <1>3 DEF AW!Next

\* Every step of the queue is a step of ArticleWork or a stutter.
LEMMA StepRefines == IInv /\ [Next]_vars => [AW!Next]_(AW!vars)
<1> SUFFICES ASSUME IInv, [Next]_vars PROVE AW!Next \/ UNCHANGED AW!vars
  OBVIOUS
<1>0. TypeOK
  BY DEF IInv
<1>1. ASSUME UNCHANGED <<processed, batch, fresh>> PROVE UNCHANGED AW!vars
  BY <1>1 DEF AW!vars, Held
<1>2. CASE UNCHANGED vars \/ Ingest \/ Prune \/ Tick
  BY <1>1, <1>2 DEF vars, Ingest, Prune, Tick, workerVars
<1>3. ASSUME NEW w \in Workers, WorkerStep(w) PROVE AW!Next \/ UNCHANGED AW!vars
  <2>1. CASE Start(w)
    BY <1>1, <2>1 DEF Start, queueVars
  <2>2. CASE ClaimRound(w)
    <3>1. PICK v \in Verdicts(w) : \E delay \in [v.raised -> 0..BackoffMax] :
                 ClaimAfter(w, v, delay)
      BY <2>2 DEF ClaimRound
    <3>2. PICK delay \in [v.raised -> 0..BackoffMax] : ClaimAfter(w, v, delay)
      BY <3>1
    <3> DEFINE claims == Claims(w, v, delay)
               D == Held(w) \ Accepted(w, v)
               S == claims \ Accepted(w, v)
    <3>3. S \in SUBSET Articles /\ D \in SUBSET Articles
      BY <1>0, ClaimsAreDue, SizesAssumption DEF Held, Articles, TypeOK
    <3>4. S \subseteq AW!Open
      <4>1. \A a \in S : a \in Articles /\ a \notin processed
        BY <1>0, ClaimsAreDue DEF Due
      <4>2. \A a \in S : a \notin Held(w)
        <5>1. claims \cap scanned[w] = {}
          BY <1>0, ClaimsAreDue DEF Due
        <5>2. QED BY <5>1 DEF IInv, ClaimedOnce
      <4>3. \A a \in S, u \in Workers : a \notin Held(u)
        BY <4>2, ClaimsWereUnheld
      <4>4. QED BY <4>1, <4>3 DEF AW!Open
    <3>5. \A u \in Workers : Held(u)' = IF u = w THEN (Held(w) \ D) \cup S ELSE Held(u)
      <4>1. Accepted(w, v) \subseteq Held(w)
        BY DEF Accepted, Held
      <4>2. QED BY <3>2, <4>1, <1>0 DEF ClaimAfter, Held, TypeOK
    <3>6. processed' = processed
      BY <2>2 DEF ClaimRound
    <3>7. AW!Exchange(w, D, S)
      BY <3>4, <3>5, <3>6 DEF AW!Exchange
    <3>8. QED BY <3>3, <3>7 DEF AW!Next
  <2>3. CASE EndEmpty(w)
    BY <2>3, EndingRefines DEF EndEmpty
  <2>4. CASE BeginProcessing(w)
    <3> DEFINE D == Held(w) \ Held(w)'
    <3>1. D \in SUBSET Articles /\ {} \in SUBSET Articles
      BY <1>0, SizesAssumption DEF Held, Articles, TypeOK
    <3>2. \A u \in Workers : Held(u)' = IF u = w THEN (Held(w) \ D) \cup {} ELSE Held(u)
      BY <2>4, <1>0 DEF BeginProcessing, Held, TypeOK
    <3>3. processed' = processed
      BY <2>4 DEF BeginProcessing, queueVars
    <3>4. AW!Exchange(w, D, {})
      BY <3>2, <3>3 DEF AW!Exchange
    <3>5. QED BY <3>1, <3>4 DEF AW!Next
  <2>5. CASE Finish(w)
    <3>1. processed \subseteq processed' /\ processed' \ processed \subseteq Held(w)
      BY <2>5 DEF Finish, Held
    <3>2. QED BY <2>5, <3>1, EndingRefines DEF Finish
  <2>6. CASE Fail(w)
    BY <2>6, EndingRefines DEF Fail
  <2>7. CASE Crash(w)
    BY <2>7, EndingRefines DEF Crash
  <2>8. QED BY <1>3, <2>1, <2>2, <2>3, <2>4, <2>5, <2>6, <2>7 DEF WorkerStep
<1>4. QED BY <1>2, <1>3 DEF Next

(***************************************************************************)
(* The lease queue implements ArticleWork: an article is taken only when   *)
(* nobody works on it and nobody has enriched it.                          *)
(***************************************************************************)
THEOREM QueueImplementsArticleWork == Spec => ImplementsArticleWork
  BY InitRefines, StepRefines, Invariance, PTL DEF Spec, ImplementsArticleWork, AW!Spec

----------------------------------------------------------------------------
(***************************************************************************)
(* Settled rows.  A step keeps the status of a row, or moves a row that    *)
(* had no verdict yet, or deletes it; that only such rows are moved rests  *)
(* on the rows that have an owner being in state "processing".             *)
(***************************************************************************)
OwnedIsProcessing == \A a \in Present : row[a].owner # None => row[a].status = "processing"

FutureIsNew == \A a \in Articles : a > ingested => row[a].status = "new" /\ row[a].owner = None

SInv == OwnedIsProcessing /\ FutureIsNew /\ CompletedIffProcessed

Kept(a) == /\ row'[a].status = row[a].status
           /\ row[a].owner = None => row'[a].owner = None
           /\ a \in processed' <=> a \in processed

Moved(a) == /\ a \in Present
            /\ row[a].status \notin Terminal
            /\ row'[a].owner # None => row'[a].status = "processing"
            /\ row'[a].status = "completed" <=> a \in processed'

Deleted(a) == a <= pruned'

\* An execution that dies or ends keeps the status of every row it left.
LEMMA OrphanedKeeps ==
  ASSUME NEW w \in Workers, NEW r \in Row
  PROVE  /\ Orphaned(r, w).status = r.status
         /\ r.owner = None => Orphaned(r, w).owner = None
  BY WorkersAssumption DEF Orphaned, Row

\* The row of an article in an execution's hands has no verdict yet.
LEMMA HeldIsOpen ==
  ASSUME IInv, SInv, NEW w \in Workers, NEW a \in Present, row[a].owner = w
  PROVE  row[a].status = "processing" /\ row[a].status \notin Terminal /\ a \notin processed
<1>1. row[a].status = "processing"
  BY WorkersAssumption DEF SInv, OwnedIsProcessing
<1>2. QED BY <1>1 DEF SInv, CompletedIffProcessed, Terminal

\* A row with an owner has been ingested.
LEMMA OwnedIsPresent ==
  ASSUME IInv, SInv, NEW w \in Workers, NEW a \in Articles, row[a].owner = w
  PROVE  a \in Present \/ a <= pruned
<1>1. a <= ingested
  <2>1. pruned \in Nat /\ ingested \in Nat /\ a \in Nat
    BY SizesAssumption DEF IInv, TypeOK, Articles
  <2>2. QED BY <2>1, WorkersAssumption DEF SInv, FutureIsNew
<1>2. QED BY <1>1, SizesAssumption DEF Present, IInv, TypeOK, Articles

\* The claim loop moves rows of its batch and rows that are due, nothing else.
LEMMA ClaimMoves ==
  ASSUME IInv, SInv, NEW w \in Workers, NEW v \in Verdicts(w),
         NEW delay \in [v.raised -> 0..BackoffMax], ClaimAfter(w, v, delay),
         processed' = processed, NEW a \in Articles
  PROVE  Kept(a) \/ Moved(a)
<1> DEFINE claims == Claims(w, v, delay)
           rows == Flushed(v, delay)
<1>1. /\ row[a] \in Row /\ rows[a] \in Row
      /\ row'[a] = IF a \in claims THEN Leased(rows[a], w) ELSE rows[a]
  BY FlushedType DEF ClaimAfter, IInv, TypeOK
<1>2. v.raised \subseteq batch[w] \cap Present /\ v.rejected \subseteq batch[w]
  BY DEF Verdicts
<1>3. ASSUME a \in batch[w] \cap Present
      PROVE  row[a].status \notin Terminal /\ a \notin processed
  <2>1. row[a].owner = w
    BY <1>3 DEF IInv, LeaseInv, Held
  <2>2. QED BY <1>3, <2>1, HeldIsOpen
<1>4. CASE a \in claims
  <2>1. a \in Present /\ a \notin processed /\ Claimable(rows[a])
    BY <1>4, ClaimsAreDue DEF Due, IInv
  <2>2. row[a].status \notin Terminal
    <3>1. CASE a \in batch[w]
      BY <1>3, <2>1, <3>1
    <3>2. CASE a \notin batch[w]
      BY <2>1, <3>2, FlushedType DEF Claimable, IInv
    <3>3. QED BY <3>1, <3>2
  <2>3. row'[a].status = "processing"
    BY <1>1, <1>4 DEF Leased, Row
  <2>4. QED BY <2>1, <2>2, <2>3 DEF Moved
<1>5. CASE a \notin claims /\ a \in (v.raised \cup v.rejected) \cap Present
  <2>1. row'[a].owner = None /\ row'[a].status # "completed"
    BY <1>1, <1>5 DEF Flushed, Raised, Rejected, Row
  <2>2. QED BY <1>2, <1>3, <1>5, <2>1 DEF Moved
<1>6. CASE a \notin claims /\ a \notin (v.raised \cup v.rejected) \cap Present
  <2>1. row'[a] = row[a]
    BY <1>1, <1>2, <1>6 DEF Flushed
  <2>2. QED BY <2>1 DEF Kept
<1>7. QED BY <1>4, <1>5, <1>6

\* The commit of the pipeline writes the two records of success together.
LEMMA FinishMoves ==
  ASSUME IInv, SInv, NEW w \in Workers, Finish(w), NEW a \in Articles
  PROVE  Kept(a) \/ Moved(a) \/ Deleted(a)
<1>1. PICK outcome \in [fresh[w] -> Outcomes] :
         /\ processed' = processed \cup {b \in fresh[w] : outcome[b] = "completed"}
         /\ row' = [b \in Articles |->
                      IF b \in fresh[w] /\ row[b].owner = w
                      THEN Transitioned(row[b], outcome[b])
                      ELSE Orphaned(row[b], w)]
  BY DEF Finish
<1>2. row[a] \in Row /\ pruned' = pruned
  BY DEF Finish, IInv, TypeOK
<1>3. CASE a \in fresh[w] /\ a \in Present
  <2>1. row[a].owner = w
    BY <1>3 DEF IInv, LeaseInv, Held
  <2>2. row[a].status \notin Terminal /\ a \notin processed
    BY <1>3, <2>1, HeldIsOpen
  <2>3. row'[a] = Transitioned(row[a], outcome[a])
    BY <1>1, <1>3, <2>1
  <2>4. outcome[a] \in Outcomes
    BY <1>3
  <2>5. row'[a].owner = None /\ (row'[a].status = "completed" <=> outcome[a] = "completed")
    <3>1. CASE outcome[a] \in {"deferred", "failed"}
      BY <1>2, <2>3, <3>1 DEF Transitioned, Row
    <3>2. CASE outcome[a] \notin {"deferred", "failed"}
      BY <1>2, <2>3, <3>2 DEF Transitioned, Row
    <3>3. QED BY <3>1, <3>2
  <2>6. a \in processed' <=> outcome[a] = "completed"
    BY <1>1, <1>3, <2>2
  <2>7. QED BY <1>3, <2>2, <2>5, <2>6 DEF Moved
<1>4. CASE a \in fresh[w] /\ a \notin Present
  <2>1. a \in 1..ingested
    BY <1>4 DEF IInv, TypeOK
  <2>2. QED BY <1>2, <1>4, <2>1 DEF Present, Deleted, IInv, TypeOK
<1>5. CASE a \notin fresh[w]
  <2>1. row'[a] = Orphaned(row[a], w) /\ (a \in processed' <=> a \in processed)
    BY <1>1, <1>5
  <2>2. QED BY <1>2, <2>1, OrphanedKeeps DEF Kept
<1>6. QED BY <1>3, <1>4, <1>5

\* Every step keeps, moves or deletes each row.
LEMMA RowsKeptOrMoved ==
  ASSUME IInv, SInv, [Next]_vars, NEW a \in Articles
  PROVE  Kept(a) \/ Moved(a) \/ Deleted(a)
<1>0. row[a] \in Row
  BY DEF IInv, TypeOK
<1>1. CASE UNCHANGED vars
  BY <1>1 DEF vars, Kept
<1>2. CASE Ingest
  BY <1>2 DEF Ingest, Kept
<1>3. CASE Prune
  <2>1. PICK n \in (pruned + 1)..ingested :
               /\ pruned' = n
               /\ row' = [b \in Articles |-> IF b <= n THEN NewRow ELSE row[b]]
    BY <1>3 DEF Prune
  <2>2. processed' = processed
    BY <1>3 DEF Prune
  <2>3. QED BY <2>1, <2>2 DEF Kept, Deleted
<1>4. CASE Tick
  <2>1. row'[a] = [row[a] EXCEPT !.wait = Less(@), !.lease = Less(@)] /\ processed' = processed
    BY <1>4 DEF Tick
  <2>2. row'[a].status = row[a].status /\ row'[a].owner = row[a].owner
    BY <1>0, <2>1 DEF Row
  <2>3. QED BY <2>1, <2>2 DEF Kept
<1>5. ASSUME NEW w \in Workers, WorkerStep(w) PROVE Kept(a) \/ Moved(a) \/ Deleted(a)
  <2>1. CASE Start(w) \/ BeginProcessing(w)
    BY <2>1 DEF Start, BeginProcessing, queueVars, Kept
  <2>2. CASE ClaimRound(w)
    <3>1. PICK v \in Verdicts(w) : \E delay \in [v.raised -> 0..BackoffMax] :
                 ClaimAfter(w, v, delay)
      BY <2>2 DEF ClaimRound
    <3>2. PICK delay \in [v.raised -> 0..BackoffMax] : ClaimAfter(w, v, delay)
      BY <3>1
    <3>3. processed' = processed
      BY <2>2 DEF ClaimRound
    <3>4. QED BY <3>2, <3>3, ClaimMoves
  <2>3. CASE EndEmpty(w) \/ Crash(w)
    <3>1. row'[a] = Orphaned(row[a], w) /\ processed' = processed
      BY <2>3 DEF EndEmpty, Crash
    <3>2. QED BY <1>0, <3>1, OrphanedKeeps DEF Kept
  <2>4. CASE Finish(w)
    BY <2>4, FinishMoves
  <2>5. CASE Fail(w)
    <3>1. /\ row'[a] = IF row[a].owner = w THEN Released(row[a]) ELSE row[a]
          /\ processed' = processed /\ pruned' = pruned
      BY <2>5 DEF Fail
    <3>2. CASE row[a].owner # w
      BY <3>1, <3>2 DEF Kept
    <3>3. CASE row[a].owner = w /\ a \in Present
      <4>1. row[a].status \notin Terminal /\ a \notin processed
        BY <3>3, HeldIsOpen
      <4>2. row'[a].owner = None /\ row'[a].status = "enrichment_retry"
        BY <1>0, <3>1, <3>3 DEF Released, Row
      <4>3. QED BY <3>1, <3>3, <4>1, <4>2 DEF Moved
    <3>4. CASE row[a].owner = w /\ a \notin Present
      BY <3>1, <3>4, OwnedIsPresent DEF Deleted
    <3>5. QED BY <3>2, <3>3, <3>4
  <2>6. QED BY <1>5, <2>1, <2>2, <2>3, <2>4, <2>5 DEF WorkerStep
<1>6. QED BY <1>1, <1>2, <1>3, <1>4, <1>5 DEF Next

\* Articles arrive and are deleted in one direction only.
LEMMA OnlyForward ==
  ASSUME TypeOK, [Next]_vars
  PROVE  pruned <= pruned' /\ ingested <= ingested'
<1>1. pruned \in Nat /\ ingested \in Nat
  BY SizesAssumption DEF TypeOK
<1>2. CASE Ingest
  BY <1>1, <1>2 DEF Ingest
<1>3. CASE Prune
  <2>1. PICK n \in (pruned + 1)..ingested : pruned' = n
    BY <1>3 DEF Prune
  <2>2. ingested' = ingested
    BY <1>3 DEF Prune
  <2>3. QED BY <1>1, <2>1, <2>2
<1>4. CASE ~Ingest /\ ~Prune
  <2>1. pruned' = pruned /\ ingested' = ingested
    BY <1>4 DEF Next, vars, queueVars, Tick, WorkerStep, Start, ClaimRound, EndEmpty,
                BeginProcessing, Finish, Fail, Crash
  <2>2. QED BY <1>1, <2>1
<1>5. QED BY <1>2, <1>3, <1>4

\* Every step keeps the settled invariant, given the inductive one.
LEMMA StepSInv == IInv /\ SInv /\ [Next]_vars => SInv'
<1> SUFFICES ASSUME IInv, SInv, [Next]_vars PROVE SInv'
  OBVIOUS
<1>1. TypeOK /\ TypeOK'
  BY TypeStep DEF IInv
<1>2. pruned <= pruned' /\ ingested <= ingested'
  BY <1>1, OnlyForward
<1>3. \A a \in Articles : Kept(a) \/ Moved(a) \/ Deleted(a)
  BY RowsKeptOrMoved
<1>4. /\ pruned \in Nat /\ pruned' \in Nat /\ ingested \in Nat /\ ingested' \in Nat
      /\ Articles \subseteq Nat
  BY <1>1, SizesAssumption DEF TypeOK, Articles
<1>5. /\ ingested' <= NumArticles /\ NumArticles \in Nat
      /\ Present' = (pruned' + 1)..ingested'
  BY <1>1, SizesAssumption DEF TypeOK, Present
<1>6. ASSUME NEW a \in Int, pruned' < a, a <= ingested'
      PROVE  /\ row'[a].owner # None => row'[a].status = "processing"
             /\ row'[a].status = "completed" <=> a \in processed'
  <2>1. a \in Articles
    BY <1>4, <1>5, <1>6 DEF Articles
  <2>2. ~Deleted(a)
    BY <1>4, <1>6 DEF Deleted
  <2>3. CASE Moved(a)
    BY <2>3 DEF Moved
  <2>4. CASE Kept(a) /\ a \in Present
    BY <2>4 DEF Kept, SInv, OwnedIsProcessing, CompletedIffProcessed
  <2>5. CASE Kept(a) /\ a \notin Present
    <3>1. a > ingested
      BY <1>2, <1>4, <1>6, <2>5 DEF Present
    <3>2. row[a].status = "new" /\ row[a].owner = None
      BY <2>1, <3>1 DEF SInv, FutureIsNew
    <3>3. a \notin processed
      BY <1>1, <1>4, <2>1, <3>1 DEF TypeOK
    <3>4. QED BY <2>5, <3>2, <3>3 DEF Kept
  <2>6. QED BY <1>3, <2>1, <2>2, <2>3, <2>4, <2>5
<1>7. FutureIsNew'
  <2> SUFFICES ASSUME NEW a \in Articles, a > ingested'
               PROVE  row'[a].status = "new" /\ row'[a].owner = None
    BY DEF FutureIsNew, Articles
  <2>1. a > ingested
    BY <1>2, <1>4
  <2>2. ~Moved(a)
    BY <1>4, <2>1 DEF Moved, Present
  <2>3. ~Deleted(a)
    BY <1>1, <1>4, <2>1 DEF Deleted, TypeOK
  <2>4. QED BY <1>3, <2>1, <2>2, <2>3 DEF Kept, SInv, FutureIsNew
<1>8. \A a \in Present' : a \in Int /\ pruned' < a /\ a <= ingested'
  <2>1. pruned' \in Nat /\ ingested' \in Nat
    BY <1>4
  <2>2. \A i, j \in Nat : \A a \in (i + 1)..j : a \in Int /\ i < a /\ a <= j
    OBVIOUS
  <2>3. QED BY <1>5, <2>1, <2>2
<1>9. QED BY <1>6, <1>7, <1>8 DEF SInv, OwnedIsProcessing, CompletedIffProcessed

\* Rows are settled to begin with: none is present.
LEMMA InitSInv == Init => SInv
  BY SizesAssumption DEF Init, SInv, OwnedIsProcessing, FutureIsNew, CompletedIffProcessed,
                         Present, NewRow, Articles

\* Both invariants together hold for ever.
LEMMA SettledInvariance == Spec => []SInv
<1>1. IInv /\ SInv /\ [Next]_vars => SInv'
  BY StepSInv
<1>2. QED BY <1>1, InitSInv, Invariance, PTL DEF Spec

(***************************************************************************)
(* The raw row and the processed row never disagree about success, for any *)
(* number of executions, failures between claim and commit, crashes and    *)
(* deletions: process_raw_articles commits both at once and nobody else    *)
(* writes "completed".                                                     *)
(***************************************************************************)
THEOREM CompletedIffProcessedHolds == Spec => []CompletedIffProcessed
<1>1. SInv => CompletedIffProcessed
  BY DEF SInv
<1>2. QED BY <1>1, SettledInvariance, PTL

(***************************************************************************)
(* A verdict is never taken back: neither the release of a failed batch    *)
(* nor a claim nor a late commit reopens a row that is rejected, skipped   *)
(* or completed.                                                           *)
(***************************************************************************)
THEOREM VerdictsAreFinalHolds == Spec => VerdictsAreFinal
<1>1. ASSUME IInv, SInv, [Next]_vars, NEW a \in Articles,
             row[a].status \in Terminal, a > pruned'
      PROVE  row'[a].status = row[a].status
  <2>1. TypeOK'
    BY <1>1, TypeStep DEF IInv
  <2>2. ~Deleted(a) /\ ~Moved(a)
    BY <1>1, <2>1, SizesAssumption DEF Deleted, Moved, TypeOK, Articles
  <2>3. QED BY <1>1, <2>2, RowsKeptOrMoved DEF Kept
<1>2. IInv /\ SInv /\ [Next]_vars =>
        [\A a \in Articles : row[a].status \in Terminal /\ a > pruned'
                               => row'[a].status = row[a].status]_vars
  BY <1>1
<1>3. QED BY <1>2, Invariance, SettledInvariance, PTL DEF Spec, VerdictsAreFinal

----------------------------------------------------------------------------
(***************************************************************************)
(* The queue with the normaliser beside it: stale verdicts cost attempts,  *)
(* but they neither forge a success nor have an article enriched again.    *)
(***************************************************************************)

\* What the normaliser has read were rows.
LoadedRows == DOMAIN loaded \subseteq 1..ingested /\ \A a \in DOMAIN loaded : loaded[a] \in Row

\* CompletedMeansProcessed, of deleted rows too.
SuccessIsReal == \A a \in Articles : row[a].status = "completed" => a \in processed

NInv == TypeOK /\ LoadedRows /\ SuccessIsReal

----------------------------------------------------------------------------
\* A stale verdict leaves a row, and makes none completed.
LEMMA StaleVerdicts ==
  ASSUME NEW r \in Row, NEW seen \in Row, NEW delay \in Nat
  PROVE  /\ StaleReject(r, seen) \in Row /\ StaleReject(r, seen).status # "completed"
         /\ StaleRaise(r, seen, delay) \in Row
         /\ StaleRaise(r, seen, delay).status = "completed" => r.status = "completed"
<1> DEFINE rejected == [r EXCEPT !.status = "quality_rejected",
                                 !.wait = IF seen.attempts = 0 THEN @ ELSE 0]
           raised == [r EXCEPT !.status = IF seen.status = "normalization_retry"
                                          THEN @ ELSE "normalization_retry",
                               !.attempts = OneMore(seen.attempts), !.wait = delay]
<1>1. \A q \in Row : StaleRelease(q, seen) \in Row /\ StaleRelease(q, seen).status = q.status
  BY DEF StaleRelease, Row
<1>2. rejected \in Row /\ rejected.status = "quality_rejected"
  BY DEF Row, Statuses
<1>3. OneMore(seen.attempts) \in 0..AttemptCap
  BY OneMoreType DEF Row
<1>4. raised \in Row /\ (raised.status = "completed" => r.status = "completed")
  BY <1>3 DEF Row, Statuses
<1>5. StaleReject(r, seen) = StaleRelease(rejected, seen)
  BY DEF StaleReject
<1>6. StaleRaise(r, seen, delay) = StaleRelease(raised, seen)
  BY DEF StaleRaise
<1> HIDE DEF rejected, raised
<1>7. QED BY <1>1, <1>2, <1>4, <1>5, <1>6

\* The normaliser's commit.
LEMMA WriteStep ==
  ASSUME NInv, Write
  PROVE  NInv'
<1> USE DelaysAssumption, SizesAssumption DEF NInv
<1>1. PICK raised \in SUBSET (DOMAIN loaded \cap Present),
           rejected \in SUBSET (DOMAIN loaded \cap Present) :
        \E delay \in [raised -> 0..BackoffMax] :
          row' = [a \in Articles |->
                    IF a \in rejected THEN StaleReject(row[a], loaded[a])
                    ELSE IF a \in raised THEN StaleRaise(row[a], loaded[a], delay[a])
                    ELSE row[a]]
  BY DEF Write
<1>2. PICK delay \in [raised -> 0..BackoffMax] :
        row' = [a \in Articles |->
                  IF a \in rejected THEN StaleReject(row[a], loaded[a])
                  ELSE IF a \in raised THEN StaleRaise(row[a], loaded[a], delay[a])
                  ELSE row[a]]
  BY <1>1
<1>3. ASSUME NEW a \in Articles
      PROVE  row'[a] \in Row /\ (row'[a].status = "completed" => row[a].status = "completed")
  <2>1. row[a] \in Row
    BY DEF TypeOK
  <2>2. CASE a \in rejected
    <3>1. loaded[a] \in Row /\ 0 \in Nat
      BY <2>2 DEF LoadedRows
    <3>2. QED BY <1>2, <2>1, <2>2, <3>1, StaleVerdicts
  <2>3. CASE a \in raised /\ a \notin rejected
    <3>1. loaded[a] \in Row /\ delay[a] \in Nat
      BY <2>3 DEF LoadedRows
    <3>2. QED BY <1>2, <2>1, <2>3, <3>1, StaleVerdicts
  <2>4. CASE a \notin raised /\ a \notin rejected
    BY <1>2, <2>1, <2>4
  <2>5. QED BY <2>2, <2>3, <2>4
<1>4. row' \in [Articles -> Row]
  BY <1>2, <1>3
<1>5. TypeOK'
  BY <1>4 DEF Write, TypeOK, workerVars
<1>6. SuccessIsReal'
  BY <1>3 DEF Write, SuccessIsReal
<1>7. LoadedRows'
  BY DEF Write, LoadedRows, NotRunning
<1>8. QED BY <1>5, <1>6, <1>7

\* The queue's own steps complete only what they insert.
LEMMA QueueKeepsSuccess ==
  ASSUME TypeOK, SuccessIsReal, Next
  PROVE  SuccessIsReal'
<1> USE SizesAssumption, DelaysAssumption
<1>1. \A a \in Articles : row[a] \in Row
  BY DEF TypeOK
<1>2. ASSUME NEW r \in Row, NEW w \in Workers
      PROVE  /\ Orphaned(r, w).status = r.status
             /\ Released(r).status # "completed" /\ Leased(r, w).status # "completed"
             /\ Rejected(r).status # "completed"
             /\ \A d : Raised(r, d).status # "completed"
             /\ \A o \in Outcomes : Transitioned(r, o).status = "completed" => o = "completed"
  BY DEF Row, Orphaned, Released, Leased, Rejected, Raised, Transitioned, Outcomes
<1>3. CASE Ingest
  BY <1>3 DEF Ingest, SuccessIsReal
<1>4. CASE Prune
  BY <1>4 DEF Prune, SuccessIsReal, NewRow
<1>5. CASE Tick
  <2>1. \A a \in Articles : row'[a].status = row[a].status
    BY <1>1, <1>5 DEF Tick, Row
  <2>2. QED BY <1>5, <2>1 DEF Tick, SuccessIsReal
<1>6. ASSUME NEW w \in Workers, Start(w) \/ BeginProcessing(w) PROVE SuccessIsReal'
  BY <1>6 DEF Start, BeginProcessing, queueVars, SuccessIsReal
<1>7. ASSUME NEW w \in Workers, EndEmpty(w) \/ Crash(w) PROVE SuccessIsReal'
  BY <1>1, <1>2, <1>7 DEF EndEmpty, Crash, SuccessIsReal
<1>8. ASSUME NEW w \in Workers, Fail(w) PROVE SuccessIsReal'
  BY <1>1, <1>2, <1>8 DEF Fail, SuccessIsReal
<1>9. ASSUME NEW w \in Workers, Finish(w) PROVE SuccessIsReal'
  <2>1. PICK outcome \in [fresh[w] -> Outcomes] :
          /\ processed' = processed \cup {a \in fresh[w] : outcome[a] = "completed"}
          /\ row' = [a \in Articles |->
                       IF a \in fresh[w] /\ row[a].owner = w
                       THEN Transitioned(row[a], outcome[a]) ELSE Orphaned(row[a], w)]
    BY <1>9 DEF Finish
  <2>2. ASSUME NEW a \in Articles, row'[a].status = "completed" PROVE a \in processed'
    <3>1. CASE a \in fresh[w] /\ row[a].owner = w
      BY <1>1, <1>2, <2>1, <2>2, <3>1
    <3>2. CASE ~(a \in fresh[w] /\ row[a].owner = w)
      BY <1>1, <1>2, <2>1, <2>2, <3>2 DEF SuccessIsReal
    <3>3. QED BY <3>1, <3>2
  <2>3. QED BY <2>2 DEF SuccessIsReal
<1>10. ASSUME NEW w \in Workers, ClaimRound(w) PROVE SuccessIsReal'
  <2>0. PICK v \in Verdicts(w) : \E delay \in [v.raised -> 0..BackoffMax] : ClaimAfter(w, v, delay)
    BY <1>10 DEF ClaimRound
  <2>1. PICK delay \in [v.raised -> 0..BackoffMax] : ClaimAfter(w, v, delay)
    BY <2>0
  <2> DEFINE rows == Flushed(v, delay)
             claims == Claims(w, v, delay)
  <2>2. row' = [a \in Articles |-> IF a \in claims THEN Leased(rows[a], w) ELSE rows[a]]
    BY <2>1 DEF ClaimAfter
  <2>3. \A a \in Articles : rows[a] \in Row
                            /\ (rows[a].status = "completed" => row[a].status = "completed")
    <3>1. \A a \in Articles : rows[a] \in Row
      BY FlushedType
    <3>2. QED BY <1>1, <1>2, <3>1, <1>10 DEF Flushed
  <2> HIDE DEF rows, claims
  <2>4. \A a \in Articles : row'[a].status = "completed" => row[a].status = "completed"
    BY <1>2, <2>2, <2>3
  <2>5. QED BY <1>10, <2>4 DEF ClaimRound, SuccessIsReal
<1>11. QED BY <1>3, <1>4, <1>5, <1>6, <1>7, <1>8, <1>9, <1>10 DEF Next, WorkerStep

LEMMA NInvariance == NSpec => []NInv
<1>1. NInit => NInv
  <2> SUFFICES ASSUME NInit PROVE NInv
    OBVIOUS
  <2>1. TypeOK
    BY InitTypeOK DEF NInit
  <2>2. LoadedRows /\ SuccessIsReal
    BY DEF NInit, Init, LoadedRows, SuccessIsReal, NotRunning, NewRow
  <2>3. QED BY <2>1, <2>2 DEF NInv
<1>2. NInv /\ [NNext]_allVars => NInv'
  <2> SUFFICES ASSUME NInv, [NNext]_allVars PROVE NInv'
    OBVIOUS
  <2> USE DEF NInv
  <2>1. ASSUME Next, UNCHANGED loaded PROVE NInv'
    <3>1. TypeOK' /\ SuccessIsReal'
      BY <2>1, TypeStep, QueueKeepsSuccess
    <3>2. ingested' = ingested \/ ingested' = ingested + 1
      BY <2>1 DEF Next, Ingest, Prune, Tick, WorkerStep, Start, ClaimRound, EndEmpty,
                  BeginProcessing, Finish, Fail, Crash, queueVars
    <3>3. 1..ingested \subseteq 1..ingested'
      BY <3>2, SizesAssumption DEF TypeOK
    <3>4. QED BY <2>1, <3>1, <3>3 DEF LoadedRows
  <2>2. CASE QueueStep \/ TickBoth
    BY <2>1, <2>2 DEF QueueStep, TickBoth, Next, normalizerVars
  <2>3. CASE Load
    <3>1. PICK S \in SUBSET Present : loaded' = [a \in S |-> row[a]]
      BY <2>3 DEF Load
    <3>2. Present \subseteq 1..ingested /\ 1..ingested \subseteq Articles
      BY SizesAssumption DEF TypeOK, Present, Articles
    <3>3. UNCHANGED vars
      BY <2>3 DEF Load
    <3>4. LoadedRows'
      BY <3>1, <3>2, <3>3 DEF LoadedRows, TypeOK, vars
    <3>5. QED BY <3>3, <3>4 DEF vars, TypeOK, SuccessIsReal
  <2>4. CASE Abort \/ UNCHANGED allVars
    BY <2>4 DEF Abort, allVars, vars, normalizerVars, TypeOK, LoadedRows, SuccessIsReal, NotRunning
  <2>5. QED BY <2>2, <2>3, <2>4, WriteStep DEF NNext
<1>3. QED BY <1>1, <1>2, PTL DEF NSpec

(***************************************************************************)
(* A row that says "completed" has been enriched, however stale the        *)
(* verdicts the normaliser writes over it (CompletedMeansProcessed:        *)
(* normalize_articles_task beside _transition_raw).                        *)
(***************************************************************************)
THEOREM CompletedMeansProcessedHolds == NSpec => []CompletedMeansProcessed
<1>1. NInv => CompletedMeansProcessed
  BY SizesAssumption
     DEF NInv, SuccessIsReal, CompletedMeansProcessed, Present, Articles, TypeOK
<1>2. QED BY <1>1, NInvariance, PTL

(***************************************************************************)
(* An enriched article is not claimed again, though a stale verdict has    *)
(* made its row look due (EnrichedIsNeverClaimed: the ~processed condition *)
(* of _claim_enrichment_candidates).                                       *)
(***************************************************************************)
THEOREM EnrichedIsNeverClaimedHolds == NSpec => EnrichedIsNeverClaimed
<1> DEFINE NoneAgain == \A w \in Workers : (batch'[w] \ batch[w]) \cap processed = {}
<1>1. NInv /\ [NNext]_allVars => [NoneAgain]_allVars
  <2> SUFFICES ASSUME NInv, NNext PROVE NoneAgain
    OBVIOUS
  <2>1. batch \in [Workers -> SUBSET (1..ingested)]
    BY DEF NInv, TypeOK
  <2>2. ASSUME UNCHANGED batch PROVE NoneAgain
    BY <2>2
  <2>3. ASSUME NEW w \in Workers, Idle(w) PROVE NoneAgain
    BY <2>1, <2>3 DEF Idle
  <2>4. ASSUME NEW w \in Workers, ClaimRound(w) PROVE NoneAgain
    <3>1. PICK v, delay : batch' = [batch EXCEPT ![w] = Claims(w, v, delay)]
      BY <2>4 DEF ClaimRound, ClaimAfter
    <3>2. Claims(w, v, delay) \cap processed = {}
      BY ClaimsAreDue DEF NInv, Due
    <3>3. QED BY <2>1, <3>1, <3>2
  <2>5. QED
    BY <2>2, <2>3, <2>4
       DEF NNext, QueueStep, TickBoth, Load, Write, Abort, Ingest, Prune, Tick, WorkerStep,
           Start, EndEmpty, BeginProcessing, Finish, Fail, Crash, vars, workerVars, queueVars
<1>2. QED BY <1>1, NInvariance, PTL DEF NSpec, EnrichedIsNeverClaimed
=============================================================================
