---------------------------- MODULE ServicesProofs ----------------------------
(***************************************************************************)
(* What the services tell a person or each other is so, for every number   *)
(* of requests, tabs, runs, backups and tasks, however they overlap, fail  *)
(* and are lost.                                                           *)
(***************************************************************************)
EXTENDS MCServices, NewsProofs, AccessProofs, AlgorithmProofs

(***************************************************************************)
(* Watchlists and rules.                                                   *)
(***************************************************************************)

\* What is known of one request: what it was told is so, and what it found is still
\* there, unless another crossed it.
AskFits ==
  \A q \in Askers :
    /\ ask[q].phase # "done" => ask[q].told = 0
    /\ ask[q].what \in {"list", "rule"} /\ ask[q].phase = "begun" => ask[q].key \in SetNames
    /\ ask[q].what \in {"list", "rule"} /\ ask[q].told = 201 =>
         <<ask[q].what, ask[q].key>> \in named /\ ask[q].key # NoName
    /\ ask[q].what \in {"watch", "unwatch"} => ask[q].key \in Watchable
    /\ ask[q].what = "watch" /\ ~ask[q].crossed
         /\ (ask[q].told = 201 \/ (ask[q].phase = "begun" /\ ask[q].found)) =>
         ask[q].key \in watched
    /\ ask[q].what = "unwatch" /\ ~ask[q].crossed
         /\ (ask[q].told = 204 \/ (ask[q].phase = "begun" /\ ~ask[q].found)) =>
         ask[q].key \notin watched
    /\ ask[q].told = 201 => ask[q].what \in {"list", "rule", "watch"}
    /\ ask[q].told = 204 => ask[q].what = "unwatch"

\* Who was told that this was set up.
SetUp(r, what, key) == r.told = 201 /\ r.what = what /\ r.key = key

\* Every row and entry was set up by a request, a row by one only; a request that
\* failed was overtaken by another.
HasAuthor ==
  /\ \A what \in {"list", "rule"}, key \in AskedKeys :
       <<what, key>> \in named => \E p \in Askers : SetUp(ask[p], what, key)
  /\ \A s \in watched : \E p \in Askers : SetUp(ask[p], "watch", s)
  /\ \A p, q \in Askers, what \in {"list", "rule"} :
       p # q /\ SetUp(ask[q], what, ask[q].key) => ~SetUp(ask[p], what, ask[q].key)
  /\ \A q \in Askers : ask[q].told = 500 =>
       \E p \in Askers \ {q} : SetUp(ask[p], ask[q].what, ask[q].key)

WatchInv == WatchTypeOK /\ AskFits /\ HasAuthor

\* p's request is as it was, but may have been crossed.
Stays(p) ==
  /\ ask'[p].phase = ask[p].phase /\ ask'[p].what = ask[p].what /\ ask'[p].key = ask[p].key
  /\ (ask'[p].found <=> ask[p].found) /\ ask'[p].told = ask[p].told
  /\ ask[p].crossed => ask'[p].crossed

\* What a step of q must make of q's own request, now, and leave of the others'.
Fitting(q, now) ==
  /\ \A p \in Askers \ {q} : Stays(p)
  /\ ask[q].told # 201
  /\ \/ named' = named
     \/ /\ named' = named \cup {<<now.what, now.key>>}
        /\ now.told = 201 /\ now.what \in {"list", "rule"}
  /\ now.told = 201 /\ now.what \in {"list", "rule"} =>
       <<now.what, now.key>> \in named' /\ <<now.what, now.key>> \notin named /\ now.key # NoName
  /\ \A s \in watched' : s \in watched \/ (now.told = 201 /\ now.what = "watch" /\ now.key = s)
  /\ \A p \in Askers \ {q} :
       ~ask'[p].crossed =>
         /\ ask[p].what = "watch" /\ ask[p].key \in watched => ask[p].key \in watched'
         /\ ask[p].what = "unwatch" /\ ask[p].key \notin watched => ask[p].key \notin watched'
  /\ now.phase # "done" => now.told = 0
  /\ now.what \in {"list", "rule"} /\ now.phase = "begun" => now.key \in SetNames
  /\ now.what \in {"watch", "unwatch"} => now.key \in Watchable
  /\ now.what = "watch" /\ ~now.crossed /\ (now.told = 201 \/ (now.phase = "begun" /\ now.found)) =>
       now.key \in watched'
  /\ now.what = "unwatch" /\ ~now.crossed
       /\ (now.told = 204 \/ (now.phase = "begun" /\ ~now.found)) =>
       now.key \notin watched'
  /\ now.told = 201 => now.what \in {"list", "rule", "watch"}
  /\ now.told = 204 => now.what = "unwatch"
  /\ now.told = 500 => \E p \in Askers \ {q} : SetUp(ask[p], now.what, now.key)

LEMMA WatchStepOf ==
  ASSUME WatchInv, WatchTypeOK', NEW q \in Askers, Fitting(q, ask'[q])
  PROVE  WatchInv'
<1> PICK now : now = ask'[q]
  OBVIOUS
<1> USE DEF Fitting
<1>1. \A p \in Askers \ {q} : \A w, k : SetUp(ask'[p], w, k) <=> SetUp(ask[p], w, k)
  BY DEF Stays, SetUp
<1>2. \A w, k : SetUp(ask'[q], w, k) <=> now.told = 201 /\ now.what = w /\ now.key = k
  BY DEF SetUp
<1>3. \A w, k : ~SetUp(ask[q], w, k)
  BY DEF SetUp
<1>4. AskFits'
  <2> SUFFICES ASSUME NEW p \in Askers
      PROVE  /\ ask'[p].phase # "done" => ask'[p].told = 0
             /\ ask'[p].what \in {"list", "rule"} /\ ask'[p].phase = "begun" =>
                  ask'[p].key \in SetNames
             /\ ask'[p].what \in {"list", "rule"} /\ ask'[p].told = 201 =>
                  <<ask'[p].what, ask'[p].key>> \in named' /\ ask'[p].key # NoName
             /\ ask'[p].what \in {"watch", "unwatch"} => ask'[p].key \in Watchable
             /\ ask'[p].what = "watch" /\ ~ask'[p].crossed
                  /\ (ask'[p].told = 201 \/ (ask'[p].phase = "begun" /\ ask'[p].found)) =>
                  ask'[p].key \in watched'
             /\ ask'[p].what = "unwatch" /\ ~ask'[p].crossed
                  /\ (ask'[p].told = 204 \/ (ask'[p].phase = "begun" /\ ~ask'[p].found)) =>
                  ask'[p].key \notin watched'
             /\ ask'[p].told = 201 => ask'[p].what \in {"list", "rule", "watch"}
             /\ ask'[p].told = 204 => ask'[p].what = "unwatch"
    BY DEF AskFits
  <2>1. CASE p = q
    BY <2>1
  <2>2. CASE p # q
    <3>1. Stays(p) /\ named \subseteq named'
      BY <2>2
    <3>2. QED BY <2>2, <3>1 DEF Stays, WatchInv, AskFits
  <2>3. QED BY <2>1, <2>2
<1>5. HasAuthor'
  <2>1. \A w \in {"list", "rule"}, k \in AskedKeys :
          <<w, k>> \in named' => \E p \in Askers : SetUp(ask'[p], w, k)
    <3> SUFFICES ASSUME NEW w \in {"list", "rule"}, NEW k \in AskedKeys, <<w, k>> \in named'
                 PROVE  \E p \in Askers : SetUp(ask'[p], w, k)
      OBVIOUS
    <3>1. CASE <<w, k>> \in named
      <4>1. PICK p \in Askers : SetUp(ask[p], w, k)
        BY <3>1 DEF WatchInv, HasAuthor
      <4>2. QED BY <1>1, <1>3, <4>1
    <3>2. CASE <<w, k>> \notin named
      BY <1>2, <3>2
    <3>3. QED BY <3>1, <3>2
  <2>2. \A s \in watched' : \E p \in Askers : SetUp(ask'[p], "watch", s)
    <3> SUFFICES ASSUME NEW s \in watched' PROVE \E p \in Askers : SetUp(ask'[p], "watch", s)
      OBVIOUS
    <3>1. CASE s \in watched
      <4>1. PICK p \in Askers : SetUp(ask[p], "watch", s)
        BY <3>1 DEF WatchInv, HasAuthor
      <4>2. QED BY <1>1, <1>3, <4>1
    <3>2. QED BY <1>2, <3>1
  <2>3. \A p, r \in Askers, w \in {"list", "rule"} : \A k :
          k = ask'[r].key /\ p # r /\ SetUp(ask'[r], w, k) => ~SetUp(ask'[p], w, k)
    <3> SUFFICES ASSUME NEW p \in Askers, NEW r \in Askers, NEW w \in {"list", "rule"}, NEW k,
                        p # r, SetUp(ask'[r], w, k), SetUp(ask'[p], w, k)
                 PROVE  FALSE
      OBVIOUS
    <3>1. CASE r = q
      <4>1. <<w, k>> \notin named /\ SetUp(ask[p], w, k)
        BY <1>1, <1>2, <3>1
      <4>2. QED BY <4>1 DEF WatchInv, AskFits, SetUp
    <3>2. CASE p = q
      <4>1. <<w, k>> \notin named /\ SetUp(ask[r], w, k)
        BY <1>1, <1>2, <3>2
      <4>2. QED BY <4>1 DEF WatchInv, AskFits, SetUp
    <3>3. CASE r # q /\ p # q
      <4>1. SetUp(ask[r], w, k) /\ SetUp(ask[p], w, k)
        BY <1>1, <3>3
      <4>2. ask[r].key = k
        BY <4>1 DEF SetUp
      <4>3. QED BY <4>1, <4>2 DEF WatchInv, HasAuthor
    <3>4. QED BY <3>1, <3>2, <3>3
  <2>4. \A r \in Askers : \A w, k : w = ask'[r].what /\ k = ask'[r].key /\ ask'[r].told = 500 =>
          \E p \in Askers \ {r} : SetUp(ask'[p], w, k)
    <3> SUFFICES ASSUME NEW r \in Askers, NEW w, NEW k, w = ask'[r].what, k = ask'[r].key,
                        ask'[r].told = 500
                 PROVE  \E p \in Askers \ {r} : SetUp(ask'[p], w, k)
      OBVIOUS
    <3>1. \E p \in Askers \ {r} : SetUp(ask[p], w, k)
      <4>1. CASE r = q
        BY <4>1
      <4>2. CASE r # q
        BY <4>2 DEF Stays, WatchInv, HasAuthor
      <4>3. QED BY <4>1, <4>2
    <3>2. QED BY <1>1, <1>3, <3>1
  <2>5. QED BY <2>1, <2>2, <2>3, <2>4 DEF HasAuthor, SetUp
<1>6. QED BY <1>4, <1>5 DEF WatchInv

\* A request that begins: it is refused, or has looked and goes on.
LEMMA Beginning ==
  ASSUME WatchInv, NEW q \in Askers, ask[q].phase = "idle", UNCHANGED <<named, watched, active>>,
         NEW what \in {"list", "rule", "watch", "unwatch"}, NEW key \in AskedKeys,
         NEW refusal \in {0, 400, 404, 409}, NEW found \in BOOLEAN,
         Begins(q, what, key, refusal, found),
         what \in {"list", "rule"} /\ refusal = 0 => key \in SetNames,
         what \in {"watch", "unwatch"} => key \in Watchable /\ (found <=> key \in watched)
  PROVE  WatchInv'
<1>1. PICK phase \in {"begun", "done"} : phase = (IF refusal = 0 THEN "begun" ELSE "done")
  OBVIOUS
<1>2. ask \in [Askers -> Request]
  BY DEF WatchInv, WatchTypeOK
<1>3. ask' = [ask EXCEPT ![q] = [phase |-> phase, what |-> what, key |-> key, found |-> found,
                                 told |-> refusal, crossed |-> FALSE]]
  BY <1>1 DEF Begins
<1>4. [phase |-> phase, what |-> what, key |-> key, found |-> found,
       told |-> refusal, crossed |-> FALSE] \in Request
  BY DEF Request
<1>5. ask' \in [Askers -> Request]
  BY <1>2, <1>3, <1>4
<1>6. WatchTypeOK'
  BY <1>5 DEF WatchInv, WatchTypeOK
<1>7. ask'[q] = [phase |-> phase, what |-> what, key |-> key, found |-> found,
                 told |-> refusal, crossed |-> FALSE]
  BY <1>2, <1>3
<1>8. /\ ask'[q].phase = phase /\ ask'[q].what = what /\ ask'[q].key = key
      /\ ask'[q].told = refusal /\ (ask'[q].found <=> found)
  BY <1>7
<1>9. \A p \in Askers \ {q} : Stays(p) /\ ask'[p] = ask[p]
  BY <1>2, <1>3 DEF Stays
<1>10. ask[q].told # 201
  <2>1. ask[q].told = 0
    BY DEF WatchInv, AskFits
  <2>2. QED BY <2>1
<1>11. PICK now : now = ask'[q]
  OBVIOUS
<1>12. /\ now.phase = phase /\ now.what = what /\ now.key = key
       /\ now.told = refusal /\ (now.found <=> found)
  BY <1>8, <1>11
<1>13. now.told \notin {201, 204, 500} /\ (now.phase # "done" => now.told = 0)
  BY <1>1, <1>12
<1>14. /\ now.what \in {"list", "rule"} /\ now.phase = "begun" => now.key \in SetNames
       /\ now.what \in {"watch", "unwatch"} => now.key \in Watchable
       /\ now.what = "watch" /\ now.phase = "begun" /\ now.found => now.key \in watched'
       /\ now.what = "unwatch" /\ now.phase = "begun" /\ ~now.found => now.key \notin watched'
  BY <1>1, <1>12
<1>15. \A p \in Askers \ {q} : Stays(p)
  BY <1>9
<1>16. Fitting(q, now)
  BY <1>10, <1>11, <1>13, <1>14, <1>15 DEF Fitting
<1>17. QED BY <1>6, <1>11, <1>16, WatchStepOf

AskPhases == {"idle", "begun", "done"}
AskKinds == {"none", "list", "rule", "watch", "unwatch"}
AskStatuses == {0, 201, 204, 400, 404, 409, 500}
AskFlags == BOOLEAN

\* A request that is done, or crossed, is a request still.
LEMMA DoneRequest ==
  ASSUME NEW r \in Request, NEW told \in {0, 201, 204, 400, 404, 409, 500}
  PROVE  /\ Done(r, told) \in Request
         /\ Done(r, told).phase = "done" /\ Done(r, told).what = r.what /\ Done(r, told).key = r.key
         /\ Done(r, told).told = told /\ Done(r, told).found = r.found
         /\ Done(r, told).crossed = r.crossed
<1>1. ASSUME NEW P, NEW W, NEW B, NEW T, "done" \in P, told \in T,
             r \in [phase : P, what : W, key : AskedKeys, found : B, told : T, crossed : B]
      PROVE  /\ Done(r, told) \in [phase : P, what : W, key : AskedKeys, found : B, told : T,
                                   crossed : B]
             /\ Done(r, told).phase = "done" /\ Done(r, told).what = r.what
             /\ Done(r, told).key = r.key /\ Done(r, told).told = told
             /\ Done(r, told).found = r.found /\ Done(r, told).crossed = r.crossed
  BY <1>1 DEF Done
<1>4. Request = [phase : AskPhases, what : AskKinds, key : AskedKeys, found : AskFlags,
                 told : AskStatuses, crossed : AskFlags]
  BY DEF Request, AskPhases, AskKinds, AskStatuses, AskFlags
<1>5. "done" \in AskPhases /\ told \in AskStatuses
  BY DEF AskPhases, AskStatuses
<1>6. QED BY <1>1, <1>4, <1>5

LEMMA CrossedRequest ==
  ASSUME NEW r \in Request
  PROVE  /\ Crossed(r) \in Request /\ Crossed(r).crossed = TRUE
         /\ Crossed(r).phase = r.phase /\ Crossed(r).what = r.what /\ Crossed(r).key = r.key
         /\ Crossed(r).told = r.told /\ Crossed(r).found = r.found
<1>1. ASSUME NEW P, NEW W, NEW B, NEW T, TRUE \in B,
             r \in [phase : P, what : W, key : AskedKeys, found : B, told : T, crossed : B]
      PROVE  /\ Crossed(r) \in [phase : P, what : W, key : AskedKeys, found : B, told : T,
                                crossed : B]
             /\ Crossed(r).crossed = TRUE
             /\ Crossed(r).phase = r.phase /\ Crossed(r).what = r.what /\ Crossed(r).key = r.key
             /\ Crossed(r).told = r.told /\ Crossed(r).found = r.found
  BY <1>1 DEF Crossed
<1>4. Request = [phase : AskPhases, what : AskKinds, key : AskedKeys, found : AskFlags,
                 told : AskStatuses, crossed : AskFlags]
  BY DEF Request, AskPhases, AskKinds, AskStatuses, AskFlags
<1>5. TRUE \in AskFlags
  BY DEF AskFlags
<1>6. QED BY ZenonT(30), <1>1, <1>4, <1>5

\* A request that ends and changes no other.
Ends(q, told) == ask' = [ask EXCEPT ![q] = Done(@, told)]

LEMMA Ending ==
  ASSUME WatchInv, NEW q \in Askers, NEW told \in {0, 201, 204, 400, 404, 409, 500}, Ends(q, told)
  PROVE  /\ ask' \in [Askers -> Request] /\ ask'[q] = Done(ask[q], told) /\ ask[q] \in Request
         /\ \A p \in Askers \ {q} : Stays(p) /\ ask'[p] = ask[p]
<1>1. ask \in [Askers -> Request] /\ Done(ask[q], told) \in Request
  BY DoneRequest DEF WatchInv, WatchTypeOK
<1>2. QED BY <1>1 DEF Stays, Ends

LEMMA CreateStep == ASSUME WatchInv, NEW q \in Askers, CommitCreate(q) PROVE WatchInv'
<1>1. PICK what \in {"list", "rule"}, key \in AskedKeys : ask[q].what = what /\ ask[q].key = key
  BY DEF CommitCreate, WatchInv, WatchTypeOK, Request
<1>2. PICK told \in {201, 500} : told = (IF <<what, key>> \in named THEN 500 ELSE 201)
  OBVIOUS
<1>3. /\ ask[q].phase = "begun" /\ UNCHANGED <<watched, active>>
      /\ named' = named \cup {<<what, key>>}
      /\ Ends(q, told)
  BY <1>1, <1>2 DEF CommitCreate, Ends
<1>4. PICK now : now = ask'[q]
  OBVIOUS
<1>5. /\ ask' \in [Askers -> Request] /\ \A p \in Askers \ {q} : Stays(p) /\ ask'[p] = ask[p]
  BY <1>3, Ending
<1>6. now.phase = "done" /\ now.what = what /\ now.key = key /\ now.told = told
  <2>1. ask[q] \in Request /\ now = Done(ask[q], told)
    BY <1>3, <1>4, Ending
  <2>2. QED BY <1>1, <2>1, DoneRequest
<1>7. WatchTypeOK'
  <2>1. key \in SetNames
    BY <1>1, <1>3 DEF WatchInv, AskFits
  <2>2. QED BY <1>3, <1>5, <2>1 DEF WatchInv, WatchTypeOK
<1>8. ask[q].told = 0 /\ key # NoName
  BY ZenonT(30), <1>1, <1>3 DEF WatchInv, AskFits, SetNames
<1>9. told = 500 => \E p \in Askers \ {q} : SetUp(ask[p], what, key)
  <2> SUFFICES ASSUME told = 500 PROVE \E p \in Askers \ {q} : SetUp(ask[p], what, key)
    OBVIOUS
  <2>1. PICK p \in Askers : SetUp(ask[p], what, key)
    BY <1>2 DEF WatchInv, HasAuthor
  <2>2. QED BY <1>8, <2>1 DEF SetUp
<1>10. told = 201 => <<what, key>> \notin named
  BY <1>2
<1>11. told = 500 => named' = named
  BY <1>2, <1>3
<1>12. Fitting(q, now)
  BY <1>3, <1>5, <1>6, <1>8, <1>9, <1>10, <1>11 DEF Fitting
<1>13. QED BY <1>4, <1>7, <1>12, WatchStepOf

\* What crosses the requests of the other kind, and leaves the others alone.
LEMMA CrossingOthers ==
  ASSUME WatchInv, NEW q \in Askers, NEW told \in {0, 201, 204, 400, 404, 409, 500},
         ask' = Crossing(q, told)
  PROVE  /\ ask' \in [Askers -> Request] /\ ask'[q] = Done(ask[q], told) /\ ask[q] \in Request
         /\ \A p \in Askers \ {q} :
              Stays(p) /\ (~ask'[p].crossed =>
                             \/ ask[p].key # ask[q].key
                             \/ ask[p].what \notin {"watch", "unwatch"} \ {ask[q].what})
<1>1. ask \in [Askers -> Request] /\ Done(ask[q], told) \in Request
  BY DoneRequest DEF WatchInv, WatchTypeOK
<1>2. \A p \in Askers : Crossed(ask[p]) \in Request
  BY <1>1, CrossedRequest
<1>3. /\ ask' \in [Askers -> Request] /\ ask'[q] = Done(ask[q], told)
      /\ \A p \in Askers \ {q} :
           \/ ask'[p] = Crossed(ask[p])
           \/ ask'[p] = ask[p] /\ (\/ ask[p].key # ask[q].key
                                  \/ ask[p].what \notin {"watch", "unwatch"} \ {ask[q].what})
  BY <1>1, <1>2 DEF Crossing
<1>4. ASSUME NEW p \in Askers \ {q}
      PROVE  Stays(p) /\ (~ask'[p].crossed =>
                            \/ ask[p].key # ask[q].key
                            \/ ask[p].what \notin {"watch", "unwatch"} \ {ask[q].what})
  <2>1. ask[p] \in Request
    BY <1>1
  <2>2. CASE ask'[p] = Crossed(ask[p])
    <3>1. PICK r \in Request : r = ask[p]
      BY <2>1
    <3>2. /\ Crossed(r).crossed = TRUE /\ Crossed(r).phase = r.phase /\ Crossed(r).what = r.what
          /\ Crossed(r).key = r.key /\ Crossed(r).told = r.told /\ (Crossed(r).found <=> r.found)
      BY ZenonT(30), CrossedRequest
    <3>3. ask'[p] = Crossed(r)
      BY <2>2, <3>1
    <3>4. QED BY <3>1, <3>2, <3>3 DEF Stays
  <2>3. CASE ask'[p] # Crossed(ask[p])
    BY <1>3, <2>3 DEF Stays
  <2>4. QED BY <2>2, <2>3
<1>5. QED BY <1>1, <1>3, <1>4

LEMMA WatchStep == ASSUME WatchInv, NEW q \in Askers, CommitWatch(q) PROVE WatchInv'
<1>1. PICK key : key = ask[q].key
  OBVIOUS
<1>2. /\ ask[q].phase = "begun" /\ ask[q].what = "watch" /\ UNCHANGED <<named, active>>
      /\ key \in Watchable /\ ask[q].told = 0
  BY <1>1 DEF CommitWatch, WatchInv, AskFits
<1>3. PICK now : now = ask'[q]
  OBVIOUS
<1>4. CASE ~ask[q].found /\ key \in watched
  <2>1. Ends(q, 500) /\ watched' = watched
    BY <1>1, <1>4 DEF CommitWatch, Ends
  <2>2. /\ ask' \in [Askers -> Request] /\ now = Done(ask[q], 500) /\ ask[q] \in Request
        /\ \A p \in Askers \ {q} : Stays(p) /\ ask'[p] = ask[p]
    BY <1>3, <2>1, Ending
  <2>3. now.phase = "done" /\ now.what = "watch" /\ now.key = key /\ now.told = 500
    BY <1>1, <1>2, <2>2, DoneRequest
  <2>4. \E p \in Askers \ {q} : SetUp(ask[p], "watch", key)
    <3>1. PICK p \in Askers : SetUp(ask[p], "watch", key)
      BY <1>4 DEF WatchInv, HasAuthor
    <3>2. QED BY <1>2, <3>1 DEF SetUp
  <2>5. WatchTypeOK'
    BY <1>2, <2>1, <2>2 DEF WatchInv, WatchTypeOK
  <2>6. Fitting(q, now)
    BY <1>2, <2>1, <2>2, <2>3, <2>4 DEF Fitting
  <2>7. QED BY <1>3, <2>5, <2>6, WatchStepOf
<1>5. CASE ask[q].found \/ key \notin watched
  <2>1. ask' = Crossing(q, 201) /\ watched' = IF ask[q].found THEN watched ELSE watched \cup {key}
    BY <1>1, <1>5 DEF CommitWatch
  <2>2. /\ ask' \in [Askers -> Request] /\ now = Done(ask[q], 201) /\ ask[q] \in Request
        /\ \A p \in Askers \ {q} :
             Stays(p) /\ (~ask'[p].crossed => ask[p].key # key \/ ask[p].what # "unwatch")
    BY <1>1, <1>2, <1>3, <2>1, CrossingOthers
  <2>3. /\ now.phase = "done" /\ now.what = "watch" /\ now.key = key /\ now.told = 201
        /\ (now.crossed <=> ask[q].crossed)
    BY <1>1, <1>2, <2>2, DoneRequest
  <2>4. WatchTypeOK'
    <3>1. watched' \subseteq Watchable
      BY <1>2, <2>1 DEF WatchInv, WatchTypeOK
    <3>2. QED BY <1>2, <2>2, <3>1 DEF WatchInv, WatchTypeOK
  <2>5. watched \subseteq watched' /\ watched' \subseteq watched \cup {key}
    BY <2>1
  <2>6. ~now.crossed => key \in watched'
    BY <1>1, <1>2, <2>1, <2>3 DEF WatchInv, AskFits
  <2>7. Fitting(q, now)
    BY <1>2, <2>2, <2>3, <2>5, <2>6 DEF Fitting
  <2>8. QED BY <1>3, <2>4, <2>7, WatchStepOf
<1>6. QED BY <1>4, <1>5

LEMMA UnwatchStep == ASSUME WatchInv, NEW q \in Askers, CommitUnwatch(q) PROVE WatchInv'
<1>1. PICK key : key = ask[q].key
  OBVIOUS
<1>2. /\ ask[q].phase = "begun" /\ ask[q].what = "unwatch" /\ UNCHANGED <<named, active>>
      /\ key \in Watchable /\ ask[q].told = 0
  BY <1>1 DEF CommitUnwatch, WatchInv, AskFits
<1>3. PICK now : now = ask'[q]
  OBVIOUS
<1>4. ask' = Crossing(q, 204) /\ watched' = IF ask[q].found THEN watched \ {key} ELSE watched
  BY <1>1 DEF CommitUnwatch
<1>5. /\ ask' \in [Askers -> Request] /\ now = Done(ask[q], 204) /\ ask[q] \in Request
      /\ \A p \in Askers \ {q} :
           Stays(p) /\ (~ask'[p].crossed => ask[p].key # key \/ ask[p].what # "watch")
  BY <1>1, <1>2, <1>3, <1>4, CrossingOthers
<1>6. /\ now.phase = "done" /\ now.what = "unwatch" /\ now.key = key /\ now.told = 204
      /\ (now.crossed <=> ask[q].crossed)
  BY <1>1, <1>2, <1>5, DoneRequest
<1>7. watched' \subseteq watched /\ watched \ {key} \subseteq watched'
  BY <1>4
<1>8. WatchTypeOK'
  BY <1>2, <1>5, <1>7 DEF WatchInv, WatchTypeOK
<1>9. ~now.crossed => key \notin watched'
  BY <1>1, <1>2, <1>4, <1>6 DEF WatchInv, AskFits
<1>10. Fitting(q, now)
  BY <1>2, <1>5, <1>6, <1>7, <1>9 DEF Fitting
<1>11. QED BY <1>3, <1>8, <1>10, WatchStepOf

LEMMA LoseStep == ASSUME WatchInv, NEW q \in Askers, LoseAsk(q) PROVE WatchInv'
<1>1. /\ Ends(q, 0) /\ UNCHANGED <<named, watched, active>>
      /\ ask[q].told = 0 /\ ask[q].phase = "begun"
  BY DEF LoseAsk, Ends, WatchInv, AskFits
<1>2. PICK now : now = ask'[q]
  OBVIOUS
<1>3. /\ ask' \in [Askers -> Request] /\ now = Done(ask[q], 0) /\ ask[q] \in Request
      /\ \A p \in Askers \ {q} : Stays(p) /\ ask'[p] = ask[p]
  BY <1>1, <1>2, Ending
<1>4. now.phase = "done" /\ now.what = ask[q].what /\ now.key = ask[q].key /\ now.told = 0
  BY <1>3, DoneRequest
<1>5. now.what \in {"watch", "unwatch"} => now.key \in Watchable
  BY <1>4 DEF WatchInv, AskFits
<1>6. WatchTypeOK'
  BY <1>1, <1>3 DEF WatchInv, WatchTypeOK
<1>7. Fitting(q, now)
  BY <1>1, <1>3, <1>4, <1>5 DEF Fitting
<1>8. QED BY <1>2, <1>6, <1>7, WatchStepOf

LEMMA WatchInvariance == WatchSpec => []WatchInv
<1>1. WatchInit => WatchInv
  <2> SUFFICES ASSUME WatchInit PROVE WatchInv
    OBVIOUS
  <2>1. named = {} /\ watched = {} /\ active = Watchable /\ ask = [q \in Askers |-> NewAsk]
    BY DEF WatchInit
  <2>2. NewAsk \in Request /\ NewAsk.told = 0 /\ NewAsk.what = "none"
    BY DEF NewAsk, Request, AskedKeys
  <2>3. WatchTypeOK
    BY <2>1, <2>2 DEF WatchTypeOK
  <2>4. AskFits
    BY <2>1, <2>2 DEF AskFits
  <2>5. HasAuthor
    BY <2>1, <2>2 DEF HasAuthor, SetUp
  <2>6. QED BY <2>3, <2>4, <2>5 DEF WatchInv
<1>2. ASSUME WatchInv, NEW q \in Askers, BeginCreate(q) PROVE WatchInv'
  <2>1. ask[q].phase = "idle" /\ UNCHANGED <<named, watched, active>>
    BY <1>2 DEF BeginCreate
  <2>2. \A spelling \in Spellings : Normalised[spelling] \in AskedKeys
    BY DEF AskedKeys, SetNames
  <2>3. CASE \E spelling \in Spellings :
               Begins(q, "list", Normalised[spelling], ListRefused(spelling), FALSE)
    <3>1. PICK spelling \in Spellings :
            Begins(q, "list", Normalised[spelling], ListRefused(spelling), FALSE)
      BY <2>3
    <3>2. PICK refusal \in {0, 400, 404, 409} : refusal = ListRefused(spelling)
      BY DEF ListRefused
    <3>3. PICK key \in AskedKeys : key = Normalised[spelling]
      BY <2>2
    <3>4. refusal = 0 => key \in SetNames
      BY <3>2, <3>3 DEF ListRefused, SetNames
    <3>5. PICK what \in {"list", "rule"}, found \in BOOLEAN : what = "list" /\ found = FALSE
      OBVIOUS
    <3>6. Begins(q, what, key, refusal, found)
      BY <3>1, <3>2, <3>3, <3>5
    <3>7. QED BY <1>2, <2>1, <3>4, <3>6, Beginning
  <2>4. CASE \E spelling \in Spellings, severity \in Severities :
               Begins(q, "rule", Normalised[spelling], RuleRefused(spelling, severity), FALSE)
    <3>1. PICK spelling \in Spellings, severity \in Severities :
            Begins(q, "rule", Normalised[spelling], RuleRefused(spelling, severity), FALSE)
      BY <2>4
    <3>2. PICK refusal \in {0, 400, 404, 409} : refusal = RuleRefused(spelling, severity)
      BY DEF RuleRefused
    <3>3. PICK key \in AskedKeys : key = Normalised[spelling]
      BY <2>2
    <3>4. refusal = 0 => key \in SetNames
      BY <3>2, <3>3 DEF RuleRefused, SetNames
    <3>5. PICK what \in {"list", "rule"}, found \in BOOLEAN : what = "rule" /\ found = FALSE
      OBVIOUS
    <3>6. Begins(q, what, key, refusal, found)
      BY <3>1, <3>2, <3>3, <3>5
    <3>7. QED BY <1>2, <2>1, <3>4, <3>6, Beginning
  <2>5. QED BY <1>2, <2>3, <2>4 DEF BeginCreate
<1>3. ASSUME WatchInv, NEW q \in Askers, NEW what \in {"watch", "unwatch"}, ask[q].phase = "idle",
             UNCHANGED <<named, watched, active>>,
             NEW s \in Watchable, Begins(q, what, s, IF s \in active THEN 0 ELSE 404, s \in watched)
      PROVE  WatchInv'
  <2>1. PICK refusal \in {0, 400, 404, 409} : refusal = (IF s \in active THEN 0 ELSE 404)
    OBVIOUS
  <2>2. PICK found \in BOOLEAN : found = (s \in watched)
    <3>1. (s \in watched) \in BOOLEAN
      OBVIOUS
    <3>2. QED BY <3>1, Zenon
  <2>3. Begins(q, what, s, refusal, found) /\ (found <=> s \in watched) /\ s \in AskedKeys
    BY ZenonT(30), <1>3, <2>1, <2>2 DEF AskedKeys
  <2>4. QED BY <1>3, <2>3, Beginning
<1>4. ASSUME WatchInv, NEW q \in Askers, BeginWatch(q) \/ BeginUnwatch(q) PROVE WatchInv'
  BY <1>3, <1>4 DEF BeginWatch, BeginUnwatch
<1>5. ASSUME WatchInv, NEW s \in Watchable, MergeAway(s) PROVE WatchInv'
  BY <1>5 DEF MergeAway, WatchInv, WatchTypeOK, AskFits, HasAuthor
<1>6. ASSUME WatchInv, UNCHANGED watchVars PROVE WatchInv'
  BY <1>6 DEF watchVars, WatchInv, WatchTypeOK, AskFits, HasAuthor
<1>7. WatchInv /\ [WatchNext]_watchVars => WatchInv'
  BY <1>2, <1>4, <1>5, <1>6, CreateStep, WatchStep, UnwatchStep, LoseStep DEF WatchNext
<1>8. QED BY <1>1, <1>7, PTL DEF WatchSpec

(***************************************************************************)
(* For any names, suppliers and requests: who is told a list or rule was   *)
(* created has the only row of that name, who is told a supplier is        *)
(* watched or no longer is told the truth unless another crossed it, and   *)
(* status 500 is for one whom another overtook                             *)
(* (watchlists/service.py:33-51, 76-95, notifications/rules.py:66-86).     *)
(***************************************************************************)
THEOREM AskedMeansSetHolds == WatchSpec => []AskedMeansSet
<1>1. WatchInv => AskedMeansSet
  <2> SUFFICES ASSUME WatchInv, NEW q \in Askers
      PROVE  /\ ask[q].told = 201 /\ ask[q].what \in {"list", "rule"} =>
                  /\ <<ask[q].what, ask[q].key>> \in named /\ ask[q].key # NoName
                  /\ \A p \in Askers \ {q} : ask[p].told = 201 =>
                       <<ask[p].what, ask[p].key>> # <<ask[q].what, ask[q].key>>
             /\ ask[q].told = 201 /\ ask[q].what = "watch" /\ ~ask[q].crossed =>
                  ask[q].key \in WatchedSupplierIds \cup (Watchable \ active)
             /\ ask[q].told = 204 /\ ~ask[q].crossed => ask[q].key \notin WatchedSupplierIds
             /\ ask[q].told = 500 => \E p \in Askers \ {q} : /\ ask[p].told = 201
                                                             /\ ask[p].what = ask[q].what
                                                             /\ ask[p].key = ask[q].key
    BY DEF AskedMeansSet
  <2>1. ask[q].told = 201 /\ ask[q].what \in {"list", "rule"} =>
          /\ <<ask[q].what, ask[q].key>> \in named /\ ask[q].key # NoName
          /\ \A p \in Askers \ {q} : ask[p].told = 201 =>
               <<ask[p].what, ask[p].key>> # <<ask[q].what, ask[q].key>>
    BY DEF WatchInv, AskFits, HasAuthor, SetUp
  <2>2. ask[q].told = 201 /\ ask[q].what = "watch" /\ ~ask[q].crossed =>
          ask[q].key \in watched /\ ask[q].key \in Watchable
    BY DEF WatchInv, AskFits
  <2>3. ask[q].told = 204 /\ ~ask[q].crossed => ask[q].key \notin watched
    BY DEF WatchInv, AskFits
  <2>4. ask[q].told = 500 => \E p \in Askers \ {q} : SetUp(ask[p], ask[q].what, ask[q].key)
    BY DEF WatchInv, HasAuthor
  <2>5. QED BY <2>1, <2>2, <2>3, <2>4 DEF SetUp, WatchedSupplierIds
<1>2. QED BY <1>1, WatchInvariance, PTL

----------------------------------------------------------------------------
(***************************************************************************)
(* The chat.                                                               *)
(***************************************************************************)

(***************************************************************************)
(* Where a tab has said something this turn and nothing has answered it.   *)
(***************************************************************************)
Unanswered == {"saying", "said", "answering", "storing"}
Asked == {"said", "answering", "storing"}

(***************************************************************************)
(* The rows of a tab are of turns it took; the one it takes is not said    *)
(* before it is committed, nor answered before the answer is.              *)
(***************************************************************************)
IsTaken(m, x) ==
  /\ 0 < m.turn /\ m.turn <= x.turn
  /\ x.at = "saying" => m.turn # x.turn
  /\ x.at \in Unanswered => m # [tab |-> m.tab, turn |-> x.turn, role |-> "assistant"]

RowsAreTaken ==
  /\ \A i \in DOMAIN said : IsTaken(said[i], tab[said[i].tab])
  /\ \A t \in Tabs : tab[t].at \in Unanswered => tab[t].turn > 0

(***************************************************************************)
(* A question that was committed is there until the user clears.           *)
(***************************************************************************)
AskedIsThere ==
  /\ clearing.on => \A t \in Tabs : tab[t].cleared
  /\ \A t \in Tabs : tab[t].at \in Asked /\ ~tab[t].cleared => Question(t) \in Said
  /\ \A t \in Tabs : tab[t].told = "end" /\ ~tab[t].cleared => {Question(t), Answer(t)} \subseteq Said

(***************************************************************************)
(* The thread is of now or there is none; one that was read earlier is of  *)
(* now or of before, and what it counted was there.                        *)
(***************************************************************************)
ThreadIsOfNow ==
  /\ ThisThread \in Nat \ {0}
  /\ thread.id \in {0, ThisThread}
  /\ thread.id = 0 => thread.count = 0
  /\ \A t \in Tabs : tab[t].seen.id <= ThisThread
  /\ \A t \in Tabs : tab[t].seen.id = 0 => tab[t].seen.count = 0
  /\ \A t \in Tabs : tab[t].seen.id = ThisThread => thread.id = ThisThread

CountedIsThere ==
  /\ thread.count <= 2 * Cardinality(Answers)
  /\ \A t \in Tabs : tab[t].seen.id = thread.id =>
        tab[t].seen.count <= 2 * Cardinality(Answers)

(***************************************************************************)
(* After a question of a tab, unless it is the last row, another tab       *)
(* wrote; a tab that wrote took a turn.                                    *)
(***************************************************************************)
OthersWroteAfter ==
  /\ \A t \in Tabs : tab[t].at = "said" => \A i \in 1..(Len(said) - 1) :
        said[i] = Question(t) => \E u \in Tabs \ {t} : tab[u].turn > 0
  /\ \A t \in Tabs : tab[t].echoed => \E u \in Tabs \ {t} : tab[u].turn > 0

ChatInv == /\ RowsAreTaken /\ AskedIsThere /\ ThreadIsOfNow /\ CountedIsThere
           /\ OthersWroteAfter /\ clearing.doomed <= Len(said)

----------------------------------------------------------------------------
(***************************************************************************)
(* The steps of a tab that change no row.                                  *)
(***************************************************************************)
TabOnly(t) == Open(t) \/ EnsureLost(t) \/ Say(t) \/ ReadHistory(t) \/ Store(t)
              \/ Raise(t) \/ Leave(t)

(***************************************************************************)
(* The numbers of the rows and of the tabs are numbers.                    *)
(***************************************************************************)
LEMMA FieldsTyped ==
  ASSUME ChatAssumption, ChatTypeOK
  PROVE  /\ \A u \in Tabs : /\ tab[u] \in TabState /\ tab[u].turn \in Nat
                            /\ tab[u].seen.id \in Nat /\ tab[u].seen.count \in Nat
         /\ \A i \in DOMAIN said : said[i].tab \in Tabs /\ said[i].turn \in Nat
         /\ thread.id \in Nat /\ thread.count \in Nat
<1>1. 0..TurnBound \subseteq Nat /\ 1..TurnBound \subseteq Nat /\ 0..(ClearBound + 1) \subseteq Nat
  BY DEF ChatAssumption
<1>2. \A r \in ThreadRow : r.id \in Nat /\ r.count \in Nat
  BY <1>1 DEF ThreadRow
<1>3. \A x \in TabState : x.seen \in ThreadRow /\ x.turn \in Nat
  BY <1>1 DEF TabState
<1>4. \A m \in MessageRow : m.tab \in Tabs /\ m.turn \in Nat
  BY <1>1 DEF MessageRow
<1>5. \A i \in DOMAIN said : said[i] \in MessageRow
  BY DEF ChatTypeOK
<1>6. \A u \in Tabs : tab[u] \in TabState
  BY DEF ChatTypeOK
<1> QED  BY <1>2, <1>3, <1>4, <1>5, <1>6 DEF ChatTypeOK

(***************************************************************************)
(* A step of a tab that changes no row leaves everything of its type.      *)
(***************************************************************************)
LEMMA TabOnlyTyped ==
  ASSUME ChatAssumption, ChatTypeOK, RowsAreTaken, NEW t \in Tabs, TabOnly(t)
  PROVE  ChatTypeOK'
<1> DEFINE x == tab[t]
<1>1. /\ x \in TabState /\ thread \in ThreadRow
      /\ UNCHANGED <<thread, said, clearing>>
  BY DEF ChatTypeOK, TabOnly, Open, EnsureLost, Say, ReadHistory, Store, Raise, Leave
<1>2. /\ "closed" \in TabAt /\ "opening" \in TabAt /\ "ready" \in TabAt /\ "saying" \in TabAt
      /\ "answering" \in TabAt /\ "storing" \in TabAt
      /\ "none" \in TurnEnd /\ "error" \in TurnEnd
  BY DEF TabAt, TurnEnd
<1>3. Repeats(t) \in BOOLEAN /\ clearing.on \in BOOLEAN
  BY DEF ChatTypeOK, Repeats
<1>4. ASSUME x.turn < TurnBound PROVE x.turn + 1 \in 0..TurnBound
  BY <1>1, <1>4 DEF TabState, ChatAssumption
<1>5. tab' \in [Tabs -> TabState]
  <2>1. CASE Open(t)
    BY <1>1, <1>2, <2>1 DEF Open, TabState, ChatTypeOK
  <2>2. CASE EnsureLost(t) \/ Leave(t)
    BY ZenonT(30), <1>1, <1>2, <2>2 DEF EnsureLost, Leave, TabState, ChatTypeOK
  <2>3. CASE Say(t)
    <3> DEFINE y == [tab[t] EXCEPT !.at = "saying", !.seen = thread, !.turn = @ + 1,
                                   !.told = "none", !.echoed = FALSE,
                                   !.cleared = clearing.on]
    <3>1. PICK n : n = x.turn + 1
      OBVIOUS
    <3>2. n \in 0..TurnBound
      BY <1>4, <2>3, <3>1 DEF Say
    <3>3. y \in TabState
      BY <1>1, <1>2, <1>3, <3>1, <3>2 DEF TabState
    <3>4. tab' = [tab EXCEPT ![t] = y]
      BY <2>3 DEF Say
    <3> QED  BY <3>3, <3>4 DEF ChatTypeOK
  <2>4. CASE ReadHistory(t)
    BY <1>1, <1>2, <1>3, <2>4 DEF ReadHistory, TabState, ChatTypeOK
  <2>5. CASE Store(t)
    BY <1>1, <1>2, <2>5 DEF Store, TabState, ChatTypeOK
  <2>6. CASE Raise(t)
    BY <1>1, <1>2, <2>6 DEF Raise, TabState, ChatTypeOK
  <2> QED  BY <2>1, <2>2, <2>3, <2>4, <2>5, <2>6 DEF TabOnly
<1> QED  BY <1>1, <1>5 DEF ChatTypeOK

(***************************************************************************)
(* What such a step does to the tab that takes it, and to no other.        *)
(***************************************************************************)
LEMMA TabOnlyEffect ==
  ASSUME ChatTypeOK, NEW t \in Tabs, TabOnly(t)
  PROVE  /\ UNCHANGED <<thread, said, clearing>>
         /\ \A u \in Tabs \ {t} : tab'[u] = tab[u]
         /\ tab'[t].seen \in {tab[t].seen, thread}
         /\ \/ /\ tab'[t].at = "saying" /\ tab'[t].turn = tab[t].turn + 1
               /\ tab'[t].told = "none" /\ tab'[t].echoed = FALSE
               /\ tab'[t].cleared = clearing.on
            \/ /\ tab'[t].turn = tab[t].turn /\ tab'[t].cleared = tab[t].cleared
               /\ tab'[t].told \in {tab[t].told, "error"}
               /\ tab'[t].at \notin {"saying", "said"}
               /\ tab'[t].at \in Asked => tab[t].at \in Asked
               /\ \/ tab'[t].echoed = tab[t].echoed
                  \/ tab'[t].echoed = Repeats(t) /\ tab[t].at = "said"
<1> USE DEF Asked
<1>1. CASE Open(t)
  BY <1>1 DEF Open, ChatTypeOK, TabState
<1>2. CASE EnsureLost(t) \/ Leave(t)
  BY <1>2 DEF EnsureLost, Leave, ChatTypeOK, TabState
<1>3. CASE Say(t)
  BY <1>3 DEF Say, ChatTypeOK, TabState
<1>4. CASE ReadHistory(t)
  BY <1>4 DEF ReadHistory, ChatTypeOK, TabState
<1>5. CASE Store(t)
  BY <1>5 DEF Store, ChatTypeOK, TabState
<1>6. CASE Raise(t)
  BY <1>6 DEF Raise, ChatTypeOK, TabState
<1> QED  BY <1>1, <1>2, <1>3, <1>4, <1>5, <1>6 DEF TabOnly

(***************************************************************************)
(* It keeps the invariant: a turn that begins is one no row is of yet, and *)
(* one that goes on still has its question.                                *)
(***************************************************************************)
LEMMA TabOnlyKeeps ==
  ASSUME ChatAssumption, ChatTypeOK, ChatInv, NEW t \in Tabs, TabOnly(t), ChatTypeOK'
  PROVE  ChatInv'
<1>1. /\ UNCHANGED <<thread, said, clearing>> /\ \A u \in Tabs \ {t} : tab'[u] = tab[u]
      /\ tab'[t].seen \in {tab[t].seen, thread}
  BY TabOnlyEffect
<1> DEFINE Began == /\ tab'[t].at = "saying" /\ tab'[t].turn = tab[t].turn + 1
                    /\ tab'[t].told = "none" /\ tab'[t].echoed = FALSE
                    /\ tab'[t].cleared = clearing.on
           Went == /\ tab'[t].turn = tab[t].turn /\ tab'[t].cleared = tab[t].cleared
                   /\ tab'[t].told \in {tab[t].told, "error"}
                   /\ tab'[t].at \notin {"saying", "said"}
                   /\ tab'[t].at \in Asked => tab[t].at \in Asked
                   /\ \/ tab'[t].echoed = tab[t].echoed
                      \/ tab'[t].echoed = Repeats(t) /\ tab[t].at = "said"
<1>2. Began \/ Went
  BY TabOnlyEffect
<1>3. \A u \in Tabs : tab[u].turn \in Nat /\ tab[u].seen.id \in Nat /\ tab[u].seen.count \in Nat
  BY FieldsTyped
<1>4. \A i \in DOMAIN said : said[i].tab \in Tabs /\ said[i].turn \in Nat
  BY FieldsTyped
<1>5. RowsAreTaken'
  <2>1. \A u \in Tabs : tab'[u].at \in Unanswered => tab'[u].turn > 0
    BY <1>1, <1>2, <1>3 DEF ChatInv, RowsAreTaken, Unanswered, Asked
  <2>2. ASSUME NEW m, m.turn \in Nat, m.tab = t, IsTaken(m, tab[t])
        PROVE  IsTaken(m, tab'[t])
    <3>1. CASE Began
      BY <1>3, <2>2, <3>1 DEF IsTaken
    <3>2. CASE Went
      BY <1>3, <2>2, <3>2 DEF IsTaken, Asked, Unanswered
    <3> QED  BY <1>2, <3>1, <3>2
  <2>3. ASSUME NEW i \in DOMAIN said
        PROVE  IsTaken(said[i], tab'[said[i].tab])
    <3>1. IsTaken(said[i], tab[said[i].tab])
      BY DEF ChatInv, RowsAreTaken
    <3> QED  BY <1>1, <1>4, <2>2, <3>1
  <2> QED  BY <1>1, <2>1, <2>3 DEF RowsAreTaken
<1>6. AskedIsThere'
  <2>1. clearing.on => tab'[t].cleared
    BY <1>2 DEF ChatInv, AskedIsThere
  <2>2. tab'[t].at \in Asked /\ ~tab'[t].cleared => Question(t)' \in Said
    BY <1>2 DEF ChatInv, AskedIsThere, Question, Asked
  <2>3. tab'[t].told = "end" /\ ~tab'[t].cleared => {Question(t)', Answer(t)'} \subseteq Said
    BY <1>2 DEF ChatInv, AskedIsThere, Question, Answer
  <2> QED  BY <1>1, <2>1, <2>2, <2>3 DEF ChatInv, AskedIsThere, Question, Answer, Said
<1>7. ThreadIsOfNow' /\ CountedIsThere'
  <2>1. thread.id \in Nat /\ thread.count \in Nat /\ ThisThread' = ThisThread /\ Answers' = Answers
    BY <1>1, FieldsTyped DEF ThisThread, Answers, Said
  <2>2. \A u \in Tabs : tab'[u].seen = tab[u].seen \/ tab'[u].seen = thread
    BY <1>1
  <2>3. thread.id <= ThisThread /\ ThisThread \in Nat \ {0}
    BY <2>1 DEF ChatInv, ThreadIsOfNow
  <2>4. ThreadIsOfNow'
    BY <1>1, <1>3, <2>1, <2>2, <2>3 DEF ChatInv, ThreadIsOfNow
  <2>5. CountedIsThere'
    BY <1>1, <2>1, <2>2 DEF ChatInv, CountedIsThere
  <2> QED  BY <2>4, <2>5
<1>8. OthersWroteAfter'
  <2>1. \A u \in Tabs : tab'[u].turn >= tab[u].turn
    BY <1>1, <1>2, <1>3
  <2>2. tab'[t].at # "said"
    BY <1>2
  <2>3. tab'[t].echoed => \E u \in Tabs \ {t} : tab[u].turn > 0
    BY <1>2 DEF ChatInv, OthersWroteAfter, Repeats
  <2>4. \A u \in Tabs : tab'[u].turn \in Nat
    BY DEF ChatTypeOK, TabState, ChatAssumption
  <2> QED  BY SMTT(30), <1>1, <1>3, <2>1, <2>2, <2>3, <2>4 DEF ChatInv, OthersWroteAfter, Question
<1> QED  BY <1>1, <1>5, <1>6, <1>7, <1>8 DEF ChatInv

----------------------------------------------------------------------------
(***************************************************************************)
(* The rows of the conversation are finitely many, and one more answer     *)
(* that was not there makes one more.                                      *)
(***************************************************************************)
LEMMA AnswersAreFew ==
  ASSUME ChatTypeOK
  PROVE  IsFiniteSet(Answers) /\ Cardinality(Answers) \in Nat
<1>1. IsFiniteSet(DOMAIN said)
  BY FS_Interval DEF ChatTypeOK
<1>2. IsFiniteSet(Said)
  <2>1. said \in Surjection(DOMAIN said, Said)
    BY DEF Said, Surjection, ChatTypeOK
  <2> QED  BY <1>1, <2>1, FS_Surjection
<1>3. Answers \subseteq Said
  BY DEF Answers
<1>4. IsFiniteSet(Answers)
  BY <1>2, <1>3, FS_Subset
<1> QED  BY <1>4, FS_CardinalityType

(***************************************************************************)
(* Creating the thread.                                                    *)
(***************************************************************************)
LEMMA EnsureTyped ==
  ASSUME ChatAssumption, ChatTypeOK, ChatInv, NEW t \in Tabs, Ensure(t)
  PROVE  ChatTypeOK'
<1>1. ThisThread \in 0..(ClearBound + 1)
  <2>1. clearing.left \in 0..ClearBound
    BY DEF ChatTypeOK
  <2> QED  BY <2>1 DEF ThisThread, ChatAssumption
<1>2. NoThread \in ThreadRow /\ [NoThread EXCEPT !.id = ThisThread] \in ThreadRow
  <2>1. 0 \in 0..(ClearBound + 1)
    BY DEF ChatAssumption
  <2> QED  BY <1>1, <2>1 DEF NoThread, ThreadRow
<1>3. thread' \in ThreadRow
  BY <1>2 DEF Ensure, ChatTypeOK
<1>4. "ready" \in TabAt
  BY DEF TabAt
<1>5. tab' \in [Tabs -> TabState]
  BY <1>4 DEF Ensure, ChatTypeOK, TabState
<1> QED  BY <1>3, <1>5 DEF Ensure, ChatTypeOK

LEMMA EnsureKeeps ==
  ASSUME ChatAssumption, ChatTypeOK, ChatInv, NEW t \in Tabs, Ensure(t)
  PROVE  ChatInv'
<1>1. /\ UNCHANGED <<said, clearing>> /\ ThisThread' = ThisThread /\ Answers' = Answers
      /\ Said' = Said
  BY DEF Ensure, ThisThread, Answers, Said
<1>2. \A u \in Tabs : /\ tab'[u].seen = tab[u].seen /\ tab'[u].turn = tab[u].turn
                      /\ tab'[u].told = tab[u].told /\ tab'[u].echoed = tab[u].echoed
                      /\ tab'[u].cleared = tab[u].cleared
                      /\ tab'[u].at \in {tab[u].at, "ready"}
  BY DEF Ensure, ChatTypeOK, TabState
<1>3. \/ thread' = thread
      \/ thread.id = 0 /\ thread'.id = ThisThread /\ thread'.count = 0
  BY DEF Ensure, NoThread
<1>4. RowsAreTaken'
  <2>1. \A u \in Tabs : tab'[u].at \in Unanswered => tab[u].at \in Unanswered
    BY <1>2 DEF Unanswered
  <2>2. ASSUME NEW u \in Tabs, NEW m, IsTaken(m, tab[u]) PROVE IsTaken(m, tab'[u])
    BY <1>2, <2>1, <2>2 DEF IsTaken
  <2>3. \A i \in DOMAIN said : said[i].tab \in Tabs
    BY FieldsTyped
  <2> QED  BY <1>1, <1>2, <2>1, <2>2, <2>3 DEF ChatInv, RowsAreTaken
<1>5. AskedIsThere'
  BY <1>1, <1>2 DEF ChatInv, AskedIsThere, Asked, Answer, Question
<1>6. ThreadIsOfNow'
  BY <1>1, <1>2, <1>3 DEF ChatInv, ThreadIsOfNow
<1>7. CountedIsThere'
  <2>1. Cardinality(Answers) \in Nat
    BY AnswersAreFew
  <2>2. CASE thread' = thread
    BY <1>1, <1>2, <2>2 DEF ChatInv, CountedIsThere
  <2>3. CASE thread.id = 0 /\ thread'.id = ThisThread /\ thread'.count = 0
    BY <1>1, <1>2, <2>1, <2>3 DEF ChatInv, CountedIsThere, ThreadIsOfNow
  <2> QED  BY <1>3, <2>2, <2>3
<1>8. OthersWroteAfter'
  BY <1>1, <1>2 DEF ChatInv, OthersWroteAfter, Question
<1> QED  BY <1>1, <1>4, <1>5, <1>6, <1>7, <1>8 DEF ChatInv

----------------------------------------------------------------------------
(***************************************************************************)
(* A row is added: the question of a tab, or the answer to it.             *)
(***************************************************************************)
LEMMA RowAdded ==
  ASSUME ChatTypeOK, NEW m, m \in MessageRow, said' = Append(said, m)
  PROVE  /\ said' \in Seq(MessageRow) /\ Len(said') = Len(said) + 1
         /\ \A i \in DOMAIN said' : \/ i \in DOMAIN said /\ i <= Len(said) /\ said'[i] = said[i]
                                    \/ i = Len(said) + 1 /\ said'[i] = m
         /\ Said' = Said \cup {m}
         /\ m.role = "user" => Answers' = Answers
         /\ m.role # "user" => Answers' = Answers \cup {m}
<1>1. said \in Seq(MessageRow) /\ Len(said) \in Nat
  BY DEF ChatTypeOK
<1>2. /\ said' \in Seq(MessageRow) /\ Len(said') = Len(said) + 1
      /\ \A i \in 1..Len(said) : said'[i] = said[i]
      /\ said'[Len(said) + 1] = m
  BY <1>1
<1>3. DOMAIN said = 1..Len(said) /\ DOMAIN said' = 1..(Len(said) + 1)
  BY <1>1, <1>2
<1>4. \A i \in DOMAIN said' : \/ i \in DOMAIN said /\ i <= Len(said) /\ said'[i] = said[i]
                              \/ i = Len(said) + 1 /\ said'[i] = m
  BY <1>1, <1>2, <1>3
<1>5. Len(said) + 1 \in DOMAIN said' /\ DOMAIN said \subseteq DOMAIN said'
  BY <1>1, <1>3
<1>6. Said' = Said \cup {m}
  BY <1>1, <1>2, <1>3, <1>4, <1>5 DEF Said
<1>7. m.role = "user" \/ m.role = "assistant"
  BY DEF MessageRow
<1> QED  BY <1>2, <1>4, <1>6, <1>7 DEF Answers

LEMMA CommitSayTyped ==
  ASSUME ChatAssumption, ChatTypeOK, ChatInv, NEW t \in Tabs, CommitSay(t)
  PROVE  ChatTypeOK' /\ Question(t) \in MessageRow
<1>1. tab[t].turn \in 1..TurnBound
  BY DEF ChatInv, RowsAreTaken, CommitSay, Unanswered, ChatTypeOK, TabState, ChatAssumption
<1>2. Question(t) \in MessageRow
  BY <1>1 DEF Question, MessageRow
<1>3. said' \in Seq(MessageRow)
  BY <1>2 DEF CommitSay, ChatTypeOK
<1>4. thread' \in ThreadRow
  BY DEF CommitSay, ChatTypeOK, ThreadRow
<1>5. "said" \in TabAt
  BY DEF TabAt
<1>6. tab' \in [Tabs -> TabState]
  BY <1>5 DEF CommitSay, ChatTypeOK, TabState
<1> QED  BY <1>2, <1>3, <1>4, <1>6 DEF CommitSay, ChatTypeOK

LEMMA CommitSayKeeps ==
  ASSUME ChatAssumption, ChatTypeOK, ChatInv, NEW t \in Tabs, CommitSay(t)
  PROVE  ChatInv'
<1>1. PICK q : q = Question(t)
  OBVIOUS
<1>2. /\ q \in MessageRow /\ q.tab = t /\ q.turn = tab[t].turn /\ q.role = "user"
      /\ said' = Append(said, q) /\ clearing' = clearing /\ ThisThread' = ThisThread
      /\ tab[t].at = "saying"
  BY <1>1, CommitSayTyped DEF CommitSay, Question, ThisThread
<1>3. \A u \in Tabs : /\ tab'[u].seen = tab[u].seen /\ tab'[u].turn = tab[u].turn
                      /\ tab'[u].told = tab[u].told /\ tab'[u].echoed = tab[u].echoed
                      /\ tab'[u].cleared = tab[u].cleared
                      /\ tab'[u].at = IF u = t THEN "said" ELSE tab[u].at
  BY DEF CommitSay, ChatTypeOK, TabState
<1>4. thread'.id = thread.id /\ thread'.count = thread.count
  BY DEF CommitSay, ChatTypeOK, ThreadRow
<1>5. /\ Len(said') = Len(said) + 1 /\ Len(said) \in Nat /\ Said' = Said \cup {q} /\ Answers' = Answers
      /\ \A i \in DOMAIN said' : \/ i \in DOMAIN said /\ i <= Len(said) /\ said'[i] = said[i]
                                 \/ i = Len(said) + 1 /\ said'[i] = q
  BY <1>2, RowAdded DEF ChatTypeOK
<1>6. \A u \in Tabs : Question(u)' = Question(u) /\ Answer(u)' = Answer(u)
  BY <1>3 DEF Question, Answer
<1>7. \A u \in Tabs : q # Answer(u)
  BY <1>2 DEF Answer
<1>8. RowsAreTaken'
  <2>1. \A u \in Tabs : tab'[u].at \in Unanswered => tab'[u].turn > 0
    BY <1>2, <1>3 DEF ChatInv, RowsAreTaken, Unanswered
  <2>2. ASSUME NEW i \in DOMAIN said'
        PROVE  IsTaken(said'[i], tab'[said'[i].tab])
    <3>1. CASE i \in DOMAIN said /\ said'[i] = said[i]
      <4>1. PICK m, u : m = said[i] /\ u = m.tab
        OBVIOUS
      <4>2. u \in Tabs /\ IsTaken(m, tab[u])
        BY <3>1, <4>1, FieldsTyped DEF ChatInv, RowsAreTaken
      <4>3. IsTaken(m, tab'[u])
        BY <1>2, <1>3, <4>2 DEF IsTaken, Unanswered
      <4> QED  BY <3>1, <4>1, <4>3
    <3>2. CASE said'[i] = q
      <4>1. tab'[t].at = "said" /\ tab'[t].turn = tab[t].turn /\ 0 < tab[t].turn
        BY <1>2, <1>3 DEF ChatInv, RowsAreTaken, Unanswered
      <4>2. tab[t].turn \in Nat
        BY FieldsTyped
      <4>3. IsTaken(q, tab'[t])
        BY <1>2, <4>1, <4>2 DEF IsTaken
      <4> QED  BY <1>2, <3>2, <4>3
    <3> QED  BY <1>5, <3>1, <3>2
  <2> QED  BY <2>1, <2>2 DEF RowsAreTaken
<1>9. AskedIsThere'
  <2>1. /\ clearing'.on => \A u \in Tabs : tab'[u].cleared
        /\ \A u \in Tabs : tab'[u].told = "end" /\ ~tab'[u].cleared
                             => {Question(u)', Answer(u)'} \subseteq Said'
    BY <1>2, <1>3, <1>5, <1>6 DEF ChatInv, AskedIsThere
  <2>2. \A u \in Tabs : tab'[u].at \in Asked /\ ~tab'[u].cleared => Question(u)' \in Said'
    BY <1>1, <1>3, <1>5, <1>6 DEF ChatInv, AskedIsThere
  <2> QED  BY <2>1, <2>2 DEF AskedIsThere
<1>10. ThreadIsOfNow' /\ CountedIsThere'
  <2>1. ThreadIsOfNow'
    BY <1>2, <1>3, <1>4 DEF ChatInv, ThreadIsOfNow
  <2>2. CountedIsThere'
    BY <1>3, <1>4, <1>5 DEF ChatInv, CountedIsThere
  <2> QED  BY <2>1, <2>2
<1>11. OthersWroteAfter'
  <2>1. ASSUME NEW u \in Tabs, tab'[u].at = "said", NEW i \in 1..(Len(said') - 1),
               said'[i] = Question(u)'
        PROVE  \E w \in Tabs \ {u} : tab'[w].turn > 0
    <3>1. i \in 1..Len(said) /\ i \in DOMAIN said /\ said'[i] = said[i]
      BY <1>5 DEF ChatTypeOK
    <3>2. CASE u = t
      <4>0. said[i] = Question(t)
        BY <1>6, <2>1, <3>1, <3>2
      <4>1. said[i].tab = t /\ said[i].turn = tab[t].turn
        BY <4>0 DEF Question
      <4>2. tab[t].at = "saying" => said[i].turn # tab[t].turn
        BY <3>1, <4>1 DEF ChatInv, RowsAreTaken, IsTaken
      <4> QED  BY <1>2, <4>1, <4>2
    <3>3. CASE u # t
      <4>1. t \in Tabs \ {u} /\ tab'[t].turn > 0
        BY <1>2, <1>3, <3>3 DEF ChatInv, RowsAreTaken, Unanswered
      <4> QED  BY <4>1
    <3> QED  BY <3>2, <3>3
  <2> QED  BY <1>3, <2>1 DEF ChatInv, OthersWroteAfter
<1> QED  BY <1>2, <1>5, <1>8, <1>9, <1>10, <1>11 DEF ChatInv, ChatTypeOK

(***************************************************************************)
(* The answer is stored, and the thread counts two more than it was read   *)
(* to have.                                                                *)
(***************************************************************************)
LEMMA CommitStoreTyped ==
  ASSUME ChatAssumption, ChatTypeOK, ChatInv, NEW t \in Tabs, CommitStore(t)
  PROVE  ChatTypeOK' /\ Answer(t) \in MessageRow
<1>1. tab[t].turn \in 1..TurnBound
  BY DEF ChatInv, RowsAreTaken, CommitStore, Unanswered, ChatTypeOK, TabState, ChatAssumption
<1>2. Answer(t) \in MessageRow
  BY <1>1 DEF Answer, MessageRow
<1>3. said' \in Seq(MessageRow)
  BY <1>2 DEF CommitStore, ChatTypeOK
<1>4. PICK n : n = tab[t].seen.count + 2
  OBVIOUS
<1>5. n \in Nat
  BY <1>4, FieldsTyped
<1>6. thread' \in ThreadRow
  BY <1>4, <1>5 DEF CommitStore, ChatTypeOK, ThreadRow
<1>7. "ready" \in TabAt /\ "end" \in TurnEnd
  BY DEF TabAt, TurnEnd
<1>8. tab' \in [Tabs -> TabState]
  BY ZenonT(30), <1>7 DEF CommitStore, ChatTypeOK, TabState
<1> QED  BY <1>2, <1>3, <1>6, <1>8 DEF CommitStore, ChatTypeOK

LEMMA CommitStoreKeeps ==
  ASSUME ChatAssumption, ChatTypeOK, ChatInv, NEW t \in Tabs, CommitStore(t)
  PROVE  ChatInv'
<1>1. PICK a : a = Answer(t)
  OBVIOUS
<1>2. /\ a \in MessageRow /\ a.tab = t /\ a.turn = tab[t].turn /\ a.role # "user"
      /\ said' = Append(said, a) /\ clearing' = clearing /\ ThisThread' = ThisThread
      /\ tab[t].at = "storing"
  BY <1>1, CommitStoreTyped DEF CommitStore, Answer, ThisThread
<1>3. \A u \in Tabs : /\ tab'[u].seen = tab[u].seen /\ tab'[u].turn = tab[u].turn
                      /\ tab'[u].told = IF u = t THEN "end" ELSE tab[u].told
                      /\ tab'[u].echoed = tab[u].echoed /\ tab'[u].cleared = tab[u].cleared
                      /\ tab'[u].at = IF u = t THEN "ready" ELSE tab[u].at
  BY DEF CommitStore, ChatTypeOK, TabState
<1>4. /\ thread'.id = thread.id
      /\ \/ thread'.count = thread.count
         \/ tab[t].seen.id = thread.id /\ thread'.count = tab[t].seen.count + 2
  BY DEF CommitStore, ChatTypeOK, ThreadRow, Stale
<1>5. /\ Len(said') = Len(said) + 1 /\ Len(said) \in Nat
      /\ Said' = Said \cup {a} /\ Answers' = Answers \cup {a}
      /\ \A i \in DOMAIN said' : \/ i \in DOMAIN said /\ i <= Len(said) /\ said'[i] = said[i]
                                 \/ i = Len(said) + 1 /\ said'[i] = a
  BY <1>2, RowAdded DEF ChatTypeOK
<1>6. \A u \in Tabs : Question(u)' = Question(u) /\ Answer(u)' = Answer(u)
  BY <1>3 DEF Question, Answer
<1>7. RowsAreTaken'
  <2>1. \A u \in Tabs : tab'[u].at \in Unanswered => tab'[u].turn > 0
    BY <1>2, <1>3 DEF ChatInv, RowsAreTaken, Unanswered
  <2>2. ASSUME NEW i \in DOMAIN said'
        PROVE  IsTaken(said'[i], tab'[said'[i].tab])
    <3>1. CASE i \in DOMAIN said /\ said'[i] = said[i]
      <4>1. PICK m, u : m = said[i] /\ u = m.tab
        OBVIOUS
      <4>2. u \in Tabs /\ IsTaken(m, tab[u])
        BY <3>1, <4>1, FieldsTyped DEF ChatInv, RowsAreTaken
      <4>3. IsTaken(m, tab'[u])
        BY <1>2, <1>3, <4>2 DEF IsTaken, Unanswered
      <4> QED  BY <3>1, <4>1, <4>3
    <3>2. CASE said'[i] = a
      <4>1. tab'[t].at = "ready" /\ tab'[t].turn = tab[t].turn /\ 0 < tab[t].turn
        BY <1>2, <1>3 DEF ChatInv, RowsAreTaken, Unanswered
      <4>2. tab[t].turn \in Nat
        BY FieldsTyped
      <4>3. IsTaken(a, tab'[t])
        BY <1>2, <4>1, <4>2 DEF IsTaken, Unanswered
      <4> QED  BY <1>2, <3>2, <4>3
    <3> QED  BY <1>5, <3>1, <3>2
  <2> QED  BY <2>1, <2>2 DEF RowsAreTaken
<1>8. AskedIsThere'
  <2>1. tab[t].at \in Asked
    BY <1>2 DEF Asked
  <2>2. /\ clearing'.on => \A u \in Tabs : tab'[u].cleared
        /\ \A u \in Tabs : tab'[u].at \in Asked => tab[u].at \in Asked
    BY <1>2, <1>3 DEF ChatInv, AskedIsThere, Asked
  <2>3. \A u \in Tabs : tab'[u].at \in Asked /\ ~tab'[u].cleared => Question(u)' \in Said'
    BY <1>3, <1>5, <1>6, <2>2 DEF ChatInv, AskedIsThere
  <2>4. \A u \in Tabs : tab'[u].told = "end" /\ ~tab'[u].cleared
                          => {Question(u)', Answer(u)'} \subseteq Said'
    BY <1>1, <1>3, <1>5, <1>6, <2>1 DEF ChatInv, AskedIsThere
  <2> QED  BY <2>2, <2>3, <2>4 DEF AskedIsThere
<1>9. ThreadIsOfNow'
  <2>1. thread.id = 0 => thread'.count = 0
    BY DEF ChatInv, ThreadIsOfNow, CommitStore, Stale
  <2> QED  BY SMTT(30), <1>2, <1>3, <1>4, <2>1 DEF ChatInv, ThreadIsOfNow
<1>10. CountedIsThere'
  <2>1. a \notin Answers
    <3>1. \A i \in DOMAIN said : said[i] # a
      <4>1. ASSUME NEW i \in DOMAIN said, said[i] = a PROVE FALSE
        <5>1. IsTaken(a, tab[t])
          BY <1>2, <4>1 DEF ChatInv, RowsAreTaken
        <5>2. a # [tab |-> t, turn |-> tab[t].turn, role |-> "assistant"]
          BY <1>2, <5>1 DEF IsTaken, Unanswered
        <5> QED  BY <1>1, <5>2 DEF Answer
      <4> QED  BY <4>1
    <3> QED  BY <3>1 DEF Answers, Said
  <2>2. Cardinality(Answers') = Cardinality(Answers) + 1 /\ Cardinality(Answers) \in Nat
    BY <1>5, <2>1, AnswersAreFew, FS_AddElement
  <2>3. \A u \in Tabs : tab[u].seen.count \in Nat
    BY FieldsTyped
  <2>4. thread.count \in Nat
    BY FieldsTyped
  <2> QED  BY SMTT(30), <1>3, <1>4, <2>2, <2>3, <2>4 DEF ChatInv, CountedIsThere
<1>11. OthersWroteAfter'
  <2>1. ASSUME NEW u \in Tabs, tab'[u].at = "said", NEW i \in 1..(Len(said') - 1),
               said'[i] = Question(u)'
        PROVE  \E w \in Tabs \ {u} : tab'[w].turn > 0
    <3>1. u # t
      BY <1>3, <2>1
    <3>2. t \in Tabs \ {u} /\ tab'[t].turn > 0
      BY <1>2, <1>3, <3>1 DEF ChatInv, RowsAreTaken, Unanswered
    <3> QED  BY <3>2
  <2> QED  BY <1>3, <2>1 DEF ChatInv, OthersWroteAfter
<1> QED  BY <1>2, <1>5, <1>7, <1>8, <1>9, <1>10, <1>11 DEF ChatInv, ChatTypeOK

----------------------------------------------------------------------------
(***************************************************************************)
(* Clearing begins: every tab knows, and the rows that are there will go.  *)
(***************************************************************************)
LEMMA BeginClearTyped ==
  ASSUME ChatAssumption, ChatTypeOK, BeginClear
  PROVE  ChatTypeOK'
<1>1. Len(said) \in Nat
  BY DEF ChatTypeOK
<1>2. clearing.left - 1 \in 0..ClearBound
  BY DEF ChatTypeOK, BeginClear, ChatAssumption
<1>3. clearing' \in [on : BOOLEAN, doomed : Nat, left : 0..ClearBound]
  BY <1>1, <1>2 DEF BeginClear
<1>4. \A t \in Tabs : [tab[t] EXCEPT !.cleared = TRUE] \in TabState
  BY DEF ChatTypeOK, TabState
<1>5. tab' \in [Tabs -> TabState]
  BY <1>4 DEF BeginClear
<1> QED  BY <1>3, <1>5 DEF BeginClear, ChatTypeOK

LEMMA BeginClearKeeps ==
  ASSUME ChatAssumption, ChatTypeOK, ChatInv, BeginClear
  PROVE  ChatInv'
<1>1. /\ UNCHANGED <<said, thread>> /\ Answers' = Answers /\ clearing'.doomed = Len(said)
  BY DEF BeginClear, Answers, Said
<1>2. ThisThread' = ThisThread
  BY DEF BeginClear, ThisThread, ChatTypeOK, ChatAssumption
<1>3. \A u \in Tabs : /\ tab'[u].seen = tab[u].seen /\ tab'[u].turn = tab[u].turn
                      /\ tab'[u].echoed = tab[u].echoed /\ tab'[u].cleared = TRUE
                      /\ tab'[u].at = tab[u].at
  BY DEF BeginClear, ChatTypeOK, TabState
<1>4. RowsAreTaken'
  BY <1>1, <1>3, FieldsTyped DEF ChatInv, RowsAreTaken, IsTaken
<1>5. AskedIsThere'
  BY <1>3 DEF AskedIsThere
<1>6. ThreadIsOfNow' /\ CountedIsThere'
  BY <1>1, <1>2, <1>3 DEF ChatInv, ThreadIsOfNow, CountedIsThere
<1>7. OthersWroteAfter'
  BY <1>1, <1>3 DEF ChatInv, OthersWroteAfter, Question
<1>8. Len(said) \in Nat
  BY DEF ChatTypeOK
<1> QED  BY <1>1, <1>4, <1>5, <1>6, <1>7, <1>8 DEF ChatInv

(***************************************************************************)
(* It is committed: the oldest rows go, and the thread with its count.     *)
(***************************************************************************)
LEMMA RowsRemain ==
  ASSUME ChatAssumption, ChatTypeOK, ChatInv, CommitClear
  PROVE  /\ said' \in Seq(MessageRow) /\ Len(said') = Len(said) - clearing.doomed
         /\ \A i \in 1..Len(said') : /\ i + clearing.doomed \in DOMAIN said
                                     /\ said'[i] = said[i + clearing.doomed]
<1>1. PICK d : d = clearing.doomed
  OBVIOUS
<1>2. d \in Nat /\ d <= Len(said) /\ said \in Seq(MessageRow) /\ Len(said) \in Nat
  BY <1>1 DEF ChatTypeOK, ChatInv
<1>3. said' = SubSeq(said, d + 1, Len(said))
  BY <1>1 DEF CommitClear
<1>4. Len(said') = Len(said) - d /\ \A i \in 1..Len(said') : said'[i] = said[i + d]
  BY <1>2, <1>3
<1>5. \A i \in 1..Len(said') : i + d \in DOMAIN said
  BY <1>2, <1>4
<1>6. said' \in Seq(MessageRow)
  BY <1>2, <1>3
<1> QED  BY <1>1, <1>4, <1>5, <1>6

LEMMA CommitClearTyped ==
  ASSUME ChatAssumption, ChatTypeOK, ChatInv, CommitClear
  PROVE  ChatTypeOK'
<1>1. NoThread \in ThreadRow
  <2>1. 0 \in 0..(ClearBound + 1)
    BY DEF ChatAssumption
  <2> QED  BY <2>1 DEF NoThread, ThreadRow
<1>2. clearing' \in [on : BOOLEAN, doomed : Nat, left : 0..ClearBound]
  BY DEF CommitClear, ChatTypeOK
<1> QED  BY <1>1, <1>2, RowsRemain DEF CommitClear, ChatTypeOK

LEMMA CommitClearKeeps ==
  ASSUME ChatAssumption, ChatTypeOK, ChatInv, CommitClear, ChatTypeOK'
  PROVE  ChatInv'
<1>1. tab' = tab /\ thread'.id = 0 /\ thread'.count = 0 /\ clearing.on
      /\ clearing'.on = FALSE /\ clearing'.doomed = 0
  BY DEF CommitClear, NoThread, ChatTypeOK
<1>2. ThisThread' = ThisThread + 1
  BY DEF CommitClear, ThisThread, ChatTypeOK, ChatAssumption
<1>3. PICK d : d = clearing.doomed
  OBVIOUS
<1>4. /\ Len(said') = Len(said) - d /\ DOMAIN said' = 1..Len(said') /\ d \in Nat
      /\ \A i \in 1..Len(said') : i + d \in DOMAIN said /\ said'[i] = said[i + d]
      /\ Len(said) \in Nat
  BY <1>3, RowsRemain DEF ChatTypeOK
<1>5. RowsAreTaken'
  <2>1. \A u \in Tabs : tab'[u].at \in Unanswered => tab'[u].turn > 0
    BY <1>1 DEF ChatInv, RowsAreTaken
  <2> QED  BY <1>1, <1>4, <2>1 DEF ChatInv, RowsAreTaken
<1>6. AskedIsThere'
  BY <1>1 DEF ChatInv, AskedIsThere
<1>7. ThreadIsOfNow'
  <2>1. ThisThread \in Nat \ {0} /\ \A u \in Tabs : tab[u].seen.id <= ThisThread
    BY DEF ChatInv, ThreadIsOfNow
  <2>2. \A u \in Tabs : tab[u].seen.id \in Nat
    BY FieldsTyped
  <2>3. \A u \in Tabs : tab[u].seen.id <= ThisThread + 1 /\ tab[u].seen.id # ThisThread + 1
    BY <2>1, <2>2
  <2> QED  BY <1>1, <1>2, <2>1, <2>3 DEF ChatInv, ThreadIsOfNow
<1>8. CountedIsThere'
  <2>1. Cardinality(Answers)' \in Nat
    <3>1. IsFiniteSet(DOMAIN said')
      <4>1. Len(said') \in Nat /\ DOMAIN said' = 1..Len(said')
        BY <1>4 DEF ChatTypeOK
      <4> QED  BY <4>1, FS_Interval
    <3>2. said' \in Surjection(DOMAIN said', Said')
      BY DEF Said, Surjection, ChatTypeOK
    <3>3. IsFiniteSet(Said')
      BY <3>1, <3>2, FS_Surjection
    <3>4. Answers' \subseteq Said'
      BY DEF Answers
    <3> QED  BY <3>3, <3>4, FS_Subset, FS_CardinalityType
  <2>2. \A u \in Tabs : tab[u].seen.id = 0 => tab[u].seen.count = 0
    BY DEF ChatInv, ThreadIsOfNow
  <2> QED  BY <1>1, <2>1, <2>2 DEF CountedIsThere
<1>9. OthersWroteAfter'
  <2>1. ASSUME NEW u \in Tabs, tab[u].at = "said", NEW i \in 1..(Len(said') - 1),
               said'[i] = Question(u)
        PROVE  \E w \in Tabs \ {u} : tab[w].turn > 0
    <3>1. i + d \in 1..(Len(said) - 1) /\ said'[i] = said[i + d]
      BY <1>4
    <3> QED  BY <2>1, <3>1 DEF ChatInv, OthersWroteAfter
  <2>2. \A u \in Tabs : Question(u)' = Question(u)
    BY <1>1 DEF Question
  <2> QED  BY <1>1, <2>1, <2>2 DEF ChatInv, OthersWroteAfter
<1>10. clearing'.doomed <= Len(said')
  BY <1>1 DEF ChatTypeOK
<1> QED  BY <1>5, <1>6, <1>7, <1>8, <1>9, <1>10 DEF ChatInv

----------------------------------------------------------------------------
(***************************************************************************)
(* "end" means that both sides are stored, for any number of tabs, turns   *)
(* and clearings.                                                          *)
(***************************************************************************)
THEOREM EndMeansStoredHolds == ChatSpec => [](ChatTypeOK /\ EndMeansStored)
<1>1. ChatInit => ChatTypeOK /\ ChatInv
  <2> SUFFICES ASSUME ChatInit PROVE ChatTypeOK /\ ChatInv
    OBVIOUS
  <2>1. 0 \in 0..(ClearBound + 1) /\ 0 \in 0..TurnBound /\ ClearBound \in 0..ClearBound
        /\ ClearBound - ClearBound + 1 = 1
    BY ChatAssumption DEF ChatAssumption
  <2>2. NoThread \in ThreadRow
    BY <2>1 DEF NoThread, ThreadRow
  <2>3. "closed" \in TabAt /\ "none" \in TurnEnd
    BY DEF TabAt, TurnEnd
  <2>4. ClosedTab \in TabState
    BY <2>1, <2>2, <2>3 DEF ClosedTab, TabState
  <2>5. clearing \in [on : BOOLEAN, doomed : Nat, left : 0..ClearBound]
    BY <2>1 DEF ChatInit
  <2>6. ChatTypeOK
    BY <2>2, <2>4, <2>5 DEF ChatInit, ChatTypeOK
  <2>7. /\ DOMAIN said = {} /\ Len(said) = 0 /\ ThisThread = 1 /\ ~clearing.on
        /\ clearing.doomed = 0 /\ thread.id = 0 /\ thread.count = 0
    BY <2>1 DEF ChatInit, ThisThread, NoThread
  <2>8. \A u \in Tabs : /\ tab[u].at = "closed" /\ tab[u].told = "none" /\ ~tab[u].echoed
                        /\ tab[u].seen.id = 0 /\ tab[u].seen.count = 0
    BY DEF ChatInit, ClosedTab, NoThread
  <2>9. Cardinality(Answers) \in Nat
    BY <2>6, AnswersAreFew
  <2>10. RowsAreTaken /\ AskedIsThere /\ OthersWroteAfter
    BY <2>7, <2>8 DEF RowsAreTaken, AskedIsThere, OthersWroteAfter, Unanswered, Asked
  <2>11. ThreadIsOfNow
    BY <2>7, <2>8 DEF ThreadIsOfNow
  <2>12. CountedIsThere
    BY <2>7, <2>8, <2>9 DEF CountedIsThere
  <2> QED  BY <2>6, <2>7, <2>10, <2>11, <2>12 DEF ChatInv
<1>2. ChatTypeOK /\ ChatInv /\ [ChatNext]_chatVars => (ChatTypeOK /\ ChatInv)'
  <2> SUFFICES ASSUME ChatTypeOK, ChatInv, [ChatNext]_chatVars PROVE ChatTypeOK' /\ ChatInv'
    OBVIOUS
  <2>1. ASSUME NEW t \in Tabs, TabOnly(t) PROVE ChatTypeOK' /\ ChatInv'
    BY <2>1, ChatAssumption, TabOnlyTyped, TabOnlyKeeps DEF ChatInv
  <2>2. ASSUME NEW t \in Tabs, Ensure(t) PROVE ChatTypeOK' /\ ChatInv'
    BY <2>2, ChatAssumption, EnsureTyped, EnsureKeeps
  <2>3. ASSUME NEW t \in Tabs, CommitSay(t) PROVE ChatTypeOK' /\ ChatInv'
    BY <2>3, ChatAssumption, CommitSayTyped, CommitSayKeeps
  <2>4. ASSUME NEW t \in Tabs, CommitStore(t) PROVE ChatTypeOK' /\ ChatInv'
    BY <2>4, ChatAssumption, CommitStoreTyped, CommitStoreKeeps
  <2>5. CASE BeginClear
    BY <2>5, ChatAssumption, BeginClearTyped, BeginClearKeeps
  <2>6. CASE CommitClear
    BY <2>6, ChatAssumption, CommitClearTyped, CommitClearKeeps
  <2>7. CASE UNCHANGED chatVars
    <3>1. /\ ThisThread' = ThisThread /\ Answers' = Answers /\ Said' = Said
          /\ \A u \in Tabs : Question(u)' = Question(u) /\ Answer(u)' = Answer(u)
      BY <2>7 DEF chatVars, ThisThread, Answers, Said, Question, Answer
    <3> QED  BY <2>7, <3>1 DEF chatVars, ChatTypeOK, ChatInv, RowsAreTaken, AskedIsThere,
                ThreadIsOfNow, CountedIsThere, OthersWroteAfter
  <2> QED  BY <2>1, <2>2, <2>3, <2>4, <2>5, <2>6, <2>7 DEF ChatNext, TabOnly
<1>3. ChatInv => EndMeansStored
  BY DEF ChatInv, EndMeansStored, AskedIsThere, CountedIsThere, OthersWroteAfter
<1> QED  BY <1>1, <1>2, <1>3, PTL DEF ChatSpec

----------------------------------------------------------------------------
(***************************************************************************)
(* The fetch of a source.                                                  *)
(***************************************************************************)

\* What a fetch has sent and recorded so far: nothing is recorded before it is over, and the
\* requests of the attempts before this one, with its redirects, are within the bound.
FetchSofar ==
  /\ fetch.phase # "over" => fetch.failures = 0 /\ fetch.successes = 0 /\ fetch.file = FALSE
  /\ fetch.phase = "failed" => fetch.result \in Retryable \cup Permanent \cup {"too_many_redirects"}
  /\ fetch.phase = "asking" /\ kind = "large" => fetch.hop = 0
  /\ fetch.phase = "new" => fetch.asked = 0 /\ fetch.hop = 0 /\ fetch.attempt = 0
  /\ fetch.phase = "asking" => fetch.asked <= fetch.attempt * (Redirects + 1) + fetch.hop

FetchInv == FetchTypeOK /\ FetchSofar /\ OutcomeRecordedOnce

\* The requests of one attempt: no more than the redirects allow.
LEMMA OneMoreAttempt ==
  ASSUME NEW nth \in 0..(Attempts - 1)
  PROVE  /\ nth * (Redirects + 1) \in Nat
         /\ (nth + 1) * (Redirects + 1) = nth * (Redirects + 1) + Redirects + 1
<1>1. Redirects \in {0, 1, 2, 3} /\ nth \in {0, 1, 2}
  BY FetchingAssumption
<1>2. QED BY <1>1

LEMMA FetchStep == FetchInv /\ [FetchNext]_fetchVars => FetchInv'
<1> SUFFICES ASSUME FetchInv, [FetchNext]_fetchVars PROVE FetchInv'
  OBVIOUS
<1>1. /\ kind \in {"ordinary", "large"} /\ defers \in BOOLEAN /\ Redirects \in 0..3
      /\ fetch.phase \in {"new", "asking", "failed", "over"}
      /\ fetch.attempt \in 0..(Attempts - 1) /\ fetch.hop \in 0..(Redirects + 1)
      /\ fetch.asked \in Nat /\ fetch.result \in Results
      /\ fetch.slept \in {0} \cup AskedToWait \cup UNION {Jittered(n) : n \in 0..(Attempts - 1)}
      /\ fetch.failures \in 0..1 /\ fetch.successes \in 0..1 /\ Attempts \in 1..3
  BY FetchingAssumption DEF FetchInv, FetchTypeOK
<1>2. fetch.file \in BOOLEAN /\ FALSE \in BOOLEAN /\ (kind = "large") \in BOOLEAN
  BY DEF FetchInv, FetchTypeOK
<1>3. /\ fetch.attempt * (Redirects + 1) \in Nat
      /\ (fetch.attempt + 1) * (Redirects + 1) = fetch.attempt * (Redirects + 1) + Redirects + 1
  BY <1>1, OneMoreAttempt
<1>4. fetch = [phase |-> fetch.phase, attempt |-> fetch.attempt, hop |-> fetch.hop,
               asked |-> fetch.asked, result |-> fetch.result, slept |-> fetch.slept,
               file |-> fetch.file, failures |-> fetch.failures, successes |-> fetch.successes]
  BY DEF FetchInv, FetchTypeOK
<1>5. /\ fetch.phase # "over" => fetch.failures = 0 /\ fetch.successes = 0 /\ fetch.file = FALSE
      /\ fetch.phase = "new" => fetch.asked = 0 /\ fetch.hop = 0 /\ fetch.attempt = 0
      /\ fetch.phase = "asking" => fetch.asked <= fetch.attempt * (Redirects + 1) + fetch.hop
      /\ fetch.phase = "asking" /\ kind = "large" => fetch.hop = 0
      /\ fetch.phase = "failed" =>
           fetch.result \in Retryable \cup Permanent \cup {"too_many_redirects"}
      /\ fetch.asked <= (fetch.attempt + 1) * (Redirects + 1)
  BY DEF FetchInv, FetchSofar, OutcomeRecordedOnce
<1> DEFINE Rec(phase, nth, hop, asked, result, slept, kept, fails, successes) ==
      [phase |-> phase, attempt |-> nth, hop |-> hop, asked |-> asked, result |-> result,
       slept |-> slept, file |-> kept, failures |-> fails, successes |-> successes]
<1>6. CASE UNCHANGED fetchVars
  BY <1>6 DEF fetchVars, FetchInv, FetchTypeOK, FetchSofar, OutcomeRecordedOnce
<1>7. CASE Refuse
  <2>1. fetch.phase = "new" /\ UNCHANGED <<kind, defers>>
    BY <1>7, <1>5 DEF Refuse
  <2>2. PICK why \in {"circuit_open", "configuration_error"} :
          fetch' = [fetch EXCEPT !.phase = "over", !.result = why]
    BY <1>7, <1>1, <1>3, <1>5, <2>1 DEF Refuse
  <2>3. fetch' = Rec("over", fetch.attempt, fetch.hop, fetch.asked, why,
                     fetch.slept, fetch.file, fetch.failures, fetch.successes)
    BY <1>4, <1>1, <1>5, <2>1, <2>2
  <2>4. FetchTypeOK'
    BY <1>1, <1>2, <1>5, <2>1, <2>3 DEF FetchTypeOK, Results, Delays
  <2>5. FetchSofar'
    BY <1>1, <1>3, <1>5, <2>1, <2>2, <2>3 DEF FetchSofar
  <2>6. OutcomeRecordedOnce'
    BY <1>1, <1>3, <1>5, <2>1, <2>2, <2>3 DEF OutcomeRecordedOnce, Retryable, Permanent
  <2>7. QED BY <2>4, <2>5, <2>6 DEF FetchInv
<1>8. CASE Admit
  <2>1. fetch.phase = "new" /\ UNCHANGED <<kind, defers>>
    BY <1>8, <1>5 DEF Admit
  <2>2. fetch' = [fetch EXCEPT !.phase = "asking"]
    BY <1>8, <1>1, <1>3, <1>5, <2>1 DEF Admit
  <2>3. fetch' = Rec("asking", fetch.attempt, fetch.hop, fetch.asked, fetch.result,
                     fetch.slept, fetch.file, fetch.failures, fetch.successes)
    BY <1>4, <1>1, <1>5, <2>1, <2>2
  <2>4. FetchTypeOK'
    BY <1>1, <1>2, <1>5, <2>1, <2>3 DEF FetchTypeOK, Results, Delays
  <2>5. FetchSofar'
    BY <1>1, <1>3, <1>5, <2>1, <2>2, <2>3 DEF FetchSofar
  <2>6. OutcomeRecordedOnce'
    BY <1>1, <1>3, <1>5, <2>1, <2>2, <2>3 DEF OutcomeRecordedOnce, Retryable, Permanent
  <2>7. QED BY <2>4, <2>5, <2>6 DEF FetchInv
<1>9. CASE Redirect
  <2>1. /\ fetch.phase = "asking" /\ kind = "ordinary" /\ fetch.hop <= Redirects
        /\ UNCHANGED <<kind, defers>>
    BY <1>9, <1>5 DEF Redirect
  <2>2. PICK hop \in 0..(Redirects + 1), asked \in Nat :
          /\ fetch' = [fetch EXCEPT !.hop = hop, !.asked = asked]
          /\ asked <= fetch.attempt * (Redirects + 1) + hop
          /\ asked <= (fetch.attempt + 1) * (Redirects + 1)
    <3>1. PICK hop \in 0..(Redirects + 1) : hop = fetch.hop + 1
      BY <1>1, <2>1
    <3>2. PICK asked \in Nat : asked = fetch.asked + 1
      BY <1>1
    <3>3. fetch' = [fetch EXCEPT !.hop = hop, !.asked = asked]
      BY <1>9, <3>1, <3>2 DEF Redirect
    <3>4. PICK sent \in Nat : sent = fetch.attempt * (Redirects + 1)
      BY <1>3
    <3>5. asked <= sent + hop /\ asked <= sent + Redirects + 1
      <4>1. fetch.asked <= sent + fetch.hop
        BY <1>5, <2>1, <3>4
      <4>2. \A n, h \in Nat : n <= sent + h => n + 1 <= sent + (h + 1)
        OBVIOUS
      <4>3. asked <= sent + hop
        BY <1>1, <3>1, <3>2, <4>1, <4>2
      <4>4. hop \in Nat /\ hop <= Redirects + 1 /\ Redirects \in Nat
        BY <1>1
      <4>5. QED BY <4>3, <4>4
    <3>6. QED BY <1>3, <3>3, <3>4, <3>5
  <2>3. fetch' = Rec("asking", fetch.attempt, hop, asked, fetch.result,
                     fetch.slept, fetch.file, fetch.failures, fetch.successes)
    BY <1>4, <1>1, <1>5, <2>1, <2>2
  <2>4. FetchTypeOK'
    BY <1>1, <1>2, <1>5, <2>1, <2>3 DEF FetchTypeOK, Results, Delays
  <2>5. FetchSofar'
    BY <1>1, <1>3, <1>5, <2>1, <2>2, <2>3 DEF FetchSofar
  <2>6. OutcomeRecordedOnce'
    BY <1>1, <1>3, <1>5, <2>1, <2>2, <2>3 DEF OutcomeRecordedOnce, Retryable, Permanent
  <2>7. QED BY <2>4, <2>5, <2>6 DEF FetchInv
<1>10. CASE Fail
  <2>1. fetch.phase = "asking" /\ fetch.hop <= Redirects /\ UNCHANGED <<kind, defers>>
    BY <1>10, <1>5 DEF Fail
  <2>2. PICK why \in Retryable \cup Permanent, sent \in {0, 1} :
          fetch' = [fetch EXCEPT !.phase = "failed", !.result = why, !.asked = @ + sent]
    BY <1>10, <1>1, <1>3, <1>5, <2>1 DEF Fail
  <2>3. fetch' = Rec("failed", fetch.attempt, fetch.hop, fetch.asked + sent, why,
                     fetch.slept, fetch.file, fetch.failures, fetch.successes)
    BY <1>4, <1>1, <1>5, <2>1, <2>2
  <2>4. FetchTypeOK'
    BY <1>1, <1>2, <1>5, <2>1, <2>3 DEF FetchTypeOK, Results, Delays
  <2>5. FetchSofar'
    BY <1>1, <1>3, <1>5, <2>1, <2>2, <2>3 DEF FetchSofar
  <2>6. OutcomeRecordedOnce'
    BY <1>1, <1>3, <1>5, <2>1, <2>2, <2>3 DEF OutcomeRecordedOnce, Retryable, Permanent
  <2>7. QED BY <2>4, <2>5, <2>6 DEF FetchInv
<1>11. CASE FailOnRedirects
  <2>1. fetch.phase = "asking" /\ UNCHANGED <<kind, defers>>
    BY <1>11, <1>5 DEF FailOnRedirects
  <2>2. PICK sent \in {0, 1} :
          fetch' = [fetch EXCEPT !.phase = "failed", !.result = "too_many_redirects",
                                 !.asked = @ + sent]
             /\ (sent = 0 \/ fetch.hop = 0)
    BY <1>11, <1>1, <1>3, <1>5, <2>1 DEF FailOnRedirects
  <2>3. fetch' = Rec("failed", fetch.attempt, fetch.hop, fetch.asked + sent, "too_many_redirects",
                     fetch.slept, fetch.file, fetch.failures, fetch.successes)
    BY <1>4, <1>1, <1>5, <2>1, <2>2
  <2>4. FetchTypeOK'
    BY <1>1, <1>2, <1>5, <2>1, <2>3 DEF FetchTypeOK, Results, Delays
  <2>5. FetchSofar'
    BY <1>1, <1>3, <1>5, <2>1, <2>2, <2>3 DEF FetchSofar
  <2>6. OutcomeRecordedOnce'
    BY <1>1, <1>3, <1>5, <2>1, <2>2, <2>3 DEF OutcomeRecordedOnce, Retryable, Permanent
  <2>7. QED BY <2>4, <2>5, <2>6 DEF FetchInv
<1>12. CASE Retry
  <2>1. fetch.phase = "failed" /\ fetch.attempt + 1 < Attempts /\ UNCHANGED <<kind, defers>>
    BY <1>12, <1>5 DEF Retry
  <2>2. PICK delay \in Delays :
          fetch' = [fetch EXCEPT !.phase = "asking", !.attempt = @ + 1, !.hop = 0,
                                 !.slept = delay]
    BY <1>12, <1>1, <1>3, <1>5, <2>1 DEF Retry
  <2>3. fetch' = Rec("asking", fetch.attempt + 1, 0, fetch.asked, fetch.result,
                     delay, fetch.file, fetch.failures, fetch.successes)
    BY <1>4, <1>1, <1>5, <2>1, <2>2
  <2>4. FetchTypeOK'
    BY <1>1, <1>2, <1>5, <2>1, <2>3 DEF FetchTypeOK, Results, Delays
  <2>5. FetchSofar'
    BY <1>1, <1>3, <1>5, <2>1, <2>2, <2>3 DEF FetchSofar
  <2>6. OutcomeRecordedOnce'
    BY <1>1, <1>3, <1>5, <2>1, <2>2, <2>3 DEF OutcomeRecordedOnce, Retryable, Permanent
  <2>7. QED BY <2>4, <2>5, <2>6 DEF FetchInv
<1>13. CASE GiveUpFetch
  <2>1. /\ fetch.phase = "failed" /\ fetch.failures = 0 /\ fetch.failures + 1 = 1
        /\ UNCHANGED <<kind, defers>>
    BY <1>13, <1>5 DEF GiveUpFetch
  <2>2. fetch' = [fetch EXCEPT !.phase = "over", !.failures = 1]
    BY <1>13, <1>1, <1>3, <1>5, <2>1 DEF GiveUpFetch
  <2>3. fetch' = Rec("over", fetch.attempt, fetch.hop, fetch.asked, fetch.result,
                     fetch.slept, fetch.file, 1, fetch.successes)
    BY <1>4, <1>1, <1>5, <2>1, <2>2
  <2>4. FetchTypeOK'
    BY <1>1, <1>2, <1>5, <2>1, <2>3 DEF FetchTypeOK, Results, Delays
  <2>5. FetchSofar'
    BY <1>1, <1>3, <1>5, <2>1, <2>2, <2>3 DEF FetchSofar
  <2>6. OutcomeRecordedOnce'
    BY <1>1, <1>3, <1>5, <2>1, <2>2, <2>3 DEF OutcomeRecordedOnce, Retryable, Permanent
  <2>7. QED BY <2>4, <2>5, <2>6 DEF FetchInv
<1>14. CASE Succeed
  <2>1. fetch.phase = "asking" /\ fetch.hop <= Redirects /\ UNCHANGED <<kind, defers>>
    BY <1>14, <1>5 DEF Succeed
  <2>2. fetch' = [fetch EXCEPT !.phase = "over", !.result = "ok", !.asked = @ + 1,
                               !.file = (kind = "large"), !.successes = IF defers THEN 0 ELSE 1]
    BY <1>14, <1>1, <1>3, <1>5, <2>1 DEF Succeed
  <2>3. fetch' = Rec("over", fetch.attempt, fetch.hop, fetch.asked + 1, "ok",
                     fetch.slept, (kind = "large"), fetch.failures, IF defers THEN 0 ELSE 1)
    BY <1>4, <1>1, <1>5, <2>1, <2>2
  <2>4. FetchTypeOK'
    BY <1>1, <1>2, <1>5, <2>1, <2>3 DEF FetchTypeOK, Results, Delays
  <2>5. FetchSofar'
    BY <1>1, <1>3, <1>5, <2>1, <2>2, <2>3 DEF FetchSofar
  <2>6. OutcomeRecordedOnce'
    BY <1>1, <1>3, <1>5, <2>1, <2>2, <2>3 DEF OutcomeRecordedOnce, Retryable, Permanent
  <2>7. QED BY <2>4, <2>5, <2>6 DEF FetchInv
<1>15. CASE Interrupt
  <2>1. fetch.phase \in {"asking", "failed"} /\ UNCHANGED <<kind, defers>>
    BY <1>15, <1>5 DEF Interrupt
  <2>2. fetch' = [fetch EXCEPT !.phase = "over", !.result = "none"]
    BY <1>15, <1>1, <1>3, <1>5, <2>1 DEF Interrupt
  <2>3. fetch' = Rec("over", fetch.attempt, fetch.hop, fetch.asked, "none",
                     fetch.slept, fetch.file, fetch.failures, fetch.successes)
    BY <1>4, <1>1, <1>5, <2>1, <2>2
  <2>4. FetchTypeOK'
    BY <1>1, <1>2, <1>5, <2>1, <2>3 DEF FetchTypeOK, Results, Delays
  <2>5. FetchSofar'
    BY <1>1, <1>3, <1>5, <2>1, <2>2, <2>3 DEF FetchSofar
  <2>6. OutcomeRecordedOnce'
    BY <1>1, <1>3, <1>5, <2>1, <2>2, <2>3 DEF OutcomeRecordedOnce, Retryable, Permanent
  <2>7. QED BY <2>4, <2>5, <2>6 DEF FetchInv
<1>16. CASE CleanUp
  <2>1. fetch.phase = "over" /\ fetch.file /\ UNCHANGED <<kind, defers>>
    BY <1>16, <1>5 DEF CleanUp
  <2>2. fetch' = [fetch EXCEPT !.file = FALSE]
    BY <1>16, <1>1, <1>3, <1>5, <2>1 DEF CleanUp
  <2>3. fetch' = Rec("over", fetch.attempt, fetch.hop, fetch.asked, fetch.result,
                     fetch.slept, FALSE, fetch.failures, fetch.successes)
    BY <1>4, <1>1, <1>5, <2>1, <2>2
  <2>4. FetchTypeOK'
    BY <1>1, <1>2, <1>5, <2>1, <2>3 DEF FetchTypeOK, Results, Delays
  <2>5. FetchSofar'
    BY <1>1, <1>3, <1>5, <2>1, <2>2, <2>3 DEF FetchSofar
  <2>6. OutcomeRecordedOnce'
    BY <1>1, <1>3, <1>5, <2>1, <2>2, <2>3 DEF OutcomeRecordedOnce, Retryable, Permanent, FetchInv
  <2>7. QED BY <2>4, <2>5, <2>6 DEF FetchInv
<1>17. QED BY <1>6, <1>7, <1>8, <1>9, <1>10, <1>11, <1>12, <1>13, <1>14, <1>15, <1>16 DEF FetchNext

LEMMA FetchInvariance == FetchSpec => []FetchInv
<1>1. FetchInit => FetchInv
  <2> SUFFICES ASSUME FetchInit PROVE FetchInv
    OBVIOUS
  <2>1. /\ kind \in {"ordinary", "large"} /\ defers \in BOOLEAN
        /\ fetch = [phase |-> "new", attempt |-> 0, hop |-> 0, asked |-> 0, result |-> "none",
                    slept |-> 0, file |-> FALSE, failures |-> 0, successes |-> 0]
    BY DEF FetchInit
  <2>2. 0 \in 0..(Attempts - 1) /\ 0 \in 0..(Redirects + 1)
    BY FetchingAssumption
  <2>3. FetchTypeOK
    BY <2>1, <2>2 DEF FetchTypeOK, Results
  <2>4. FetchSofar
    BY <2>1 DEF FetchSofar
  <2>5. 0 <= (0 + 1) * (Redirects + 1)
    BY FetchingAssumption
  <2>6. OutcomeRecordedOnce
    BY <2>1, <2>5 DEF OutcomeRecordedOnce
  <2>7. QED BY <2>3, <2>4, <2>6 DEF FetchInv
<1>2. QED BY <1>1, FetchStep, PTL DEF FetchSpec

(***************************************************************************)
(* For any number of attempts and redirects and whatever Retry-After says: *)
(* the breaker hears of a fetch it admitted exactly once, no failed        *)
(* attempt leaves a file, and the requests stay within the attempts and    *)
(* redirects allowed (fetching.py:190-215).                                *)
(***************************************************************************)
THEOREM OutcomeRecordedOnceHolds == FetchSpec => []OutcomeRecordedOnce
<1>1. FetchInv => OutcomeRecordedOnce
  BY DEF FetchInv
<1>2. QED BY <1>1, FetchInvariance, PTL

----------------------------------------------------------------------------
(***************************************************************************)
(* The dead letters.                                                       *)
(***************************************************************************)

\* A task has no dead letter before it failed, and is given up after its last try only.
LettersLast ==
  \A j \in Jobs : /\ job[j].at \in {"exhausted", "failed"} => job[j].retries = MaxRetries[j]
                  /\ job[j].at # "failed" => letters[j] = 0
                  /\ job[j].at = "failed" /\ j \notin unsaid => letters[j] = 1
                  /\ job[j].at = "gone" => j \in unsaid

LettersInv == LettersTypeOK /\ LettersLast

\* What a step does to one message and to no other.
LEMMA OneMessage ==
  ASSUME LettersTypeOK, NEW j \in Jobs, NEW m \in [at : Places, retries : 0..MaxRetries[j], wait : Waits(j)],
         DOMAIN job' = Jobs, job'[j] = m, \A k \in Jobs \ {j} : job'[k] = job[k]
  PROVE  \A k \in Jobs : job'[k] \in [at : Places, retries : 0..MaxRetries[k], wait : Waits(k)]
BY DEF LettersTypeOK

LEMMA LettersStep == ASSUME LettersInv, NEW j \in Jobs,
                            \/ Take(j) \/ Finish(j) \/ RetryJob(j) \/ WaitOver(j)
                            \/ Exhaust(j) \/ BuryJob(j) \/ WorkerDies(j)
                     PROVE  LettersInv'
<1>0. /\ DOMAIN job = Jobs /\ job[j] \in [at : Places, retries : 0..MaxRetries[j], wait : Waits(j)]
      /\ MaxRetries[j] \in Nat /\ letters \in [Jobs -> 0..1] /\ unsaid \subseteq Jobs
      /\ job[j].retries \in 0..MaxRetries[j] /\ 0 \in Waits(j)
  BY DeadLettersAssumption DEF LettersInv, LettersTypeOK, Waits
<1>1. PICK at \in Places, retries \in 0..MaxRetries[j], wait \in Waits(j) :
        /\ DOMAIN job' = Jobs /\ \A k \in Jobs \ {j} : job'[k] = job[k]
        /\ job'[j] = [at |-> at, retries |-> retries, wait |-> wait]
        /\ at = "exhausted" => retries = MaxRetries[j]
        /\ at = "failed" => job[j].at = "exhausted" /\ retries = job[j].retries
        /\ job[j].at # "failed"
        /\ at = "gone" => j \in unsaid'
        /\ \/ at # "failed" /\ letters' = letters
           \/ at = "failed" /\ \/ letters' = [letters EXCEPT ![j] = @ + 1] /\ UNCHANGED unsaid
                               \/ letters' = letters /\ j \in unsaid'
        /\ unsaid' = unsaid \/ unsaid' = unsaid \cup {j}
  <2>1. CASE Take(j)
    <3>1. job' = [job EXCEPT ![j].at = "running"] /\ UNCHANGED <<letters, unsaid>> /\ job[j].at # "failed"
      BY <2>1 DEF Take
    <3>2. job'[j] = [at |-> "running", retries |-> job[j].retries, wait |-> job[j].wait]
      BY <1>0, <3>1
    <3>3. QED BY <1>0, <3>1, <3>2 DEF Places
  <2>2. CASE Finish(j)
    <3>1. job' = [job EXCEPT ![j].at = "finished"] /\ UNCHANGED <<letters, unsaid>> /\ job[j].at # "failed"
      BY <2>2 DEF Finish
    <3>2. job'[j] = [at |-> "finished", retries |-> job[j].retries, wait |-> job[j].wait]
      BY <1>0, <3>1
    <3>3. QED BY <1>0, <3>1, <3>2 DEF Places
  <2>3. CASE RetryJob(j)
    <3>1. /\ job[j].at = "running" /\ job[j].retries < MaxRetries[j] /\ UNCHANGED <<letters, unsaid>>
          /\ job' = [job EXCEPT ![j] = [at |-> "waiting", retries |-> job[j].retries + 1,
                                        wait |-> 2^job[j].retries]]
      BY <2>3 DEF RetryJob
    <3>2. job[j].retries + 1 \in 0..MaxRetries[j] /\ 2^job[j].retries \in Waits(j)
      BY <1>0, <3>1 DEF Waits
    <3>3. QED BY <1>0, <3>1, <3>2 DEF Places
  <2>4. CASE WaitOver(j)
    <3>1. /\ job' = [job EXCEPT ![j].at = "due", ![j].wait = 0] /\ UNCHANGED <<letters, unsaid>>
          /\ job[j].at # "failed"
      BY <2>4 DEF WaitOver
    <3>2. job'[j] = [at |-> "due", retries |-> job[j].retries, wait |-> 0]
      BY <1>0, <3>1
    <3>3. QED BY <1>0, <3>1, <3>2 DEF Places
  <2>5. CASE Exhaust(j)
    <3>1. /\ job' = [job EXCEPT ![j].at = "exhausted"] /\ UNCHANGED <<letters, unsaid>>
          /\ job[j].at # "failed" /\ job[j].retries >= MaxRetries[j]
      BY <2>5 DEF Exhaust
    <3>2. job'[j] = [at |-> "exhausted", retries |-> job[j].retries, wait |-> job[j].wait]
      BY <1>0, <3>1
    <3>3. job[j].retries = MaxRetries[j]
      BY <1>0, <3>1
    <3>4. QED BY <1>0, <3>1, <3>2, <3>3 DEF Places
  <2>6. CASE BuryJob(j)
    <3>1. /\ job' = [job EXCEPT ![j].at = "failed"] /\ job[j].at = "exhausted"
          /\ \/ letters' = [letters EXCEPT ![j] = @ + 1] /\ UNCHANGED unsaid
             \/ unsaid' = unsaid \cup {j} /\ UNCHANGED letters
      BY <2>6 DEF BuryJob
    <3>2. job'[j] = [at |-> "failed", retries |-> job[j].retries, wait |-> job[j].wait]
      BY <1>0, <3>1
    <3>3. QED BY <1>0, <3>1, <3>2 DEF Places
  <2>7. CASE WorkerDies(j)
    <3>1. /\ job' = [job EXCEPT ![j].at = "gone"] /\ job[j].at # "failed"
          /\ unsaid' = unsaid \cup {j} /\ UNCHANGED letters
      BY <2>7 DEF WorkerDies
    <3>2. job'[j] = [at |-> "gone", retries |-> job[j].retries, wait |-> job[j].wait]
      BY <1>0, <3>1
    <3>3. QED BY <1>0, <3>1, <3>2 DEF Places
  <2>8. QED BY <2>1, <2>2, <2>3, <2>4, <2>5, <2>6, <2>7
<1>2. letters[j] = 0
  BY <1>1 DEF LettersInv, LettersLast
<1>3. /\ letters' \in [Jobs -> 0..1] /\ unsaid' \subseteq Jobs
      /\ \A k \in Jobs \ {j} : letters'[k] = letters[k] /\ (k \in unsaid' <=> k \in unsaid)
      /\ (at # "failed" => letters'[j] = 0) /\ (at = "failed" /\ j \notin unsaid' => letters'[j] = 1)
  BY <1>0, <1>1, <1>2
<1>4. LettersTypeOK'
  <2>1. [at |-> at, retries |-> retries, wait |-> wait]
          \in [at : Places, retries : 0..MaxRetries[j], wait : Waits(j)]
    OBVIOUS
  <2>2. \A k \in Jobs : job'[k] \in [at : Places, retries : 0..MaxRetries[k], wait : Waits(k)]
    BY <1>1, <2>1, OneMessage DEF LettersInv
  <2>3. QED BY <1>1, <1>3, <2>2 DEF LettersTypeOK
<1>5. LettersLast'
  <2> SUFFICES ASSUME NEW k \in Jobs
               PROVE  /\ job'[k].at \in {"exhausted", "failed"} => job'[k].retries = MaxRetries[k]
                      /\ job'[k].at # "failed" => letters'[k] = 0
                      /\ job'[k].at = "failed" /\ k \notin unsaid' => letters'[k] = 1
                      /\ job'[k].at = "gone" => k \in unsaid'
    BY DEF LettersLast
  <2>1. CASE k = j
    <3>1. at \in {"exhausted", "failed"} => retries = MaxRetries[j]
      BY <1>1 DEF LettersInv, LettersLast
    <3>2. job'[j].at = at /\ job'[j].retries = retries
      BY <1>1
    <3>3. at = "gone" => j \in unsaid'
      BY <1>1
    <3>4. QED BY <1>3, <2>1, <3>1, <3>2, <3>3
  <2>2. CASE k # j
    BY <1>1, <1>3, <2>2 DEF LettersInv, LettersLast
  <2>3. QED BY <2>1, <2>2
<1>6. QED BY <1>4, <1>5 DEF LettersInv

LEMMA LettersInvariance == LettersSpec => []LettersInv
<1>1. LettersInit => LettersInv
  <2> SUFFICES ASSUME LettersInit PROVE LettersInv
    OBVIOUS
  <2>1. /\ DOMAIN job = Jobs /\ \A j \in Jobs : job[j] = [at |-> "queued", retries |-> 0, wait |-> 0]
        /\ letters = [j \in Jobs |-> 0] /\ unsaid = {}
    BY DEF LettersInit
  <2>2. \A j \in Jobs : 0 \in 0..MaxRetries[j] /\ 0 \in Waits(j)
    BY DeadLettersAssumption DEF Waits
  <2>3. LettersTypeOK
    BY <2>1, <2>2 DEF LettersTypeOK, Places
  <2>4. QED BY <2>1, <2>3 DEF LettersInv, LettersLast
<1>2. LettersInv /\ [LettersNext]_letterVars => LettersInv'
  BY LettersStep DEF LettersNext, letterVars, LettersInv, LettersTypeOK, LettersLast
<1>3. QED BY <1>1, <1>2, PTL DEF LettersSpec

(***************************************************************************)
(* For any tasks and any number of retries: one that failed for good was   *)
(* tried max_retries more times and has exactly one dead letter, unless    *)
(* its worker or its letter was lost (tasks.py:113-117).                   *)
(***************************************************************************)
THEOREM FailuresAreSaidHolds == LettersSpec => []FailuresAreSaid
<1>1. LettersInv => FailuresAreSaid
  <2> SUFFICES ASSUME LettersInv, NEW j \in Jobs
               PROVE  /\ job[j].at = "failed" /\ j \notin unsaid =>
                           letters[j] = 1 /\ job[j].retries = MaxRetries[j]
                      /\ letters[j] > 0 => job[j].at = "failed"
                      /\ job[j].at = "gone" => j \in unsaid
    BY DEF FailuresAreSaid
  <2>1. letters[j] > 0 => job[j].at = "failed"
    <3>1. job[j].at # "failed" => letters[j] = 0
      BY DEF LettersInv, LettersLast
    <3>2. QED BY <3>1
  <2>2. QED BY <2>1 DEF LettersInv, LettersLast
<1>2. QED BY <1>1, LettersInvariance, PTL

----------------------------------------------------------------------------
(***************************************************************************)
(* Backups and the recovery drill.                                         *)
(***************************************************************************)

AtWork == {"dumping", "dumped", "verified", "cleaning"}

\* Only its maker writes a file, before it is published; and what was verified is whole.
OwnFiles ==
  \A b \in Backups :
    /\ file[b].writing \subseteq {b}
    /\ backup[b].phase \in {"new", "checked"} =>
         file[b].writing = {} /\ partial # b /\ archive # b
    /\ backup[b].phase \in {"dumping", "dumped", "verified"} => backup[b].into = b
    /\ backup[b].phase = "dumping" => file[b].writing = {b} /\ ~file[b].torn /\ archive # b
    /\ backup[b].phase \in {"dumped", "verified"} => file[b].whole
    /\ archive = b => file[b].whole /\ backup[b].phase \notin {"new", "checked", "dumping"}

\* Until one is published the file that is there is that of the only one at work; after
\* that, as long as only those that may not overwrite have published, none else is about to.
OnePublishes ==
  /\ (\A b \in Backups : ~backup[b].ok) =>
       \A b \in Backups : backup[b].phase \in AtWork => partial = b
  /\ \A b \in Backups : backup[b].ok /\ (\A o \in Overwrites : ~backup[o].ok) =>
       archive = b /\ \A c \in Backups \ Overwrites : backup[c].phase # "verified"

SomebodyLeftIt == partial # NoFile => \E b \in Backups : backup[b].phase \notin {"new", "over"}

DrillIsHonest ==
  /\ drill.phase = "new" => ~drill.there /\ ~drill.created /\ ~drill.ok
  /\ drill.phase \in {"created", "restored"} => drill.created /\ ~drill.ok
  /\ drill.phase = "ending" => /\ drill.ok => drill.created
                               /\ drill.there /\ ~drill.created => drill.excuse
  /\ drill.phase = "over" => (drill.ok => ~drill.there) /\ (drill.there => drill.excuse)

RecoveryInv == /\ RecoveryTypeOK /\ SomebodyLeftIt /\ DrillIsHonest
               /\ ~shared => OwnFiles /\ OnePublishes

\* The drill reads the archive, and changes nothing but itself.
LEMMA DrillStep ==
  ASSUME RecoveryInv, CreateDatabase \/ RestoreArchive \/ MigrateAndVerify \/ EndDrill
  PROVE  /\ drill' \in DrillState /\ DrillIsHonest'
         /\ UNCHANGED <<archive, partial, file, backup, shared>>
<1>1. drill \in DrillState /\ DrillIsHonest
  BY DEF RecoveryInv, RecoveryTypeOK
<1>2. CASE CreateDatabase
  BY <1>1, <1>2 DEF CreateDatabase, DrillState, DrillIsHonest
<1>3. CASE RestoreArchive
  BY <1>1, <1>3 DEF RestoreArchive, DrillState, DrillIsHonest
<1>4. CASE MigrateAndVerify
  BY <1>1, <1>4 DEF MigrateAndVerify, DrillState, DrillIsHonest
<1>5. CASE EndDrill
  BY <1>1, <1>5 DEF EndDrill, DrillState, DrillIsHonest
<1>6. QED BY <1>2, <1>3, <1>4, <1>5

\* What a step of one backup does to its own state.
LEMMA BackupFields ==
  ASSUME RecoveryInv, NEW b \in Backups, NEW phase \in BackupPhases, Goes(b, phase)
  PROVE  /\ backup' \in [Backups -> BackupState] /\ backup'[b].phase = phase
         /\ backup'[b].into = backup[b].into /\ (backup'[b].ok <=> backup[b].ok)
         /\ \A c \in Backups \ {b} : backup'[c] = backup[c]
<1>1. backup \in [Backups -> BackupState]
  BY DEF RecoveryInv, RecoveryTypeOK
<1>2. QED BY <1>1 DEF Goes, BackupState

LEMMA CheckStep == ASSUME RecoveryInv, NEW b \in Backups, CheckPaths(b) PROVE RecoveryInv'
<1>1. PICK phase \in BackupPhases :
        /\ phase = IF (archive # NoFile /\ b \notin Overwrites) \/ partial # NoFile
                   THEN "over" ELSE "checked"
        /\ Goes(b, phase)
  BY DEF CheckPaths, BackupPhases
<1>2. /\ backup[b].phase = "new" /\ UNCHANGED <<archive, partial, file, shared, drill>>
      /\ ~(partial # NoFile /\ phase = "checked")
  BY <1>1 DEF CheckPaths
<1>3. /\ backup' \in [Backups -> BackupState] /\ backup'[b].phase = phase
      /\ backup'[b].into = backup[b].into /\ (backup'[b].ok <=> backup[b].ok)
      /\ \A c \in Backups \ {b} : backup'[c] = backup[c]
  BY <1>1, BackupFields
<1>4. RecoveryTypeOK' /\ SomebodyLeftIt' /\ DrillIsHonest'
  BY <1>2, <1>3 DEF RecoveryInv, RecoveryTypeOK, SomebodyLeftIt, DrillIsHonest
<1>5. ASSUME ~shared' PROVE OwnFiles' /\ OnePublishes'
  <2>1. ~shared /\ OwnFiles /\ OnePublishes
    BY <1>2, <1>5 DEF RecoveryInv
  <2>2. OwnFiles'
    BY <1>1, <1>2, <1>3, <2>1 DEF OwnFiles
  <2>3. \A c \in Backups :
          /\ backup'[c].ok <=> backup[c].ok
          /\ backup'[c].phase = backup[c].phase \/ backup'[c].phase \notin AtWork
    BY <1>1, <1>3 DEF AtWork
  <2>4. OnePublishes'
    BY <1>2, <2>1, <2>3, RecoveryAssumption DEF OnePublishes, AtWork
  <2>5. QED BY <2>2, <2>4
<1>6. QED BY <1>4, <1>5 DEF RecoveryInv

LEMMA DumpStep == ASSUME RecoveryInv, NEW b \in Backups, Dump(b) PROVE RecoveryInv'
<1>1. /\ backup[b].phase = "checked" /\ UNCHANGED <<archive, drill>>
      /\ shared' = (shared \/ partial # NoFile)
  BY DEF Dump
<1>2. PICK f \in Backups : f = (IF partial = NoFile THEN b ELSE partial)
  BY DEF RecoveryInv, RecoveryTypeOK
<1>3. PICK torn \in BOOLEAN : torn <=> file[f].writing # {}
  <2>1. (file[f].writing # {}) \in BOOLEAN
    OBVIOUS
  <2>2. QED BY <2>1, Zenon
<1>4. /\ partial' = f
      /\ file' = [file EXCEPT ![f] = [writing |-> file[f].writing \cup {b}, torn |-> torn,
                                      whole |-> FALSE]]
      /\ backup' = [backup EXCEPT ![b].phase = "dumping", ![b].into = f]
  BY <1>2, <1>3 DEF Dump
<1>5. file \in [Backups -> ArchiveFile] /\ backup \in [Backups -> BackupState]
  BY DEF RecoveryInv, RecoveryTypeOK
<1>6. /\ backup' \in [Backups -> BackupState] /\ backup'[b].phase = "dumping"
      /\ backup'[b].into = f /\ (backup'[b].ok <=> backup[b].ok)
      /\ \A c \in Backups \ {b} : backup'[c] = backup[c]
  BY <1>4, <1>5 DEF BackupState, BackupPhases
<1>7. /\ file' \in [Backups -> ArchiveFile] /\ \A c \in Backups \ {f} : file'[c] = file[c]
      /\ file'[f].writing = file[f].writing \cup {b} /\ (file'[f].torn <=> file[f].writing # {})
      /\ ~file'[f].whole
  <2>1. [writing |-> file[f].writing \cup {b}, torn |-> torn, whole |-> FALSE] \in ArchiveFile
    BY <1>5 DEF ArchiveFile
  <2>2. file'[f] = [writing |-> file[f].writing \cup {b}, torn |-> torn, whole |-> FALSE]
    BY <1>4, <1>5
  <2>3. QED BY <1>3, <1>4, <1>5, <2>1, <2>2
<1>8. RecoveryTypeOK' /\ SomebodyLeftIt' /\ DrillIsHonest'
  <2>1. RecoveryTypeOK'
    BY <1>1, <1>4, <1>6, <1>7 DEF RecoveryInv, RecoveryTypeOK
  <2>2. SomebodyLeftIt'
    BY <1>6 DEF SomebodyLeftIt
  <2>3. DrillIsHonest'
    BY <1>1 DEF RecoveryInv, DrillIsHonest
  <2>4. QED BY <2>1, <2>2, <2>3
<1>9. ASSUME ~shared' PROVE OwnFiles' /\ OnePublishes'
  <2>1. ~shared /\ OwnFiles /\ OnePublishes /\ partial = NoFile /\ f = b /\ partial' = b
    BY <1>1, <1>2, <1>4, <1>9 DEF RecoveryInv
  <2>2. OwnFiles'
    BY <1>1, <1>6, <1>7, <2>1, RecoveryAssumption DEF OwnFiles
  <2>3. \A c \in Backups : backup'[c].ok <=> backup[c].ok
    BY <1>6
  <2>4. ASSUME \A c \in Backups : ~backup'[c].ok, NEW c \in Backups, backup'[c].phase \in AtWork
        PROVE  partial' = c
    <3>1. CASE c = b
      BY <2>1, <3>1
    <3>2. CASE c # b
      <4>1. partial = c
        BY <1>6, <2>1, <2>3, <2>4, <3>2 DEF OnePublishes
      <4>2. QED BY <2>1, <4>1, RecoveryAssumption
    <3>3. QED BY <3>1, <3>2
  <2>5. ASSUME NEW d \in Backups, backup'[d].ok, \A o \in Overwrites : ~backup'[o].ok
        PROVE  archive' = d /\ \A c \in Backups \ Overwrites : backup'[c].phase # "verified"
    BY <1>1, <1>6, <2>1, <2>3, <2>5, RecoveryAssumption DEF OnePublishes
  <2>6. QED BY <2>2, <2>4, <2>5 DEF OnePublishes
<1>10. QED BY <1>8, <1>9 DEF RecoveryInv

LEMMA DumpEndsStep == ASSUME RecoveryInv, NEW b \in Backups, DumpEnds(b) PROVE RecoveryInv'
<1>1. PICK well \in BOOLEAN :
        /\ file' = [file EXCEPT ![backup[b].into] =
                      [writing |-> @.writing \ {b}, torn |-> @.torn \/ ~well,
                       whole |-> well /\ ~@.torn]]
        /\ Goes(b, IF well THEN "dumped" ELSE "cleaning")
  BY DEF DumpEnds
<1>2. backup[b].phase = "dumping" /\ UNCHANGED <<archive, partial, shared, drill>>
  BY DEF DumpEnds
<1>3. PICK phase \in BackupPhases : phase = (IF well THEN "dumped" ELSE "cleaning")
  BY DEF BackupPhases
<1>4. /\ backup' \in [Backups -> BackupState] /\ backup'[b].phase = phase
      /\ backup'[b].into = backup[b].into /\ (backup'[b].ok <=> backup[b].ok)
      /\ \A c \in Backups \ {b} : backup'[c] = backup[c]
  BY <1>1, <1>3, BackupFields
<1>5. file \in [Backups -> ArchiveFile]
  BY DEF RecoveryInv, RecoveryTypeOK
<1>6. /\ file' \in [Backups -> ArchiveFile]
      /\ \A c \in Backups : c # backup[b].into => file'[c] = file[c]
      /\ backup[b].into \in Backups =>
           /\ file'[backup[b].into].writing = file[backup[b].into].writing \ {b}
           /\ file'[backup[b].into].whole <=> well /\ ~file[backup[b].into].torn
  <2>1. PICK f : f = backup[b].into
    OBVIOUS
  <2>2. CASE f \notin Backups
    <3>1. file' = file
      BY <1>1, <1>5, <2>1, <2>2
    <3>2. QED BY <1>5, <2>1, <2>2, <3>1
  <2>3. CASE f \in Backups
    <3>1. PICK hands \in SUBSET Backups, torn \in BOOLEAN, whole \in BOOLEAN :
            /\ hands = file[f].writing \ {b} /\ torn = (file[f].torn \/ ~well)
            /\ whole = (well /\ ~file[f].torn)
      BY <1>5, <2>3, Zenon DEF ArchiveFile
    <3>2. [writing |-> hands, torn |-> torn, whole |-> whole] \in ArchiveFile
      BY DEF ArchiveFile
    <3>3. file' = [file EXCEPT ![f] = [writing |-> hands, torn |-> torn, whole |-> whole]]
      BY <1>1, <2>1, <3>1
    <3>4. QED BY <1>5, <2>1, <2>3, <3>1, <3>2, <3>3
  <2>4. QED BY <2>2, <2>3
<1>7. RecoveryTypeOK' /\ SomebodyLeftIt' /\ DrillIsHonest'
  <2>1. RecoveryTypeOK'
    BY <1>2, <1>4, <1>6 DEF RecoveryInv, RecoveryTypeOK
  <2>2. SomebodyLeftIt'
    BY <1>2, <1>3, <1>4 DEF SomebodyLeftIt
  <2>3. DrillIsHonest'
    BY <1>2 DEF RecoveryInv, DrillIsHonest
  <2>4. QED BY <2>1, <2>2, <2>3
<1>8. ASSUME ~shared' PROVE OwnFiles' /\ OnePublishes'
  <2>1. ~shared /\ OwnFiles /\ OnePublishes
    BY <1>2, <1>8 DEF RecoveryInv
  <2>2. backup[b].into = b /\ file[b].writing = {b} /\ ~file[b].torn /\ archive # b
    BY <1>2, <2>1 DEF OwnFiles
  <2>3. OwnFiles'
    BY <1>2, <1>3, <1>4, <1>6, <2>1, <2>2 DEF OwnFiles
  <2>4. \A c \in Backups :
          /\ backup'[c].ok <=> backup[c].ok
          /\ backup'[c].phase \in AtWork => backup[c].phase \in AtWork
          /\ backup'[c].phase = "verified" => backup[c].phase = "verified"
    BY <1>2, <1>3, <1>4 DEF AtWork
  <2>5. OnePublishes'
    BY <1>2, <2>1, <2>4, RecoveryAssumption DEF OnePublishes
  <2>6. QED BY <2>3, <2>5
<1>9. QED BY <1>7, <1>8 DEF RecoveryInv

LEMMA VerifyStep == ASSUME RecoveryInv, NEW b \in Backups, Verify(b) PROVE RecoveryInv'
<1>1. PICK phase \in BackupPhases :
        /\ phase \in {"verified", "cleaning"} /\ Goes(b, phase)
        /\ phase = "verified" => partial # NoFile /\ (archive = NoFile \/ b \in Overwrites)
  <2>1. "verified" \in BackupPhases /\ "cleaning" \in BackupPhases
    BY DEF BackupPhases
  <2>2. QED BY <2>1 DEF Verify
<1>2. backup[b].phase = "dumped" /\ UNCHANGED <<archive, partial, file, shared, drill>>
  BY DEF Verify
<1>4. /\ backup' \in [Backups -> BackupState] /\ backup'[b].phase = phase
      /\ backup'[b].into = backup[b].into /\ (backup'[b].ok <=> backup[b].ok)
      /\ \A c \in Backups \ {b} : backup'[c] = backup[c]
  BY <1>1, BackupFields
<1>5. RecoveryTypeOK' /\ SomebodyLeftIt' /\ DrillIsHonest'
  BY <1>1, <1>2, <1>4 DEF RecoveryInv, RecoveryTypeOK, SomebodyLeftIt, DrillIsHonest
<1>6. ASSUME ~shared' PROVE OwnFiles' /\ OnePublishes'
  <2>1. ~shared /\ OwnFiles /\ OnePublishes
    BY <1>2, <1>6 DEF RecoveryInv
  <2>2. OwnFiles'
    BY <1>1, <1>2, <1>4, <2>1 DEF OwnFiles
  <2>3. \A c \in Backups :
          /\ backup'[c].ok <=> backup[c].ok
          /\ backup'[c].phase \in AtWork => backup[c].phase \in AtWork
          /\ backup'[c].phase = "verified" =>
               backup[c].phase = "verified" \/ archive = NoFile \/ c \in Overwrites
    BY <1>1, <1>2, <1>4 DEF AtWork
  <2>4. NoFile \notin Backups
    BY RecoveryAssumption
  <2>5. OnePublishes'
    BY <1>2, <2>1, <2>3, <2>4, RecoveryAssumption DEF OnePublishes
  <2>6. QED BY <2>2, <2>5
<1>7. QED BY <1>5, <1>6 DEF RecoveryInv

LEMMA UnlinkStep == ASSUME RecoveryInv, NEW b \in Backups, Unlink(b) PROVE RecoveryInv'
<1>1. PICK phase \in BackupPhases : phase = "over" /\ Goes(b, phase)
  BY DEF Unlink, BackupPhases
<1>2. /\ backup[b].phase = "cleaning" /\ partial' = NoFile
      /\ UNCHANGED <<archive, file, shared, drill>>
  BY DEF Unlink
<1>4. /\ backup' \in [Backups -> BackupState] /\ backup'[b].phase = phase
      /\ backup'[b].into = backup[b].into /\ (backup'[b].ok <=> backup[b].ok)
      /\ \A c \in Backups \ {b} : backup'[c] = backup[c]
  BY <1>1, BackupFields
<1>5. RecoveryTypeOK' /\ SomebodyLeftIt' /\ DrillIsHonest'
  BY <1>1, <1>2, <1>4 DEF RecoveryInv, RecoveryTypeOK, SomebodyLeftIt, DrillIsHonest
<1>6. ASSUME ~shared' PROVE OwnFiles' /\ OnePublishes'
  <2>1. ~shared /\ OwnFiles /\ OnePublishes
    BY <1>2, <1>6 DEF RecoveryInv
  <2>2. NoFile \notin Backups
    BY RecoveryAssumption
  <2>3. OwnFiles'
    BY <1>1, <1>2, <1>4, <2>1, <2>2 DEF OwnFiles
  <2>4. \A c \in Backups :
          /\ backup'[c].ok <=> backup[c].ok
          /\ backup'[c].phase \in AtWork => backup[c].phase \in AtWork /\ c # b
          /\ backup'[c].phase = "verified" => backup[c].phase = "verified"
    BY <1>1, <1>2, <1>4 DEF AtWork
  <2>5. (\A c \in Backups : ~backup[c].ok) => partial = b
    BY <1>2, <2>1 DEF OnePublishes, AtWork
  <2>6. OnePublishes'
    BY <1>2, <2>1, <2>4, <2>5, RecoveryAssumption DEF OnePublishes
  <2>7. QED BY <2>3, <2>6
<1>7. QED BY <1>5, <1>6 DEF RecoveryInv

LEMMA DiesStep == ASSUME RecoveryInv, NEW b \in Backups, BackupDies(b) PROVE RecoveryInv'
<1>1. PICK phase \in BackupPhases : phase = "dead" /\ Goes(b, phase)
  BY DEF BackupDies, BackupPhases
<1>2. /\ backup[b].phase \notin {"new", "over", "dead"}
      /\ UNCHANGED <<archive, partial, shared, drill>>
      /\ file' = [f \in Backups |-> IF b \in file[f].writing
                                    THEN [file[f] EXCEPT !.writing = @ \ {b}, !.torn = TRUE]
                                    ELSE file[f]]
  BY DEF BackupDies
<1>3. file \in [Backups -> ArchiveFile]
  BY DEF RecoveryInv, RecoveryTypeOK
<1>4. /\ backup' \in [Backups -> BackupState] /\ backup'[b].phase = phase
      /\ backup'[b].into = backup[b].into /\ (backup'[b].ok <=> backup[b].ok)
      /\ \A c \in Backups \ {b} : backup'[c] = backup[c]
  BY <1>1, BackupFields
<1>5. /\ file' \in [Backups -> ArchiveFile]
      /\ \A c \in Backups : /\ file'[c].writing = file[c].writing \ {b}
                            /\ file'[c].whole <=> file[c].whole
                            /\ b \notin file[c].writing => (file'[c].torn <=> file[c].torn)
  <2>1. ASSUME NEW c \in Backups
        PROVE  /\ file'[c] \in ArchiveFile /\ file'[c].writing = file[c].writing \ {b}
               /\ file'[c].whole <=> file[c].whole
               /\ b \notin file[c].writing => (file'[c].torn <=> file[c].torn)
    <3>1. CASE b \notin file[c].writing
      BY <1>2, <1>3, <3>1 DEF ArchiveFile
    <3>2. CASE b \in file[c].writing
      <4>1. /\ file'[c] = [file[c] EXCEPT !.writing = @ \ {b}, !.torn = TRUE]
            /\ file[c] \in ArchiveFile
        BY <1>2, <1>3, <3>2
      <4>2. QED BY <3>2, <4>1 DEF ArchiveFile
    <3>3. QED BY <3>1, <3>2
  <2>2. QED BY <1>2, <2>1
<1>6. RecoveryTypeOK' /\ SomebodyLeftIt' /\ DrillIsHonest'
  BY <1>1, <1>2, <1>4, <1>5 DEF RecoveryInv, RecoveryTypeOK, SomebodyLeftIt, DrillIsHonest
<1>7. ASSUME ~shared' PROVE OwnFiles' /\ OnePublishes'
  <2>1. ~shared /\ OwnFiles /\ OnePublishes
    BY <1>2, <1>7 DEF RecoveryInv
  <2>2. OwnFiles'
    <3>1. \A c \in Backups \ {b} :
            /\ file'[c].writing = file[c].writing /\ (file'[c].torn <=> file[c].torn)
            /\ file'[c].whole <=> file[c].whole
      <4>1. \A c \in Backups \ {b} : b \notin file[c].writing
        BY <2>1 DEF OwnFiles
      <4>2. \A W : b \notin W => W \ {b} = W
        OBVIOUS
      <4>3. QED BY <1>5, <4>1, <4>2
    <3>2. file'[b].writing \subseteq {b} /\ (archive = b => file'[b].whole)
      BY <1>5, <2>1 DEF OwnFiles
    <3>3. ASSUME NEW c \in Backups
          PROVE  /\ file'[c].writing \subseteq {c}
                 /\ backup'[c].phase \in {"new", "checked"} =>
                      file'[c].writing = {} /\ partial' # c /\ archive' # c
                 /\ backup'[c].phase \in {"dumping", "dumped", "verified"} => backup'[c].into = c
                 /\ backup'[c].phase = "dumping" =>
                      file'[c].writing = {c} /\ ~file'[c].torn /\ archive' # c
                 /\ backup'[c].phase \in {"dumped", "verified"} => file'[c].whole
                 /\ archive' = c =>
                      file'[c].whole /\ backup'[c].phase \notin {"new", "checked", "dumping"}
      <4>1. CASE c = b
        BY <1>1, <1>2, <1>4, <3>2, <4>1
      <4>2. CASE c # b
        BY ZenonT(30), <1>2, <1>4, <2>1, <3>1, <4>2 DEF OwnFiles
      <4>3. QED BY <4>1, <4>2
    <3>4. QED BY <3>3 DEF OwnFiles
  <2>3. \A c \in Backups :
          /\ backup'[c].ok <=> backup[c].ok
          /\ backup'[c].phase \in AtWork => backup[c].phase \in AtWork
          /\ backup'[c].phase = "verified" => backup[c].phase = "verified"
    BY <1>1, <1>4 DEF AtWork
  <2>4. OnePublishes'
    BY <1>2, <2>1, <2>3, RecoveryAssumption DEF OnePublishes
  <2>5. QED BY <2>2, <2>4
<1>8. QED BY <1>6, <1>7 DEF RecoveryInv

LEMMA ReplaceStep == ASSUME RecoveryInv, NEW b \in Backups, Replace(b) PROVE RecoveryInv'
<1>1. backup[b].phase = "verified" /\ UNCHANGED <<file, drill>>
  BY DEF Replace
<1>2. CASE partial = NoFile
  <2>1. PICK phase \in BackupPhases : phase = "cleaning" /\ Goes(b, phase)
    BY <1>2 DEF Replace, BackupPhases
  <2>2. UNCHANGED <<archive, partial, shared>>
    BY <1>2 DEF Replace
  <2>3. /\ backup' \in [Backups -> BackupState] /\ backup'[b].phase = phase
        /\ backup'[b].into = backup[b].into /\ (backup'[b].ok <=> backup[b].ok)
        /\ \A c \in Backups \ {b} : backup'[c] = backup[c]
    BY <2>1, BackupFields
  <2>4. RecoveryTypeOK' /\ SomebodyLeftIt' /\ DrillIsHonest'
    BY <1>1, <2>1, <2>2, <2>3 DEF RecoveryInv, RecoveryTypeOK, SomebodyLeftIt, DrillIsHonest
  <2>5. ASSUME ~shared' PROVE OwnFiles' /\ OnePublishes'
    <3>1. ~shared /\ OwnFiles /\ OnePublishes
      BY <2>2, <2>5 DEF RecoveryInv
    <3>2. OwnFiles'
      BY <1>1, <2>1, <2>2, <2>3, <3>1 DEF OwnFiles
    <3>3. \A c \in Backups :
            /\ backup'[c].ok <=> backup[c].ok
            /\ backup'[c].phase \in AtWork => backup[c].phase \in AtWork
            /\ backup'[c].phase = "verified" => backup[c].phase = "verified"
      BY <1>1, <2>1, <2>3 DEF AtWork
    <3>4. OnePublishes'
      BY <2>2, <3>1, <3>3, RecoveryAssumption DEF OnePublishes
    <3>5. QED BY <3>2, <3>4
  <2>6. QED BY <2>4, <2>5 DEF RecoveryInv
<1>3. CASE partial # NoFile
  <2>1. /\ archive' = partial /\ partial' = NoFile
        /\ backup' = [backup EXCEPT ![b].phase = "cleaning", ![b].ok = TRUE]
        /\ shared' = (shared \/ partial # backup[b].into)
    BY <1>3 DEF Replace
  <2>2. backup \in [Backups -> BackupState] /\ partial \in Backups
    BY <1>3 DEF RecoveryInv, RecoveryTypeOK
  <2>3. /\ backup' \in [Backups -> BackupState] /\ backup'[b].phase = "cleaning"
        /\ backup'[b].ok = TRUE /\ \A c \in Backups \ {b} : backup'[c] = backup[c]
    BY <2>1, <2>2 DEF BackupState, BackupPhases
  <2>4. RecoveryTypeOK' /\ SomebodyLeftIt' /\ DrillIsHonest'
    <3>1. RecoveryTypeOK'
      BY <1>1, <2>1, <2>2, <2>3 DEF RecoveryInv, RecoveryTypeOK
    <3>2. SomebodyLeftIt'
      BY <2>1 DEF SomebodyLeftIt
    <3>3. DrillIsHonest'
      BY <1>1 DEF RecoveryInv, DrillIsHonest
    <3>4. QED BY <3>1, <3>2, <3>3
  <2>5. ASSUME ~shared' PROVE OwnFiles' /\ OnePublishes'
    <3>1. ~shared /\ OwnFiles /\ OnePublishes /\ partial = backup[b].into
      BY <2>1, <2>5 DEF RecoveryInv
    <3>2. partial = b /\ file[b].whole /\ NoFile \notin Backups /\ archive' = b
      BY <1>1, <2>1, <3>1, RecoveryAssumption DEF OwnFiles
    <3>3. OwnFiles'
      BY <1>1, <2>1, <2>3, <3>1, <3>2 DEF OwnFiles
    <3>4. ASSUME \A c \in Backups : ~backup'[c].ok PROVE FALSE
      BY <2>3, <3>4
    <3>5. ASSUME NEW d \in Backups, backup'[d].ok, \A o \in Overwrites : ~backup'[o].ok
          PROVE  archive' = d /\ \A c \in Backups \ Overwrites : backup'[c].phase # "verified"
      <4>1. b \notin Overwrites /\ \A o \in Overwrites : ~backup[o].ok
        BY <2>3, <3>5, RecoveryAssumption
      <4>2. \A c \in Backups : ~backup[c].ok
        BY <1>1, <3>1, <4>1 DEF OnePublishes
      <4>3. d = b
        BY <2>3, <3>5, <4>2
      <4>4. \A c \in Backups : backup[c].phase = "verified" => c = b
        BY <3>1, <3>2, <4>2 DEF OnePublishes, AtWork
      <4>5. QED BY <2>3, <3>2, <4>3, <4>4
    <3>6. QED BY <3>3, <3>4, <3>5 DEF OnePublishes
  <2>6. QED BY <2>4, <2>5 DEF RecoveryInv
<1>4. QED BY <1>2, <1>3

LEMMA RecoveryInvariance == RecoverySpec => []RecoveryInv
<1>1. RecoveryInit => RecoveryInv
  <2> SUFFICES ASSUME RecoveryInit PROVE RecoveryInv
    OBVIOUS
  <2>1. PICK keeps \in BOOLEAN :
          drill = [phase |-> "new", keeps |-> keeps, there |-> FALSE, created |-> FALSE,
                   ok |-> FALSE, excuse |-> FALSE]
    BY DEF RecoveryInit
  <2>2. /\ archive \in {NoFile, Earlier} /\ partial = NoFile /\ shared = FALSE
        /\ file = [b \in Backups |-> [writing |-> {}, torn |-> FALSE, whole |-> FALSE]]
        /\ backup = [b \in Backups |-> [phase |-> "new", into |-> NoFile, ok |-> FALSE]]
    BY DEF RecoveryInit
  <2>3. RecoveryTypeOK
    <3>1. drill \in DrillState
      BY <2>1 DEF DrillState
    <3>2. [writing |-> {}, torn |-> FALSE, whole |-> FALSE] \in ArchiveFile
      BY DEF ArchiveFile
    <3>3. [phase |-> "new", into |-> NoFile, ok |-> FALSE] \in BackupState
      BY DEF BackupState, BackupPhases
    <3>4. QED BY <2>2, <3>1, <3>2, <3>3 DEF RecoveryTypeOK
  <2>4. SomebodyLeftIt /\ DrillIsHonest
    BY <2>1, <2>2 DEF SomebodyLeftIt, DrillIsHonest
  <2>5. OwnFiles /\ OnePublishes
    BY <2>2, RecoveryAssumption DEF OwnFiles, OnePublishes, AtWork
  <2>6. QED BY <2>3, <2>4, <2>5 DEF RecoveryInv
<1>2. ASSUME RecoveryInv, UNCHANGED recoveryVars PROVE RecoveryInv'
  BY <1>2 DEF recoveryVars, RecoveryInv, RecoveryTypeOK, SomebodyLeftIt, DrillIsHonest, OwnFiles,
              OnePublishes
<1>3. ASSUME RecoveryInv, CreateDatabase \/ RestoreArchive \/ MigrateAndVerify \/ EndDrill
      PROVE  RecoveryInv'
  <2>1. /\ drill' \in DrillState /\ DrillIsHonest'
        /\ UNCHANGED <<archive, partial, file, backup, shared>>
    BY <1>3, DrillStep
  <2>2. QED BY <1>3, <2>1 DEF RecoveryInv, RecoveryTypeOK, SomebodyLeftIt, OwnFiles, OnePublishes
<1>4. RecoveryInv /\ [RecoveryNext]_recoveryVars => RecoveryInv'
  BY <1>2, <1>3, CheckStep, DumpStep, DumpEndsStep, VerifyStep, ReplaceStep, UnlinkStep, DiesStep
     DEF RecoveryNext
<1>5. QED BY <1>1, <1>4, PTL DEF RecoverySpec

(***************************************************************************)
(* For any number of backups that overlap, fail and die: unless two used   *)
(* one file, what has the name of the backup is a whole archive and a      *)
(* published one survives every backup not told to overwrite; only a       *)
(* process that died leaves output.tmp; and a drill that hands out a       *)
(* receipt has dropped its database (recovery.py:209-237, 320-371).        *)
(***************************************************************************)
THEOREM BackupIsWholeHolds == RecoverySpec => []BackupIsWhole
<1>1. RecoveryInv => BackupIsWhole
  <2> SUFFICES ASSUME RecoveryInv PROVE BackupIsWhole
    OBVIOUS
  <2>1. archive # NoFile /\ ~shared => Whole(archive)
    BY DEF RecoveryInv, RecoveryTypeOK, OwnFiles, Whole
  <2>2. ~shared /\ (\A o \in Overwrites : ~backup[o].ok) =>
          \A b \in Backups : backup[b].ok => archive = b
    BY DEF RecoveryInv, OnePublishes
  <2>3. partial # NoFile => \E b \in Backups : backup[b].phase \notin {"new", "over"}
    BY DEF RecoveryInv, SomebodyLeftIt
  <2>4. drill.phase = "over" => (drill.ok => ~drill.there) /\ (drill.there => drill.excuse)
    BY DEF RecoveryInv, DrillIsHonest
  <2>5. QED BY <2>1, <2>2, <2>3, <2>4 DEF BackupIsWhole
<1>2. QED BY <1>1, RecoveryInvariance, PTL

----------------------------------------------------------------------------
(***************************************************************************)
(* The cache of enrichments.                                               *)
(***************************************************************************)

\* Only a run that has an article before it has a step of it to do, and a run
\* that is over holds no row.
CacheInv ==
  /\ \A p \in Passes : pass[p].step \notin {"look", "done", "failed"} => Working(p)
  /\ \A p \in Passes : pass[p].at > 0
  /\ CacheSaysWhatWasDone

LEMMA CurrentIsOne ==
  ASSUME CacheTypeOK, NEW p \in Passes, pass[p].at > 0, Working(p)
  PROVE  Current(p) \in Fingerprints
<1>1. BatchOf[p] \in Seq(ToSet(BatchOf[p])) /\ pass[p].at \in Nat
  BY CacheAssumption DEF CacheTypeOK
<1>2. pass[p].at \in DOMAIN BatchOf[p]
  BY <1>1 DEF Working
<1>3. Current(p) \in ToSet(BatchOf[p])
  BY <1>2 DEF ToSet, Current
<1> QED  BY <1>3 DEF Fingerprints

\* A run goes on: nothing of it is committed, and it is not over.
GoesOnWith(p, b) ==
  /\ b \in [at : Nat, step : PassSteps, hits : [Fingerprints -> Nat],
            written : SUBSET Fingerprints, left : 0..RepeatBound]
  /\ b.step # "done"
  /\ b.step \notin {"look", "done", "failed"} => b.at <= Len(BatchOf[p])
  /\ b.at > 0
  /\ pass' = [pass EXCEPT ![p] = b]
  /\ UNCHANGED entry

(***************************************************************************)
(* A run that goes on leaves what the cache says alone.                    *)
(***************************************************************************)
LEMMA WorkKeepsWhatIsSaid ==
  ASSUME CacheTypeOK, CacheInv, NEW p \in Passes, NEW b, GoesOnWith(p, b), ~Settled(p),
         lockedBy' \in [CacheRows -> Passes \cup {NoPass}],
         \A r \in CacheRows : lockedBy'[r] \in {lockedBy[r], NoPass, p},
         b.step = "failed" => \A r \in CacheRows : lockedBy'[r] # p
  PROVE  CacheTypeOK' /\ CacheInv'
<1>1. CacheTypeOK'
  BY DEF CacheTypeOK, GoesOnWith
<1>2. \A q \in Passes : pass'[q] = IF q = p THEN b ELSE pass[q]
  BY DEF CacheTypeOK, GoesOnWith
<1>3. /\ \A q \in Passes : pass'[q].step \notin {"look", "done", "failed"}
                            => pass'[q].at <= Len(BatchOf[q])
      /\ \A q \in Passes : pass'[q].at > 0
  BY <1>2 DEF CacheInv, Working, GoesOnWith
<1>4. pass[p].step # "done" /\ pass'[p].step # "done"
  BY <1>2 DEF Settled, GoesOnWith
<1>5. \A f \in Fingerprints : \A q \in Passes : Counted(q, f)' = Counted(q, f)
  BY <1>2, <1>4 DEF Counted
<1>6. \A f \in Fingerprints : [q \in Passes |-> Counted(q, f)'] = [q \in Passes |-> Counted(q, f)]
  BY <1>5
<1>7. \A f \in Fingerprints : WrittenBy(f)' = WrittenBy(f)
  BY <1>2, <1>4 DEF WrittenBy
<1>8. \A f \in Fingerprints : entry'[f].hits = SumOf([q \in Passes |-> Counted(q, f)'])
  BY <1>6 DEF CacheInv, CacheSaysWhatWasDone, GoesOnWith
<1>9. \A f \in Fingerprints :
        (/\ entry[f].there <=> WrittenBy(f) # {}
         /\ entry[f].payload \in WrittenBy(f) \cup {q \in {NoPass} : ~entry[f].there})'
  BY <1>7 DEF CacheInv, CacheSaysWhatWasDone, GoesOnWith
<1>10. (\A r \in CacheRows : lockedBy[r] \in Passes => ~Settled(lockedBy[r]))'
  <2> SUFFICES ASSUME NEW r \in CacheRows, lockedBy'[r] \in Passes
               PROVE  pass'[lockedBy'[r]].step \notin {"done", "failed"}
    BY DEF Settled
  <2>1. CASE lockedBy'[r] = p
    BY <2>1, <1>2, <1>4
  <2>2. CASE lockedBy'[r] # p
    <3>1. lockedBy'[r] = lockedBy[r]
      BY <2>2, CacheAssumption
    <3> QED  BY <3>1, <2>2, <1>2 DEF CacheInv, CacheSaysWhatWasDone, Settled
  <2> QED  BY <2>1, <2>2
<1> QED  BY <1>1, <1>3, <1>8, <1>9, <1>10 DEF CacheInv, CacheSaysWhatWasDone, Working

LEMMA RollBackKeepsWhatIsSaid ==
  ASSUME CacheTypeOK, CacheInv, NEW p \in Passes, ~Settled(p), RollBack(p)
  PROVE  CacheTypeOK' /\ CacheInv'
<1> DEFINE b == [at |-> 1, step |-> IF pass[p].left = 0 THEN "failed" ELSE "look",
                 hits |-> [f \in Fingerprints |-> 0], written |-> {},
                 left |-> IF pass[p].left = 0 THEN 0 ELSE pass[p].left - 1]
<1>1. pass[p].left \in 0..RepeatBound /\ RepeatBound \in Nat
  BY CacheAssumption DEF CacheTypeOK
<1>2. (IF pass[p].left = 0 THEN 0 ELSE pass[p].left - 1) \in 0..RepeatBound
  BY <1>1
<1>3. GoesOnWith(p, b)
  BY <1>2 DEF RollBack, GoesOnWith, PassSteps
<1>4. lockedBy' \in [CacheRows -> Passes \cup {NoPass}]
  BY DEF RollBack, Released, CacheTypeOK
<1>5. \A r \in CacheRows : lockedBy'[r] \in {lockedBy[r], NoPass} /\ lockedBy'[r] # p
  BY CacheAssumption DEF RollBack, Released
<1> HIDE DEF b
<1> QED  BY <1>3, <1>4, <1>5, WorkKeepsWhatIsSaid

LEMMA CommitKeepsWhatIsSaid ==
  ASSUME CacheTypeOK, CacheInv, NEW p \in Passes, CommitPass(p)
  PROVE  CacheTypeOK' /\ CacheInv'
<1>1. /\ pass[p] \in [at : Nat, step : PassSteps, hits : [Fingerprints -> Nat],
                      written : SUBSET Fingerprints, left : 0..RepeatBound]
      /\ pass' = [pass EXCEPT ![p].step = "done"]
      /\ pass[p].step = "look"
  BY DEF CacheTypeOK, CommitPass, Steps
<1>2. /\ \A q \in Passes : q # p => pass'[q] = pass[q]
      /\ pass'[p] = [pass[p] EXCEPT !.step = "done"]
      /\ pass'[p].step = "done" /\ pass'[p].hits = pass[p].hits
      /\ pass'[p].written = pass[p].written /\ pass'[p].at = pass[p].at
  BY <1>1 DEF CacheTypeOK
<1>3. pass' \in [Passes -> [at : Nat, step : PassSteps, hits : [Fingerprints -> Nat],
                            written : SUBSET Fingerprints, left : 0..RepeatBound]]
  BY <1>1, <1>2 DEF CacheTypeOK, PassSteps
<1>4. \A f \in Fingerprints :
        /\ entry[f] \in [there : BOOLEAN, hits : Nat, payload : Passes \cup {NoPass}]
        /\ entry'[f].there = Sees(p, f)
        /\ entry'[f].hits = entry[f].hits + pass[p].hits[f]
        /\ entry'[f].payload = IF f \in pass[p].written THEN p ELSE entry[f].payload
  BY DEF CommitPass, CacheTypeOK
<1>5. \A f \in Fingerprints : Sees(p, f) \in BOOLEAN
  BY <1>4 DEF Sees
<1>6. \A f \in Fingerprints :
        [there |-> Sees(p, f), hits |-> entry[f].hits + pass[p].hits[f],
         payload |-> IF f \in pass[p].written THEN p ELSE entry[f].payload]
          \in [there : BOOLEAN, hits : Nat, payload : Passes \cup {NoPass}]
  BY <1>1, <1>4, <1>5
<1>7. entry' \in [Fingerprints -> [there : BOOLEAN, hits : Nat, payload : Passes \cup {NoPass}]]
  BY <1>6 DEF CommitPass
<1>8. lockedBy' \in [CacheRows -> Passes \cup {NoPass}]
  BY DEF CommitPass, Released, CacheTypeOK
<1>9. CacheTypeOK'
  BY <1>3, <1>7, <1>8 DEF CacheTypeOK
<1>10. /\ \A q \in Passes : pass'[q].step \notin {"look", "done", "failed"}
                             => pass'[q].at <= Len(BatchOf[q])
       /\ \A q \in Passes : pass'[q].at > 0
  BY <1>2 DEF CacheInv, Working
<1>11. ASSUME NEW f \in Fingerprints PROVE entry'[f].hits = SumOf([q \in Passes |-> Counted(q, f)'])
  <2>1. PICK b, a : b = [q \in Passes |-> Counted(q, f)] /\ a = [q \in Passes |-> Counted(q, f)']
    OBVIOUS
  <2>2. /\ IsFiniteSet(Passes) /\ b \in [Passes -> Nat] /\ a \in [Passes -> Nat]
        /\ p \in Passes /\ \A q \in Passes \ {p} : a[q] = b[q]
    <3>1. \A q \in Passes : Counted(q, f) \in Nat /\ Counted(q, f)' \in Nat
      BY <1>3 DEF CacheTypeOK, Counted
    <3>2. \A q \in Passes \ {p} : Counted(q, f)' = Counted(q, f)
      BY <1>2 DEF Counted
    <3> QED  BY <2>1, <3>1, <3>2, CacheAssumption
  <2>3. SumOf(a) + b[p] = SumOf(b) + a[p] /\ SumOf(a) \in Nat
    BY <2>2, SumChanges, SumIsNumber
  <2>4. b[p] = 0 /\ a[p] = pass[p].hits[f]
    BY <1>1, <1>2, <2>1 DEF Counted
  <2>5. entry[f].hits = SumOf(b)
    BY <2>1 DEF CacheInv, CacheSaysWhatWasDone
  <2>6. pass[p].hits[f] \in Nat /\ entry[f].hits \in Nat
    BY <1>1, <1>4
  <2>7. entry'[f].hits = SumOf(a)
    BY <2>3, <2>4, <2>5, <2>6, <1>4
  <2> QED  BY <2>7, <2>1
<1>12. ASSUME NEW f \in Fingerprints
       PROVE  WrittenBy(f)' = WrittenBy(f) \cup {q \in {p} : f \in pass[p].written}
  BY <1>1, <1>2 DEF WrittenBy
<1>13. ASSUME NEW f \in Fingerprints
       PROVE  /\ entry'[f].there <=> WrittenBy(f)' # {}
              /\ entry'[f].payload \in WrittenBy(f)' \cup {q \in {NoPass} : ~entry'[f].there}
  <2>1. /\ entry[f].there <=> WrittenBy(f) # {}
        /\ entry[f].payload \in WrittenBy(f) \cup {q \in {NoPass} : ~entry[f].there}
    BY DEF CacheInv, CacheSaysWhatWasDone
  <2>2. entry'[f].there <=> entry[f].there \/ f \in pass[p].written
    BY <1>4 DEF Sees
  <2>3. CASE f \in pass[p].written
    <3>1. p \in WrittenBy(f)'
      BY <1>12, <2>3
    <3> QED  BY <3>1, <2>2, <2>3, <1>4
  <2>4. CASE f \notin pass[p].written
    <3>1. WrittenBy(f)' = WrittenBy(f)
      BY <1>12, <2>4
    <3>2. entry'[f].payload = entry[f].payload
      BY <1>4, <2>4
    <3> QED  BY <3>1, <3>2, <2>1, <2>2, <2>4
  <2> QED  BY <2>3, <2>4
<1>14. ASSUME NEW r \in CacheRows, lockedBy'[r] \in Passes
       PROVE  pass'[lockedBy'[r]].step \notin {"done", "failed"}
  <2>1. lockedBy'[r] # p /\ lockedBy'[r] = lockedBy[r]
    BY <1>14, CacheAssumption DEF CommitPass, Released
  <2> QED  BY <2>1, <1>2, <1>14 DEF CacheInv, CacheSaysWhatWasDone, Settled
<1> QED  BY <1>9, <1>10, <1>11, <1>13, <1>14 DEF CacheInv, CacheSaysWhatWasDone, Working, Settled
\* A run takes a step that is not its last.
Takes(p, b) ==
  /\ GoesOnWith(p, b) /\ b.step # "failed"
  /\ lockedBy' = lockedBy \/ \E r \in CacheRows : Lock(r, p)

LEMMA StepKeepsWhatIsSaid ==
  ASSUME CacheTypeOK, CacheInv, NEW p \in Passes, NEW b, Takes(p, b), ~Settled(p)
  PROVE  CacheTypeOK' /\ CacheInv'
<1>1. /\ lockedBy' \in [CacheRows -> Passes \cup {NoPass}]
      /\ \A r \in CacheRows : lockedBy'[r] \in {lockedBy[r], NoPass, p}
  <2>1. CASE lockedBy' = lockedBy
    BY <2>1 DEF CacheTypeOK
  <2>2. ASSUME NEW r \in CacheRows, Lock(r, p)
        PROVE  /\ lockedBy' \in [CacheRows -> Passes \cup {NoPass}]
               /\ \A s \in CacheRows : lockedBy'[s] \in {lockedBy[s], NoPass, p}
    BY <2>2 DEF Lock, CacheTypeOK
  <2> QED  BY <2>1, <2>2 DEF Takes
<1> QED  BY <1>1, WorkKeepsWhatIsSaid DEF Takes

\* What is next for a run that stays with its article, and that goes on to the next.
Onward(p, step) == [pass[p] EXCEPT !.step = step]
Beyond(p) == [pass[p] EXCEPT !.at = pass[p].at + 1, !.step = "look"]

LEMMA StaysWithArticle ==
  ASSUME CacheTypeOK, CacheInv, NEW p \in Passes,
         NEW step \in {"hit", "analyse", "charge", "find", "insert", "overwrite"},
         Steps(p, step), Working(p), UNCHANGED entry
  PROVE  GoesOnWith(p, Onward(p, step))
<1>1. pass[p] \in [at : Nat, step : PassSteps, hits : [Fingerprints -> Nat],
                   written : SUBSET Fingerprints, left : 0..RepeatBound]
  BY DEF CacheTypeOK
<1>2. Onward(p, step).step = step /\ Onward(p, step).at = pass[p].at
  BY <1>1 DEF Onward
<1>3. Onward(p, step) \in [at : Nat, step : PassSteps, hits : [Fingerprints -> Nat],
                           written : SUBSET Fingerprints, left : 0..RepeatBound]
  BY <1>1 DEF Onward, PassSteps
<1>4. pass' = [pass EXCEPT ![p] = Onward(p, step)]
  BY DEF Steps, Onward, CacheTypeOK
<1> QED  BY <1>2, <1>3, <1>4 DEF GoesOnWith, Working, CacheInv

LEMMA GoesToNextArticle ==
  ASSUME CacheTypeOK, CacheInv, NEW p \in Passes, UNCHANGED entry
  PROVE  /\ pass' = NextArticle(p) => GoesOnWith(p, Beyond(p))
         /\ \A f \in Fingerprints :
              pass' = [NextArticle(p) EXCEPT ![p].hits[f] = @ + 1]
                => GoesOnWith(p, [Beyond(p) EXCEPT !.hits = [pass[p].hits EXCEPT ![f] = @ + 1]])
         /\ \A f \in Fingerprints :
              pass' = [NextArticle(p) EXCEPT ![p].written = @ \cup {f}]
                => GoesOnWith(p, [Beyond(p) EXCEPT !.written = pass[p].written \cup {f}])
<1>1. pass[p] \in [at : Nat, step : PassSteps, hits : [Fingerprints -> Nat],
                   written : SUBSET Fingerprints, left : 0..RepeatBound]
  BY DEF CacheTypeOK
<1>0. pass[p].at + 1 \in Nat /\ pass[p].at + 1 > 0 /\ "look" \in PassSteps
  BY <1>1 DEF PassSteps, CacheInv
<1>2. /\ Beyond(p) \in [at : Nat, step : PassSteps, hits : [Fingerprints -> Nat],
                        written : SUBSET Fingerprints, left : 0..RepeatBound]
      /\ Beyond(p).at = pass[p].at + 1 /\ Beyond(p).step = "look"
      /\ Beyond(p).hits = pass[p].hits /\ Beyond(p).written = pass[p].written
      /\ Beyond(p).at > 0
  BY <1>0, <1>1 DEF Beyond
<1>3. NextArticle(p) = [pass EXCEPT ![p] = Beyond(p)]
  BY DEF NextArticle, Beyond, CacheTypeOK
<1>4. pass' = NextArticle(p) => GoesOnWith(p, Beyond(p))
  BY <1>2, <1>3 DEF GoesOnWith
<1>5. ASSUME NEW f \in Fingerprints, pass' = [NextArticle(p) EXCEPT ![p].hits[f] = @ + 1]
      PROVE  GoesOnWith(p, [Beyond(p) EXCEPT !.hits = [pass[p].hits EXCEPT ![f] = @ + 1]])
  <2> DEFINE h == [pass[p].hits EXCEPT ![f] = @ + 1]
             b == [Beyond(p) EXCEPT !.hits = h]
  <2>1. h \in [Fingerprints -> Nat]
    BY <1>1
  <2>2. pass' = [pass EXCEPT ![p] = b]
    BY <1>2, <1>3, <1>5 DEF CacheTypeOK
  <2> HIDE DEF h
  <2>3. /\ b \in [at : Nat, step : PassSteps, hits : [Fingerprints -> Nat],
                  written : SUBSET Fingerprints, left : 0..RepeatBound]
        /\ b.step = "look" /\ b.at > 0
    BY <1>2, <2>1
  <2> HIDE DEF b
  <2>4. GoesOnWith(p, b)
    BY <2>2, <2>3 DEF GoesOnWith
  <2> QED  BY <2>4 DEF b, h
<1>6. ASSUME NEW f \in Fingerprints, pass' = [NextArticle(p) EXCEPT ![p].written = @ \cup {f}]
      PROVE  GoesOnWith(p, [Beyond(p) EXCEPT !.written = pass[p].written \cup {f}])
  <2> DEFINE b == [Beyond(p) EXCEPT !.written = pass[p].written \cup {f}]
  <2>1. pass[p].written \cup {f} \in SUBSET Fingerprints
    BY <1>1
  <2>2. pass' = [pass EXCEPT ![p] = b]
    BY <1>2, <1>3, <1>6 DEF CacheTypeOK
  <2>3. /\ b \in [at : Nat, step : PassSteps, hits : [Fingerprints -> Nat],
                  written : SUBSET Fingerprints, left : 0..RepeatBound]
        /\ b.step = "look" /\ b.at > 0
    BY <1>2, <2>1
  <2> HIDE DEF b
  <2>4. GoesOnWith(p, b)
    BY <2>2, <2>3 DEF GoesOnWith
  <2> QED  BY <2>4 DEF b
<1> QED  BY <1>4, <1>5, <1>6

LEMMA CacheStarts == CacheInit => CacheTypeOK /\ CacheInv
<1> SUFFICES ASSUME CacheInit PROVE CacheTypeOK /\ CacheInv
  OBVIOUS
<1>1. CacheTypeOK
  BY CacheAssumption DEF CacheInit, CacheTypeOK, PassSteps
<1>2. \A p \in Passes : pass[p].step = "look" /\ pass[p].at = 1
  BY DEF CacheInit
<1>3. \A r \in CacheRows : lockedBy[r] \notin Passes
  BY CacheAssumption DEF CacheInit
<1>4. \A f \in Fingerprints : WrittenBy(f) = {}
  BY <1>2 DEF WrittenBy
<1>5. \A f \in Fingerprints : entry[f].hits = 0 /\ ~entry[f].there /\ entry[f].payload = NoPass
  BY DEF CacheInit
<1>6. ASSUME NEW f \in Fingerprints PROVE SumOf([p \in Passes |-> Counted(p, f)]) = 0
  <2>1. PICK b : b = [p \in Passes |-> Counted(p, f)]
    OBVIOUS
  <2>2. IsFiniteSet(Passes) /\ b \in [Passes -> Nat] /\ \A p \in Passes : b[p] = 0
    BY <2>1, <1>2, CacheAssumption DEF Counted
  <2>3. SumOf(b) = 0
    BY <2>2, SumOfNothing
  <2> QED  BY <2>1, <2>3
<1>7. CacheSaysWhatWasDone
  BY <1>3, <1>4, <1>5, <1>6 DEF CacheSaysWhatWasDone
<1> QED  BY <1>1, <1>2, <1>7 DEF CacheInv

LEMMA CacheGoesOn == CacheTypeOK /\ CacheInv /\ [CacheNext]_cacheVars => (CacheTypeOK /\ CacheInv)'
<1> SUFFICES ASSUME CacheTypeOK, CacheInv, [CacheNext]_cacheVars PROVE CacheTypeOK' /\ CacheInv'
  OBVIOUS
<1>1. CASE UNCHANGED cacheVars
  <2>1. CacheTypeOK'
    BY <1>1 DEF cacheVars, CacheTypeOK
  <2>2. CacheSaysWhatWasDone'
    BY <1>1 DEF cacheVars, CacheInv, CacheSaysWhatWasDone, Counted, WrittenBy, Settled
  <2>3. /\ (\A p \in Passes : pass[p].step \notin {"look", "done", "failed"} => Working(p))'
        /\ (\A p \in Passes : pass[p].at > 0)'
    BY <1>1 DEF cacheVars, CacheInv, Working
  <2> QED  BY <2>1, <2>2, <2>3 DEF CacheInv
<1>2. ASSUME NEW p \in Passes,
             \/ LookUpCached(p) \/ Hit(p) \/ Analyse(p) \/ ChargeRow(p) \/ Find(p)
             \/ Insert(p) \/ Overwrite(p)
      PROVE  CacheTypeOK' /\ CacheInv'
  <2>1. Working(p) /\ ~Settled(p) /\ UNCHANGED entry
    BY <1>2 DEF LookUpCached, Hit, Analyse, ChargeRow, Find, Insert, Overwrite, CacheInv, Settled
  <2>2. Current(p) \in Fingerprints
    BY <2>1, CurrentIsOne DEF CacheInv
  <2>3. \A r \in Fingerprints : r \in CacheRows
    BY DEF CacheRows
  <2>4. Spend \in CacheRows
    BY DEF CacheRows
  <2>5. ASSUME NEW step \in {"hit", "analyse", "charge", "find", "insert", "overwrite"},
               Steps(p, step), lockedBy' = lockedBy \/ \E r \in CacheRows : Lock(r, p)
        PROVE  CacheTypeOK' /\ CacheInv'
    <3>1. GoesOnWith(p, Onward(p, step))
      BY <2>1, <2>5, StaysWithArticle
    <3>2. Onward(p, step).step # "failed"
      BY DEF Onward, CacheTypeOK
    <3> QED  BY <2>1, <2>5, <3>1, <3>2, StepKeepsWhatIsSaid DEF Takes
  <2>6. ASSUME NEW b, GoesOnWith(p, b), b.step = "look",
               lockedBy' = lockedBy \/ \E r \in CacheRows : Lock(r, p)
        PROVE  CacheTypeOK' /\ CacheInv'
    BY <2>1, <2>6, StepKeepsWhatIsSaid DEF Takes
  <2>7. Beyond(p).step = "look" /\ Beyond(p).hits = pass[p].hits
    BY DEF Beyond, CacheTypeOK
  <2>8. CASE LookUpCached(p)
    <3>1. Steps(p, "hit") \/ Steps(p, "analyse")
      BY <2>8 DEF LookUpCached
    <3> QED  BY <2>5, <2>8, <3>1 DEF LookUpCached
  <2>9. CASE Hit(p)
    <3> DEFINE b == [Beyond(p) EXCEPT !.hits = [pass[p].hits EXCEPT ![Current(p)] = @ + 1]]
    <3>1. GoesOnWith(p, b)
      BY <2>1, <2>2, <2>9, GoesToNextArticle DEF Hit
    <3>2. b.step = "look"
      BY <2>7 DEF Beyond
    <3>3. \E r \in CacheRows : Lock(r, p)
      BY <2>2, <2>3, <2>9 DEF Hit
    <3> HIDE DEF b
    <3> QED  BY <2>6, <3>1, <3>2, <3>3
  <2>10. CASE Analyse(p)
    <3>1. CASE pass' = NextArticle(p)
      <4>1. GoesOnWith(p, Beyond(p))
        BY <2>1, <3>1, GoesToNextArticle
      <4> QED  BY <2>6, <2>7, <2>10, <4>1 DEF Analyse
    <3>2. CASE Steps(p, "find") \/ Steps(p, "charge")
      BY <2>5, <2>10, <3>2 DEF Analyse
    <3> QED  BY <2>10, <3>1, <3>2 DEF Analyse
  <2>11. CASE ChargeRow(p)
    BY <2>4, <2>5, <2>11 DEF ChargeRow
  <2>12. CASE Find(p)
    <3>1. Steps(p, "insert") \/ Steps(p, "overwrite")
      BY <2>12 DEF Find
    <3> QED  BY <2>5, <2>12, <3>1 DEF Find
  <2>13. ASSUME pass' = [NextArticle(p) EXCEPT ![p].written = @ \cup {Current(p)}],
                Lock(Current(p), p)
         PROVE  CacheTypeOK' /\ CacheInv'
    <3> DEFINE b == [Beyond(p) EXCEPT !.written = pass[p].written \cup {Current(p)}]
    <3>1. GoesOnWith(p, b)
      BY <2>1, <2>2, <2>13, GoesToNextArticle
    <3>2. b.step = "look"
      BY <2>7 DEF Beyond
    <3>3. \E r \in CacheRows : Lock(r, p)
      BY <2>2, <2>3, <2>13
    <3> HIDE DEF b
    <3> QED  BY <2>6, <3>1, <3>2, <3>3
  <2>14. CASE Insert(p)
    BY <2>5, <2>13, <2>14 DEF Insert
  <2>15. CASE Overwrite(p)
    BY <2>13, <2>15 DEF Overwrite
  <2> QED  BY <1>2, <2>8, <2>9, <2>10, <2>11, <2>12, <2>14, <2>15
<1>3. ASSUME NEW p \in Passes, CommitPass(p) PROVE CacheTypeOK' /\ CacheInv'
  BY <1>3, CommitKeepsWhatIsSaid
<1>4. ASSUME NEW p \in Passes, AbortDeadlocked(p) \/ AbortPass(p) PROVE CacheTypeOK' /\ CacheInv'
  <2>1. ~Settled(p)
    <3>1. CASE Settled(p)
      <4>1. Awaits(p) = NoPass
        BY <3>1 DEF Awaits, Settled
      <4> QED  BY <1>4, <3>1, <4>1 DEF AbortDeadlocked, AbortPass, Blocked
    <3> QED  BY <3>1
  <2> QED  BY <1>4, <2>1, RollBackKeepsWhatIsSaid DEF AbortDeadlocked, AbortPass
<1> QED  BY <1>1, <1>2, <1>3, <1>4 DEF CacheNext

(***************************************************************************)
(* The cache says what the runs that were committed did, whatever the      *)
(* batches, however the runs overlap, wait for each other, are rolled back *)
(* and tried again (cache.py, pipeline.py).                                *)
(***************************************************************************)
THEOREM CacheSaysWhatWasDoneHolds == CacheSpec => [](CacheTypeOK /\ CacheSaysWhatWasDone)
<1>1. CacheTypeOK /\ CacheInv => CacheTypeOK /\ CacheSaysWhatWasDone
  BY DEF CacheInv
<1> QED  BY <1>1, CacheStarts, CacheGoesOn, PTL DEF CacheSpec

----------------------------------------------------------------------------
(***************************************************************************)
(* The services side by side.                                              *)
(***************************************************************************)

\* A behaviour of all is one of each: a step of the one leaves the others alone.
LEMMA EachStarts ==
  ASSUME MCInit
  PROVE  /\ FeedInit /\ ScanInit /\ SuppliersInit /\ AccessInit /\ ThrottleInit /\ ErasureInit
         /\ WatchInit /\ ChatInit /\ BrowserInit /\ FetchInit /\ CacheInit /\ LettersInit /\ RecoveryInit
  BY DEF MCInit

LEMMA EachGoesOn ==
  ASSUME [MCNext]_MCVars
  PROVE  /\ [FeedNext]_feedVars /\ [ScanNext]_scanVars /\ [SuppliersNext]_suppliersVars
         /\ [AccessNext]_accessVars /\ [ThrottleNext]_throttleVars /\ [ErasureNext]_erasureVars
         /\ [WatchNext]_watchVars /\ [ChatNext]_chatVars /\ [BrowserNext]_browserVars
         /\ [FetchNext]_fetchVars /\ [CacheNext]_cacheVars /\ [LettersNext]_letterVars
         /\ [RecoveryNext]_recoveryVars
<1>1. UNCHANGED MCVars =>
        /\ feedVars' = feedVars /\ scanVars' = scanVars /\ suppliersVars' = suppliersVars
        /\ accessVars' = accessVars /\ throttleVars' = throttleVars /\ erasureVars' = erasureVars
        /\ watchVars' = watchVars /\ chatVars' = chatVars /\ browserVars' = browserVars
        /\ fetchVars' = fetchVars /\ cacheVars' = cacheVars /\ letterVars' = letterVars
        /\ recoveryVars' = recoveryVars
  BY DEF MCVars
<1> QED  BY <1>1 DEF MCNext, AtRest

(***************************************************************************)
(* Every variable of every service has its type.                           *)
(***************************************************************************)
THEOREM ServicesTypesCorrect == MCSpec => []Types
<1> DEFINE Invs == /\ FeedTypeOK /\ TimeInv /\ SuppliersTypeOK /\ AccessTypeOK /\ ThrottleInv
                   /\ ErasureInv /\ WatchInv /\ ChatTypeOK /\ BrowserInv /\ FetchInv /\ CacheTypeOK
                   /\ LettersInv /\ RecoveryInv
<1>1. MCInit =>
         /\ FeedInit /\ ScanInit /\ SuppliersInit /\ AccessInit /\ ThrottleInit /\ ErasureInit
         /\ WatchInit /\ ChatInit /\ BrowserInit /\ FetchInit /\ CacheInit /\ LettersInit /\ RecoveryInit
  BY EachStarts
<1>2. [MCNext]_MCVars =>
         /\ [FeedNext]_feedVars /\ [ScanNext]_scanVars /\ [SuppliersNext]_suppliersVars
         /\ [AccessNext]_accessVars /\ [ThrottleNext]_throttleVars /\ [ErasureNext]_erasureVars
         /\ [WatchNext]_watchVars /\ [ChatNext]_chatVars /\ [BrowserNext]_browserVars
         /\ [FetchNext]_fetchVars /\ [CacheNext]_cacheVars /\ [LettersNext]_letterVars
         /\ [RecoveryNext]_recoveryVars
  BY EachGoesOn
<1>3. Invs => Types
  BY DEF Types, TimeInv, WholeInv, ScanTypes, Statuses, Scanning, ScanTypeOK, ThrottleInv, ErasureInv,
         WatchInv, BrowserInv, FetchInv, LettersInv, RecoveryInv
<1> QED
  BY <1>1, <1>2, <1>3, FeedHonoursExclusionsHolds, TimeInvariance, SuppliersTypeCorrect, AccessTypeCorrect,
     ThrottleInvariance, ErasureInvariance, WatchInvariance, EndMeansStoredHolds, BrowserInvariance,
     FetchInvariance, CacheSaysWhatWasDoneHolds, LettersInvariance, RecoveryInvariance, PTL
  DEF MCSpec, FeedSpec, ScanSpec, SuppliersSpec, AccessSpec, ThrottleSpec, ErasureSpec, WatchSpec,
      ChatSpec, BrowserSpec, FetchSpec, CacheSpec, LettersSpec, RecoverySpec

(***************************************************************************)
(* What one service tells another, or a person, is so: all of the above    *)
(* that MCServices checks as one.                                          *)
(***************************************************************************)
THEOREM ToldIsTrueHolds == MCSpec => []ToldIsTrue
<1>1. MCInit => /\ WatchInit /\ ChatInit /\ FetchInit /\ CacheInit /\ LettersInit /\ RecoveryInit
  BY EachStarts
<1>2. [MCNext]_MCVars =>
         /\ [WatchNext]_watchVars /\ [ChatNext]_chatVars /\ [FetchNext]_fetchVars
         /\ [CacheNext]_cacheVars /\ [LettersNext]_letterVars /\ [RecoveryNext]_recoveryVars
  BY EachGoesOn
<1> QED
  BY <1>1, <1>2, EndMeansStoredHolds, BackupIsWholeHolds, AskedMeansSetHolds, OutcomeRecordedOnceHolds,
     CacheSaysWhatWasDoneHolds, FailuresAreSaidHolds, PTL
  DEF MCSpec, ToldIsTrue, WatchSpec, ChatSpec, FetchSpec, CacheSpec, LettersSpec, RecoverySpec

(***************************************************************************)
(* The algorithms, on the articles, searches and rates of MCSamples: what  *)
(* AlgorithmProofs shows of all inputs holds of these, because these are   *)
(* inputs it speaks of.                                                    *)
(***************************************************************************)

LEMMA VerdictSamples ==
  VerdictSample =>
    sample[1] = "verdict" /\ SureRestsOnASignal(sample[2]) /\ VerdictStands(sample[2], sample[3])
<1> SUFFICES ASSUME NEW t \in SampleTexts, NEW d \in SampleTexts, NEW s \in SampleTexts,
                    NEW g \in BOOLEAN, NEW src \in {"weather", "steel"}, NEW x \in SampleAnswers,
                    sample = <<"verdict", [texts |-> <<t, d, s>>, grouped |-> g, group |-> "mine",
                                           source |-> src], x>>
             PROVE  /\ sample[1] = "verdict"
                    /\ SureRestsOnASignal(sample[2]) /\ VerdictStands(sample[2], sample[3])
  BY ZenonT(30) DEF VerdictSample
<1> DEFINE People == {"Bosch", "Siemens", "Spain"}
           a == [texts |-> <<t, d, s>>, grouped |-> g, group |-> "mine", source |-> src]
<1>1. {"", "mine", "gas mine", "weather", "steel"} \subseteq KnownTerms
  BY SampleAssumption DEF KnownTerms
<1>2. \A u \in SampleTexts : u \in EnrichedText(People)
  <2>1. {"bankruptcy", "strike", "tariff"} \subseteq DOMAIN Sureness
    BY DEF Sureness
  <2>2. \A w \in BOOLEAN, sig \in SUBSET {"bankruptcy", "strike", "tariff"}, sup, reg \in SUBSET People,
           term \in {"", "gas mine", "weather", "steel"} :
          [written |-> w, signals |-> sig, suppliers |-> sup, regions |-> reg, term |-> term]
            \in EnrichedText(People)
    BY <1>1, <2>1 DEF EnrichedText
  <2>4. /\ {} \in SUBSET {"bankruptcy", "strike", "tariff"} /\ {} \in SUBSET People
        /\ {"bankruptcy"} \in SUBSET {"bankruptcy", "strike", "tariff"}
        /\ {"strike", "tariff"} \in SUBSET {"bankruptcy", "strike", "tariff"}
        /\ {"Bosch"} \in SUBSET People /\ {"Siemens"} \in SUBSET People /\ {"Spain"} \in SUBSET People
    OBVIOUS
  <2> DEFINE T(w, sig, sup, reg, term) ==
               [written |-> w, signals |-> sig, suppliers |-> sup, regions |-> reg, term |-> term]
  <2>5. \A w \in BOOLEAN, sig \in SUBSET {"bankruptcy", "strike", "tariff"}, sup, reg \in SUBSET People,
           term \in {"", "gas mine", "weather", "steel"} :
          T(w, sig, sup, reg, term) \in EnrichedText(People)
    BY <2>2
  <2>6. SampleTexts =
          {T(FALSE, {}, {}, {}, ""), T(TRUE, {}, {}, {}, "weather"), T(TRUE, {"bankruptcy"}, {}, {}, "steel"),
           T(TRUE, {"strike", "tariff"}, {"Bosch"}, {}, ""), T(TRUE, {}, {"Siemens"}, {"Spain"}, "gas mine")}
    BY DEF SampleTexts, Containing
  <2> HIDE DEF T, People
  <2>7. /\ T(FALSE, {}, {}, {}, "") \in EnrichedText(People)
        /\ T(TRUE, {}, {}, {}, "weather") \in EnrichedText(People)
        /\ T(TRUE, {"bankruptcy"}, {}, {}, "steel") \in EnrichedText(People)
        /\ T(TRUE, {"strike", "tariff"}, {"Bosch"}, {}, "") \in EnrichedText(People)
        /\ T(TRUE, {}, {"Siemens"}, {"Spain"}, "gas mine") \in EnrichedText(People)
    BY <2>4, <2>5
  <2> QED  BY <2>6, <2>7
<1>3. a \in EnrichedArticle(People)
  <2>1. <<t, d, s>> \in [1..3 -> EnrichedText(People)]
    BY <1>2
  <2> HIDE DEF People
  <2> QED  BY <1>1, <2>1 DEF EnrichedArticle
<1>4. x \in [category : STRING, tags : SUBSET STRING, suppliers : SUBSET People, regions : SUBSET People,
             categories : SUBSET STRING]
  <2>1. PICK c \in {"energy", "mine", "weather"}, n \in {{}, {"Bosch"}} :
          x = [category |-> c, tags |-> {"walkout", "gossip"}, suppliers |-> n, regions |-> {}, categories |-> {}]
    BY DEF SampleAnswers
  <2>2. n \in SUBSET People /\ {} \in SUBSET People /\ {"walkout", "gossip"} \in SUBSET STRING
        /\ {} \in SUBSET STRING /\ c \in STRING
    BY SampleAssumption
  <2> HIDE DEF People
  <2> QED  BY <2>1, <2>2
<1>5. IsFiniteSet(People)
  <2>1. IsFiniteSet({"Bosch"} \cup {"Siemens"})
    BY FS_Singleton, FS_AddElement
  <2>2. IsFiniteSet(({"Bosch"} \cup {"Siemens"}) \cup {"Spain"})
    BY <2>1, FS_AddElement
  <2>3. People = ({"Bosch"} \cup {"Siemens"}) \cup {"Spain"}
    OBVIOUS
  <2> QED  BY <2>2, <2>3
<1> HIDE DEF People, a
<1>6. SureRestsOnASignal(a) /\ VerdictStands(a, x)
  BY <1>3, <1>4, <1>5, SureRestsOnASignalAlways, VerdictStandsAlways
<1>7. sample[1] = "verdict" /\ sample[2] = a /\ sample[3] = x
  BY DEF a
<1> QED  BY <1>6, <1>7

LEMMA MatchSamples ==
  MatchSample => sample[1] = "match" /\ EligibleScoresEnough(sample[2], sample[3])
<1>1. \A a, p : EligibleScoresEnough(a, p)
  BY EligibleScoresEnoughAlways
<1>2. MatchSample => sample[1] = "match"
  BY DEF MatchSample
<1> QED  BY <1>1, <1>2

LEMMA DetectionSamples ==
  DetectionSample => sample[1] = "detection" /\ DetectionIsConservative(sample[2])
<1> SUFFICES ASSUME NEW words \in SUBSET {"insolvency", "missile", "red sea", "strike", "walkout"},
                    NEW tags \in {{}, {"bankruptcy", "insolvency"}, {"strike", "walkout"}},
                    NEW priority \in BOOLEAN, NEW some \in BOOLEAN, NEW alarms \in BOOLEAN,
                    sample = <<"detection", [said |-> words, tags |-> tags, priority |-> priority,
                                 suppliers |-> some, regions |-> FALSE, alarms |-> alarms]>>
             PROVE  sample[1] = "detection" /\ DetectionIsConservative(sample[2])
  BY ZenonT(30) DEF DetectionSample
<1>1. \E Phrases : sample[2] \in RiskArticle(Phrases)
  <2> DEFINE Phrases == {"insolvency", "missile", "red sea", "strike", "walkout", "bankruptcy"}
  <2>1. words \in SUBSET Phrases /\ tags \in SUBSET Phrases
    OBVIOUS
  <2> HIDE DEF Phrases
  <2> QED  BY <2>1 DEF RiskArticle
<1> QED  BY <1>1, DetectionIsConservativeAlways

LEMMA FetchSamples ==
  FetchSample =>
    sample[1] = "fetch" /\ FetchOrderDoesNotMatter(sample[2]) /\ EveryRecordIsStored(sample[2])
<1> SUFFICES ASSUME NEW n \in 0..4, NEW fetched \in [1..n -> SampleFetched], sample = <<"fetch", fetched>>
             PROVE  /\ sample[1] = "fetch"
                    /\ FetchOrderDoesNotMatter(sample[2]) /\ EveryRecordIsStored(sample[2])
  BY DEF FetchSample
<1>1. fetched \in Seq(SampleFetched)
  OBVIOUS
<1>2. Comparable(SampleFetched)
  <2> DEFINE Sites == {"list", "story"}
             Extras == {{}, {"utm"}, {"page"}}
             At == [at : Sites, extras : Extras]
  <2>1. \A at \in Sites, extras \in Extras : Url(at, extras) \in At
    BY DEF Url
  <2>3. /\ Url("list", {}) \in At /\ Url("story", {}) \in At
        /\ Url("story", {"utm"}) \in At /\ Url("story", {"page"}) \in At
    BY <2>1
  <2> DEFINE a1 == Fetched(1, "eu_sanctions", {"d1"}, Url("list", {}), "official", "h1")
             a2 == Fetched(2, "eu_sanctions", {"d2"}, Url("list", {}), "official", "h1")
             a3 == Fetched(3, "rss", {"i1"}, Url("story", {"utm"}), "industry", "h2")
             a4 == Fetched(4, "newsapi", {}, Url("story", {}), "established_media", "h2")
             a5 == Fetched(5, "gdelt", {}, Url("story", {"page"}), "", "h2")
  <2>4. SampleFetched = {a1, a2, a3, a4, a5}
    BY DEF SampleFetched
  <2> HIDE DEF At
  <2>5. a1.rank = 1 /\ a1.url \in At
    <3>1. a1.rank = 1
      BY DEF Fetched
    <3>2. a1.url = Url("list", {})
      BY DEF Fetched
    <3> QED  BY <3>1, <3>2, <2>3
  <2>6. a2.rank = 2 /\ a2.url \in At
    <3>1. a2.rank = 2
      BY DEF Fetched
    <3>2. a2.url = Url("list", {})
      BY DEF Fetched
    <3> QED  BY <3>1, <3>2, <2>3
  <2>7. a3.rank = 3 /\ a3.url \in At
    <3>1. a3.rank = 3
      BY DEF Fetched
    <3>2. a3.url = Url("story", {"utm"})
      BY DEF Fetched
    <3> QED  BY <3>1, <3>2, <2>3
  <2>8. a4.rank = 4 /\ a4.url \in At
    <3>1. a4.rank = 4
      BY DEF Fetched
    <3>2. a4.url = Url("story", {})
      BY DEF Fetched
    <3> QED  BY <3>1, <3>2, <2>3
  <2>9. a5.rank = 5 /\ a5.url \in At
    <3>1. a5.rank = 5
      BY DEF Fetched
    <3>2. a5.url = Url("story", {"page"})
      BY DEF Fetched
    <3> QED  BY <3>1, <3>2, <2>3
  <2> HIDE DEF a1, a2, a3, a4, a5
  <2>10. /\ \A a \in SampleFetched : a.rank \in Nat /\ a.url \in At
         /\ \A a, b \in SampleFetched : a.rank = b.rank => a = b
    BY <2>4, <2>5, <2>6, <2>7, <2>8, <2>9
  <2> QED  BY <2>10 DEF Comparable, At
<1>3. FetchOrderDoesNotMatter(fetched) /\ EveryRecordIsStored(fetched)
  BY <1>1, <1>2, FetchOrderDoesNotMatterAlways, EveryRecordIsStoredAlways
<1> QED  BY <1>3

LEMMA RawSamples ==
  RawSample => sample[1] = "raw" /\ OnlyDefectsReject(sample[2])
<1>1. RawSample => sample[1] = "raw" /\ sample[2] \in RawArticle({"none", "en", "de"})
  BY DEF RawSample, RawArticle
<1> QED  BY <1>1, OnlyDefectsRejectAlways

LEMMA SampleEventsAre ==
  ASSUME NEW S, NEW T, NEW e \in SampleEvents(0, S), NEW f \in SampleEvents(1, T), NEW g \in SampleEvents(2, S),
         NEW E \in {{e, f}, {e, f, g}}
  PROVE  EventsAre(E) /\ \A x \in E : x.confidence > 0
<1>1. /\ e.key = 0 /\ e.age \in {-1, 0, 1, 2} /\ e.confidence \in {11, 19}
      /\ f.key = 1 /\ f.age \in {-1, 0, 1, 2} /\ f.confidence \in {11, 19}
      /\ g.key = 2 /\ g.age \in {-1, 0, 1, 2} /\ g.confidence \in {11, 19}
  BY DEF SampleEvents
<1>2. IsFiniteSet({e}) /\ Cardinality({e}) = 1
  BY FS_Singleton
<1>3. IsFiniteSet({e, f}) /\ Cardinality({e, f}) <= 2
  <2>1. {e, f} = {e} \cup {f}
    OBVIOUS
  <2>2. Cardinality({e} \cup {f}) \in {1, 2}
    BY <1>2, FS_AddElement
  <2> QED  BY <2>1, <2>2, <1>2, FS_AddElement
<1>4. IsFiniteSet({e, f, g}) /\ Cardinality({e, f, g}) <= 3
  <2>1. {e, f, g} = {e, f} \cup {g}
    OBVIOUS
  <2>2. Cardinality({e, f}) \in Nat
    BY <1>3, FS_CardinalityType
  <2>3. Cardinality({e, f} \cup {g}) \in {Cardinality({e, f}), Cardinality({e, f}) + 1}
    BY <1>3, FS_AddElement
  <2>4. IsFiniteSet({e, f} \cup {g})
    BY <1>3, FS_AddElement
  <2>5. PICK k \in Nat : k = Cardinality({e, f}) /\ k <= 2
    BY <2>2, <1>3
  <2>6. Cardinality({e, f} \cup {g}) \in {k, k + 1}
    BY <2>3, <2>5
  <2>7. Cardinality({e, f} \cup {g}) <= 3
    <3>1. PICK m : m = Cardinality({e, f} \cup {g})
      OBVIOUS
    <3>2. m = k \/ m = k + 1
      BY <3>1, <2>6
    <3>3. m <= 3
      BY <3>2, <2>5
    <3> QED  BY <3>1, <3>3
  <2> QED  BY <2>1, <2>4, <2>7
<1>5. IsFiniteSet(E) /\ Cardinality(E) \in Nat /\ Cardinality(E) <= 3
  <2> DEFINE P == {e, f}
             Q == {e, f, g}
  <2>1. IsFiniteSet(P) /\ IsFiniteSet(Q) /\ Cardinality(P) <= 2 /\ Cardinality(Q) <= 3 /\ E \in {P, Q}
    BY <1>3, <1>4
  <2> HIDE DEF P, Q
  <2>2. Cardinality(P) \in Nat /\ Cardinality(Q) \in Nat
    BY <2>1, FS_CardinalityType
  <2> QED  BY <2>1, <2>2
<1>6. \A x \in E : /\ x.key \in Nat /\ x.age \in Int /\ x.age <= 3 /\ x.confidence \in Int
                   /\ x.confidence > 0
                   /\ \A y \in E : x.key = y.key => x = y
  <2>1. \A x \in E : x = e \/ x = f \/ x = g
    OBVIOUS
  <2> QED  BY <1>1, <2>1
<1>7. MaxEvents \in Nat /\ MaxEvents >= 3
  BY SampleAssumption, ImpactAssumption
<1>8. Cardinality(E) <= MaxEvents
  BY <1>5, <1>7
<1> QED  BY <1>5, <1>6, <1>8 DEF EventsAre

LEMMA ImpactSamples ==
  ImpactSample => /\ sample[1] = "impact" /\ NewsNeverLowers(sample[2]) /\ SwarmStaysBelow(sample[2])
                  /\ DriversDecided(sample[2])
<1> DEFINE S == {{}}
<1> SUFFICES ASSUME ImpactSample
             PROVE  /\ sample[1] = "impact" /\ NewsNeverLowers(sample[2]) /\ SwarmStaysBelow(sample[2])
                    /\ DriversDecided(sample[2])
  OBVIOUS
<1>1. PICK e \in SampleEvents(0, S), f \in SampleEvents(1, S), g \in SampleEvents(2, S) :
        sample \in {<<"impact", {e, f, g}>>, <<"impact", {e, f}>>}
  BY DEF ImpactSample
<1> HIDE DEF S
<1>2. EventsAre({e, f})
  BY SampleEventsAre
<1>3. EventsAre({e, f, g})
  BY SampleEventsAre
<1>4. PICK E : sample = <<"impact", E>> /\ EventsAre(E)
  BY <1>1, <1>2, <1>3
<1>5. NewsNeverLowers(E) /\ SwarmStaysBelow(E) /\ DriversDecided(E)
  BY <1>4, NewsNeverLowersAlways, SwarmStaysBelowAlways, DriversDecidedAlways
<1> QED  BY <1>4, <1>5

LEMMA WatchSamples ==
  WatchSample => sample[1] = "watch" /\ MostExposedFirst({1, 2}, sample[2], sample[3])
<1> DEFINE S == {{1}, {2}, {1, 2}}
<1> SUFFICES ASSUME NEW e \in SampleEvents(0, S), NEW f \in SampleEvents(1, S), NEW current,
                    sample = <<"watch", current, {e, f}>>
             PROVE  MostExposedFirst({1, 2}, current, {e, f})
  BY DEF WatchSample
<1>1. PICK g \in SampleEvents(2, S) : TRUE
  <2>1. [key |-> 2, type |-> "strike", severity |-> "low", age |-> 0, confidence |-> 11, ids |-> {1}]
          \in SampleEvents(2, S)
    BY DEF SampleEvents
  <2> QED  BY <2>1
<1>2. EventsAre({e, f}) /\ \A x \in {e, f} : x.confidence > 0
  <2> HIDE DEF S
  <2> QED  BY SampleEventsAre
<1>3. {1, 2} \in SUBSET Nat
  OBVIOUS
<1>4. IsFiniteSet({1, 2})
  <2>1. 1..2 = {1, 2}
    OBVIOUS
  <2>2. 1 \in Int /\ 2 \in Int
    OBVIOUS
  <2>3. IsFiniteSet(1..2)
    BY <2>2, FS_Interval
  <2> QED  BY <2>1, <2>3
<1> QED  BY <1>2, <1>3, <1>4, MostExposedFirstAlways

LEMMA WordsSamples ==
  WordsSample => sample[1] = "words" /\ NewerAndBetterIsShown(sample[2], 1)
<1> DEFINE F == {{}, {"summary"}, {"title", "summary"}, {"normalized_title"}}
           C(fields) == {[id |-> i, fields |-> fields[i], age |-> i] : i \in 1..4}
<1> SUFFICES ASSUME NEW fields \in [1..4 -> F], sample = <<"words", C(fields)>>
             PROVE  NewerAndBetterIsShown(C(fields), 1)
  BY DEF WordsSample
<1>1. F \subseteq SUBSET DOMAIN FieldWeight
  BY DEF FieldWeight
<1>2. IsFiniteSet(C(fields))
  <2> DEFINE R(i) == [id |-> i, fields |-> fields[i], age |-> i]
  <2>1. C(fields) = (({R(1)} \cup {R(2)}) \cup {R(3)}) \cup {R(4)}
    <3>1. \A i \in 1..4 : i = 1 \/ i = 2 \/ i = 3 \/ i = 4
      OBVIOUS
    <3>2. C(fields) = {R(i) : i \in 1..4}
      OBVIOUS
    <3> HIDE DEF R, C
    <3> QED  BY <3>1, <3>2
  <2> HIDE DEF R, C
  <2>2. IsFiniteSet({R(1)} \cup {R(2)})
    BY FS_Singleton, FS_AddElement
  <2>3. IsFiniteSet(({R(1)} \cup {R(2)}) \cup {R(3)})
    BY <2>2, FS_AddElement
  <2>4. IsFiniteSet((({R(1)} \cup {R(2)}) \cup {R(3)}) \cup {R(4)})
    BY <2>3, FS_AddElement
  <2> QED  BY <2>1, <2>4
<1>3. \A c \in C(fields) : \E i \in 1..4 : c.id = i /\ c.age = i /\ c.fields = fields[i]
                                            /\ c = [id |-> i, fields |-> fields[i], age |-> i]
  OBVIOUS
<1>4. /\ \A c \in C(fields) : c.age \in Nat /\ c.fields \subseteq DOMAIN FieldWeight
      /\ \A c, d \in C(fields) : (c.id = d.id => c = d) /\ (c.age = d.age => c = d)
  <2> HIDE DEF C
  <2>1. \A i \in 1..4 : i \in Nat /\ fields[i] \in F
    OBVIOUS
  <2> HIDE DEF F
  <2> QED  BY <1>1, <1>3, <2>1
<1> HIDE DEF C
<1> QED  BY <1>2, <1>4, NewerAndBetterIsShownAlways

LEMMA HitsSamples ==
  HitsSample =>
    /\ sample[1] = "hits" /\ FusionIsFair(sample[2], sample[3])
    /\ ModeTellsWhatContributed(TRUE, sample[4], sample[2], sample[3], sample[5])
<1> DEFINE H == UNION {Injection(1..n, 1..4) : n \in 0..3}
           P == {"none", "fails", "answers"}
<1>1. \A s \in H : s \in ResultsOver(1..4)
  <2> SUFFICES ASSUME NEW n \in 0..3, NEW s \in Injection(1..n, 1..4) PROVE s \in ResultsOver(1..4)
    OBVIOUS
  <2>1. s \in [1..n -> 1..4] /\ IsInjective(s)
    BY DEF Injection
  <2>2. s \in Seq(1..4)
    BY <2>1
  <2> QED  BY <2>1, <2>2 DEF ResultsOver
<1>2. HitsSample => \E lexical \in H, vector \in H, limit \in 1..2, provider \in P :
                      sample = <<"hits", lexical, vector, provider, limit>>
  BY DEF HitsSample
<1> HIDE DEF H
<1> SUFFICES ASSUME NEW lexical \in H, NEW vector \in H, NEW limit \in 1..2, NEW provider \in P,
                    sample = <<"hits", lexical, vector, provider, limit>>
             PROVE  /\ sample[1] = "hits" /\ FusionIsFair(sample[2], sample[3])
                    /\ ModeTellsWhatContributed(TRUE, sample[4], sample[2], sample[3], sample[5])
  BY <1>2
<1>3. /\ sample[1] = "hits" /\ sample[2] = lexical /\ sample[3] = vector
      /\ sample[4] = provider /\ sample[5] = limit
  OBVIOUS
<1>4. lexical \in ResultsOver(1..4) /\ vector \in ResultsOver(1..4) /\ limit \in Nat \ {0}
      /\ TRUE \in BOOLEAN
  BY <1>1
<1>5. FusionIsFair(lexical, vector)
  BY <1>4, FusionIsFairAlways
<1>6. ModeTellsWhatContributed(TRUE, provider, lexical, vector, limit)
  BY <1>4, ModeTellsWhatContributedAlways
<1> QED  BY <1>3, <1>5, <1>6

LEMMA CurrencySamples ==
  CurrencySample =>
    sample[1] = "currency" /\ AdviceRestsOnRates(sample[2], sample[3], sample[4], sample[5])
<1> DEFINE Words == {"EUR", "word", "USD", "CHF"}
           RatedRows == [code : Words, rate : Nat]
<1> SUFFICES ASSUME NEW answered \in BOOLEAN,
                    NEW quotes \in {<<>>, <<"EUR", "word">>, <<"USD", "USD">>, <<"CHF", "USD">>},
                    NEW latest \in {<<>>} \cup {<<[code |-> "USD", rate |-> r]>> : r \in {0, 1, 3, 6, 9}},
                    NEW history \in Rates(2),
                    sample = <<"currency", answered, quotes, latest, history>>
             PROVE  AdviceRestsOnRates(answered, quotes, latest, history)
  BY DEF CurrencySample
<1>1. quotes \in Seq(Words)
  <2>1. /\ <<>> \in Seq(Words) /\ <<"EUR", "word">> \in Seq(Words)
        /\ <<"USD", "USD">> \in Seq(Words) /\ <<"CHF", "USD">> \in Seq(Words)
    OBVIOUS
  <2>2. quotes = <<>> \/ quotes = <<"EUR", "word">> \/ quotes = <<"USD", "USD">> \/ quotes = <<"CHF", "USD">>
    OBVIOUS
  <2> HIDE DEF Words
  <2> QED  BY <2>1, <2>2
<1>2. latest \in Seq(RatedRows)
  <2>1. <<>> \in Seq(RatedRows)
    OBVIOUS
  <2>2. \A r \in {0, 1, 3, 6, 9} : [code |-> "USD", rate |-> r] \in RatedRows
    OBVIOUS
  <2> HIDE DEF RatedRows
  <2>3. \A x \in RatedRows : <<x>> \in Seq(RatedRows)
    OBVIOUS
  <2>4. latest = <<>> \/ \E r \in {0, 1, 3, 6, 9} : latest = <<[code |-> "USD", rate |-> r]>>
    OBVIOUS
  <2> QED  BY <2>1, <2>2, <2>3, <2>4
<1>3. history \in Seq(RatedRows)
  <2>1. PICK k \in 0..2 : history \in [1..k -> [code : {"USD", "CHF"}, rate : {0, 2, 6}]]
    BY DEF Rates
  <2>2. history \in [1..k -> RatedRows]
    BY <2>1
  <2> HIDE DEF RatedRows
  <2> QED  BY <2>2
<1> HIDE DEF Words
<1> QED  BY <1>1, <1>2, <1>3, AdviceRestsOnRatesAlways DEF Payloads

LEMMA SignalSamples ==
  SignalSample => sample[1] = "signals" /\ ScoreFollowsSeverity(sample[2], sample[3], sample[4])
<1>1. \A text, headline, failsAt : ScoreFollowsSeverity(text, headline, failsAt)
  BY ScoreFollowsSeverityAlways
<1>2. SignalSample => sample[1] = "signals"
  BY DEF SignalSample
<1> QED  BY <1>1, <1>2

LEMMA NoSampleIsNothing ==
  sample = NoSample => sample[1] = "none"
BY DEF NoSample

LEMMA SamplesShow ==
  ASSUME Samples \/ sample = NoSample PROVE EvidenceIsKept /\ RankingIsFair
<1> USE DEF EvidenceIsKept, RankingIsFair
<1>1. CASE CurrencySample
  BY <1>1, CurrencySamples
<1>2. CASE SignalSample
  BY <1>2, SignalSamples
<1>3. CASE VerdictSample
  BY <1>3, VerdictSamples
<1>4. CASE MatchSample
  BY <1>4, MatchSamples
<1>5. CASE DetectionSample
  BY <1>5, DetectionSamples
<1>6. CASE FetchSample
  BY <1>6, FetchSamples
<1>7. CASE RawSample
  BY <1>7, RawSamples
<1>8. CASE ImpactSample
  BY <1>8, ImpactSamples
<1>9. CASE WatchSample
  BY <1>9, WatchSamples
<1>10. CASE WordsSample
  BY <1>10, WordsSamples
<1>11. CASE HitsSample
  BY <1>11, HitsSamples
<1>12. CASE sample = NoSample
  BY <1>12, NoSampleIsNothing
<1> QED  BY <1>1, <1>2, <1>3, <1>4, <1>5, <1>6, <1>7, <1>8, <1>9, <1>10, <1>11, <1>12 DEF Samples

\* No step of any part exchanges the sample.
LEMMA SampleIsFixed ==
  [MCNext]_MCVars => UNCHANGED sample
BY DEF MCNext, AtRest, MCVars

(***************************************************************************)
(* No algorithm on an article's way loses what it should keep or keeps     *)
(* what it should drop.                                                    *)
(***************************************************************************)
THEOREM EvidenceIsKeptHolds == MCSpec => []EvidenceIsKept
<1>1. MCInit => EvidenceIsKept
  BY SamplesShow DEF MCInit
<1>2. EvidenceIsKept /\ UNCHANGED sample => EvidenceIsKept'
  BY DEF EvidenceIsKept
<1> QED  BY <1>1, <1>2, SampleIsFixed, PTL DEF MCSpec

(***************************************************************************)
(* What is shown in an order is shown in the right one: scores, drivers,   *)
(* watch pages, search results, advice on rates and the scores of signals. *)
(***************************************************************************)
THEOREM RankingIsFairHolds == MCSpec => []RankingIsFair
<1>1. MCInit => RankingIsFair
  BY SamplesShow DEF MCInit
<1>2. RankingIsFair /\ UNCHANGED sample => RankingIsFair'
  BY DEF RankingIsFair
<1> QED  BY <1>1, <1>2, SampleIsFixed, PTL DEF MCSpec
=============================================================================
