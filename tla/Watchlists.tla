------------------------------ MODULE Watchlists ------------------------------
(***************************************************************************)
(* What an organisation sets up to be alerted: watchlists, the suppliers   *)
(* on one, and alert rules (src/shared/procuresignal/watchlists/           *)
(* service.py, notifications/rules.py and their routers).  Requests look   *)
(* first and insert later; unique constraints decide races, and the one    *)
(* that loses gets an IntegrityError nobody catches: status 500.           *)
(***************************************************************************)
EXTENDS Naturals

CONSTANTS Spellings,  \* names as they are typed
          Normalised, \* [Spellings -> names]; NoName: nothing is left
          Severities, \* severities as they are asked for
          Watchable,  \* suppliers
          Askers      \* requests

ASSUME WatchlistsAssumption == DOMAIN Normalised = Spellings

VARIABLES
  named,   \* the rows: <<"list", name>> and <<"rule", name>>
  watched, \* the suppliers with an entry in the list
  active,  \* suppliers that have not been merged away
  ask      \* each request

watchVars == <<named, watched, active, ask>>

NoName == ""

\* found: the entry was there; told: the status; crossed: what it did was undone
\* by a request that overlapped it or came later.
NewAsk == [phase |-> "idle", what |-> "none", key |-> NoName, found |-> FALSE, told |-> 0,
           crossed |-> FALSE]

WatchInit == /\ named = {} /\ watched = {} /\ active = Watchable
             /\ ask = [q \in Askers |-> NewAsk]

Known == {"low", "medium", "high", "critical"}

\* create_watchlist and create_alert_rule, before they insert: 400, 409 or 0.
ListRefused(spelling) ==
  IF Normalised[spelling] = NoName THEN 400
  ELSE IF <<"list", Normalised[spelling]>> \in named THEN 409 ELSE 0

RuleRefused(spelling, severity) ==
  IF Normalised[spelling] = NoName \/ severity \notin Known THEN 400
  ELSE IF <<"rule", Normalised[spelling]>> \in named THEN 409 ELSE 0

Begins(q, what, key, refusal, found) ==
  ask' = [ask EXCEPT ![q] = [phase |-> IF refusal = 0 THEN "begun" ELSE "done", what |-> what,
                             key |-> key, found |-> found, told |-> refusal, crossed |-> FALSE]]

\* The request r is answered; another crossed it.
Done(r, status) == [r EXCEPT !.phase = "done", !.told = status]
Crossed(r) == [r EXCEPT !.crossed = TRUE]

----------------------------------------------------------------------------
BeginCreate(q) ==
  /\ ask[q].phase = "idle"
  /\ \E spelling \in Spellings :
       \/ Begins(q, "list", Normalised[spelling], ListRefused(spelling), FALSE)
       \/ \E severity \in Severities :
            Begins(q, "rule", Normalised[spelling], RuleRefused(spelling, severity), FALSE)
  /\ UNCHANGED <<named, watched, active>>

\* The insert, with its audit row.
CommitCreate(q) ==
  /\ ask[q].phase = "begun" /\ ask[q].what \in {"list", "rule"}
  /\ LET row == <<ask[q].what, ask[q].key>> IN
       /\ named' = named \cup {row}
       /\ ask' = [ask EXCEPT ![q] = Done(@, IF row \in named THEN 500 ELSE 201)]
  /\ UNCHANGED <<watched, active>>

\* watch and unwatch find only suppliers that are active: 404 otherwise.
BeginWatch(q) ==
  /\ ask[q].phase = "idle"
  /\ \E s \in Watchable :
       Begins(q, "watch", s, IF s \in active THEN 0 ELSE 404, s \in watched)
  /\ UNCHANGED <<named, watched, active>>

\* The DELETE takes the entry it finds.
BeginUnwatch(q) ==
  /\ ask[q].phase = "idle"
  /\ \E s \in Watchable :
       Begins(q, "unwatch", s, IF s \in active THEN 0 ELSE 404, s \in watched)
  /\ UNCHANGED <<named, watched, active>>

\* What q has done crosses the requests of the other kind for this supplier.
Crossing(q, status) ==
  [p \in Askers |->
     IF p = q THEN Done(ask[p], status)
     ELSE IF /\ ask[p].key = ask[q].key
             /\ ask[p].what \in {"watch", "unwatch"} \ {ask[q].what}
          THEN Crossed(ask[p]) ELSE ask[p]]

CommitWatch(q) ==
  /\ ask[q].phase = "begun" /\ ask[q].what = "watch"
  /\ IF ~ask[q].found /\ ask[q].key \in watched
     THEN /\ ask' = [ask EXCEPT ![q] = Done(@, 500)]
          /\ UNCHANGED watched
     ELSE /\ watched' = IF ask[q].found THEN watched ELSE watched \cup {ask[q].key}
          /\ ask' = Crossing(q, 201)
  /\ UNCHANGED <<named, active>>

CommitUnwatch(q) ==
  /\ ask[q].phase = "begun" /\ ask[q].what = "unwatch"
  /\ watched' = IF ask[q].found THEN watched \ {ask[q].key} ELSE watched
  /\ ask' = Crossing(q, 204)
  /\ UNCHANGED <<named, active>>

\* merge_suppliers (Suppliers) leaves the entries where they are.
MergeAway(s) ==
  /\ s \in active /\ active # {s}
  /\ active' = active \ {s}
  /\ UNCHANGED <<named, watched, ask>>

LoseAsk(q) == /\ ask[q].phase = "begun"
              /\ ask' = [ask EXCEPT ![q] = Done(@, 0)]
              /\ UNCHANGED <<named, watched, active>>

WatchNext ==
  \/ \E q \in Askers : \/ BeginCreate(q) \/ CommitCreate(q) \/ BeginWatch(q) \/ CommitWatch(q)
                       \/ BeginUnwatch(q) \/ CommitUnwatch(q) \/ LoseAsk(q)
  \/ \E s \in Watchable : MergeAway(s)

WatchSpec == WatchInit /\ [][WatchNext]_watchVars

\* watched_supplier_ids: what alerts are evaluated for.
WatchedSupplierIds == watched \cap active

----------------------------------------------------------------------------
SetNames == {Normalised[s] : s \in Spellings} \ {NoName}
AskedKeys == Watchable \cup SetNames \cup {NoName}
Request == [phase : {"idle", "begun", "done"},
            what : {"none", "list", "rule", "watch", "unwatch"}, key : AskedKeys,
            found : BOOLEAN, told : {0, 201, 204, 400, 404, 409, 500},
            crossed : BOOLEAN]
WatchTypeOK ==
  /\ named \subseteq {"list", "rule"} \X SetNames
  /\ watched \subseteq Watchable /\ active \subseteq Watchable
  /\ ask \in [Askers -> Request]

(***************************************************************************)
(* Who is told a list or rule was created has its row, and is the only one *)
(* told so of that name, however it is spelt; who is told a supplier is    *)
(* watched, or no longer, is alerted so, unless the opposite was asked for *)
(* meanwhile or later, or the supplier was merged away; and status 500 is  *)
(* only for one whom another overtook (watchlists/service.py:33-51, 76-95, *)
(* notifications/rules.py:66-86).                                          *)
(***************************************************************************)
AskedMeansSet ==
  \A q \in Askers :
    /\ ask[q].told = 201 /\ ask[q].what \in {"list", "rule"} =>
         /\ <<ask[q].what, ask[q].key>> \in named /\ ask[q].key # NoName
         /\ \A p \in Askers \ {q} : ask[p].told = 201 =>
              <<ask[p].what, ask[p].key>> # <<ask[q].what, ask[q].key>>
    /\ ask[q].told = 201 /\ ask[q].what = "watch" /\ ~ask[q].crossed =>
         ask[q].key \in WatchedSupplierIds \cup (Watchable \ active)
    /\ ask[q].told = 204 /\ ~ask[q].crossed => ask[q].key \notin WatchedSupplierIds
    /\ ask[q].told = 500 => \E p \in Askers \ {q} : /\ ask[p].told = 201
                                                    /\ ask[p].what = ask[q].what
                                                    /\ ask[p].key = ask[q].key
=============================================================================
