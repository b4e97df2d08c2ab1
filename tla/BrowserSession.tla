---------------------------- MODULE BrowserSession ----------------------------
(***************************************************************************)
(* The browser's side of a sign-in (src/frontend/lib/auth.ts): tabs with   *)
(* an access token of their own and one refresh cookie, whose token the    *)
(* server changes with every refresh and takes for stolen when it is       *)
(* presented twice.                                                        *)
(*                                                                         *)
(* The server is as Access has it, one request after the other here: a     *)
(* race of two rotations in it issues two tokens instead of revoking any.  *)
(* Network: an answer may be lost, and answers come in any order.          *)
(***************************************************************************)
EXTENDS Integers

CONSTANTS Pages,       \* tabs of the browser
          Calls,       \* requests a tab has under way at once
          ExpiryBound, \* access tokens that expire, at most
          ReloadBound  \* times a tab is reloaded, at most

ASSUME BrowserAssumption == ExpiryBound \in Nat /\ ReloadBound \in Nat

VARIABLES
  cookie,   \* the refresh token in the browser's cookie; 0: none
  live,     \* the server's: the one that is not revoked; 0: none
  issued,   \* refresh tokens of this sign-in so far
  page,     \* each tab: its access token and its requests
  refresh,  \* each tab's inFlightRefresh
  excuse,   \* why the server may take a token for stolen
  revoked,  \* it did: the family is revoked
  budget    \* expiries and reloads left

browserVars == <<cookie, live, issued, page, refresh, excuse, revoked, budget>>

NoRefresh == [at |-> "none", token |-> 0]
FreshPage == [access |-> "loading", call |-> [c \in Calls |-> "idle"]]

\* Signed in, by the first tab; the others are opened, and load, then.
BrowserInit ==
  /\ cookie = 1 /\ live = 1 /\ issued = 1
  /\ \E p \in Pages :
       page = [[q \in Pages |-> FreshPage] EXCEPT ![p].access = "good"]
  /\ refresh = [p \in Pages |-> NoRefresh]
  /\ excuse = {} /\ revoked = FALSE
  /\ budget = [expiries |-> ExpiryBound, reloads |-> ReloadBound]

\* Mutant of Refreshing: every caller sends its own; the last answer counts.
RefreshingAlone(p) ==
  /\ refresh' = [refresh EXCEPT ![p] = [at |-> "asking", token |-> cookie]]
  /\ excuse' = excuse \cup {"tabs crossed" : q \in {q \in Pages \ {p} : refresh[q].at # "none"}}

\* refreshSession: callers of one tab share one request.
Refreshing(p) ==
  IF refresh[p].at # "none" THEN UNCHANGED <<refresh, excuse>>
  ELSE /\ refresh' = [refresh EXCEPT ![p] = [at |-> "asking", token |-> cookie]]
       /\ excuse' = excuse \cup
            {"tabs crossed" : q \in {q \in Pages : refresh[q].at # "none"}}

----------------------------------------------------------------------------
\* restoreSession, once in a tab that is loaded.
Restore(p) ==
  /\ page[p].access = "loading" /\ refresh[p].at = "none"
  /\ Refreshing(p)
  /\ UNCHANGED <<cookie, live, issued, page, revoked, budget>>

Call(p, c) ==
  /\ page[p].call[c] = "idle" /\ page[p].access \in {"good", "expired"}
  /\ page' = [page EXCEPT ![p].call[c] = IF page[p].access = "good" THEN "sent"
                                         ELSE "unauthorized"]
  /\ UNCHANGED <<cookie, live, issued, refresh, excuse, revoked, budget>>

Answered(p, c) ==
  /\ page[p].call[c] \in {"sent", "resent"}
  /\ page' = [page EXCEPT ![p].call[c] = "idle"]
  /\ UNCHANGED <<cookie, live, issued, refresh, excuse, revoked, budget>>

\* The first 401 of a request starts a refresh, or waits for the one there is;
\* a second one is handed to the caller (it is Answered).
Unauthorized(p, c) ==
  /\ page[p].call[c] = "unauthorized"
  /\ page' = [page EXCEPT ![p].call[c] = "waiting"]
  /\ Refreshing(p)
  /\ UNCHANGED <<cookie, live, issued, revoked, budget>>

\* The access token expires; requests with it are answered 401.
Expire(p) ==
  /\ page[p].access = "good" /\ budget.expiries > 0
  /\ page' = [page EXCEPT ![p] =
                [access |-> "expired",
                 call |-> [c \in Calls |-> IF page[p].call[c] = "sent" THEN "unauthorized"
                                           ELSE page[p].call[c]]]]
  /\ budget' = [budget EXCEPT !.expiries = @ - 1]
  /\ UNCHANGED <<cookie, live, issued, refresh, excuse, revoked>>

\* rotate_refresh_token: the live token is replaced; one that was revoked takes
\* the family with it.
Rotate(p) ==
  /\ refresh[p].at = "asking"
  /\ IF refresh[p].token = live /\ live # 0
     THEN /\ live' = issued + 1 /\ issued' = issued + 1
          /\ refresh' = [refresh EXCEPT ![p] = [at |-> "rotated", token |-> issued + 1]]
          /\ UNCHANGED revoked
     ELSE /\ live' = IF refresh[p].token = 0 THEN live ELSE 0
          /\ revoked' = (revoked \/ refresh[p].token # 0)
          /\ refresh' = [refresh EXCEPT ![p].at = "refused"]
          /\ UNCHANGED issued
  /\ UNCHANGED <<cookie, page, excuse, budget>>

\* What follows a refresh: the requests that waited are sent again, or fail.
Resumed(p, access) ==
  page' = [page EXCEPT ![p] =
             [access |-> access,
              call |-> [c \in Calls |-> IF page[p].call[c] # "waiting" THEN page[p].call[c]
                                        ELSE IF access = "good" THEN "resent" ELSE "idle"]]]

\* The cookie comes with the answer.
Refreshed(p) ==
  /\ refresh[p].at = "rotated"
  /\ cookie' = refresh[p].token
  /\ refresh' = [refresh EXCEPT ![p] = NoRefresh]
  /\ Resumed(p, "good")
  /\ UNCHANGED <<live, issued, excuse, revoked, budget>>

\* 401, or the request or its answer is lost; the cookie stays.
RefreshFails(p) ==
  /\ refresh[p].at # "none"
  /\ excuse' = excuse \cup {"answer lost" : r \in {r \in {"rotated"} : refresh[p].at = r}}
  /\ refresh' = [refresh EXCEPT ![p] = NoRefresh]
  /\ Resumed(p, "none")
  /\ UNCHANGED <<cookie, live, issued, revoked, budget>>

\* A reload forgets the token, and an answer that is under way.
Reload(p) ==
  /\ budget.reloads > 0 /\ refresh[p].at # "asking"
  /\ excuse' = excuse \cup {"answer lost" : r \in {r \in {"rotated"} : refresh[p].at = r}}
  /\ page' = [page EXCEPT ![p] = FreshPage]
  /\ refresh' = [refresh EXCEPT ![p] = NoRefresh]
  /\ budget' = [budget EXCEPT !.reloads = @ - 1]
  /\ UNCHANGED <<cookie, live, issued, revoked>>

\* logout: the cookie's token is revoked, cookie and access token are gone,
\* though not those of a refresh under way.
Leaves(p) ==
  /\ page[p].access \in {"good", "expired"}
  /\ \/ live' = (IF live = cookie THEN 0 ELSE live) /\ cookie' = 0
     \/ UNCHANGED <<live, cookie>>  \* the request is lost
  /\ page' = [page EXCEPT ![p].access = "none"]
  /\ excuse' = excuse \cup {"signed out"}
  /\ UNCHANGED <<issued, refresh, revoked, budget>>

BrowserNext ==
  \E p \in Pages : \/ Restore(p) \/ Expire(p) \/ Rotate(p) \/ Refreshed(p)
                   \/ RefreshFails(p) \/ Reload(p) \/ Leaves(p)
                   \/ \E c \in Calls : Call(p, c) \/ Answered(p, c) \/ Unauthorized(p, c)

BrowserSpec == BrowserInit /\ [][BrowserNext]_browserVars

----------------------------------------------------------------------------
PageState == [access : {"loading", "none", "good", "expired"},
              call : [Calls -> {"idle", "sent", "unauthorized", "waiting", "resent"}]]
RefreshState == [at : {"none", "asking", "rotated", "refused"}, token : Nat]
BudgetState == [expiries : 0..ExpiryBound, reloads : 0..ReloadBound]

BrowserTypeOK ==
  /\ cookie \in Nat /\ live \in Nat /\ issued \in Nat
  /\ page \in [Pages -> PageState]
  /\ refresh \in [Pages -> RefreshState]
  /\ excuse \subseteq {"tabs crossed", "answer lost", "signed out"} /\ revoked \in BOOLEAN
  /\ budget \in BudgetState

(***************************************************************************)
(* Nobody is signed out for behaving normally (auth.ts:45-47): the server  *)
(* sees a token twice only when the answer that replaced it was lost, when *)
(* two tabs, which share the cookie but not the promise, refresh at once,  *)
(* or after a logout; whatever a single tab sends in parallel, however     *)
(* often its tokens expire and it is reloaded.  No request waits for a     *)
(* refresh that is not under way.                                          *)
(***************************************************************************)
NormalUseStaysSignedIn ==
  /\ revoked => excuse # {}
  /\ excuse = {} => \/ live = cookie
                    \/ \E p \in Pages : refresh[p] = [at |-> "rotated", token |-> live]
  /\ \A p \in Pages : (\E c \in Calls : page[p].call[c] = "waiting") => refresh[p].at # "none"
=============================================================================
