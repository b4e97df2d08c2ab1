------------------------------- MODULE Access -------------------------------
(***************************************************************************)
(* Accounts, sessions and invitations: src/shared/procuresignal/auth, as   *)
(* the authentication endpoints drive it, and the check of every request's *)
(* access token (src/api/dependencies.py).                                 *)
(*                                                                         *)
(* A request reads what it needs, later flushes and commits; requests of   *)
(* one account overlap and fail.  A sign-in begins a family of refresh     *)
(* tokens, each traded in for the next; access tokens carry the version of *)
(* the account they were made for and are checked against the account.     *)
(* An expired token is refused, which changes nothing; passwords and roles *)
(* are left out.                                                           *)
(***************************************************************************)
EXTENDS Integers, FiniteSets, Sequences

CONSTANTS Addresses,
          Offers,      \* organization_invitations that may come to be
          Requests,
          TokenBound,  \* bound: refresh tokens
          EndBound     \* bound: requests to end all sessions

ASSUME AccessAssumption == TokenBound \in Nat /\ EndBound \in Nat /\ IsFiniteSet(Requests)

NoOffer == "no offer"

ASSUME NamesAssumption == NoOffer \notin Offers /\ "none" \notin Addresses

VARIABLES
  account,  \* users: whether there is one, token_version, the invitation it joined by
  offer,    \* invitations: the address each is for, and whether it is accepted
  tokens,   \* refresh_tokens, in id order; session is the sign-in a token goes back
            \* to, outlived that a revocation was to end it and did not, late that
            \* the request that inserted it overlapped such a revocation
  access,   \* access tokens that were handed out
  ends,     \* how often each account has ended all its sessions
  request   \* the requests under way

accessVars == <<account, offer, tokens, access, ends, request>>

Nothing == [phase |-> "idle", user |-> "none", offer |-> NoOffer, token |-> 0, family |-> 0,
            session |-> 0, version |-> 0, since |-> 0, doomed |-> {}, late |-> FALSE]

AccessInit ==
  /\ account = [u \in Addresses |-> [exists |-> FALSE, version |-> 0, via |-> NoOffer]]
  /\ offer = [o \in Offers |-> [to |-> "none", accepted |-> FALSE]]
  /\ tokens = <<>>
  /\ access = {}
  /\ ends = [u \in Addresses |-> 0]
  /\ request = [q \in Requests |-> Nothing]

\* create_invitation: to an address that may have an account, or other offers.
Invite == /\ \E o \in Offers, u \in Addresses :
               /\ offer[o].to = "none"
               /\ offer' = [offer EXCEPT ![o].to = u]
          /\ UNCHANGED <<account, tokens, access, ends, request>>

\* Mutant of Redeemable: it is not bound to the address.
RedeemableByAnybody(o, u) == offer[o].to # "none" /\ ~offer[o].accepted

\* _redeem_invitation
Redeemable(o, u) == offer[o].to = u /\ ~offer[o].accepted

\* register: the address is free, the invitation, if any, is good.
BeginRegister(q) ==
  /\ request[q].phase = "idle"
  /\ \E u \in Addresses, o \in Offers \cup {NoOffer} :
       /\ ~account[u].exists
       /\ o # NoOffer => Redeemable(o, u)
       /\ request' = [request EXCEPT ![q] = [Nothing EXCEPT !.phase = "register",
                                                            !.user = u, !.offer = o]]
  /\ UNCHANGED <<account, offer, tokens, access, ends>>

\* Whether r is ending sessions of the account, or this one, at the moment.
Covers(r, user, session) ==
  \/ request[r].phase = "ending" /\ request[r].user = user
  \/ request[r].phase = "replay" /\ request[r].session = session

\* A request that is to hand out a pair of tokens.
Issuing(phase, user, token, family, session) ==
  [Nothing EXCEPT !.phase = phase, !.user = user, !.token = token, !.family = family,
                  !.session = session, !.version = account[user].version, !.since = ends[user],
                  !.late = \E r \in Requests : Covers(r, user, session)]

\* authenticate
BeginLogin(q) ==
  /\ request[q].phase = "idle"
  /\ \E u \in Addresses : /\ account[u].exists
                          /\ request' = [request EXCEPT ![q] = Issuing("issue", u, 0, 0, 0)]
  /\ UNCHANGED <<account, offer, tokens, access, ends>>

\* rotate_refresh_token finds a token that is live.
BeginRotate(q) ==
  /\ request[q].phase = "idle"
  /\ \E i \in DOMAIN tokens :
       /\ tokens[i].live
       /\ request' = [request EXCEPT ![q] =
                        Issuing("issue", tokens[i].user, i, tokens[i].family, tokens[i].session)]
  /\ UNCHANGED <<account, offer, tokens, access, ends>>

\* Mutant of NextToken: each is a family of its own.
NextTokenUnrelated(r) ==
  LET first == Len(tokens) + 1
  IN [user |-> r.user, family |-> first, session |-> IF r.session = 0 THEN first ELSE r.session,
      live |-> TRUE, outlived |-> FALSE, late |-> r.late]

\* _issue
NextToken(r) ==
  LET first == Len(tokens) + 1
  IN [user |-> r.user, family |-> IF r.family = 0 THEN first ELSE r.family,
      session |-> IF r.session = 0 THEN first ELSE r.session,
      live |-> TRUE, outlived |-> FALSE, late |-> r.late]

Handed(r) == [user |-> r.user, version |-> r.version, since |-> r.since]

\* Flush and commit: the insertion fails when the address has been taken since.
CommitRegister(q) ==
  /\ request[q].phase = "register" /\ ~account[request[q].user].exists
  /\ Len(tokens) < TokenBound
  /\ LET r == request[q]
     IN /\ account' = [account EXCEPT ![r.user].exists = TRUE, ![r.user].via = r.offer]
        /\ offer' = [o \in Offers |-> IF o = r.offer THEN [offer[o] EXCEPT !.accepted = TRUE]
                                      ELSE offer[o]]
        /\ tokens' = Append(tokens, NextToken(r))
        /\ access' = access \cup {Handed(r)}
  /\ request' = [request EXCEPT ![q] = Nothing]
  /\ UNCHANGED ends

\* The token that was traded in is revoked, whatever has become of it.
CommitIssue(q) ==
  /\ request[q].phase = "issue"
  /\ Len(tokens) < TokenBound
  /\ LET r == request[q]
         kept == [i \in DOMAIN tokens |-> IF i = r.token THEN [tokens[i] EXCEPT !.live = FALSE]
                                          ELSE tokens[i]]
     IN /\ tokens' = Append(kept, NextToken(r))
        /\ access' = access \cup {Handed(r)}
  /\ request' = [request EXCEPT ![q] = Nothing]
  /\ UNCHANGED <<account, offer, ends>>

\* The statement of a revocation, that sees the live tokens and overtakes the
\* requests it covers.
Revoking(q, r, doomed) ==
  request' = [p \in Requests |->
    IF p = q THEN [r EXCEPT !.doomed = {i \in doomed : tokens[i].live}]
    ELSE IF request[p].phase = "issue" /\ (\/ r.phase = "ending" /\ request[p].user = r.user
                                           \/ r.phase = "replay" /\ request[p].session = r.session)
         THEN [request[p] EXCEPT !.late = TRUE]
    ELSE request[p]]

\* A token that was traded in is presented again: revoke_family.
Replay(q) ==
  /\ request[q].phase = "idle"
  /\ \E i \in DOMAIN tokens :
       /\ ~tokens[i].live
       /\ Revoking(q, [Nothing EXCEPT !.phase = "replay", !.user = tokens[i].user,
                                      !.session = tokens[i].session],
                   {j \in DOMAIN tokens : tokens[j].family = tokens[i].family})
  /\ UNCHANGED <<account, offer, tokens, access, ends>>

\* resolve_access_token
Accepted(t) == account[t.user].exists /\ t.version = account[t.user].version

\* revoke_all_sessions, for the bearer of an access token.
EndAll(q) ==
  /\ request[q].phase = "idle"
  /\ \E t \in access :
       /\ Accepted(t) /\ ends[t.user] < EndBound
       /\ Revoking(q, [Nothing EXCEPT !.phase = "ending", !.user = t.user,
                                      !.version = account[t.user].version],
                   {j \in DOMAIN tokens : tokens[j].user = t.user})
  /\ UNCHANGED <<account, offer, tokens, access, ends>>

\* logout: revoke_token, of the one token.
Logout(q) ==
  /\ request[q].phase = "idle"
  /\ \E i \in DOMAIN tokens :
       /\ tokens[i].live
       /\ request' = [request EXCEPT ![q] = [Nothing EXCEPT !.phase = "logout", !.doomed = {i}]]
  /\ UNCHANGED <<account, offer, tokens, access, ends>>

\* What the revocation covers and was not there for its statement outlives it.
Revoked(q) ==
  [i \in DOMAIN tokens |->
     IF i \in request[q].doomed THEN [tokens[i] EXCEPT !.live = FALSE]
     ELSE [tokens[i] EXCEPT !.outlived = @ \/ Covers(q, tokens[i].user, tokens[i].session)]]

CommitRevocation(q) ==
  /\ request[q].phase \in {"replay", "logout"}
  /\ tokens' = Revoked(q)
  /\ request' = [request EXCEPT ![q] = Nothing]
  /\ UNCHANGED <<account, offer, access, ends>>

\* token_version is incremented by the database.
CommitEndAll(q) ==
  /\ request[q].phase = "ending"
  /\ tokens' = Revoked(q)
  /\ account' = [account EXCEPT ![request[q].user].version = @ + 1]
  /\ ends' = [ends EXCEPT ![request[q].user] = @ + 1]
  /\ request' = [request EXCEPT ![q] = Nothing]
  /\ UNCHANGED <<offer, access>>

LoseRequest(q) == /\ request[q].phase # "idle"
                  /\ request' = [request EXCEPT ![q] = Nothing]
                  /\ UNCHANGED <<account, offer, tokens, access, ends>>

AccessNext ==
  \/ Invite
  \/ \E q \in Requests : \/ BeginRegister(q) \/ BeginLogin(q) \/ BeginRotate(q)
                         \/ CommitRegister(q) \/ CommitIssue(q)
                         \/ Replay(q) \/ EndAll(q) \/ Logout(q)
                         \/ CommitRevocation(q) \/ CommitEndAll(q) \/ LoseRequest(q)

AccessSpec == AccessInit /\ [][AccessNext]_accessVars

----------------------------------------------------------------------------
AccessTypeOK ==
  /\ account \in [Addresses -> [exists : BOOLEAN, version : 0..(EndBound + Cardinality(Requests)),
                                via : Offers \cup {NoOffer}]]
  /\ offer \in [Offers -> [to : Addresses \cup {"none"}, accepted : BOOLEAN]]
  /\ \A i \in DOMAIN tokens : /\ tokens[i].user \in Addresses
                              /\ tokens[i].family \in 1..i /\ tokens[i].session \in 1..i
  /\ \A q \in Requests : request[q].phase \in {"idle", "register", "issue", "replay",
                                                "ending", "logout"}

(***************************************************************************)
(* What is to end sessions ends them.  Once a token is seen twice, or all  *)
(* sessions are ended, nothing issued before lives on: no refresh token of *)
(* that sign-in, or of that account, but what a request that overlapped    *)
(* the revocation inserted, and no access token at all, although ends,     *)
(* rotations and sign-ins overlap (auth/service.py:328-330, 403-406).      *)
(***************************************************************************)
SessionsEnd ==
  /\ \A i \in DOMAIN tokens : tokens[i].live /\ tokens[i].outlived => tokens[i].late
  /\ \A t \in access : Accepted(t) => t.since = ends[t.user]

(***************************************************************************)
(* However registrations race, an invitation that is accepted has brought  *)
(* in one account, that of its address, and one that is not, none          *)
(* (auth/service.py:158-185).                                              *)
(***************************************************************************)
InvitationsGiveOneAccount ==
  \A o \in Offers :
    {u \in Addresses : account[u].via = o} = IF offer[o].accepted THEN {offer[o].to} ELSE {}
=============================================================================
