----------------------------- MODULE AccessProofs -----------------------------
(***************************************************************************)
(* Who may do what, for every number of accounts, invitations, requests,   *)
(* tabs and erasures: what is to end sessions ends them, and an invitation *)
(* brings in one account; a browser in normal use stays signed in; no more *)
(* attempts than the limit are let through in a window; and who is erased  *)
(* is gone.                                                                *)
(***************************************************************************)
EXTENDS Access, BrowserSession, RateLimit, Erasure, SequenceTheorems, DataProofs

(***************************************************************************)
(* Accounts, sessions and invitations.                                     *)
(***************************************************************************)

Token == [user : Addresses, family : Nat \ {0}, session : Nat \ {0}, live : BOOLEAN,
          outlived : BOOLEAN, late : BOOLEAN]

Doing == [phase : {"idle", "register", "issue", "replay", "ending", "logout"},
          user : Addresses \cup {"none"}, offer : Offers \cup {NoOffer}, token : Nat,
          family : Nat, session : Nat, version : Nat, since : Nat, doomed : SUBSET Nat,
          late : BOOLEAN]

RequestsOK == /\ request \in [Requests -> Doing]
              /\ \A q \in Requests : request[q].phase \in {"register", "issue", "ending"}
                                       => request[q].user \in Addresses

RecordsOK ==
  /\ account \in [Addresses -> [exists : BOOLEAN, version : Nat, via : Offers \cup {NoOffer}]]
  /\ offer \in [Offers -> [to : Addresses \cup {"none"}, accepted : BOOLEAN]]
  /\ access \subseteq [user : Addresses, version : Nat, since : Nat]
  /\ ends \in [Addresses -> Nat]

AccessTypes == RecordsOK /\ tokens \in Seq(Token) /\ RequestsOK

\* An account has ended its sessions as often as its version says, and a pair
\* of tokens, handed out or on the way, knows one exactly if it knows the other.
VersionCounts ==
  /\ \A u \in Addresses : account[u].version = ends[u]
  /\ \A t \in access : t.version = t.since
  /\ \A q \in Requests : request[q].version = request[q].since \/ request[q].phase = "ending"

\* A family is a sign-in; a token belongs to an account, and to one of the past.
FamilyIsSession ==
  /\ \A i \in DOMAIN tokens : /\ tokens[i].family = tokens[i].session
                              /\ tokens[i].session <= Len(tokens)
                              /\ account[tokens[i].user].exists
  /\ \A q \in Requests :
       /\ request[q].session <= Len(tokens)
       /\ request[q].phase \in {"register", "issue"} => request[q].family = request[q].session
       /\ request[q].phase = "replay" => request[q].session # 0
       /\ request[q].phase = "register" => request[q].session = 0
       /\ request[q].phase = "ending" => account[request[q].user].exists
       /\ request[q].phase = "issue" => account[request[q].user].exists

\* What a revocation under way covers it has seen, or it will be late.
NothingEscapes ==
  \A q \in Requests :
    /\ \A i \in DOMAIN tokens :
         tokens[i].live /\ Covers(q, tokens[i].user, tokens[i].session)
           => i \in request[q].doomed \/ tokens[i].late
    /\ \A p \in Requests :
         request[p].phase = "issue" /\ Covers(q, request[p].user, request[p].session)
           => request[p].late

OutlivedIsLate == \A i \in DOMAIN tokens : tokens[i].live /\ tokens[i].outlived => tokens[i].late

\* Who has an invitation in hand is its addressee, and who joined by one
\* accepted it.
OffersAreBound ==
  /\ \A q \in Requests : request[q].phase = "register" /\ request[q].offer # NoOffer
                           => offer[request[q].offer].to = request[q].user
  /\ \A u \in Addresses : /\ account[u].via # NoOffer =>
                               /\ account[u].exists
                               /\ offer[account[u].via].accepted
                               /\ offer[account[u].via].to = u
  /\ \A o \in Offers : offer[o].accepted => /\ offer[o].to \in Addresses
                                            /\ account[offer[o].to].via = o

SessionInv == AccessTypes /\ VersionCounts /\ FamilyIsSession /\ NothingEscapes /\ OutlivedIsLate
AccessInv == SessionInv /\ OffersAreBound

----------------------------------------------------------------------------
\* What a request becomes has its type.
LEMMA Doings ==
  ASSUME AccessTypes, NEW u \in Addresses, NEW o \in Offers \cup {NoOffer}
  PROVE  /\ Nothing \in Doing
         /\ [Nothing EXCEPT !.phase = "register", !.user = u, !.offer = o] \in Doing
         /\ \A i, f, n \in Nat : Issuing("issue", u, i, f, n) \in Doing
         /\ \A n \in Nat : [Nothing EXCEPT !.phase = "replay", !.user = u, !.session = n] \in Doing
         /\ \A n \in Nat : [Nothing EXCEPT !.phase = "ending", !.user = u, !.version = n] \in Doing
         /\ \A i \in Nat : [Nothing EXCEPT !.phase = "logout", !.doomed = {i}] \in Doing
<1>1. account[u].version \in Nat /\ ends[u] \in Nat
  BY DEF AccessTypes, RecordsOK
<1>2. QED BY ZenonT(30), <1>1 DEF Nothing, Doing, Issuing

\* Tokens are numbered, and a token that is inserted has its type.
LEMMA TokensNumbered ==
  ASSUME AccessTypes
  PROVE  /\ Len(tokens) \in Nat /\ DOMAIN tokens = 1..Len(tokens)
         /\ \A i \in DOMAIN tokens : tokens[i] \in Token /\ i \in Nat
  BY DEF AccessTypes

LEMMA NextTokenType ==
  ASSUME AccessTypes, NEW q \in Requests, request[q].phase \in {"register", "issue"}
  PROVE  /\ NextToken(request[q]) \in Token
         /\ Handed(request[q]) \in [user : Addresses, version : Nat, since : Nat]
<1>1. request[q] \in Doing /\ request[q].user \in Addresses /\ Len(tokens) \in Nat
  BY DEF AccessTypes, RequestsOK
<1>2. QED BY <1>1 DEF NextToken, Token, Doing, Handed

\* A request that becomes something else, or nothing, leaves the others alone.
LEMMA RequestBecomes ==
  ASSUME RequestsOK, NEW q \in Requests, NEW d \in Doing,
         d.phase \in {"register", "issue", "ending"} => d.user \in Addresses,
         request' = [request EXCEPT ![q] = d]
  PROVE  RequestsOK'
  BY DEF RequestsOK

\* The statement of a revocation.
LEMMA RevokingType ==
  ASSUME AccessTypes, NEW q \in Requests, NEW r \in Doing, NEW D \in SUBSET Nat,
         r.phase \in {"replay", "ending"}, r.phase = "ending" => r.user \in Addresses,
         request' = [p \in Requests |->
           IF p = q THEN [r EXCEPT !.doomed = D]
           ELSE IF request[p].phase = "issue" /\ (\/ r.phase = "ending" /\ request[p].user = r.user
                                                  \/ r.phase = "replay" /\ request[p].session = r.session)
                THEN [request[p] EXCEPT !.late = TRUE]
           ELSE request[p]]
  PROVE  RequestsOK'
<1>1. ASSUME NEW p \in Requests
      PROVE  /\ request'[p] \in Doing
             /\ request'[p].phase \in {"register", "issue", "ending"} => request'[p].user \in Addresses
  <2>1. CASE p = q
    BY <2>1 DEF Doing
  <2>2. CASE p # q
    BY <2>2 DEF AccessTypes, RequestsOK, Doing
  <2>3. QED BY <2>1, <2>2
<1>2. QED BY <1>1 DEF RequestsOK

LEMMA RevokedType ==
  ASSUME AccessTypes, NEW q \in Requests PROVE Revoked(q) \in Seq(Token)
<1>1. \A i \in DOMAIN tokens : Revoked(q)[i] \in Token
  BY TokensNumbered DEF Revoked, Token, Covers
<1>2. DOMAIN Revoked(q) = 1..Len(tokens) /\ Len(tokens) \in Nat
  BY TokensNumbered DEF Revoked
<1>3. QED BY <1>1, <1>2, TokensNumbered DEF Revoked

LEMMA AccessTypesStep == ASSUME AccessTypes, AccessNext PROVE AccessTypes'
<1> USE DEF AccessTypes
<1>1. CASE Invite
  BY <1>1 DEF Invite, RecordsOK, RequestsOK
<1>2. ASSUME NEW q \in Requests, BeginRegister(q) PROVE AccessTypes'
  <2>1. PICK u \in Addresses, o \in Offers \cup {NoOffer} :
          request' = [request EXCEPT ![q] = [Nothing EXCEPT !.phase = "register",
                                                            !.user = u, !.offer = o]]
    BY <1>2 DEF BeginRegister
  <2>2. RequestsOK'
    BY <2>1, Doings, RequestBecomes DEF Nothing
  <2>3. QED BY <1>2, <2>2 DEF BeginRegister, RecordsOK
<1>3. ASSUME NEW q \in Requests, BeginLogin(q) PROVE AccessTypes'
  <2>1. PICK u \in Addresses : request' = [request EXCEPT ![q] = Issuing("issue", u, 0, 0, 0)]
    BY <1>3 DEF BeginLogin
  <2>2. Issuing("issue", u, 0, 0, 0) \in Doing /\ Issuing("issue", u, 0, 0, 0).user = u
    BY Doings DEF Issuing, Nothing
  <2>3. RequestsOK'
    BY <2>1, <2>2, RequestBecomes
  <2>4. QED BY <1>3, <2>3 DEF BeginLogin, RecordsOK
<1>4. ASSUME NEW q \in Requests, BeginRotate(q) PROVE AccessTypes'
  <2>1. PICK i \in DOMAIN tokens : request' = [request EXCEPT ![q] =
          Issuing("issue", tokens[i].user, i, tokens[i].family, tokens[i].session)]
    BY <1>4 DEF BeginRotate
  <2> DEFINE d == Issuing("issue", tokens[i].user, i, tokens[i].family, tokens[i].session)
  <2>2. tokens[i] \in Token /\ i \in Nat
    BY TokensNumbered
  <2>3. d \in Doing /\ d.user \in Addresses
    BY ZenonT(30), <2>2, Doings DEF Issuing, Nothing, Token
  <2>4. RequestsOK'
    BY <2>1, <2>3, RequestBecomes
  <2>5. QED BY <1>4, <2>4 DEF BeginRotate, RecordsOK
<1>5. ASSUME NEW q \in Requests, CommitRegister(q) PROVE AccessTypes'
  <2>1. NextToken(request[q]) \in Token /\ Handed(request[q]) \in [user : Addresses, version : Nat, since : Nat]
    BY <1>5, NextTokenType DEF CommitRegister
  <2>2. request[q] \in Doing /\ request[q].user \in Addresses
    BY <1>5 DEF CommitRegister, RequestsOK
  <2>3. RecordsOK'
    <3>1. request[q].offer \in Offers \cup {NoOffer}
      BY <2>2 DEF Doing
    <3>2. account' = [account EXCEPT ![request[q].user].exists = TRUE,
                                     ![request[q].user].via = request[q].offer]
      BY <1>5 DEF CommitRegister
    <3>3. account' \in [Addresses -> [exists : BOOLEAN, version : Nat, via : Offers \cup {NoOffer}]]
      BY ZenonT(30), <2>2, <3>1, <3>2 DEF RecordsOK
    <3>4. offer' \in [Offers -> [to : Addresses \cup {"none"}, accepted : BOOLEAN]]
      BY <1>5 DEF CommitRegister, RecordsOK
    <3>5. QED BY <1>5, <2>1, <3>3, <3>4 DEF CommitRegister, RecordsOK
  <2>4. RequestsOK'
    BY <1>5, <2>2, Doings, RequestBecomes DEF CommitRegister, Nothing
  <2>5. QED BY <1>5, <2>1, <2>3, <2>4 DEF CommitRegister
<1>6. ASSUME NEW q \in Requests, CommitIssue(q) PROVE AccessTypes'
  <2>1. NextToken(request[q]) \in Token /\ Handed(request[q]) \in [user : Addresses, version : Nat, since : Nat]
    BY <1>6, NextTokenType DEF CommitIssue
  <2>2. RequestsOK'
    BY <1>6, Doings, RequestBecomes DEF CommitIssue, Nothing, RequestsOK
  <2> DEFINE kept == [i \in DOMAIN tokens |-> IF i = request[q].token THEN [tokens[i] EXCEPT !.live = FALSE]
                                              ELSE tokens[i]]
  <2>3. kept \in Seq(Token)
    <3>1. \A i \in DOMAIN tokens : kept[i] \in Token
      BY TokensNumbered DEF Token
    <3>2. DOMAIN kept = 1..Len(tokens) /\ Len(tokens) \in Nat
      BY TokensNumbered
    <3>3. QED BY <3>1, <3>2, TokensNumbered
  <2>4. tokens' = Append(kept, NextToken(request[q]))
    BY <1>6 DEF CommitIssue
  <2>5. tokens' \in Seq(Token)
    <3> HIDE DEF kept
    <3> QED BY <2>1, <2>3, <2>4
  <2>6. QED BY <1>6, <2>1, <2>2, <2>5 DEF CommitIssue, RecordsOK
<1>7. ASSUME NEW q \in Requests, Replay(q) PROVE AccessTypes'
  <2>1. PICK i \in DOMAIN tokens :
          Revoking(q, [Nothing EXCEPT !.phase = "replay", !.user = tokens[i].user,
                                      !.session = tokens[i].session],
                   {j \in DOMAIN tokens : tokens[j].family = tokens[i].family})
    BY <1>7 DEF Replay
  <2> DEFINE r == [Nothing EXCEPT !.phase = "replay", !.user = tokens[i].user,
                                  !.session = tokens[i].session]
             D == {j \in DOMAIN tokens : tokens[j].live /\ tokens[j].family = tokens[i].family}
  <2>2. r \in Doing /\ r.phase = "replay" /\ D \in SUBSET Nat
    BY TokensNumbered, Doings DEF Token, Nothing
  <2>3. RequestsOK'
    <3>1. request' = [p \in Requests |->
           IF p = q THEN [r EXCEPT !.doomed = D]
           ELSE IF request[p].phase = "issue" /\ (\/ r.phase = "ending" /\ request[p].user = r.user
                                                  \/ r.phase = "replay" /\ request[p].session = r.session)
                THEN [request[p] EXCEPT !.late = TRUE]
           ELSE request[p]]
      BY <2>1 DEF Revoking
    <3> HIDE DEF r, D
    <3>2. QED BY <2>2, <3>1, RevokingType
  <2>4. QED BY <1>7, <2>3 DEF Replay, RecordsOK
<1>8. ASSUME NEW q \in Requests, EndAll(q) PROVE AccessTypes'
  <2>1. PICK t \in access :
          Revoking(q, [Nothing EXCEPT !.phase = "ending", !.user = t.user,
                                      !.version = account[t.user].version],
                   {j \in DOMAIN tokens : tokens[j].user = t.user})
    BY <1>8 DEF EndAll
  <2> DEFINE r == [Nothing EXCEPT !.phase = "ending", !.user = t.user,
                                  !.version = account[t.user].version]
             D == {j \in DOMAIN tokens : tokens[j].live /\ tokens[j].user = t.user}
  <2>2. t.user \in Addresses /\ account[t.user].version \in Nat
    BY DEF RecordsOK
  <2>3. r \in Doing /\ r.phase = "ending" /\ r.user \in Addresses /\ D \in SUBSET Nat
    BY <2>2, TokensNumbered, Doings DEF Nothing
  <2>4. RequestsOK'
    <3>1. request' = [p \in Requests |->
           IF p = q THEN [r EXCEPT !.doomed = D]
           ELSE IF request[p].phase = "issue" /\ (\/ r.phase = "ending" /\ request[p].user = r.user
                                                  \/ r.phase = "replay" /\ request[p].session = r.session)
                THEN [request[p] EXCEPT !.late = TRUE]
           ELSE request[p]]
      BY <2>1 DEF Revoking
    <3> HIDE DEF r, D
    <3>2. QED BY <2>3, <3>1, RevokingType
  <2>5. QED BY <1>8, <2>4 DEF EndAll, RecordsOK
<1>9. ASSUME NEW q \in Requests, Logout(q) PROVE AccessTypes'
  <2>1. PICK i \in DOMAIN tokens :
          request' = [request EXCEPT ![q] = [Nothing EXCEPT !.phase = "logout", !.doomed = {i}]]
    BY <1>9 DEF Logout
  <2> DEFINE d == [Nothing EXCEPT !.phase = "logout", !.doomed = {i}]
  <2>2. d \in Doing /\ d.phase = "logout"
    BY TokensNumbered DEF Nothing, Doing
  <2>3. RequestsOK'
    <3> HIDE DEF d
    <3> QED BY <2>1, <2>2, RequestBecomes DEF d
  <2>4. QED BY <1>9, <2>3 DEF Logout, RecordsOK
<1>10. ASSUME NEW q \in Requests, CommitRevocation(q) PROVE AccessTypes'
  <2>1. RequestsOK'
    BY <1>10, RequestBecomes DEF CommitRevocation, Nothing, Doing
  <2>2. QED BY <1>10, <2>1, RevokedType DEF CommitRevocation, RecordsOK
<1>11. ASSUME NEW q \in Requests, CommitEndAll(q) PROVE AccessTypes'
  <2>1. RequestsOK'
    BY <1>11, RequestBecomes DEF CommitEndAll, Nothing, Doing
  <2>2. request[q].user \in Addresses
    BY <1>11 DEF CommitEndAll, RequestsOK
  <2>3. account' \in [Addresses -> [exists : BOOLEAN, version : Nat, via : Offers \cup {NoOffer}]]
    <3> DEFINE u == request[q].user
    <3>1. account' = [account EXCEPT ![u] = [account[u] EXCEPT !.version = @ + 1]]
      BY <1>11 DEF CommitEndAll
    <3>2. account[u] \in [exists : BOOLEAN, version : Nat, via : Offers \cup {NoOffer}]
      BY <2>2 DEF RecordsOK
    <3>3. [account[u] EXCEPT !.version = @ + 1]
            \in [exists : BOOLEAN, version : Nat, via : Offers \cup {NoOffer}]
      <4> DEFINE a == account[u]
      <4>1. a \in [exists : BOOLEAN, version : Nat, via : Offers \cup {NoOffer}]
        BY <3>2
      <4> HIDE DEF a
      <4>2. [a EXCEPT !.version = @ + 1]
              \in [exists : BOOLEAN, version : Nat, via : Offers \cup {NoOffer}]
        BY <4>1
      <4>3. QED BY <4>2 DEF a
    <3>4. QED BY <2>2, <3>1, <3>3 DEF RecordsOK
  <2>4. ends' \in [Addresses -> Nat]
    BY <1>11, <2>2 DEF CommitEndAll, RecordsOK
  <2>5. QED BY <1>11, <2>1, <2>3, <2>4, RevokedType DEF CommitEndAll, RecordsOK
<1>12. ASSUME NEW q \in Requests, LoseRequest(q) PROVE AccessTypes'
  <2>1. RequestsOK'
    BY <1>12, RequestBecomes DEF LoseRequest, Nothing, Doing
  <2>2. QED BY <1>12, <2>1 DEF LoseRequest, RecordsOK
<1>13. QED BY <1>1, <1>2, <1>3, <1>4, <1>5, <1>6, <1>7, <1>8, <1>9, <1>10, <1>11, <1>12
           DEF AccessNext

----------------------------------------------------------------------------
\* To be made late changes nothing else.
LEMMA LateOnly ==
  ASSUME NEW r \in Doing, NEW s, s = r \/ s = [r EXCEPT !.late = TRUE]
  PROVE  /\ s.phase = r.phase /\ s.user = r.user /\ s.offer = r.offer /\ s.token = r.token
         /\ s.family = r.family /\ s.session = r.session
         /\ s.version = r.version /\ s.since = r.since /\ s.doomed = r.doomed
         /\ r.late => s.late
  BY DEF Doing

\* A revocation's statement touches no other request but that it makes late
\* those it covers, and sees every live token it covers.
LEMMA RevocationSees ==
  ASSUME AccessTypes, FamilyIsSession, NEW q \in Requests, Replay(q) \/ EndAll(q)
  PROVE  /\ UNCHANGED <<account, offer, tokens, access, ends>>
         /\ \/ request'[q].phase = "replay" /\ request'[q].version = request'[q].since
                 /\ request'[q].session \in 1..Len(tokens)
            \/ request'[q].phase = "ending" /\ request'[q].session = 0
                 /\ account[request'[q].user].exists
         /\ \A i \in DOMAIN tokens :
              tokens[i].live /\ (\/ request'[q].phase = "ending" /\ tokens[i].user = request'[q].user
                                 \/ request'[q].phase = "replay" /\ tokens[i].session = request'[q].session)
                => i \in request'[q].doomed
         /\ \A p \in Requests \ {q} :
              /\ request'[p].phase = request[p].phase /\ request'[p].user = request[p].user
              /\ request'[p].offer = request[p].offer /\ request'[p].token = request[p].token
              /\ request'[p].family = request[p].family /\ request'[p].session = request[p].session
              /\ request'[p].version = request[p].version /\ request'[p].since = request[p].since
              /\ request'[p].doomed = request[p].doomed
              /\ request[p].late => request'[p].late
              /\ request[p].phase = "issue"
                   /\ (\/ request'[q].phase = "ending" /\ request[p].user = request'[q].user
                       \/ request'[q].phase = "replay" /\ request[p].session = request'[q].session)
                   => request'[p].late
<1>1. ASSUME NEW i \in DOMAIN tokens, NEW r,
             r = [Nothing EXCEPT !.phase = "replay", !.user = tokens[i].user,
                                 !.session = tokens[i].session],
             Revoking(q, r, {j \in DOMAIN tokens : tokens[j].family = tokens[i].family})
      PROVE  /\ request'[q].phase = "replay" /\ request'[q].version = request'[q].since
             /\ request'[q].session = tokens[i].session
             /\ request'[q].doomed = {j \in DOMAIN tokens : tokens[j].live /\ tokens[j].family = tokens[i].family}
             /\ \A p \in Requests \ {q} :
                  request'[p] = IF request[p].phase = "issue" /\ request[p].session = tokens[i].session
                                THEN [request[p] EXCEPT !.late = TRUE] ELSE request[p]
  BY <1>1 DEF Revoking, Nothing
<1>2. ASSUME NEW t \in access, NEW r,
             r = [Nothing EXCEPT !.phase = "ending", !.user = t.user,
                                 !.version = account[t.user].version],
             Revoking(q, r, {j \in DOMAIN tokens : tokens[j].user = t.user})
      PROVE  /\ request'[q].phase = "ending" /\ request'[q].session = 0
             /\ request'[q].user = t.user
             /\ request'[q].doomed = {j \in DOMAIN tokens : tokens[j].live /\ tokens[j].user = t.user}
             /\ \A p \in Requests \ {q} :
                  request'[p] = IF request[p].phase = "issue" /\ request[p].user = t.user
                                THEN [request[p] EXCEPT !.late = TRUE] ELSE request[p]
  BY <1>2 DEF Revoking, Nothing
<1>3. \A p \in Requests : request[p] \in Doing
  BY DEF AccessTypes, RequestsOK
<1>4. CASE Replay(q)
  <2>1. PICK i \in DOMAIN tokens :
          /\ request'[q].phase = "replay" /\ request'[q].version = request'[q].since
          /\ request'[q].session = tokens[i].session
          /\ request'[q].doomed = {j \in DOMAIN tokens : tokens[j].live /\ tokens[j].family = tokens[i].family}
          /\ \A p \in Requests \ {q} :
               request'[p] = IF request[p].phase = "issue" /\ request[p].session = tokens[i].session
                             THEN [request[p] EXCEPT !.late = TRUE] ELSE request[p]
    BY <1>1, <1>4 DEF Replay
  <2>2. tokens[i].session \in 1..Len(tokens)
    BY TokensNumbered DEF FamilyIsSession, Token
  <2>3. \A p \in Requests \ {q} :
          request'[p] = request[p] \/ request'[p] = [request[p] EXCEPT !.late = TRUE]
    BY <2>1
  <2>4. \A p \in Requests \ {q} :
          request[p].phase = "issue" /\ request[p].session = tokens[i].session => request'[p].late
    BY <1>3, <2>1 DEF Doing
  <2>5. \A j \in DOMAIN tokens : tokens[j].live /\ tokens[j].session = tokens[i].session
                                   => j \in request'[q].doomed
    BY <2>1 DEF FamilyIsSession
  <2>6. UNCHANGED <<account, offer, tokens, access, ends>>
    BY <1>4 DEF Replay
  <2>7. \A p \in Requests \ {q} :
          /\ request'[p].phase = request[p].phase /\ request'[p].user = request[p].user
          /\ request'[p].offer = request[p].offer /\ request'[p].token = request[p].token
          /\ request'[p].family = request[p].family /\ request'[p].session = request[p].session
          /\ request'[p].version = request[p].version /\ request'[p].since = request[p].since
          /\ request'[p].doomed = request[p].doomed
          /\ request[p].late => request'[p].late
    <3> TAKE p \in Requests \ {q}
    <3>1. request[p] \in Doing
      BY <1>3
    <3>2. request'[p] = request[p] \/ request'[p] = [request[p] EXCEPT !.late = TRUE]
      BY <2>3
    <3>3. QED BY <3>1, <3>2, LateOnly
  <2>8. QED BY <2>1, <2>2, <2>4, <2>5, <2>6, <2>7
<1>5. CASE EndAll(q)
  <2>1. PICK t \in access :
          /\ account[t.user].exists
          /\ request'[q].phase = "ending" /\ request'[q].session = 0
          /\ request'[q].user = t.user
          /\ request'[q].doomed = {j \in DOMAIN tokens : tokens[j].live /\ tokens[j].user = t.user}
          /\ \A p \in Requests \ {q} :
               request'[p] = IF request[p].phase = "issue" /\ request[p].user = t.user
                             THEN [request[p] EXCEPT !.late = TRUE] ELSE request[p]
    BY ZenonT(30), <1>2, <1>5 DEF EndAll, Accepted
  <2>2. \A p \in Requests \ {q} :
          request'[p] = request[p] \/ request'[p] = [request[p] EXCEPT !.late = TRUE]
    BY <2>1
  <2>3. \A p \in Requests \ {q} :
          request[p].phase = "issue" /\ request[p].user = t.user => request'[p].late
    BY ZenonT(30), <1>3, <2>1 DEF Doing
  <2>4. UNCHANGED <<account, offer, tokens, access, ends>>
    BY <1>5 DEF EndAll
  <2>5. \A p \in Requests \ {q} :
          /\ request'[p].phase = request[p].phase /\ request'[p].user = request[p].user
          /\ request'[p].offer = request[p].offer /\ request'[p].token = request[p].token
          /\ request'[p].family = request[p].family /\ request'[p].session = request[p].session
          /\ request'[p].version = request[p].version /\ request'[p].since = request[p].since
          /\ request'[p].doomed = request[p].doomed
          /\ request[p].late => request'[p].late
    <3> TAKE p \in Requests \ {q}
    <3>1. request[p] \in Doing
      BY <1>3
    <3>2. request'[p] = request[p] \/ request'[p] = [request[p] EXCEPT !.late = TRUE]
      BY <2>2
    <3>3. QED BY <3>1, <3>2, LateOnly
  <2>6. QED BY <2>1, <2>3, <2>4, <2>5
<1>6. QED BY <1>4, <1>5

\* Nothing that has begun to be registered or issued knows a wrong version.
LEMMA VersionStep ==
  ASSUME AccessTypes, FamilyIsSession, VersionCounts, AccessNext PROVE VersionCounts'
<1>1. CASE Invite
  BY <1>1 DEF Invite, VersionCounts
<1>2. ASSUME NEW q \in Requests, BeginRegister(q) PROVE VersionCounts'
  BY <1>2 DEF BeginRegister, VersionCounts, Nothing, AccessTypes, RequestsOK
<1>3. ASSUME NEW q \in Requests, BeginLogin(q) PROVE VersionCounts'
  BY <1>3 DEF BeginLogin, Issuing, VersionCounts, Nothing, AccessTypes, RequestsOK
<1>4. ASSUME NEW q \in Requests, BeginRotate(q) PROVE VersionCounts'
  BY <1>4, TokensNumbered DEF BeginRotate, Issuing, VersionCounts, Nothing, AccessTypes, RequestsOK, Token
<1>5. ASSUME NEW q \in Requests, CommitRegister(q) \/ CommitIssue(q) PROVE VersionCounts'
  <2>1. request[q].version = request[q].since
    BY <1>5 DEF CommitRegister, CommitIssue, VersionCounts
  <2>2. \A u \in Addresses : account'[u].version = account[u].version
    <3>1. CASE CommitIssue(q)
      BY <3>1 DEF CommitIssue
    <3>2. CASE CommitRegister(q)
      <4>1. account' = [account EXCEPT ![request[q].user].exists = TRUE,
                                       ![request[q].user].via = request[q].offer]
        BY <3>2 DEF CommitRegister
      <4>2. QED BY <4>1 DEF AccessTypes, RecordsOK
    <3>3. QED BY <1>5, <3>1, <3>2
  <2>3. access' = access \cup {Handed(request[q])} /\ ends' = ends
        /\ request' = [request EXCEPT ![q] = Nothing]
    BY <1>5 DEF CommitRegister, CommitIssue
  <2>4. QED BY <2>1, <2>2, <2>3 DEF VersionCounts, Handed, Nothing, AccessTypes, RequestsOK
<1>6. ASSUME NEW q \in Requests, Replay(q) \/ EndAll(q) PROVE VersionCounts'
  <2>1. account' = account /\ access' = access /\ ends' = ends
    BY <1>6, RevocationSees
  <2>2. ASSUME NEW p \in Requests
        PROVE request'[p].version = request'[p].since \/ request'[p].phase = "ending"
    BY <1>6, RevocationSees DEF VersionCounts
  <2>3. QED BY <2>1, <2>2 DEF VersionCounts
<1>7. ASSUME NEW q \in Requests, Logout(q) PROVE VersionCounts'
  BY <1>7 DEF Logout, VersionCounts, Nothing, AccessTypes, RequestsOK
<1>8. ASSUME NEW q \in Requests, CommitRevocation(q) \/ LoseRequest(q) PROVE VersionCounts'
  BY <1>8 DEF CommitRevocation, LoseRequest, VersionCounts, Nothing, AccessTypes, RequestsOK
<1>9. ASSUME NEW q \in Requests, CommitEndAll(q) PROVE VersionCounts'
  <2>1. request[q].user \in Addresses
    BY <1>9 DEF CommitEndAll, AccessTypes, RequestsOK
  <2>2. \A u \in Addresses : account'[u].version = ends'[u]
    BY <1>9, <2>1 DEF CommitEndAll, VersionCounts, AccessTypes, RecordsOK
  <2>3. QED BY <1>9, <2>2 DEF CommitEndAll, VersionCounts, Nothing, AccessTypes, RequestsOK
<1>10. QED BY <1>1, <1>2, <1>3, <1>4, <1>5, <1>6, <1>7, <1>8, <1>9 DEF AccessNext

\* An invitation in hand, or accepted, is its addressee's.
LEMMA OffersStep ==
  ASSUME AccessTypes, AccessTypes', FamilyIsSession, OffersAreBound, AccessNext PROVE OffersAreBound'
<1>1. CASE Invite
  BY <1>1, NamesAssumption DEF Invite, OffersAreBound, AccessTypes, RecordsOK, RequestsOK, Doing
<1>2. ASSUME NEW q \in Requests, BeginRegister(q) PROVE OffersAreBound'
  BY <1>2 DEF BeginRegister, OffersAreBound, Redeemable, Nothing, AccessTypes, RequestsOK
<1>3. ASSUME NEW q \in Requests, BeginLogin(q) \/ BeginRotate(q) PROVE OffersAreBound'
  <2>1. account' = account /\ offer' = offer
    BY <1>3 DEF BeginLogin, BeginRotate
  <2>2. PICK d : d.phase = "issue" /\ request' = [request EXCEPT ![q] = d]
    <3>1. CASE BeginLogin(q)
      BY <3>1 DEF BeginLogin, Issuing, Nothing
    <3>2. CASE BeginRotate(q)
      BY <3>2 DEF BeginRotate, Issuing, Nothing
    <3>3. QED BY <1>3, <3>1, <3>2
  <2>3. QED BY <2>1, <2>2 DEF OffersAreBound, AccessTypes, RequestsOK
<1>4. ASSUME NEW q \in Requests, CommitRegister(q) PROVE OffersAreBound'
  <2> DEFINE u == request[q].user
             o == request[q].offer
  <2>1. /\ u \in Addresses /\ o \in Offers \cup {NoOffer}
        /\ account' = [account EXCEPT ![u].exists = TRUE, ![u].via = o]
        /\ offer' = [x \in Offers |-> IF x = o THEN [offer[x] EXCEPT !.accepted = TRUE] ELSE offer[x]]
        /\ request' = [request EXCEPT ![q] = Nothing]
        /\ ~account[u].exists /\ (o # NoOffer => offer[o].to = u)
    BY <1>4 DEF CommitRegister, AccessTypes, RequestsOK, Doing, OffersAreBound
  <2> HIDE DEF u, o
  <2>2. \A v \in Addresses : /\ v # u => account'[v] = account[v]
                             /\ v = u => account'[v].exists /\ account'[v].via = o
    BY <2>1 DEF AccessTypes, RecordsOK
  <2>3. \A x \in Offers : /\ offer'[x].to = offer[x].to
                          /\ x # o => offer'[x].accepted = offer[x].accepted
                          /\ x = o => offer'[x].accepted
    <3> SUFFICES ASSUME NEW x \in Offers
                 PROVE  /\ offer'[x].to = offer[x].to
                        /\ x # o => offer'[x].accepted = offer[x].accepted
                        /\ x = o => offer'[x].accepted
      OBVIOUS
    <3>1. offer[x] \in [to : Addresses \cup {"none"}, accepted : BOOLEAN]
      BY DEF AccessTypes, RecordsOK
    <3>2. offer'[x] = IF x = o THEN [offer[x] EXCEPT !.accepted = TRUE] ELSE offer[x]
      BY <2>1
    <3>3. QED BY <3>1, <3>2
  <2>4. \A p \in Requests : request'[p].phase = "register" => p # q /\ request'[p] = request[p]
    BY <2>1 DEF Nothing, AccessTypes, RequestsOK
  <2>5. ASSUME NEW p \in Requests, request'[p].phase = "register", request'[p].offer # NoOffer
        PROVE  offer'[request'[p].offer].to = request'[p].user
    <3>1. request'[p] = request[p] /\ request[p] \in Doing
      BY <2>4, <2>5 DEF AccessTypes, RequestsOK
    <3>2. request[p].offer \in Offers
      BY <2>5, <3>1 DEF Doing
    <3>3. offer[request[p].offer].to = request[p].user
      BY <2>5, <3>1 DEF OffersAreBound
    <3>4. QED BY <2>3, <3>1, <3>2, <3>3
  <2>6. ASSUME NEW v \in Addresses, account'[v].via # NoOffer
        PROVE  /\ account'[v].exists
               /\ offer'[account'[v].via].accepted
               /\ offer'[account'[v].via].to = v
    <3>1. account'[v].via \in Offers
      BY <2>6 DEF AccessTypes, RecordsOK
    <3>2. CASE v = u
      BY <2>1, <2>2, <2>3, <2>6, <3>1, <3>2
    <3>3. CASE v # u
      <4>1. account'[v] = account[v]
        BY <2>2, <3>3
      <4>2. /\ account[v].exists /\ offer[account[v].via].accepted
            /\ offer[account[v].via].to = v
        BY <2>6, <4>1 DEF OffersAreBound
      <4>3. QED BY <2>3, <3>1, <4>1, <4>2
    <3>4. QED BY <3>2, <3>3
  <2>7. ASSUME NEW x \in Offers, offer'[x].accepted
        PROVE  offer'[x].to \in Addresses /\ account'[offer'[x].to].via = x
    <3>1. CASE x = o
      BY ZenonT(30), <2>1, <2>2, <2>3, <3>1, NamesAssumption
    <3>2. CASE x # o
      <4>1. offer[x].to \in Addresses /\ account[offer[x].to].via = x
        BY <2>3, <2>7, <3>2 DEF OffersAreBound
      <4>2. offer[x].to # u
        BY <2>1, <4>1, NamesAssumption DEF OffersAreBound
      <4>3. QED BY <2>2, <2>3, <4>1, <4>2
    <3>3. QED BY <3>1, <3>2
  <2>8. QED BY <2>5, <2>6, <2>7 DEF OffersAreBound
<1>5. ASSUME NEW q \in Requests, CommitIssue(q) \/ CommitRevocation(q) \/ LoseRequest(q)
      PROVE  OffersAreBound'
  BY <1>5 DEF CommitIssue, CommitRevocation, LoseRequest, OffersAreBound, Nothing, AccessTypes, RequestsOK
<1>6. ASSUME NEW q \in Requests, Replay(q) \/ EndAll(q) PROVE OffersAreBound'
  <2>1. account' = account /\ offer' = offer
    BY <1>6, RevocationSees
  <2>2. \A p \in Requests : request'[p].phase = "register" =>
          /\ request[p].phase = "register"
          /\ request'[p].offer = request[p].offer /\ request'[p].user = request[p].user
    BY <1>6, RevocationSees
  <2>3. QED BY <2>1, <2>2 DEF OffersAreBound
<1>7. ASSUME NEW q \in Requests, Logout(q) PROVE OffersAreBound'
  BY <1>7 DEF Logout, OffersAreBound, Nothing, AccessTypes, RequestsOK
<1>8. ASSUME NEW q \in Requests, CommitEndAll(q) PROVE OffersAreBound'
  <2>1. \A u \in Addresses : account'[u].exists = account[u].exists /\ account'[u].via = account[u].via
    BY <1>8 DEF CommitEndAll, AccessTypes, RecordsOK, RequestsOK
  <2>2. offer' = offer /\ request' = [request EXCEPT ![q] = Nothing]
    BY <1>8 DEF CommitEndAll
  <2>3. QED BY <2>1, <2>2 DEF OffersAreBound, Nothing, AccessTypes, RequestsOK, RecordsOK
<1>9. QED BY <1>1, <1>2, <1>3, <1>4, <1>5, <1>6, <1>7, <1>8 DEF AccessNext

----------------------------------------------------------------------------
\* A new token goes to the end, of the family and the sign-in it belongs to.
LEMMA Inserted ==
  ASSUME AccessTypes, FamilyIsSession, NEW q \in Requests, CommitRegister(q) \/ CommitIssue(q)
  PROVE  /\ Len(tokens') = Len(tokens) + 1
         /\ tokens'[Len(tokens')] = NextToken(request[q])
         /\ \A i \in DOMAIN tokens : /\ tokens'[i].user = tokens[i].user
                                     /\ tokens'[i].family = tokens[i].family
                                     /\ tokens'[i].session = tokens[i].session
                                     /\ tokens'[i].live => tokens[i].live
                                     /\ tokens'[i].outlived = tokens[i].outlived
                                     /\ tokens'[i].late = tokens[i].late
         /\ request' = [request EXCEPT ![q] = Nothing]
         /\ \A u \in Addresses : account[u].exists => account'[u].exists
         /\ account'[request[q].user].exists
         /\ request[q].user \in Addresses
<1> DEFINE kept == [i \in DOMAIN tokens |-> IF i = request[q].token THEN [tokens[i] EXCEPT !.live = FALSE]
                                            ELSE tokens[i]]
<1>1. /\ \A i \in DOMAIN tokens : tokens[i] \in Token
      /\ DOMAIN tokens = 1..Len(tokens) /\ Len(tokens) \in Nat
  BY TokensNumbered
<1>2. PICK old \in Seq(Token) :
        /\ tokens' = Append(old, NextToken(request[q])) /\ Len(old) = Len(tokens)
        /\ \A i \in DOMAIN tokens : old[i] = tokens[i] \/ old[i] = [tokens[i] EXCEPT !.live = FALSE]
  <2>1. CASE CommitRegister(q)
    BY <2>1 DEF CommitRegister, AccessTypes
  <2>2. CASE CommitIssue(q)
    <3>1. tokens' = Append(kept, NextToken(request[q]))
      BY <2>2 DEF CommitIssue
    <3>2. \A i \in DOMAIN tokens : kept[i] \in Token
      BY <1>1 DEF Token
    <3>3. kept \in Seq(Token) /\ Len(kept) = Len(tokens)
      BY <1>1, <3>2
    <3>4. \A i \in DOMAIN tokens : kept[i] = tokens[i] \/ kept[i] = [tokens[i] EXCEPT !.live = FALSE]
      OBVIOUS
    <3> HIDE DEF kept
    <3>5. QED BY <3>1, <3>3, <3>4
  <2>3. QED BY <2>1, <2>2
<1>3. NextToken(request[q]) \in Token
  BY NextTokenType DEF CommitRegister, CommitIssue
<1>4. ASSUME NEW i \in DOMAIN tokens
      PROVE  /\ tokens'[i].user = tokens[i].user /\ tokens'[i].family = tokens[i].family
             /\ tokens'[i].session = tokens[i].session
             /\ tokens'[i].live => tokens[i].live
             /\ tokens'[i].outlived = tokens[i].outlived /\ tokens'[i].late = tokens[i].late
  <2>1. tokens'[i] = old[i]
    BY <1>1, <1>2, <1>3
  <2>2. tokens[i] \in Token
    BY <1>1
  <2>3. CASE old[i] = tokens[i]
    BY <2>1, <2>3
  <2>4. CASE old[i] = [tokens[i] EXCEPT !.live = FALSE]
    BY <2>1, <2>2, <2>4 DEF Token
  <2>5. QED BY <1>2, <2>3, <2>4
<1>5. request[q].user \in Addresses
  BY DEF AccessTypes, RequestsOK, CommitRegister, CommitIssue
<1>6. request' = [request EXCEPT ![q] = Nothing]
  BY DEF CommitRegister, CommitIssue
<1>7. (\A u \in Addresses : account[u].exists => account'[u].exists) /\ account'[request[q].user].exists
  <2>1. CASE CommitIssue(q)
    BY <2>1 DEF CommitIssue, FamilyIsSession
  <2>2. CASE CommitRegister(q)
    <3>1. account' = [account EXCEPT ![request[q].user].exists = TRUE,
                                     ![request[q].user].via = request[q].offer]
      BY <2>2 DEF CommitRegister
    <3>2. QED BY <1>5, <3>1 DEF AccessTypes, RecordsOK
  <2>3. QED BY <2>1, <2>2
<1>8. QED BY <1>1, <1>2, <1>3, <1>4, <1>5, <1>6, <1>7

\* A revocation's commit takes away what it saw, and marks what it covers.
LEMMA RevokedTokens ==
  ASSUME AccessTypes, NEW q \in Requests, CommitRevocation(q) \/ CommitEndAll(q)
  PROVE  /\ DOMAIN tokens' = DOMAIN tokens /\ Len(tokens') = Len(tokens)
         /\ \A i \in DOMAIN tokens :
              /\ tokens'[i].user = tokens[i].user /\ tokens'[i].family = tokens[i].family
              /\ tokens'[i].session = tokens[i].session /\ tokens'[i].late = tokens[i].late
              /\ tokens'[i].live => tokens[i].live /\ i \notin request[q].doomed
              /\ tokens'[i].live /\ tokens'[i].outlived =>
                   tokens[i].outlived \/ Covers(q, tokens[i].user, tokens[i].session)
         /\ request' = [request EXCEPT ![q] = Nothing]
         /\ \A u \in Addresses : account'[u].exists = account[u].exists
<1>1. tokens' = Revoked(q) /\ request' = [request EXCEPT ![q] = Nothing]
  BY DEF CommitRevocation, CommitEndAll
<1>2. DOMAIN tokens' = DOMAIN tokens /\ Len(tokens') = Len(tokens)
  BY <1>1, TokensNumbered, RevokedType DEF Revoked
<1>3. \A i \in DOMAIN tokens :
        tokens'[i] = IF i \in request[q].doomed THEN [tokens[i] EXCEPT !.live = FALSE]
                     ELSE [tokens[i] EXCEPT !.outlived = @ \/ Covers(q, tokens[i].user, tokens[i].session)]
  BY <1>1 DEF Revoked
<1>4. ASSUME NEW i \in DOMAIN tokens
      PROVE  /\ tokens'[i].user = tokens[i].user /\ tokens'[i].family = tokens[i].family
             /\ tokens'[i].session = tokens[i].session /\ tokens'[i].late = tokens[i].late
             /\ tokens'[i].live => tokens[i].live /\ i \notin request[q].doomed
             /\ tokens'[i].live /\ tokens'[i].outlived =>
                  tokens[i].outlived \/ Covers(q, tokens[i].user, tokens[i].session)
  <2>1. tokens[i] \in Token
    BY TokensNumbered
  <2>2. CASE i \in request[q].doomed
    BY <1>3, <2>1, <2>2 DEF Token
  <2>3. CASE i \notin request[q].doomed
    BY <1>3, <2>1, <2>3 DEF Token
  <2>4. QED BY <2>2, <2>3
<1>5. \A u \in Addresses : account'[u].exists = account[u].exists
  BY DEF CommitRevocation, CommitEndAll, AccessTypes, RecordsOK
<1>6. QED BY <1>1, <1>2, <1>4, <1>5

\* What a request begins with when it revokes nothing.
LEMMA Begun ==
  ASSUME AccessTypes, FamilyIsSession, NEW q \in Requests,
         BeginRegister(q) \/ BeginLogin(q) \/ BeginRotate(q) \/ Logout(q) \/ LoseRequest(q)
  PROVE  /\ UNCHANGED <<account, offer, tokens, access, ends>>
         /\ request'[q].phase \in {"idle", "register", "issue", "logout"}
         /\ \A p \in Requests \ {q} : request'[p] = request[p]
         /\ request'[q].family = request'[q].session
         /\ request'[q].session \in 0..Len(tokens)
         /\ request'[q].phase = "register" => request'[q].session = 0
         /\ request'[q].phase = "issue" =>
              /\ account[request'[q].user].exists
              /\ request'[q].late = \E r \in Requests : Covers(r, request'[q].user, request'[q].session)
<1>1. \A p \in Requests \ {q} : request'[p] = request[p]
  BY DEF BeginRegister, BeginLogin, BeginRotate, Logout, LoseRequest, AccessTypes, RequestsOK
<1>2. UNCHANGED <<account, offer, tokens, access, ends>>
  BY DEF BeginRegister, BeginLogin, BeginRotate, Logout, LoseRequest
<1>3. Len(tokens) \in Nat
  BY TokensNumbered
<1>4. CASE BeginRegister(q) \/ Logout(q) \/ LoseRequest(q)
  <2>1. /\ request'[q].phase \in {"idle", "register", "logout"}
        /\ request'[q].family = 0 /\ request'[q].session = 0
    <3>1. CASE BeginRegister(q)
      <4>1. PICK u \in Addresses, o \in Offers \cup {NoOffer} :
              request'[q] = [Nothing EXCEPT !.phase = "register", !.user = u, !.offer = o]
        BY <3>1 DEF BeginRegister, AccessTypes, RequestsOK
      <4>2. QED BY <4>1 DEF Nothing
    <3>2. CASE Logout(q)
      <4>1. PICK i \in DOMAIN tokens :
              request'[q] = [Nothing EXCEPT !.phase = "logout", !.doomed = {i}]
        BY <3>2 DEF Logout, AccessTypes, RequestsOK
      <4>2. QED BY <4>1 DEF Nothing
    <3>3. CASE LoseRequest(q)
      BY <3>3 DEF LoseRequest, AccessTypes, RequestsOK, Nothing
    <3>4. QED BY <1>4, <3>1, <3>2, <3>3
  <2>2. request'[q].session \in 0..Len(tokens) /\ request'[q].phase # "issue"
    BY <1>3, <2>1
  <2>3. QED BY <1>1, <1>2, <2>1, <2>2
<1>5. CASE BeginLogin(q)
  <2>1. PICK u \in Addresses : account[u].exists /\ request'[q] = Issuing("issue", u, 0, 0, 0)
    BY <1>5 DEF BeginLogin, AccessTypes, RequestsOK
  <2>2. QED BY <1>1, <1>2, <1>3, <2>1 DEF Issuing, Nothing
<1>6. CASE BeginRotate(q)
  <2>1. PICK i \in DOMAIN tokens :
          request'[q] = Issuing("issue", tokens[i].user, i, tokens[i].family, tokens[i].session)
    BY <1>6 DEF BeginRotate, AccessTypes, RequestsOK
  <2>2. tokens[i] \in Token /\ tokens[i].session \in 0..Len(tokens)
    BY TokensNumbered DEF FamilyIsSession, Token
  <2>3. QED BY <1>1, <1>2, <2>1, <2>2 DEF Issuing, Nothing, FamilyIsSession
<1>7. QED BY <1>4, <1>5, <1>6

\* A family is a sign-in after every step.
LEMMA FamilyStep == ASSUME AccessTypes, FamilyIsSession, AccessNext PROVE FamilyIsSession'
<1>1. Nothing.phase = "idle" /\ Nothing.session = 0 /\ Len(tokens) \in Nat
      /\ DOMAIN tokens = 1..Len(tokens)
  BY TokensNumbered DEF Nothing
<1>2. CASE Invite
  BY <1>2 DEF Invite, FamilyIsSession
<1>3. ASSUME NEW q \in Requests,
             BeginRegister(q) \/ BeginLogin(q) \/ BeginRotate(q) \/ Logout(q) \/ LoseRequest(q)
      PROVE  FamilyIsSession'
  <2>1. UNCHANGED <<account, tokens>>
    BY <1>3, Begun
  <2>2. ASSUME NEW p \in Requests
        PROVE /\ request'[p].session <= Len(tokens)
              /\ request'[p].phase \in {"register", "issue"} => request'[p].family = request'[p].session
              /\ request'[p].phase = "replay" => request'[p].session # 0
              /\ request'[p].phase = "register" => request'[p].session = 0
              /\ request'[p].phase \in {"ending", "issue"} => account[request'[p].user].exists
    <3>1. CASE p = q
      <4>1. /\ request'[q].phase \in {"idle", "register", "issue", "logout"}
            /\ request'[q].family = request'[q].session
            /\ request'[q].session \in 0..Len(tokens)
            /\ request'[q].phase = "register" => request'[q].session = 0
            /\ request'[q].phase = "issue" => account[request'[q].user].exists
        BY <1>3, Begun
      <4>2. QED BY <1>1, <3>1, <4>1
    <3>2. CASE p # q
      BY ZenonT(30), <1>3, <3>2, Begun DEF FamilyIsSession
    <3>3. QED BY <3>1, <3>2
  <2>3. QED BY <2>1, <2>2 DEF FamilyIsSession
<1>4. ASSUME NEW q \in Requests, Replay(q) \/ EndAll(q) PROVE FamilyIsSession'
  <2>1. UNCHANGED <<account, tokens>>
    BY <1>4, RevocationSees
  <2>2. ASSUME NEW p \in Requests
        PROVE /\ request'[p].session <= Len(tokens)
              /\ request'[p].phase \in {"register", "issue"} => request'[p].family = request'[p].session
              /\ request'[p].phase = "replay" => request'[p].session # 0
              /\ request'[p].phase = "register" => request'[p].session = 0
              /\ request'[p].phase \in {"ending", "issue"} => account[request'[p].user].exists
    BY <1>1, <1>4, RevocationSees DEF FamilyIsSession
  <2>3. QED BY <2>1, <2>2 DEF FamilyIsSession
<1>5. ASSUME NEW q \in Requests, CommitRegister(q) \/ CommitIssue(q) PROVE FamilyIsSession'
  <2>1. /\ request[q].family = request[q].session /\ request[q].session \in 0..Len(tokens)
    BY <1>5 DEF FamilyIsSession, CommitRegister, CommitIssue, AccessTypes, RequestsOK, Doing
  <2>2. DOMAIN tokens' = 1..(Len(tokens) + 1)
    BY <1>5, Inserted, AccessTypesStep, TokensNumbered DEF AccessTypes
  <2>3. ASSUME NEW i \in DOMAIN tokens'
        PROVE  /\ tokens'[i].family = tokens'[i].session /\ tokens'[i].session <= Len(tokens')
               /\ account'[tokens'[i].user].exists
    <3>1. CASE i \in DOMAIN tokens
      <4>1. tokens[i] \in Token
        BY <3>1, TokensNumbered
      <4>2. QED BY <1>1, <1>5, <3>1, <4>1, Inserted DEF FamilyIsSession, Token
    <3>2. CASE i = Len(tokens')
      BY <1>1, <1>5, <2>1, <3>2, Inserted DEF NextToken
    <3>3. QED BY <1>1, <1>5, <2>2, <3>1, <3>2, Inserted
  <2>4. ASSUME NEW p \in Requests
        PROVE  /\ request'[p].session <= Len(tokens')
               /\ request'[p].phase \in {"register", "issue"} => request'[p].family = request'[p].session
               /\ request'[p].phase = "replay" => request'[p].session # 0
               /\ request'[p].phase = "register" => request'[p].session = 0
               /\ request'[p].phase \in {"ending", "issue"} => account'[request'[p].user].exists
    <3>1. request[p] \in Doing /\ (request[p].phase \in {"issue", "ending"} => request[p].user \in Addresses)
      BY DEF AccessTypes, RequestsOK
    <3>2. request'[p] = IF p = q THEN Nothing ELSE request[p]
      BY <1>5, Inserted DEF AccessTypes, RequestsOK
    <3>3. QED BY <1>1, <1>5, <3>1, <3>2, Inserted DEF FamilyIsSession, Doing
  <2>5. QED BY <2>3, <2>4 DEF FamilyIsSession
<1>6. ASSUME NEW q \in Requests, CommitRevocation(q) \/ CommitEndAll(q) PROVE FamilyIsSession'
  <2>1. \A p \in Requests : /\ request'[p] = IF p = q THEN Nothing ELSE request[p]
                            /\ request[p].phase \in {"issue", "ending"} => request[p].user \in Addresses
    BY <1>6, RevokedTokens DEF AccessTypes, RequestsOK
  <2>2. \A i \in DOMAIN tokens : tokens[i].user \in Addresses
    BY TokensNumbered DEF Token
  <2>3. QED BY <1>1, <1>6, <2>1, <2>2, RevokedTokens DEF FamilyIsSession
<1>7. QED BY <1>2, <1>3, <1>4, <1>5, <1>6 DEF AccessNext

\* Nothing escapes a revocation under way.
LEMMA EscapeStep ==
  ASSUME AccessTypes, FamilyIsSession, NothingEscapes, AccessNext PROVE NothingEscapes'
<1>1. Nothing.phase = "idle" /\ Len(tokens) \in Nat /\ DOMAIN tokens = 1..Len(tokens)
  BY TokensNumbered DEF Nothing
<1>2. CASE Invite
  BY <1>2 DEF Invite, NothingEscapes, Covers
<1>3. ASSUME NEW q \in Requests,
             BeginRegister(q) \/ BeginLogin(q) \/ BeginRotate(q) \/ Logout(q) \/ LoseRequest(q)
      PROVE  NothingEscapes'
  <2>1. tokens' = tokens
    BY <1>3, Begun
  <2>2. ASSUME NEW r \in Requests, request'[r].phase \in {"replay", "ending"}
        PROVE  r # q /\ request'[r] = request[r]
    BY <1>3, <2>2, Begun
  <2>3. ASSUME NEW r \in Requests, NEW p \in Requests, request'[p].phase = "issue",
               Covers(r, request[p].user, request[p].session)'
        PROVE  request'[p].late
    <3>1. r # q /\ request'[r] = request[r]
      BY <2>2, <2>3 DEF Covers
    <3>2. Covers(r, request'[p].user, request'[p].session)
      BY <2>3, <3>1 DEF Covers
    <3>3. CASE p = q
      BY <1>3, <2>3, <3>2, <3>3, Begun
    <3>4. CASE p # q
      BY <1>3, <2>3, <3>2, <3>4, Begun DEF NothingEscapes
    <3>5. QED BY <3>3, <3>4
  <2>4. QED BY <2>1, <2>2, <2>3 DEF NothingEscapes, Covers
<1>4. ASSUME NEW q \in Requests, Replay(q) \/ EndAll(q) PROVE NothingEscapes'
  <2>1. tokens' = tokens
    BY <1>4, RevocationSees
  <2>2. ASSUME NEW r \in Requests, NEW i \in DOMAIN tokens, tokens[i].live,
               Covers(r, tokens[i].user, tokens[i].session)'
        PROVE  i \in request'[r].doomed \/ tokens[i].late
    <3>1. CASE r = q
      BY <1>4, <2>1, <2>2, <3>1, RevocationSees DEF Covers
    <3>2. CASE r # q
      BY <1>4, <2>1, <2>2, <3>2, RevocationSees DEF Covers, NothingEscapes
    <3>3. QED BY <3>1, <3>2
  <2>3. ASSUME NEW r \in Requests, NEW p \in Requests, request'[p].phase = "issue",
               Covers(r, request[p].user, request[p].session)'
        PROVE  request'[p].late
    <3>1. p # q /\ request[p].phase = "issue"
      BY <1>4, <2>3, RevocationSees
    <3>2. CASE r = q
      BY <1>4, <2>3, <3>1, <3>2, RevocationSees DEF Covers
    <3>3. CASE r # q
      <4>1. Covers(r, request[p].user, request[p].session)
        BY <1>4, <2>3, <3>1, <3>3, RevocationSees DEF Covers
      <4>2. QED BY <1>4, <3>1, <4>1, RevocationSees DEF NothingEscapes
    <3>4. QED BY <3>2, <3>3
  <2>4. \A p \in Requests : request'[p].phase = "issue" =>
          request'[p].user = request[p].user /\ request'[p].session = request[p].session
    BY <1>4, RevocationSees
  <2>5. QED BY <2>1, <2>2, <2>3, <2>4 DEF NothingEscapes, Covers
<1>5. ASSUME NEW q \in Requests, CommitRegister(q) \/ CommitIssue(q) PROVE NothingEscapes'
  <2>1. \A p \in Requests : request'[p] = IF p = q THEN Nothing ELSE request[p]
    BY <1>5, Inserted DEF AccessTypes, RequestsOK
  <2>2. ASSUME NEW r \in Requests, NEW p \in Requests, request'[p].phase = "issue",
               Covers(r, request[p].user, request[p].session)'
        PROVE  request'[p].late
    BY <1>1, <2>1, <2>2 DEF NothingEscapes, Covers
  <2>3. ASSUME NEW r \in Requests, NEW i \in DOMAIN tokens', tokens'[i].live,
               Covers(r, tokens[i].user, tokens[i].session)'
        PROVE  i \in request'[r].doomed \/ tokens'[i].late
    <3>1. request'[r] = request[r] /\ Covers(r, tokens'[i].user, tokens'[i].session)
      BY <1>1, <2>1, <2>3 DEF Covers
    <3>2. CASE i \in DOMAIN tokens
      <4>1. /\ tokens[i].live /\ tokens'[i].late = tokens[i].late
            /\ Covers(r, tokens[i].user, tokens[i].session)
        BY <1>5, <2>3, <3>1, <3>2, Inserted
      <4>2. QED BY <3>1, <3>2, <4>1 DEF NothingEscapes
    <3>3. CASE i = Len(tokens')
      <4>1. /\ tokens'[i].user = request[q].user /\ tokens'[i].late = request[q].late
            /\ tokens'[i].session = IF request[q].session = 0 THEN Len(tokens) + 1
                                    ELSE request[q].session
        BY <1>5, <3>3, Inserted DEF NextToken
      <4>2. request[r].session <= Len(tokens) /\ request[r].session \in Nat
        BY DEF FamilyIsSession, AccessTypes, RequestsOK, Doing
      <4>3. Covers(r, request[q].user, request[q].session)
        BY <1>1, <3>1, <4>1, <4>2 DEF Covers
      <4>4. CASE CommitIssue(q)
        BY <4>1, <4>3, <4>4 DEF CommitIssue, NothingEscapes
      <4>5. CASE CommitRegister(q)
        <5>1. request[q].session = 0 /\ ~account[request[q].user].exists
          BY <4>5 DEF CommitRegister, FamilyIsSession
        <5>2. QED BY <4>3, <5>1 DEF Covers, FamilyIsSession
      <4>6. QED BY <1>5, <4>4, <4>5
    <3>4. QED
      BY <1>1, <1>5, <3>2, <3>3, Inserted, AccessTypesStep, TokensNumbered DEF AccessTypes
  <2>4. QED BY <2>2, <2>3 DEF NothingEscapes
<1>6. ASSUME NEW q \in Requests, CommitRevocation(q) \/ CommitEndAll(q) PROVE NothingEscapes'
  <2>1. \A p \in Requests : request'[p] = IF p = q THEN Nothing ELSE request[p]
    BY <1>6, RevokedTokens DEF AccessTypes, RequestsOK
  <2>2. \A r \in Requests : \A u, s : Covers(r, u, s)' => request'[r] = request[r] /\ Covers(r, u, s)
    BY <1>1, <2>1 DEF Covers
  <2>3. QED BY <1>1, <1>6, <2>1, <2>2, RevokedTokens DEF NothingEscapes
<1>7. QED BY <1>2, <1>3, <1>4, <1>5, <1>6 DEF AccessNext

\* What outlived its revocation came in late.
LEMMA OutlivedStep ==
  ASSUME AccessTypes, FamilyIsSession, NothingEscapes, OutlivedIsLate, AccessNext
  PROVE  OutlivedIsLate'
<1>1. CASE tokens' = tokens
  BY <1>1 DEF OutlivedIsLate
<1>2. ASSUME NEW q \in Requests, CommitRegister(q) \/ CommitIssue(q) PROVE OutlivedIsLate'
  <2>1. ~NextToken(request[q]).outlived
    BY DEF NextToken
  <2>2. DOMAIN tokens' = DOMAIN tokens \cup {Len(tokens')}
    <3>1. AccessTypes'
      BY AccessTypesStep
    <3>2. DOMAIN tokens' = 1..Len(tokens')
      BY <3>1 DEF AccessTypes
    <3>3. Len(tokens') = Len(tokens) + 1
      BY <1>2, Inserted
    <3>4. QED BY <3>2, <3>3, TokensNumbered
  <2>3. QED BY <1>2, <2>1, <2>2, Inserted DEF OutlivedIsLate
<1>3. ASSUME NEW q \in Requests, CommitRevocation(q) \/ CommitEndAll(q) PROVE OutlivedIsLate'
  <2>1. \A i \in DOMAIN tokens :
          tokens[i].live /\ Covers(q, tokens[i].user, tokens[i].session)
            => i \in request[q].doomed \/ tokens[i].late
    BY DEF NothingEscapes
  <2>2. QED BY <1>3, <2>1, RevokedTokens DEF OutlivedIsLate
<1>4. QED
  BY <1>1, <1>2, <1>3
  DEF AccessNext, Invite, BeginRegister, BeginLogin, BeginRotate, Replay, EndAll, Logout, LoseRequest

----------------------------------------------------------------------------
LEMMA InitAccessInv == AccessInit => AccessInv
<1> SUFFICES ASSUME AccessInit PROVE AccessInv
  OBVIOUS
<1>1. Nothing \in Doing /\ Nothing.phase = "idle"
  BY DEF Nothing, Doing
<1>2. AccessTypes
  BY <1>1 DEF AccessInit, AccessTypes, RecordsOK, RequestsOK
<1>3. \A q \in Requests : request[q] = Nothing
  BY DEF AccessInit
<1>4. tokens = <<>> /\ Len(tokens) = 0 /\ DOMAIN tokens = {}
  BY DEF AccessInit
<1>5. VersionCounts /\ OffersAreBound
  BY <1>3, <1>1 DEF AccessInit, VersionCounts, OffersAreBound, Nothing
<1>6. FamilyIsSession
  BY <1>3, <1>4 DEF FamilyIsSession, Nothing
<1>7. NothingEscapes /\ OutlivedIsLate
  BY <1>3, <1>4 DEF NothingEscapes, OutlivedIsLate, Covers, Nothing
<1>8. QED BY <1>2, <1>5, <1>6, <1>7 DEF AccessInv, SessionInv

LEMMA StepAccessInv == AccessInv /\ [AccessNext]_accessVars => AccessInv'
<1>1. ASSUME AccessInv, AccessNext PROVE AccessInv'
  BY <1>1, AccessTypesStep, VersionStep, OffersStep, FamilyStep, EscapeStep, OutlivedStep
  DEF AccessInv, SessionInv
<1>2. ASSUME AccessInv, UNCHANGED accessVars PROVE AccessInv'
  BY <1>2 DEF accessVars, AccessInv, SessionInv, AccessTypes, RecordsOK, RequestsOK, VersionCounts,
              FamilyIsSession, NothingEscapes, OutlivedIsLate, OffersAreBound, Covers
<1>3. QED BY <1>1, <1>2

LEMMA AccessInvariance == AccessSpec => []AccessInv
  BY InitAccessInv, StepAccessInv, PTL DEF AccessSpec

(***************************************************************************)
(* What is to end sessions ends them, for any number of accounts, sign-ins *)
(* and overlapping requests: revoke_family and revoke_all_sessions see     *)
(* every live token they cover, or it was inserted by a request they       *)
(* overlapped; the account's token_version leaves no access token behind.  *)
(***************************************************************************)
THEOREM SessionsEndHolds == AccessSpec => []SessionsEnd
<1>1. AccessInv => SessionsEnd
  BY DEF AccessInv, SessionInv, SessionsEnd, OutlivedIsLate, VersionCounts, Accepted, AccessTypes, RecordsOK
<1>2. QED BY <1>1, AccessInvariance, PTL

(***************************************************************************)
(* However many registrations race for it, an invitation that is accepted  *)
(* brings in its addressee and nobody else (_redeem_invitation, register). *)
(***************************************************************************)
THEOREM InvitationsGiveOneAccountHolds == AccessSpec => []InvitationsGiveOneAccount
<1>1. ASSUME AccessInv, NEW o \in Offers
      PROVE  {u \in Addresses : account[u].via = o} = IF offer[o].accepted THEN {offer[o].to} ELSE {}
  BY <1>1, NamesAssumption DEF AccessInv, OffersAreBound
<1>2. AccessInv => InvitationsGiveOneAccount
  BY <1>1 DEF InvitationsGiveOneAccount
<1>3. QED BY <1>2, AccessInvariance, PTL

----------------------------------------------------------------------------
\* A token goes back to a sign-in before it, or is its first.
OldestFirst == \A i \in DOMAIN tokens : tokens[i].session <= i

\* The requests that are to end the sessions of an account, of which each adds
\* one to its version.
EndsUnderWay(u) == {q \in Requests : request[q].phase = "ending" /\ request[q].user = u}

EndsBounded ==
  \A u \in Addresses : ends[u] + Cardinality(EndsUnderWay(u)) <= EndBound + Cardinality(Requests)

LEMMA OldestStep == ASSUME AccessInv, OldestFirst, AccessNext PROVE OldestFirst'
<1>1. AccessTypes /\ FamilyIsSession
  BY DEF AccessInv, SessionInv
<1>2. CASE tokens' = tokens
  BY <1>2 DEF OldestFirst
<1>3. ASSUME NEW q \in Requests, CommitRegister(q) \/ CommitIssue(q) PROVE OldestFirst'
  <2>1. /\ Len(tokens') = Len(tokens) + 1
        /\ tokens'[Len(tokens')] = NextToken(request[q])
        /\ \A i \in DOMAIN tokens : tokens'[i].session = tokens[i].session
    BY <1>1, <1>3, Inserted
  <2>2. /\ Len(tokens) \in Nat /\ DOMAIN tokens = 1..Len(tokens)
        /\ DOMAIN tokens' = 1..Len(tokens')
    BY <1>1, AccessTypesStep, TokensNumbered DEF AccessTypes
  <2>3. request[q].session \in Nat /\ request[q].session <= Len(tokens)
    BY <1>1 DEF FamilyIsSession, AccessTypes, RequestsOK, Doing
  <2>4. NextToken(request[q]).session <= Len(tokens) + 1
    BY <2>2, <2>3 DEF NextToken
  <2> QED  BY <2>1, <2>2, <2>4 DEF OldestFirst
<1>4. ASSUME NEW q \in Requests, CommitRevocation(q) \/ CommitEndAll(q) PROVE OldestFirst'
  BY <1>1, <1>4, RevokedTokens DEF OldestFirst
<1> QED
  BY <1>2, <1>3, <1>4
  DEF AccessNext, Invite, BeginRegister, BeginLogin, BeginRotate, Replay, EndAll, Logout, LoseRequest

LEMMA EndsCounted ==
  ASSUME NEW u
  PROVE  /\ EndsUnderWay(u) \subseteq Requests /\ IsFiniteSet(EndsUnderWay(u))
         /\ Cardinality(EndsUnderWay(u)) \in Nat /\ Cardinality(Requests) \in Nat
         /\ Cardinality(EndsUnderWay(u)) <= Cardinality(Requests)
<1>1. EndsUnderWay(u) \subseteq Requests
  BY DEF EndsUnderWay
<1> QED  BY <1>1, AccessAssumption, FS_Subset, FS_CardinalityType

\* As long as nobody begins to end the sessions of an account, no more come.
LEMMA NoMoreEnds ==
  ASSUME NEW u, \A q \in Requests : request'[q].phase = "ending" /\ request'[q].user = u =>
                  request[q].phase = "ending" /\ request[q].user = u
  PROVE  Cardinality(EndsUnderWay(u)') <= Cardinality(EndsUnderWay(u))
<1>1. EndsUnderWay(u)' \subseteq EndsUnderWay(u)
  BY DEF EndsUnderWay
<1> QED  BY <1>1, EndsCounted, FS_Subset

\* The statement of a revocation begins it, and no other.
LEMMA RevokingAlone ==
  ASSUME RequestsOK, NEW q \in Requests, NEW r \in Doing, NEW D, Revoking(q, r, D)
  PROVE  /\ request'[q].phase = r.phase /\ request'[q].user = r.user
         /\ \A p \in Requests \ {q} : /\ request'[p].phase = request[p].phase
                                      /\ request'[p].user = request[p].user
<1>1. request'[q] = [r EXCEPT !.doomed = {i \in D : tokens[i].live}]
  BY DEF Revoking
<1>2. request'[q].phase = r.phase /\ request'[q].user = r.user
  BY <1>1 DEF Doing
<1>3. ASSUME NEW p \in Requests \ {q}
      PROVE  request'[p].phase = request[p].phase /\ request'[p].user = request[p].user
  <2>1. request[p] \in Doing
    BY DEF RequestsOK
  <2>2. request'[p] = request[p] \/ request'[p] = [request[p] EXCEPT !.late = TRUE]
    BY DEF Revoking
  <2> QED  BY <2>1, <2>2 DEF Doing
<1> QED  BY <1>2, <1>3

LEMMA EndsStep == ASSUME AccessInv, EndsBounded, AccessNext PROVE EndsBounded'
<1>1. AccessTypes /\ ends \in [Addresses -> Nat] /\ EndBound \in Nat /\ Cardinality(Requests) \in Nat
  BY AccessAssumption, FS_CardinalityType DEF AccessInv, SessionInv, AccessTypes, RecordsOK
<1>2. SUFFICES ASSUME NEW u \in Addresses
               PROVE  ends'[u] + Cardinality(EndsUnderWay(u)') <= EndBound + Cardinality(Requests)
  BY DEF EndsBounded
<1>3. /\ ends[u] + Cardinality(EndsUnderWay(u)) <= EndBound + Cardinality(Requests)
      /\ ends[u] \in Nat /\ Cardinality(EndsUnderWay(u)) \in Nat
  BY <1>1, EndsCounted DEF EndsBounded
<1>4. /\ EndsUnderWay(u)' \subseteq Requests /\ Cardinality(EndsUnderWay(u)') \in Nat
      /\ Cardinality(EndsUnderWay(u)') <= Cardinality(Requests)
  <2>1. EndsUnderWay(u)' \subseteq Requests
    BY DEF EndsUnderWay
  <2> QED  BY <2>1, AccessAssumption, FS_Subset, FS_CardinalityType
<1>5. CASE /\ ends' = ends
           /\ \A q \in Requests : request'[q].phase = "ending" /\ request'[q].user = u =>
                                    request[q].phase = "ending" /\ request[q].user = u
  BY <1>1, <1>3, <1>4, <1>5, NoMoreEnds
<1>6. ASSUME NEW q \in Requests, EndAll(q)
      PROVE  ends'[u] + Cardinality(EndsUnderWay(u)') <= EndBound + Cardinality(Requests)
  <2>1. PICK t \in access :
          /\ ends[t.user] < EndBound
          /\ Revoking(q, [Nothing EXCEPT !.phase = "ending", !.user = t.user,
                                         !.version = account[t.user].version],
                      {j \in DOMAIN tokens : tokens[j].user = t.user})
    BY <1>6 DEF EndAll
  <2>2. ends' = ends
    BY <1>6 DEF EndAll
  <2>3. t.user \in Addresses /\ account[t.user].version \in Nat
    BY <1>1 DEF AccessTypes, RecordsOK
  <2>4. [Nothing EXCEPT !.phase = "ending", !.user = t.user, !.version = account[t.user].version] \in Doing
    BY <1>1, <2>3, Doings
  <2>5. request'[q].user = t.user /\ \A p \in Requests \ {q} : /\ request'[p].phase = request[p].phase
                                                               /\ request'[p].user = request[p].user
    BY <1>1, <2>1, <2>4, RevokingAlone DEF AccessTypes, Nothing
  <2>6. CASE u = t.user
    <3>1. ends[u] < EndBound /\ ends'[u] = ends[u]
      BY <2>1, <2>2, <2>6
    <3> QED  BY <1>1, <1>3, <1>4, <3>1
  <2>7. CASE u # t.user
    BY <1>5, <2>2, <2>5, <2>7
  <2> QED  BY <2>6, <2>7
<1>7. ASSUME NEW q \in Requests, CommitEndAll(q)
      PROVE  ends'[u] + Cardinality(EndsUnderWay(u)') <= EndBound + Cardinality(Requests)
  <2>1. /\ ends' = [ends EXCEPT ![request[q].user] = @ + 1]
        /\ request' = [request EXCEPT ![q] = Nothing] /\ request[q].phase = "ending"
    BY <1>7 DEF CommitEndAll
  <2>2. request \in [Requests -> Doing] /\ Nothing.phase = "idle"
    BY <1>1 DEF AccessTypes, RequestsOK, Nothing
  <2>3. CASE request[q].user = u
    <3>1. EndsUnderWay(u)' \subseteq EndsUnderWay(u) \ {q} /\ q \in EndsUnderWay(u)
      BY <2>1, <2>2, <2>3 DEF EndsUnderWay
    <3>2. IsFiniteSet(EndsUnderWay(u) \ {q})
          /\ Cardinality(EndsUnderWay(u) \ {q}) = Cardinality(EndsUnderWay(u)) - 1
      BY <3>1, EndsCounted, FS_RemoveElement
    <3>3. Cardinality(EndsUnderWay(u)') <= Cardinality(EndsUnderWay(u)) - 1
      BY <3>1, <3>2, FS_Subset
    <3> QED  BY <1>1, <1>3, <1>4, <2>1, <2>3, <3>3
  <2>4. CASE request[q].user # u
    <3>1. Cardinality(EndsUnderWay(u)') <= Cardinality(EndsUnderWay(u))
      BY <2>1, <2>2, NoMoreEnds
    <3> QED  BY <1>1, <1>3, <1>4, <2>1, <2>4, <3>1
  <2> QED  BY <2>3, <2>4
<1>8. ASSUME ends' = ends, NEW q \in Requests, \A p \in Requests \ {q} : request'[p] = request[p],
             request'[q].phase # "ending"
      PROVE  ends'[u] + Cardinality(EndsUnderWay(u)') <= EndBound + Cardinality(Requests)
  BY <1>5, <1>8
<1>9. ASSUME NEW q \in Requests, Replay(q)
      PROVE  ends'[u] + Cardinality(EndsUnderWay(u)') <= EndBound + Cardinality(Requests)
  <2>1. PICK i \in DOMAIN tokens :
          Revoking(q, [Nothing EXCEPT !.phase = "replay", !.user = tokens[i].user,
                                      !.session = tokens[i].session],
                   {j \in DOMAIN tokens : tokens[j].family = tokens[i].family})
    BY <1>9 DEF Replay
  <2>2. tokens[i].user \in Addresses /\ tokens[i].session \in Nat
    BY <1>1, TokensNumbered DEF Token
  <2>3. [Nothing EXCEPT !.phase = "replay", !.user = tokens[i].user, !.session = tokens[i].session] \in Doing
    BY <1>1, <2>2, Doings
  <2>4. request'[q].phase = "replay" /\ \A p \in Requests \ {q} : /\ request'[p].phase = request[p].phase
                                                                   /\ request'[p].user = request[p].user
    BY <1>1, <2>1, <2>3, RevokingAlone DEF AccessTypes, Nothing
  <2>5. ends' = ends
    BY <1>9 DEF Replay
  <2> QED  BY <1>5, <2>4, <2>5
<1>10. ASSUME NEW q \in Requests,
              \/ BeginRegister(q) \/ BeginLogin(q) \/ BeginRotate(q) \/ CommitRegister(q)
              \/ CommitIssue(q) \/ Logout(q) \/ CommitRevocation(q) \/ LoseRequest(q)
      PROVE  ends'[u] + Cardinality(EndsUnderWay(u)') <= EndBound + Cardinality(Requests)
  <2>1. /\ ends' = ends
        /\ \A p \in Requests \ {q} : request'[p] = request[p]
        /\ request'[q].phase # "ending"
    <3>1. request \in [Requests -> Doing] /\ Nothing.phase = "idle"
      BY <1>1 DEF AccessTypes, RequestsOK, Nothing
    <3>3. CASE BeginRegister(q) \/ Logout(q)
      <4>1. PICK m : request' = [request EXCEPT ![q] = m] /\ m.phase \in {"register", "logout"}
        <5>1. /\ \A u1, o : [Nothing EXCEPT !.phase = "register", !.user = u1, !.offer = o].phase = "register"
              /\ \A i : [Nothing EXCEPT !.phase = "logout", !.doomed = {i}].phase = "logout"
          BY DEF Nothing
        <5>2. CASE BeginRegister(q)
          <6>1. PICK u1 \in Addresses, o \in Offers \cup {NoOffer} :
                  request' = [request EXCEPT ![q] = [Nothing EXCEPT !.phase = "register", !.user = u1,
                                                                    !.offer = o]]
            BY <5>2 DEF BeginRegister
          <6> QED  BY <5>1, <6>1
        <5>3. CASE Logout(q)
          BY ZenonT(30), <5>1, <5>3 DEF Logout
        <5> QED  BY <3>3, <5>2, <5>3
      <4>2. ends' = ends
        BY <3>3 DEF BeginRegister, Logout
      <4> QED  BY <3>1, <4>1, <4>2
    <3>4. CASE BeginLogin(q) \/ BeginRotate(q)
      <4>1. PICK m : request' = [request EXCEPT ![q] = m] /\ m.phase = "issue"
        <5>1. \A u1, i, f, n : Issuing("issue", u1, i, f, n).phase = "issue"
          BY DEF Issuing, Nothing
        <5> QED  BY <3>4, <5>1 DEF BeginLogin, BeginRotate
      <4>2. ends' = ends
        BY <3>4 DEF BeginLogin, BeginRotate
      <4> QED  BY <3>1, <4>1, <4>2
    <3>5. CASE CommitRegister(q) \/ CommitIssue(q) \/ CommitRevocation(q) \/ LoseRequest(q)
      BY <3>1, <3>5 DEF CommitRegister, CommitIssue, CommitRevocation, LoseRequest
    <3> QED  BY <1>10, <3>3, <3>4, <3>5
  <2> QED  BY <1>8, <2>1
<1>11. CASE Invite
  BY <1>5, <1>11 DEF Invite
<1> QED  BY <1>6, <1>7, <1>9, <1>10, <1>11 DEF AccessNext

(***************************************************************************)
(* Every variable has its type; no sign-in is younger than its tokens, and *)
(* no version goes beyond what requests to end all sessions add to it.     *)
(***************************************************************************)
THEOREM AccessTypeCorrect == AccessSpec => []AccessTypeOK
<1> DEFINE Bounds == OldestFirst /\ EndsBounded
<1>1. ASSUME AccessInit PROVE Bounds
  <2>1. DOMAIN tokens = {} /\ \A u \in Addresses : ends[u] = 0
    BY <1>1 DEF AccessInit
  <2>2. EndBound \in Nat
    BY AccessAssumption
  <2> QED  BY <2>1, <2>2, EndsCounted DEF OldestFirst, EndsBounded
<1>2. ASSUME AccessInv, Bounds, [AccessNext]_accessVars PROVE Bounds'
  <2>1. CASE AccessNext
    BY <1>2, <2>1, OldestStep, EndsStep
  <2>2. CASE UNCHANGED accessVars
    BY <1>2, <2>2 DEF accessVars, OldestFirst, EndsBounded, EndsUnderWay
  <2> QED  BY <1>2, <2>1, <2>2
<1>3. ASSUME AccessInv, Bounds PROVE AccessTypeOK
  <2>1. AccessTypes /\ VersionCounts /\ FamilyIsSession
    BY <1>3 DEF AccessInv, SessionInv
  <2>2. ASSUME NEW u \in Addresses PROVE account[u].version \in 0..(EndBound + Cardinality(Requests))
    <3>1. account[u].version = ends[u] /\ ends[u] \in Nat
      BY <2>1 DEF VersionCounts, AccessTypes, RecordsOK
    <3>2. ends[u] + Cardinality(EndsUnderWay(u)) <= EndBound + Cardinality(Requests)
      BY <1>3 DEF EndsBounded
    <3> QED  BY <3>1, <3>2, EndsCounted, AccessAssumption
  <2>3. account \in [Addresses -> [exists : BOOLEAN, version : 0..(EndBound + Cardinality(Requests)),
                                   via : Offers \cup {NoOffer}]]
    BY <2>1, <2>2 DEF AccessTypes, RecordsOK
  <2>4. ASSUME NEW i \in DOMAIN tokens
        PROVE  /\ tokens[i].user \in Addresses
               /\ tokens[i].family \in 1..i /\ tokens[i].session \in 1..i
    <3>1. tokens[i] \in Token /\ i \in Nat
      BY <2>1, TokensNumbered
    <3> QED  BY <1>3, <2>1, <3>1 DEF OldestFirst, FamilyIsSession, Token
  <2>5. \A q \in Requests : request[q].phase \in {"idle", "register", "issue", "replay",
                                                  "ending", "logout"}
    BY <2>1 DEF AccessTypes, RequestsOK, Doing
  <2> QED  BY <2>1, <2>3, <2>4, <2>5 DEF AccessTypeOK, AccessTypes, RecordsOK
<1> QED  BY <1>1, <1>2, <1>3, AccessInvariance, PTL DEF AccessSpec

----------------------------------------------------------------------------
(***************************************************************************)
(* The session in a browser.                                               *)
(***************************************************************************)

\* As long as there is no excuse, one tab at most refreshes, with the token that
\* is live, and the cookie lacks a token only until the answer arrives.
OneRefreshes ==
  excuse = {} =>
    /\ ~revoked /\ live # 0
    /\ \A p, q \in Pages : refresh[p].at # "none" /\ refresh[q].at # "none" => p = q
    /\ \A p \in Pages : /\ refresh[p].at \in {"none", "asking", "rotated"}
                        /\ refresh[p].at # "none" => refresh[p].token = live
                        /\ refresh[p].at = "asking" => live = cookie
    /\ (\A p \in Pages : refresh[p].at # "rotated") => live = cookie

Awaited == \A p \in Pages : (\E c \in Calls : page[p].call[c] = "waiting")
                               => refresh[p].at # "none"

BrowserInv == BrowserTypeOK /\ OneRefreshes /\ Awaited

----------------------------------------------------------------------------
\* The type invariant in two halves: the tokens, and what the tabs do.
TokenTypes == /\ cookie \in Nat /\ live \in Nat /\ issued \in Nat
              /\ refresh \in [Pages -> RefreshState]

TabTypes == /\ page \in [Pages -> PageState] /\ budget \in BudgetState
            /\ excuse \subseteq {"tabs crossed", "answer lost", "signed out"}

LEMMA Halves == BrowserTypeOK <=> TokenTypes /\ TabTypes /\ revoked \in BOOLEAN
  BY DEF BrowserTypeOK, TokenTypes, TabTypes

LEMMA TokensChange ==
  ASSUME TokenTypes, NEW p \in Pages, NEW at \in {"none", "asking", "rotated", "refused"},
         NEW n \in Nat, refresh' = [refresh EXCEPT ![p] = [at |-> at, token |-> n]],
         cookie' \in Nat, live' \in Nat, issued' \in Nat
  PROVE  TokenTypes'
<1>1. [at |-> at, token |-> n] \in RefreshState
  BY DEF RefreshState
<1>2. QED BY <1>1 DEF TokenTypes

\* A tab that comes to rest, or asks.
LEMMA TokensRest ==
  ASSUME TokenTypes, NEW p \in Pages, UNCHANGED issued,
         cookie' \in {cookie, refresh[p].token, 0}, live' \in {live, 0},
         \/ refresh' = [refresh EXCEPT ![p] = NoRefresh]
         \/ refresh' = [refresh EXCEPT ![p] = [at |-> "asking", token |-> cookie]]
         \/ refresh' = [refresh EXCEPT ![p].at = "refused"]
         \/ refresh' = refresh
  PROVE  TokenTypes'
<1>0. /\ refresh[p] \in RefreshState /\ refresh[p].token \in Nat
      /\ cookie \in Nat /\ live \in Nat /\ issued' \in Nat
  BY DEF TokenTypes, RefreshState
<1>1. cookie' \in Nat /\ live' \in Nat
  BY <1>0
<1>2. CASE refresh' = [refresh EXCEPT ![p] = NoRefresh]
  BY <1>0, <1>1, <1>2, TokensChange DEF NoRefresh
<1>3. CASE refresh' = [refresh EXCEPT ![p] = [at |-> "asking", token |-> cookie]]
  BY <1>0, <1>1, <1>3, TokensChange
<1>4. CASE refresh' = [refresh EXCEPT ![p].at = "refused"]
  <2>1. refresh' = [refresh EXCEPT ![p] = [at |-> "refused", token |-> refresh[p].token]]
    BY <1>0, <1>4 DEF RefreshState
  <2>2. QED BY <1>0, <1>1, <2>1, TokensChange
<1>5. CASE refresh' = refresh
  BY <1>0, <1>1, <1>5 DEF TokenTypes
<1>6. QED BY <1>2, <1>3, <1>4, <1>5

LEMMA ResumedType ==
  ASSUME TabTypes, NEW p \in Pages, NEW given \in {"good", "none"}, Resumed(p, given)
  PROVE  page' \in [Pages -> PageState]
<1> DEFINE s == [access |-> given,
                 call |-> [c \in Calls |-> IF page[p].call[c] # "waiting" THEN page[p].call[c]
                                           ELSE IF given = "good" THEN "resent" ELSE "idle"]]
<1>1. page' = [page EXCEPT ![p] = s]
  BY DEF Resumed
<1>2. page[p] \in PageState
  BY DEF TabTypes
<1>3. s \in PageState
  BY <1>2 DEF PageState
<1> HIDE DEF s
<1>4. QED BY <1>1, <1>3 DEF TabTypes

LEMMA RefreshingKeeps ==
  ASSUME TokenTypes, TabTypes, OneRefreshes, NEW p \in Pages, Refreshing(p),
         UNCHANGED <<cookie, live, issued, revoked>>
  PROVE  /\ OneRefreshes' /\ TokenTypes'
         /\ excuse' \subseteq {"tabs crossed", "answer lost", "signed out"}
         /\ refresh'[p].at # "none"
         /\ \A q \in Pages \ {p} : refresh'[q] = refresh[q]
<1>1. CASE refresh[p].at # "none"
  BY <1>1 DEF Refreshing, OneRefreshes, TokenTypes, TabTypes
<1>2. CASE refresh[p].at = "none"
  <2>1. /\ refresh' = [refresh EXCEPT ![p] = [at |-> "asking", token |-> cookie]]
        /\ excuse' = excuse \cup
             {"tabs crossed" : q \in {q \in Pages : refresh[q].at # "none"}}
    BY <1>2 DEF Refreshing
  <2>2. excuse' = {} => excuse = {} /\ \A q \in Pages : refresh[q].at = "none"
    BY <2>1
  <2>3. excuse' \subseteq {"tabs crossed", "answer lost", "signed out"}
    BY <2>1 DEF TabTypes
  <2>4. TokenTypes'
    BY <2>1, TokensRest
  <2>5. OneRefreshes'
    BY <2>1, <2>2 DEF OneRefreshes, TokenTypes, RefreshState
  <2>6. QED BY <2>1, <2>3, <2>4, <2>5 DEF TokenTypes
<1>3. QED BY <1>1, <1>2

LEMMA BrowserTypesStep ==
  TokenTypes /\ TabTypes /\ OneRefreshes /\ BrowserNext => TokenTypes' /\ TabTypes'
<1> SUFFICES ASSUME TokenTypes, TabTypes, OneRefreshes, BrowserNext PROVE TokenTypes' /\ TabTypes'
  OBVIOUS
<1>0. \A p \in Pages : page[p] \in PageState
  BY DEF TabTypes
<1>1. ASSUME NEW p \in Pages, Restore(p) PROVE TokenTypes' /\ TabTypes'
  BY <1>1, RefreshingKeeps DEF Restore, TabTypes
<1>2. ASSUME NEW p \in Pages, Expire(p) PROVE TokenTypes' /\ TabTypes'
  <2>1. budget' \in BudgetState
    <3>1. /\ budget \in BudgetState /\ budget.expiries > 0
          /\ budget' = [budget EXCEPT !.expiries = @ - 1]
      BY <1>2 DEF Expire, TabTypes
    <3>2. QED BY <3>1, BrowserAssumption DEF BudgetState
  <2> DEFINE s == [access |-> "expired",
                   call |-> [c \in Calls |-> IF page[p].call[c] = "sent" THEN "unauthorized"
                                             ELSE page[p].call[c]]]
  <2>2. s \in PageState
    BY <1>0 DEF PageState
  <2>3. page' = [page EXCEPT ![p] = s]
    BY <1>2 DEF Expire
  <2> HIDE DEF s
  <2>4. page' \in [Pages -> PageState]
    BY <2>2, <2>3 DEF TabTypes
  <2>5. QED BY <1>2, <2>1, <2>4 DEF Expire, TabTypes, TokenTypes
<1>3. ASSUME NEW p \in Pages, Rotate(p) PROVE TokenTypes' /\ TabTypes'
  <2>1. TabTypes'
    BY <1>3 DEF Rotate, TabTypes
  <2>2. CASE refresh[p].token = live /\ live # 0
    <3>1. /\ live' = issued + 1 /\ issued' = issued + 1 /\ UNCHANGED cookie
          /\ refresh' = [refresh EXCEPT ![p] = [at |-> "rotated", token |-> issued + 1]]
      BY <1>3, <2>2 DEF Rotate
    <3>2. TokenTypes'
      <4>1. issued + 1 \in Nat /\ cookie \in Nat
        BY DEF TokenTypes
      <4>2. QED BY <3>1, <4>1, TokensChange
    <3>3. QED BY <2>1, <3>2
  <2>3. CASE ~(refresh[p].token = live /\ live # 0)
    <3>1. TokenTypes'
      BY <1>3, <2>3, TokensRest DEF Rotate
    <3>2. QED BY <2>1, <3>1
  <2>4. QED BY <2>2, <2>3
<1>4. ASSUME NEW p \in Pages, Refreshed(p) PROVE TokenTypes' /\ TabTypes'
  BY <1>4, ResumedType, TokensRest DEF Refreshed, TabTypes
<1>5. ASSUME NEW p \in Pages, RefreshFails(p) PROVE TokenTypes' /\ TabTypes'
  <2>1. page' \in [Pages -> PageState] /\ TokenTypes'
    BY <1>5, ResumedType, TokensRest DEF RefreshFails
  <2>2. QED BY <1>5, <2>1 DEF RefreshFails, TabTypes
<1>6. ASSUME NEW p \in Pages, Reload(p) PROVE TokenTypes' /\ TabTypes'
  <2>1. FreshPage \in PageState
    BY DEF FreshPage, PageState
  <2>2. page' \in [Pages -> PageState]
    BY <1>6, <2>1 DEF Reload, TabTypes
  <2>3. budget' \in BudgetState
    <3>1. /\ budget \in BudgetState /\ budget.reloads > 0
          /\ budget' = [budget EXCEPT !.reloads = @ - 1]
      BY <1>6 DEF Reload, TabTypes
    <3>2. QED BY <3>1, BrowserAssumption DEF BudgetState
  <2>4. TokenTypes'
    BY <1>6, TokensRest DEF Reload
  <2>5. QED BY <1>6, <2>2, <2>3, <2>4 DEF Reload, TabTypes
<1>7. ASSUME NEW p \in Pages, Leaves(p) PROVE TokenTypes' /\ TabTypes'
  <2>1. page' \in [Pages -> PageState]
    BY <1>7 DEF Leaves, TabTypes, PageState
  <2>2. TokenTypes'
    BY <1>7, TokensRest DEF Leaves
  <2>3. QED BY <1>7, <2>1, <2>2 DEF Leaves, TabTypes
<1>8. ASSUME NEW p \in Pages, NEW c \in Calls, Call(p, c) \/ Answered(p, c)
      PROVE TokenTypes' /\ TabTypes'
  <2>1. page' \in [Pages -> PageState]
    <3>1. PICK to \in {"idle", "sent", "unauthorized"} : page' = [page EXCEPT ![p].call[c] = to]
      BY <1>8 DEF Call, Answered
    <3>2. QED BY <3>1 DEF TabTypes, PageState
  <2>2. QED BY <1>8, <2>1 DEF Call, Answered, TabTypes, TokenTypes
<1>9. ASSUME NEW p \in Pages, NEW c \in Calls, Unauthorized(p, c) PROVE TokenTypes' /\ TabTypes'
  <2>1. page' \in [Pages -> PageState]
    BY <1>9 DEF Unauthorized, TabTypes, PageState
  <2>2. QED BY <1>9, <2>1, RefreshingKeeps DEF Unauthorized, TabTypes
<1>10. QED
  BY <1>1, <1>2, <1>3, <1>4, <1>5, <1>6, <1>7, <1>8, <1>9 DEF BrowserNext

LEMMA OneRefreshesStep ==
  ASSUME TokenTypes, TabTypes, OneRefreshes, BrowserNext
  PROVE  OneRefreshes'
<1> USE DEF OneRefreshes, TokenTypes, RefreshState
<1>1. ASSUME NEW p \in Pages, Restore(p) PROVE OneRefreshes'
  BY <1>1, RefreshingKeeps DEF Restore
<1>2. ASSUME NEW p \in Pages, Expire(p) PROVE OneRefreshes'
  BY <1>2 DEF Expire
<1>3. ASSUME NEW p \in Pages, Rotate(p) PROVE OneRefreshes'
  <2>1. CASE refresh[p].token = live /\ live # 0
    BY <1>3, <2>1 DEF Rotate
  <2>2. CASE ~(refresh[p].token = live /\ live # 0)
    BY <1>3, <2>2 DEF Rotate
  <2>3. QED BY <2>1, <2>2
<1>4. ASSUME NEW p \in Pages, Refreshed(p) PROVE OneRefreshes'
  BY <1>4 DEF Refreshed, NoRefresh
<1>5. ASSUME NEW p \in Pages, RefreshFails(p) \/ Reload(p) PROVE OneRefreshes'
  <2>1. excuse' = {} => excuse = {} /\ refresh[p].at # "rotated"
    <3>1. excuse' = excuse \cup {"answer lost" : r \in {r \in {"rotated"} : refresh[p].at = r}}
      BY <1>5 DEF RefreshFails, Reload
    <3>2. refresh[p].at = "rotated" => "answer lost" \in excuse'
      BY <3>1
    <3>3. QED BY <3>1, <3>2
  <2>2. /\ refresh' = [refresh EXCEPT ![p] = NoRefresh]
        /\ UNCHANGED <<cookie, live, revoked>>
    BY <1>5 DEF RefreshFails, Reload
  <2>3. QED BY <2>1, <2>2 DEF NoRefresh
<1>6. ASSUME NEW p \in Pages, Leaves(p) PROVE OneRefreshes'
  BY <1>6 DEF Leaves
<1>7. ASSUME NEW p \in Pages, NEW c \in Calls, Call(p, c) \/ Answered(p, c) PROVE OneRefreshes'
  BY <1>7 DEF Call, Answered
<1>8. ASSUME NEW p \in Pages, NEW c \in Calls, Unauthorized(p, c) PROVE OneRefreshes'
  BY <1>8, RefreshingKeeps DEF Unauthorized
<1>9. QED
  BY <1>1, <1>2, <1>3, <1>4, <1>5, <1>6, <1>7, <1>8 DEF BrowserNext

LEMMA AwaitedStep ==
  ASSUME TokenTypes, TabTypes, OneRefreshes, Awaited, BrowserNext
  PROVE  Awaited'
<1> USE DEF Awaited
<1>0. /\ refresh \in [Pages -> RefreshState] /\ page \in [Pages -> PageState]
      /\ \A p \in Pages : page[p] \in PageState /\ refresh[p] \in RefreshState
      /\ \A p \in Pages : page[p].call \in [Calls -> {"idle", "sent", "unauthorized",
                                                      "waiting", "resent"}]
  BY DEF TokenTypes, TabTypes, PageState
<1>1. ASSUME NEW p \in Pages, Restore(p) PROVE Awaited'
  BY <1>1, RefreshingKeeps DEF Restore
<1>2. ASSUME NEW p \in Pages, Expire(p) PROVE Awaited'
  BY <1>0, <1>2 DEF Expire
<1>3. ASSUME NEW p \in Pages, Rotate(p) PROVE Awaited'
  BY <1>0, <1>3 DEF Rotate, RefreshState
<1>4. ASSUME NEW p \in Pages, NEW given \in {"good", "none"}, Resumed(p, given),
             refresh' = [refresh EXCEPT ![p] = NoRefresh]
      PROVE Awaited'
  BY <1>0, <1>4 DEF Resumed, NoRefresh
<1>5. ASSUME NEW p \in Pages, Reload(p) PROVE Awaited'
  BY <1>0, <1>5 DEF Reload, FreshPage, NoRefresh
<1>6. ASSUME NEW p \in Pages, Leaves(p) PROVE Awaited'
  BY <1>0, <1>6 DEF Leaves, PageState
<1>7. ASSUME NEW p \in Pages, NEW c \in Calls, Call(p, c) \/ Answered(p, c) PROVE Awaited'
  <2>1. PICK to \in {"idle", "sent", "unauthorized"} :
          page' = [page EXCEPT ![p].call[c] = to] /\ UNCHANGED refresh
    BY <1>7 DEF Call, Answered
  <2>2. QED BY <1>0, <2>1 DEF PageState
<1>8. ASSUME NEW p \in Pages, NEW c \in Calls, Unauthorized(p, c) PROVE Awaited'
  <2>1. /\ refresh'[p].at # "none"
        /\ \A q \in Pages \ {p} : refresh'[q] = refresh[q] /\ page'[q] = page[q]
    BY <1>0, <1>8, RefreshingKeeps DEF Unauthorized
  <2>2. QED BY <2>1
<1>9. QED
  BY <1>1, <1>2, <1>3, <1>4, <1>5, <1>6, <1>7, <1>8 DEF BrowserNext, Refreshed, RefreshFails

LEMMA BrowserStep == BrowserInv /\ [BrowserNext]_browserVars => BrowserInv'
<1> SUFFICES ASSUME BrowserInv, [BrowserNext]_browserVars PROVE BrowserInv'
  OBVIOUS
<1>0. TokenTypes /\ TabTypes /\ OneRefreshes /\ Awaited
  BY Halves DEF BrowserInv
<1>1. CASE BrowserNext
  <2>1. TokenTypes' /\ TabTypes' /\ OneRefreshes' /\ Awaited'
    BY <1>0, <1>1, BrowserTypesStep, OneRefreshesStep, AwaitedStep
  <2>2. revoked' \in BOOLEAN
    BY <1>1 DEF BrowserInv, BrowserTypeOK, BrowserNext, Restore, Expire, Rotate, Refreshed,
              RefreshFails, Reload, Leaves, Call, Answered, Unauthorized
  <2>3. QED BY <2>1, <2>2 DEF BrowserInv, BrowserTypeOK, TokenTypes, TabTypes
<1>2. CASE UNCHANGED browserVars
  <2>1. TokenTypes' /\ TabTypes' /\ OneRefreshes' /\ Awaited'
    BY <1>0, <1>2 DEF browserVars, TokenTypes, TabTypes, OneRefreshes, Awaited
  <2>2. revoked' \in BOOLEAN
    BY <1>2 DEF browserVars, BrowserInv, BrowserTypeOK
  <2>3. QED BY <2>1, <2>2 DEF BrowserInv, BrowserTypeOK, TokenTypes, TabTypes
<1>3. QED BY <1>1, <1>2

LEMMA BrowserInvariance == BrowserSpec => []BrowserInv
<1>1. BrowserInit => BrowserInv
  <2> SUFFICES ASSUME BrowserInit PROVE BrowserInv
    OBVIOUS
  <2>1. refresh \in [Pages -> RefreshState]
    BY DEF BrowserInit, NoRefresh, RefreshState
  <2>2. page \in [Pages -> PageState]
    BY DEF BrowserInit, FreshPage, PageState
  <2>3. budget \in BudgetState
    BY BrowserAssumption DEF BrowserInit, BudgetState
  <2>4. BrowserTypeOK
    BY <2>1, <2>2, <2>3 DEF BrowserInit, BrowserTypeOK
  <2>5. OneRefreshes
    BY DEF BrowserInit, NoRefresh, OneRefreshes
  <2>6. Awaited
    BY DEF BrowserInit, FreshPage, Awaited
  <2>7. QED BY <2>4, <2>5, <2>6 DEF BrowserInv
<1>2. QED BY <1>1, BrowserStep, PTL DEF BrowserSpec

(***************************************************************************)
(* For any number of tabs, requests, expiries and reloads: the shared      *)
(* inFlightRefresh keeps rotate_refresh_token from taking a token for      *)
(* stolen, unless an answer was lost, tabs crossed or the user signed out. *)
(***************************************************************************)
THEOREM NormalUseStaysSignedInHolds == BrowserSpec => []NormalUseStaysSignedIn
<1>1. BrowserInv => NormalUseStaysSignedIn
  <2> SUFFICES ASSUME BrowserInv PROVE NormalUseStaysSignedIn
    OBVIOUS
  <2> USE DEF BrowserInv
  <2>1. excuse = {} => \/ live = cookie
                       \/ \E p \in Pages : refresh[p] = [at |-> "rotated", token |-> live]
    BY Halves DEF OneRefreshes, TokenTypes, RefreshState
  <2>2. revoked => excuse # {}
    BY DEF OneRefreshes
  <2>3. QED BY <2>1, <2>2 DEF NormalUseStaysSignedIn, Awaited
<1>2. QED BY <1>1, BrowserInvariance, PTL

----------------------------------------------------------------------------
(***************************************************************************)
(* The throttle of sign-in attempts.                                       *)
(***************************************************************************)

\* What is kept of a key, whether or not it is held; the j-th attempt from the last.
Kept(k) == IF k \in DOMAIN window THEN window[k] ELSE <<>>
FromLast(ages, j) == ages[Len(ages) + 1 - j]

\* Attempts of a key under way that the throttle has let through.
LetThrough(k) == {s \in Slots : attempt[s] # NoAttempt /\ attempt[s].key = k /\ ~attempt[s].open}

\* Failures come in their order, none of them expired.
FailuresInOrder ==
  \A k \in ThrottleKeys : \A i, j \in DOMAIN failures[k] :
    failures[k][i] < ThrottleWindow /\ (i <= j => failures[k][j] <= failures[k][i])

\* The last failures of a key, as far as nothing excuses them, are what is kept of it.
FailuresAreKept ==
  \A k \in ThrottleKeys : \A j \in 1..Len(failures[k]) :
    FromLast(failures[k], j) < excused[k]
      => j <= Len(Kept(k)) /\ FromLast(Kept(k), j) = FromLast(failures[k], j)

\* What is kept of a key, as far as nothing excuses it, leaves room for what is under way.
FewAreKept ==
  \A k \in ThrottleKeys : \A j \in 1..Len(Kept(k)) :
    FromLast(Kept(k), j) < excused[k]
      => j + Cardinality(LetThrough(k)) <= MaxTries + Cardinality(Slots) - 1

FewKeys == /\ IsFiniteSet(DOMAIN window)
           /\ backend = "process" => Cardinality(DOMAIN window) <= MaxKeys

\* What the process keeps is always there to be asked.
OpenInRedis == \A s \in Slots : attempt[s].open => backend = "redis"

ThrottleInv == /\ ThrottleTypeOK /\ FailuresInOrder /\ FailuresAreKept
               /\ FewAreKept /\ FewKeys /\ OpenInRedis

----------------------------------------------------------------------------
LEMMA ThrottleNumbers == /\ ThrottleWindow \in Nat /\ ThrottleWindow > 0
                         /\ MaxTries \in Nat /\ MaxTries > 0 /\ MaxKeys \in Nat /\ MaxKeys > 0
                         /\ Cardinality(Slots) \in Nat
                         /\ 0 \in Ages /\ ThrottleWindow \in Ages /\ Ages \subseteq Nat
  BY ThrottleAssumption, FS_CardinalityType DEF Ages

\* What _prune leaves: the end of the sequence, with every attempt that has not expired.
LEMMA Pruning ==
  ASSUME NEW ages \in Seq(Ages)
  PROVE  /\ InWindow(ages) \in Seq(Ages) /\ Len(InWindow(ages)) <= Len(ages)
         /\ \A j \in 1..Len(InWindow(ages)) : FromLast(InWindow(ages), j) = FromLast(ages, j)
         /\ \A j \in 1..Len(ages) :
              FromLast(ages, j) < ThrottleWindow => j <= Len(InWindow(ages))
         /\ Len(InWindow(ages)) > 0
              => FromLast(ages, Len(InWindow(ages))) < ThrottleWindow
<1>1. \E n \in 0..Len(ages) : Expired(ages, n)
  <2> DEFINE within == {i \in DOMAIN ages : ages[i] < ThrottleWindow}
  <2>a. \A i \in 1..Len(ages) : ages[i] \in Nat
    <3>1. \A i \in 1..Len(ages) : ages[i] \in Ages
      OBVIOUS
    <3>2. QED BY <3>1, ThrottleNumbers
  <2>b. DOMAIN ages = 1..Len(ages) /\ Len(ages) \in Nat
    OBVIOUS
  <2>1. CASE within = {}
    <3>1. \A i \in 1..Len(ages) : ~(ages[i] < ThrottleWindow)
      BY <2>1, <2>b
    <3>2. Expired(ages, Len(ages))
      BY <3>1, <2>a, <2>b, ThrottleNumbers DEF Expired
    <3>3. QED BY <3>2, <2>b
  <2>2. CASE within # {}
    <3>0. within \in SUBSET Nat
      BY <2>b
    <3>1. \E i \in within : \A j \in within : i <= j
      BY <2>2, <3>0, LeastNumber
    <3>2. PICK i \in within : \A j \in within : i <= j
      BY <3>1
    <3>3. i \in 1..Len(ages) /\ ages[i] < ThrottleWindow
      BY <2>b
    <3>4. \A j \in 1..Len(ages) : ages[j] < ThrottleWindow => i <= j
      BY <2>b, <3>2
    <3> HIDE DEF within
    <3>5. \A j \in 1..(i - 1) : ages[j] >= ThrottleWindow
      BY <2>a, <2>b, <3>3, <3>4, ThrottleNumbers
    <3>6. Expired(ages, i - 1) /\ i - 1 \in 0..Len(ages)
      BY <2>b, <3>3, <3>5 DEF Expired
    <3>7. QED BY <3>6
  <2>3. QED BY <2>1, <2>2
<1>2. PICK n \in 0..Len(ages) : Expired(ages, n) /\ InWindow(ages) = SubSeq(ages, n + 1, Len(ages))
  BY <1>1 DEF InWindow
<1>3. /\ InWindow(ages) \in Seq(Ages) /\ Len(InWindow(ages)) = Len(ages) - n
      /\ \A i \in 1..Len(ages) - n : InWindow(ages)[i] = ages[n + i]
  <2>1. n + 1 \in Int /\ Len(ages) \in Int /\ \A i \in n + 1..Len(ages) : ages[i] \in Ages
    OBVIOUS
  <2>2. /\ SubSeq(ages, n + 1, Len(ages)) \in Seq(Ages)
        /\ Len(SubSeq(ages, n + 1, Len(ages)))
             = IF n + 1 <= Len(ages) THEN Len(ages) - (n + 1) + 1 ELSE 0
        /\ \A i \in 1..Len(ages) - (n + 1) + 1 :
             SubSeq(ages, n + 1, Len(ages))[i] = ages[n + 1 + i - 1]
    BY <2>1, SubSeqProperties
  <2>3. \A i \in 1..Len(ages) - n :
          i \in 1..Len(ages) - (n + 1) + 1 /\ n + 1 + i - 1 = n + i
    OBVIOUS
  <2>4. QED BY <1>2, <2>2, <2>3
<1>4. \A j \in 1..Len(ages) - n : FromLast(InWindow(ages), j) = FromLast(ages, j)
  BY <1>3 DEF FromLast
<1>5. \A j \in 1..Len(ages) : FromLast(ages, j) < ThrottleWindow => j <= Len(ages) - n
  <2> SUFFICES ASSUME NEW j \in 1..Len(ages), j > Len(ages) - n
               PROVE  ~(FromLast(ages, j) < ThrottleWindow)
    OBVIOUS
  <2>1. Len(ages) + 1 - j \in 1..n
    OBVIOUS
  <2>2. ages[Len(ages) + 1 - j] >= ThrottleWindow
    BY <1>2, <2>1 DEF Expired
  <2>3. ages[Len(ages) + 1 - j] \in Nat
    <3>1. Len(ages) + 1 - j \in 1..Len(ages)
      OBVIOUS
    <3>2. ages[Len(ages) + 1 - j] \in Ages
      BY <3>1
    <3>3. QED BY <3>2, ThrottleNumbers
  <2>4. QED BY <2>2, <2>3, ThrottleNumbers DEF FromLast
<1>6. Len(ages) - n > 0 => FromLast(ages, Len(ages) - n) < ThrottleWindow
  BY <1>2 DEF Expired, FromLast
<1>7. QED BY <1>3, <1>4, <1>5, <1>6

\* A tick later.
LEMMA Ageing ==
  ASSUME NEW ages \in Seq(Ages)
  PROVE  /\ Older(ages) \in Seq(Ages) /\ Len(Older(ages)) = Len(ages)
         /\ \A i \in 1..Len(ages) : Older(ages)[i] = IF ages[i] < ThrottleWindow THEN ages[i] + 1
                                                     ELSE ages[i]
         /\ \A j \in 1..Len(ages) :
              /\ FromLast(ages, j) \in Ages
              /\ FromLast(Older(ages), j) = IF FromLast(ages, j) < ThrottleWindow
                                            THEN FromLast(ages, j) + 1 ELSE FromLast(ages, j)
<1>1. \A i \in 1..Len(ages) : /\ ages[i] \in Ages
                              /\ (IF ages[i] < ThrottleWindow THEN ages[i] + 1 ELSE ages[i]) \in Ages
  BY ThrottleNumbers DEF Ages
<1>2. Older(ages) = [i \in 1..Len(ages) |-> IF ages[i] < ThrottleWindow THEN ages[i] + 1
                                            ELSE ages[i]]
  BY DEF Older
<1>3. Older(ages) \in Seq(Ages) /\ Len(Older(ages)) = Len(ages)
  BY <1>1, <1>2
<1>4. \A i \in 1..Len(ages) : Older(ages)[i] = IF ages[i] < ThrottleWindow THEN ages[i] + 1
                                               ELSE ages[i]
  BY <1>2
<1>5. \A j \in 1..Len(ages) : Len(ages) + 1 - j \in 1..Len(ages)
  OBVIOUS
<1>6. QED BY <1>1, <1>3, <1>4, <1>5 DEF FromLast

\* One more attempt, just made.
LEMMA OneMore ==
  ASSUME NEW ages \in Seq(Ages)
  PROVE  /\ Append(ages, 0) \in Seq(Ages) /\ Len(Append(ages, 0)) = Len(ages) + 1
         /\ \A i \in 1..Len(ages) : Append(ages, 0)[i] = ages[i]
         /\ FromLast(Append(ages, 0), 1) = 0 /\ Append(ages, 0)[Len(ages) + 1] = 0
         /\ \A j \in 2..Len(ages) + 1 : FromLast(Append(ages, 0), j) = FromLast(ages, j - 1)
<1>1. /\ Append(ages, 0) \in Seq(Ages) /\ Len(Append(ages, 0)) = Len(ages) + 1
      /\ \A i \in 1..Len(ages) : Append(ages, 0)[i] = ages[i]
      /\ Append(ages, 0)[Len(ages) + 1] = 0
  <2>1. 0 \in Ages
    BY ThrottleNumbers
  <2>2. QED BY <2>1
<1>2. \A j \in 2..Len(ages) + 1 : FromLast(Append(ages, 0), j) = FromLast(ages, j - 1)
  BY <1>1 DEF FromLast
<1>3. FromLast(Append(ages, 0), 1) = 0
  BY <1>1 DEF FromLast
<1>4. QED BY <1>1, <1>2, <1>3

----------------------------------------------------------------------------
\* A key that is held, or not.
LEMMA KeptTypes == ASSUME ThrottleTypeOK, NEW k \in ThrottleKeys PROVE Kept(k) \in Seq(Ages)
<1>1. window \in [DOMAIN window -> Seq(Ages) \ {<<>>}]
  BY DEF ThrottleTypeOK
<1>2. CASE k \in DOMAIN window
  BY <1>1, <1>2 DEF Kept
<1>3. CASE k \notin DOMAIN window
  BY <1>3 DEF Kept
<1>4. QED BY <1>2, <1>3

LEMMA HeldTypes ==
  ASSUME ThrottleTypeOK, NEW k \in ThrottleKeys
  PROVE  /\ Held(k) \in Seq(Ages) /\ Len(Held(k)) \in Nat /\ Len(Held(k)) <= Len(Kept(k))
         /\ \A j \in 1..Len(Held(k)) : FromLast(Held(k), j) = FromLast(Kept(k), j)
         /\ \A j \in 1..Len(Kept(k)) :
              FromLast(Kept(k), j) < ThrottleWindow => j <= Len(Held(k))
<1>1. CASE k \in DOMAIN window
  <2>1. Kept(k) \in Seq(Ages) /\ Held(k) = InWindow(Kept(k))
    BY <1>1, KeptTypes DEF Held, Kept
  <2>2. QED BY <2>1, Pruning
<1>2. CASE k \notin DOMAIN window
  BY <1>2 DEF Held, Kept
<1>3. QED BY <1>1, <1>2

\* What is under way lies within the slots.
LEMMA UnderWay == \A k : /\ IsFiniteSet(LetThrough(k)) /\ Cardinality(LetThrough(k)) \in Nat
                         /\ Cardinality(LetThrough(k)) <= Cardinality(Slots)
<1> TAKE k
<1>1. LetThrough(k) \in SUBSET Slots
  BY DEF LetThrough
<1>2. IsFiniteSet(Slots)
  BY ThrottleAssumption
<1>3. IsFiniteSet(LetThrough(k)) /\ Cardinality(LetThrough(k)) <= Cardinality(Slots)
  BY <1>1, <1>2, FS_Subset
<1>4. QED BY <1>3, FS_CardinalityType

LEMMA TickStep == ASSUME ThrottleInv, ThrottleTick PROVE ThrottleInv'
<1> DEFINE F == failures
           W == ThrottleWindow
<1>1. /\ window' = [k \in DOMAIN window |-> Older(window[k])]
      /\ failures' = [k \in ThrottleKeys |-> InWindow(Older(failures[k]))]
      /\ excused' = [k \in ThrottleKeys |-> IF excused[k] < W THEN excused[k] + 1 ELSE excused[k]]
      /\ UNCHANGED <<backend, attempt>>
  BY DEF ThrottleTick
<1>2. /\ DOMAIN window \subseteq ThrottleKeys /\ window \in [DOMAIN window -> Seq(Ages) \ {<<>>}]
      /\ failures \in [ThrottleKeys -> Seq(Ages)]
      /\ excused \in [ThrottleKeys -> Ages]
  BY DEF ThrottleInv, ThrottleTypeOK
<1>3. \A k \in ThrottleKeys : /\ failures[k] \in Seq(Ages) /\ Older(failures[k]) \in Seq(Ages)
                              /\ failures'[k] = InWindow(Older(failures[k]))
                              /\ failures'[k] \in Seq(Ages)
  BY <1>1, <1>2, Pruning, Ageing
<1>4. DOMAIN window' = DOMAIN window
  BY <1>1
<1>5. \A k \in ThrottleKeys : /\ Kept(k) \in Seq(Ages) /\ Len(Kept(k)') = Len(Kept(k))
                              /\ \A j \in 1..Len(Kept(k)) :
                                   FromLast(Kept(k)', j) = FromLast(Older(Kept(k)), j)
  <2> SUFFICES ASSUME NEW k \in ThrottleKeys
               PROVE  /\ Kept(k) \in Seq(Ages) /\ Len(Kept(k)') = Len(Kept(k))
                      /\ \A j \in 1..Len(Kept(k)) :
                           FromLast(Kept(k)', j) = FromLast(Older(Kept(k)), j)
    OBVIOUS
  <2>1. Kept(k) \in Seq(Ages)
    BY KeptTypes DEF ThrottleInv
  <2>2. CASE k \in DOMAIN window
    <3>1. Kept(k)' = Older(Kept(k))
      BY <1>1, <1>4, <2>2 DEF Kept
    <3>2. QED BY <2>1, <3>1, Ageing
  <2>3. CASE k \notin DOMAIN window
    BY <1>4, <2>1, <2>3 DEF Kept
  <2>4. QED BY <2>2, <2>3
<1>6. \A k \in ThrottleKeys :
        /\ excused[k] \in Nat /\ excused[k] <= W
        /\ excused'[k] = IF excused[k] < W THEN excused[k] + 1 ELSE excused[k]
  BY <1>1, <1>2 DEF Ages
<1>7. ThrottleTypeOK'
  <2>1. excused' \in [ThrottleKeys -> Ages]
    <3>1. \A k \in ThrottleKeys : (IF excused[k] < W THEN excused[k] + 1 ELSE excused[k]) \in Ages
      BY <1>6, ThrottleNumbers DEF Ages
    <3>2. QED BY <1>1, <3>1
  <2>2. failures' \in [ThrottleKeys -> Seq(Ages)]
    <3>1. \A k \in ThrottleKeys : InWindow(Older(failures[k])) \in Seq(Ages)
      BY <1>3
    <3>2. QED BY <1>1, <3>1
  <2>3. window' \in [DOMAIN window' -> Seq(Ages) \ {<<>>}]
    <3>1. \A k \in DOMAIN window : Older(window[k]) \in Seq(Ages) \ {<<>>}
      <4> SUFFICES ASSUME NEW k \in DOMAIN window PROVE Older(window[k]) \in Seq(Ages) \ {<<>>}
        OBVIOUS
      <4>1. window[k] \in Seq(Ages) /\ window[k] # <<>>
        BY <1>2
      <4>2. Older(window[k]) \in Seq(Ages) /\ Len(Older(window[k])) = Len(window[k])
        BY <4>1, Ageing
      <4>3. Len(window[k]) # 0
        BY <4>1
      <4>4. QED BY <4>2, <4>3
    <3>2. QED BY <1>1, <1>4, <3>1
  <2>4. DOMAIN window' \subseteq ThrottleKeys
    BY <1>2, <1>4
  <2>5. backend' \in {"process", "redis"} /\ attempt' \in [Slots -> Attempt]
    BY <1>1 DEF ThrottleInv, ThrottleTypeOK
  <2>6. QED BY <2>1, <2>2, <2>3, <2>4, <2>5 DEF ThrottleTypeOK
<1>8. FailuresInOrder'
  <2> SUFFICES ASSUME NEW k \in ThrottleKeys, NEW i \in DOMAIN failures'[k],
                      NEW j \in DOMAIN failures'[k]
               PROVE  /\ failures'[k][i] < W
                      /\ i <= j => failures'[k][j] <= failures'[k][i]
    BY DEF FailuresInOrder
  <2> DEFINE O == Older(failures[k])
             N == InWindow(O)
             g == Len(O) - Len(N)
  <2>1. /\ O \in Seq(Ages) /\ Len(O) = Len(failures[k])
        /\ \A m \in 1..Len(failures[k]) :
             O[m] = IF failures[k][m] < W THEN failures[k][m] + 1 ELSE failures[k][m]
    BY <1>3, Ageing
  <2>2. \A m \in 1..Len(O) : failures[k][m] \in Nat /\ O[m] \in Nat
    <3>1. \A m \in 1..Len(O) : failures[k][m] \in Ages /\ O[m] \in Ages
      BY <1>3, <2>1
    <3>2. QED BY <3>1, ThrottleNumbers
  <2>3. \A m, n \in 1..Len(O) : m <= n => O[n] <= O[m]
    <3> SUFFICES ASSUME NEW m \in 1..Len(O), NEW n \in 1..Len(O), m <= n PROVE O[n] <= O[m]
      OBVIOUS
    <3>1. failures[k][n] <= failures[k][m]
      <4>1. DOMAIN failures[k] = 1..Len(O)
        BY <1>3, <2>1
      <4>2. QED BY <4>1 DEF ThrottleInv, FailuresInOrder
    <3>2. QED BY <2>1, <2>2, <3>1, ThrottleNumbers
  <2>4. /\ N \in Seq(Ages) /\ Len(N) <= Len(O) /\ failures'[k] = N
        /\ \A m \in 1..Len(N) : FromLast(N, m) = FromLast(O, m)
        /\ Len(N) > 0 => FromLast(O, Len(N)) < W
    BY <1>3, <2>1, Pruning
  <2> HIDE DEF O, N
  <2>5. \A m \in 1..Len(N) : N[m] = O[g + m] /\ g + m \in 1..Len(O)
    <3> SUFFICES ASSUME NEW m \in 1..Len(N) PROVE N[m] = O[g + m] /\ g + m \in 1..Len(O)
      OBVIOUS
    <3>0. Len(N) \in Nat /\ Len(O) \in Nat
      BY <2>1, <2>4
    <3>1. Len(N) + 1 - m \in 1..Len(N)
      BY <3>0
    <3>2. FromLast(N, Len(N) + 1 - m) = FromLast(O, Len(N) + 1 - m)
      BY <2>4, <3>1
    <3>3. Len(N) + 1 - (Len(N) + 1 - m) = m /\ Len(O) + 1 - (Len(N) + 1 - m) = g + m
      BY <3>0
    <3>4. g + m \in 1..Len(O)
      BY <2>4, <3>0
    <3>5. QED BY <3>2, <3>3, <3>4 DEF FromLast
  <2>6. i \in 1..Len(N) /\ j \in 1..Len(N) /\ Len(N) \in Nat /\ Len(O) \in Nat
    BY <2>1, <2>4
  <2>7. N[i] < W
    <3>1. O[g + 1] < W /\ g + 1 \in 1..Len(O)
      BY <2>4, <2>6 DEF FromLast
    <3>2. O[g + i] <= O[g + 1]
      <4>1. g + i \in 1..Len(O) /\ g + 1 <= g + i
        BY <2>5, <2>6
      <4> HIDE DEF g
      <4>2. QED BY <2>3, <3>1, <4>1
    <3>3. O[g + i] \in Nat /\ O[g + 1] \in Nat /\ N[i] = O[g + i]
      BY <2>2, <2>5, <2>6, <3>1
    <3>4. QED BY <3>1, <3>2, <3>3, ThrottleNumbers
  <2>8. ASSUME i <= j PROVE N[j] <= N[i]
    <3>1. /\ g + i \in 1..Len(O) /\ g + j \in 1..Len(O) /\ g + i <= g + j
          /\ N[i] = O[g + i] /\ N[j] = O[g + j]
      BY SMTT(30), <2>5, <2>6, <2>8
    <3>2. QED BY <2>3, <3>1
  <2>9. QED BY <2>4, <2>7, <2>8
<1>9. FailuresAreKept'
  <2> SUFFICES ASSUME NEW k \in ThrottleKeys, NEW j \in 1..Len(failures'[k]),
                      FromLast(failures'[k], j) < excused'[k]
               PROVE  j <= Len(Kept(k)') /\ FromLast(Kept(k)', j) = FromLast(failures'[k], j)
    BY DEF FailuresAreKept, FromLast
  <2>1. /\ Len(Older(failures[k])) = Len(failures[k]) /\ Len(failures'[k]) <= Len(failures[k])
        /\ FromLast(failures'[k], j) = FromLast(Older(failures[k]), j)
    BY <1>3, Pruning, Ageing
  <2>2. j \in 1..Len(failures[k])
    BY <1>3, <2>1
  <2>3. /\ FromLast(failures[k], j) \in Nat
        /\ FromLast(failures'[k], j) = IF FromLast(failures[k], j) < W
                                       THEN FromLast(failures[k], j) + 1 ELSE FromLast(failures[k], j)
    BY <1>3, <2>1, <2>2, Ageing, ThrottleNumbers
  <2>4. FromLast(failures[k], j) < excused[k] /\ FromLast(failures[k], j) < W
    BY <1>6, <2>3, ThrottleNumbers
  <2>5. j <= Len(Kept(k)) /\ FromLast(Kept(k), j) = FromLast(failures[k], j)
    BY <2>2, <2>4 DEF ThrottleInv, FailuresAreKept
  <2>6. j \in 1..Len(Kept(k)) /\ Len(Kept(k)') = Len(Kept(k))
    BY <1>5, <2>2, <2>5
  <2>7. FromLast(Kept(k)', j) = IF FromLast(Kept(k), j) < W THEN FromLast(Kept(k), j) + 1
                                ELSE FromLast(Kept(k), j)
    BY <1>5, <2>6, Ageing
  <2>8. QED BY <2>3, <2>5, <2>6, <2>7
<1>10. FewAreKept'
  <2> SUFFICES ASSUME NEW k \in ThrottleKeys, NEW j \in 1..Len(Kept(k)'),
                      FromLast(Kept(k)', j) < excused'[k]
               PROVE  j + Cardinality(LetThrough(k)) <= MaxTries + Cardinality(Slots) - 1
    BY <1>1 DEF FewAreKept, FromLast, LetThrough
  <2>1. j \in 1..Len(Kept(k)) /\ Kept(k) \in Seq(Ages)
    BY <1>5
  <2>2. /\ FromLast(Kept(k), j) \in Nat
        /\ FromLast(Kept(k)', j) = IF FromLast(Kept(k), j) < W THEN FromLast(Kept(k), j) + 1
                                   ELSE FromLast(Kept(k), j)
    BY <1>5, <2>1, Ageing, ThrottleNumbers
  <2>3. FromLast(Kept(k), j) < excused[k]
    BY <1>6, <2>2, ThrottleNumbers
  <2>4. QED BY <2>1, <2>3 DEF ThrottleInv, FewAreKept
<1>11. FewKeys'
  BY <1>1, <1>4 DEF ThrottleInv, FewKeys
<1>12. OpenInRedis'
  BY <1>1 DEF ThrottleInv, OpenInRedis
<1>13. QED BY <1>7, <1>8, <1>9, <1>10, <1>11, <1>12 DEF ThrottleInv

\* A slot becomes free.
LEMMA SlotFreed ==
  ASSUME ThrottleInv, NEW s \in Slots, attempt[s] # NoAttempt,
         attempt' = [attempt EXCEPT ![s] = NoAttempt]
  PROVE  /\ attempt[s].key \in ThrottleKeys /\ attempt[s].open \in BOOLEAN
         /\ attempt' \in [Slots -> Attempt]
         /\ \A k : Cardinality(LetThrough(k)') <= Cardinality(LetThrough(k))
         /\ \A k : k = attempt[s].key /\ ~attempt[s].open
                    => Cardinality(LetThrough(k)') = Cardinality(LetThrough(k)) - 1
         /\ UNCHANGED backend => OpenInRedis'
<1>1. attempt \in [Slots -> Attempt]
  BY DEF ThrottleInv, ThrottleTypeOK
<1>2. attempt[s] \in [key : ThrottleKeys, open : BOOLEAN]
  BY <1>1 DEF Attempt
<1>3. attempt' \in [Slots -> Attempt]
  BY <1>1 DEF Attempt
<1>4. \A k : LetThrough(k)' = LetThrough(k) \ {s}
  <2>1. \A t \in Slots : t # s => attempt'[t] = attempt[t]
    BY <1>1
  <2>2. attempt'[s] = NoAttempt
    BY <1>1
  <2>3. QED BY <2>1, <2>2 DEF LetThrough
<1>5. \A k : Cardinality(LetThrough(k)') <= Cardinality(LetThrough(k))
  <2> TAKE k
  <2>1. LetThrough(k)' \in SUBSET LetThrough(k) /\ IsFiniteSet(LetThrough(k))
    BY <1>4, UnderWay
  <2>2. QED BY <2>1, FS_Subset
<1>6. ASSUME NEW k, k = attempt[s].key, ~attempt[s].open
      PROVE  Cardinality(LetThrough(k)') = Cardinality(LetThrough(k)) - 1
  <2>1. s \in LetThrough(k)
    BY <1>6 DEF LetThrough
  <2>2. IsFiniteSet(LetThrough(k))
    BY UnderWay
  <2>3. Cardinality(LetThrough(k) \ {s}) = Cardinality(LetThrough(k)) - 1
    BY <2>1, <2>2, FS_RemoveElement
  <2>4. QED BY <1>4, <2>3
<1>7. ASSUME UNCHANGED backend PROVE OpenInRedis'
  <2>1. \A t \in Slots : attempt'[t].open => attempt[t].open
    BY <1>1 DEF NoAttempt
  <2>2. QED BY <1>7, <2>1 DEF ThrottleInv, OpenInRedis
<1>8. QED BY <1>2, <1>3, <1>5, <1>6, <1>7

\* What Newest forgets is at the front.
LEMMA NewestSuffices ==
  ASSUME NEW ages \in Seq(Ages), ages # <<>>
  PROVE  /\ Newest(ages) \in Seq(Ages) /\ Len(Newest(ages)) \in Nat
         /\ Len(Newest(ages)) <= Len(ages)
         /\ \A j \in 1..Len(Newest(ages)) : FromLast(Newest(ages), j) = FromLast(ages, j)
         /\ \E g \in Nat : \A i \in 1..Len(Newest(ages)) :
              Newest(ages)[i] = ages[g + i] /\ g + i \in 1..Len(ages)
<1>1. CASE Newest(ages) = ages
  <2>1. \A i \in 1..Len(ages) : ages[i] = ages[0 + i] /\ 0 + i \in 1..Len(ages)
    OBVIOUS
  <2>2. QED BY <1>1, <2>1
<1>2. CASE Newest(ages) = Tail(ages)
  <2>1. /\ Tail(ages) \in Seq(Ages) /\ Len(Tail(ages)) = Len(ages) - 1 /\ Len(ages) > 0
        /\ \A i \in 1..Len(ages) - 1 : Tail(ages)[i] = ages[1 + i] /\ 1 + i \in 1..Len(ages)
    OBVIOUS
  <2>2. \A j \in 1..Len(ages) - 1 : FromLast(Tail(ages), j) = FromLast(ages, j)
    BY <2>1 DEF FromLast
  <2>3. \E g \in Nat : \A i \in 1..Len(ages) - 1 :
          Tail(ages)[i] = ages[g + i] /\ g + i \in 1..Len(ages)
    BY <2>1
  <2>4. Len(ages) - 1 \in Nat /\ Len(ages) - 1 <= Len(ages)
    BY <2>1
  <2>5. QED BY <1>2, <2>1, <2>2, <2>3, <2>4
<1>3. QED BY <1>1, <1>2 DEF Newest

\* A failure that is to be recorded.
LEMMA FailureAdds ==
  ASSUME ThrottleInv, NEW s \in Slots, Failing(s)
  PROVE  /\ failures' \in [ThrottleKeys -> Seq(Ages)] /\ FailuresInOrder'
         /\ \A q \in ThrottleKeys : q # attempt[s].key => failures'[q] = failures[q]
         /\ LET k == attempt[s].key
            IN \A j \in 1..Len(failures'[k]) :
                 \/ j = 1 /\ FromLast(failures'[k], j) = 0
                 \/ j - 1 \in 1..Len(failures[k])
                      /\ FromLast(failures'[k], j) = FromLast(failures[k], j - 1)
<1> DEFINE k == attempt[s].key
           A == Append(failures[k], 0)
<1>1. k \in ThrottleKeys /\ failures' = [failures EXCEPT ![k] = Newest(Append(@, 0))]
  BY SlotFreed DEF Failing
<1>2. failures \in [ThrottleKeys -> Seq(Ages)] /\ failures[k] \in Seq(Ages)
  BY <1>1 DEF ThrottleInv, ThrottleTypeOK
<1>3. /\ A \in Seq(Ages) /\ Len(A) = Len(failures[k]) + 1 /\ Len(failures[k]) \in Nat
      /\ \A i \in 1..Len(failures[k]) : A[i] = failures[k][i]
      /\ FromLast(A, 1) = 0 /\ A[Len(failures[k]) + 1] = 0
      /\ \A j \in 2..Len(failures[k]) + 1 : FromLast(A, j) = FromLast(failures[k], j - 1)
  BY <1>2, OneMore
<1>4. failures'[k] = Newest(A) /\ \A q \in ThrottleKeys : q # k => failures'[q] = failures[q]
  BY <1>1, <1>2
<1> HIDE DEF A, k
<1>a. A # <<>>
  BY <1>3
<1>5. /\ Newest(A) \in Seq(Ages) /\ Len(Newest(A)) \in Nat /\ Len(Newest(A)) <= Len(A)
      /\ \A j \in 1..Len(Newest(A)) : FromLast(Newest(A), j) = FromLast(A, j)
  BY <1>a, <1>3, NewestSuffices
<1>6. failures' \in [ThrottleKeys -> Seq(Ages)]
  BY <1>1, <1>2, <1>4, <1>5 DEF A
<1>7. \A j \in 1..Len(failures'[k]) :
        \/ j = 1 /\ FromLast(failures'[k], j) = 0
        \/ /\ j - 1 \in 1..Len(failures[k])
           /\ FromLast(failures'[k], j) = FromLast(failures[k], j - 1)
  <2> SUFFICES ASSUME NEW j \in 1..Len(Newest(A)), j # 1
               PROVE  /\ j - 1 \in 1..Len(failures[k])
                      /\ FromLast(Newest(A), j) = FromLast(failures[k], j - 1)
    BY <1>3, <1>4, <1>5
  <2>1. j - 1 \in 1..Len(failures[k]) /\ j \in 2..Len(failures[k]) + 1
    BY <1>3, <1>5
  <2>2. QED BY <1>3, <1>5, <2>1
<1>8. \A i, j \in DOMAIN A : A[i] < ThrottleWindow /\ (i <= j => A[j] <= A[i])
  <2>1. \A i, j \in 1..Len(failures[k]) :
          /\ failures[k][i] \in Ages
          /\ failures[k][i] < ThrottleWindow
          /\ i <= j => failures[k][j] <= failures[k][i]
    BY <1>1, <1>2 DEF ThrottleInv, FailuresInOrder
  <2>2. \A i \in 1..Len(failures[k]) : failures[k][i] \in Nat
    <3>1. \A i \in 1..Len(failures[k]) : failures[k][i] \in Ages
      BY <1>2
    <3>2. QED BY <3>1, ThrottleNumbers
  <2>3. DOMAIN A = 1..Len(failures[k]) + 1
    BY <1>3
  <2> SUFFICES ASSUME NEW i \in 1..Len(failures[k]) + 1, NEW j \in 1..Len(failures[k]) + 1
               PROVE  A[i] < ThrottleWindow /\ (i <= j => A[j] <= A[i])
    BY <2>3
  <2>4. A[i] < ThrottleWindow /\ A[i] \in Nat
    <3>1. CASE i = Len(failures[k]) + 1
      BY <1>3, <3>1, ThrottleNumbers
    <3>2. CASE i # Len(failures[k]) + 1
      <4>1. i \in 1..Len(failures[k])
        BY <1>3, <3>2
      <4>2. A[i] = failures[k][i]
        BY <1>3, <4>1
      <4>3. failures[k][i] < ThrottleWindow /\ failures[k][i] \in Nat
        BY <1>3, <2>1, <2>2, <4>1, ThrottleNumbers
      <4>4. QED BY <4>2, <4>3
    <3>3. QED BY <3>1, <3>2
  <2>5. ASSUME i <= j PROVE A[j] <= A[i]
    <3>1. CASE j = Len(failures[k]) + 1
      BY <1>3, <2>4, <3>1
    <3>2. CASE j # Len(failures[k]) + 1
      <4>1. i \in 1..Len(failures[k]) /\ j \in 1..Len(failures[k])
        BY <1>3, <2>5, <3>2
      <4>2. A[i] = failures[k][i] /\ A[j] = failures[k][j]
        BY <1>3, <4>1
      <4>3. failures[k][j] <= failures[k][i]
        BY <1>3, <2>1, <2>2, <2>5, <4>1
      <4>4. QED BY <4>2, <4>3
    <3>3. QED BY <3>1, <3>2
  <2>6. QED BY <2>4, <2>5
<1>9. FailuresInOrder'
  <2> SUFFICES ASSUME NEW q \in ThrottleKeys, NEW i \in DOMAIN failures'[q],
                      NEW j \in DOMAIN failures'[q]
               PROVE  /\ failures'[q][i] < ThrottleWindow
                      /\ i <= j => failures'[q][j] <= failures'[q][i]
    BY DEF FailuresInOrder
  <2>1. CASE q # k
    BY <1>4, <2>1 DEF ThrottleInv, FailuresInOrder
  <2>2. CASE q = k
    <3>0. \E g \in Nat : \A m \in 1..Len(Newest(A)) :
            Newest(A)[m] = A[g + m] /\ g + m \in 1..Len(A)
      BY <1>a, <1>3, NewestSuffices
    <3>1. PICK g \in Nat : \A m \in 1..Len(Newest(A)) :
            Newest(A)[m] = A[g + m] /\ g + m \in 1..Len(A)
      BY <3>0
    <3>2. i \in 1..Len(Newest(A)) /\ j \in 1..Len(Newest(A))
      BY <1>4, <1>5, <2>2
    <3>3. /\ failures'[q][i] = A[g + i] /\ failures'[q][j] = A[g + j]
          /\ g + i \in DOMAIN A /\ g + j \in DOMAIN A
          /\ i <= j => g + i <= g + j
      <4>1. failures'[q][i] = A[g + i] /\ failures'[q][j] = A[g + j]
        BY <1>4, <2>2, <3>1, <3>2
      <4>2. DOMAIN A = 1..Len(A)
        BY <1>3
      <4>3. g + i \in DOMAIN A /\ g + j \in DOMAIN A
        BY <3>1, <3>2, <4>2
      <4>4. i \in Int /\ j \in Int
        BY <3>2
      <4>5. QED BY <4>1, <4>3, <4>4
    <3>4. QED BY <1>8, <3>3
  <2>3. QED BY <2>1, <2>2
<1>10. QED BY <1>4, <1>6, <1>7, <1>9 DEF k

\* What a failure does to what is kept: it is added for its own key, and excuses
\* any key it is not added for or whose attempts it forgets.
LEMMA KeepingStep ==
  ASSUME ThrottleInv, NEW s \in Slots, Failing(s), ThrottleTypeOK',
         \A q \in ThrottleKeys :
           \/ excused'[q] = 0
           \/ /\ excused'[q] = excused[q]
              /\ q # attempt[s].key => \/ Kept(q)' = Kept(q)
                                       \/ Kept(q)' = <<>> /\ ~(FromLast(Kept(q), 1) < ThrottleWindow)
              /\ q = attempt[s].key => Kept(q)' = Append(Held(q), 0) /\ ~attempt[s].open
  PROVE  FailuresAreKept' /\ FewAreKept'
<1> DEFINE k == attempt[s].key
<1>0. k \in ThrottleKeys /\ attempt[s] # NoAttempt /\ attempt' = [attempt EXCEPT ![s] = NoAttempt]
  BY SlotFreed DEF Failing
<1>1. \A q \in ThrottleKeys : /\ Kept(q) \in Seq(Ages) /\ Kept(q)' \in Seq(Ages)
                              /\ failures[q] \in Seq(Ages) /\ failures'[q] \in Seq(Ages)
                              /\ excused[q] \in Nat /\ excused[q] <= ThrottleWindow
  <2>1. \A q \in ThrottleKeys : Kept(q) \in Seq(Ages)
    BY KeptTypes DEF ThrottleInv
  <2>2. \A q \in ThrottleKeys : Kept(q)' \in Seq(Ages)
    <3> SUFFICES ASSUME NEW q \in ThrottleKeys PROVE Kept(q)' \in Seq(Ages)
      OBVIOUS
    <3>1. window' \in [DOMAIN window' -> Seq(Ages) \ {<<>>}]
      BY DEF ThrottleTypeOK
    <3>2. QED BY <3>1 DEF Kept
  <2>3. failures \in [ThrottleKeys -> Seq(Ages)] /\ failures' \in [ThrottleKeys -> Seq(Ages)]
    BY DEF ThrottleInv, ThrottleTypeOK
  <2>4. excused \in [ThrottleKeys -> Ages]
    BY DEF ThrottleInv, ThrottleTypeOK
  <2>5. QED BY <2>1, <2>2, <2>3, <2>4, ThrottleNumbers DEF Ages
<1>2. \A ages \in Seq(Ages) : \A j \in 1..Len(ages) : FromLast(ages, j) \in Nat
  <2> SUFFICES ASSUME NEW ages \in Seq(Ages), NEW j \in 1..Len(ages)
               PROVE  FromLast(ages, j) \in Nat
    OBVIOUS
  <2>1. FromLast(ages, j) \in Ages
    BY Ageing
  <2>2. QED BY <2>1, ThrottleNumbers
<1>3. /\ \A q \in ThrottleKeys : q # k => failures'[q] = failures[q]
      /\ \A j \in 1..Len(failures'[k]) :
           \/ j = 1 /\ FromLast(failures'[k], j) = 0
           \/ /\ j - 1 \in 1..Len(failures[k])
              /\ FromLast(failures'[k], j) = FromLast(failures[k], j - 1)
  BY FailureAdds
<1>4. ASSUME NEW q \in ThrottleKeys, NEW ages \in Seq(Ages), NEW j \in 1..Len(ages),
             FromLast(ages, j) < excused'[q]
      PROVE  /\ FromLast(ages, j) < excused[q] /\ excused'[q] = excused[q]
             /\ q # k => \/ Kept(q)' = Kept(q)
                         \/ Kept(q)' = <<>> /\ ~(FromLast(Kept(q), 1) < ThrottleWindow)
             /\ q = k => Kept(q)' = Append(Held(q), 0) /\ ~attempt[s].open
  <2>1. excused'[q] # 0
    BY <1>2, <1>4
  <2>2. QED BY <1>4, <2>1
<1>5. /\ Held(k) \in Seq(Ages) /\ Len(Held(k)) \in Nat /\ Len(Held(k)) <= Len(Kept(k))
      /\ \A j \in 1..Len(Held(k)) : FromLast(Held(k), j) = FromLast(Kept(k), j)
      /\ \A j \in 1..Len(Kept(k)) : FromLast(Kept(k), j) < ThrottleWindow => j <= Len(Held(k))
  BY <1>0, HeldTypes DEF ThrottleInv
<1>6. /\ Len(Append(Held(k), 0)) = Len(Held(k)) + 1
      /\ FromLast(Append(Held(k), 0), 1) = 0
      /\ \A j \in 2..Len(Held(k)) + 1 : FromLast(Append(Held(k), 0), j) = FromLast(Held(k), j - 1)
  BY <1>5, OneMore
<1>7. FailuresAreKept'
  <2> SUFFICES ASSUME NEW q \in ThrottleKeys, NEW j \in 1..Len(failures'[q]),
                      FromLast(failures'[q], j) < excused'[q]
               PROVE  j <= Len(Kept(q)') /\ FromLast(Kept(q)', j) = FromLast(failures'[q], j)
    BY DEF FailuresAreKept, FromLast
  <2>1. /\ FromLast(failures'[q], j) < excused[q]
        /\ q # k => \/ Kept(q)' = Kept(q)
                    \/ Kept(q)' = <<>> /\ ~(FromLast(Kept(q), 1) < ThrottleWindow)
        /\ q = k => Kept(q)' = Append(Held(q), 0)
    BY <1>1, <1>4
  <2>2. CASE q # k
    <3>1. failures'[q] = failures[q] /\ j \in 1..Len(failures[q]) /\ Len(failures[q]) \in Nat
      BY <1>1, <1>3, <2>2
    <3>2. j <= Len(Kept(q)) /\ FromLast(Kept(q), j) = FromLast(failures[q], j)
      BY <2>1, <3>1 DEF ThrottleInv, FailuresAreKept
    <3>3. FromLast(Kept(q), 1) < ThrottleWindow
      <4>1. FromLast(failures[q], 1) <= FromLast(failures[q], j)
        <5>1. /\ Len(failures[q]) + 1 - j \in 1..Len(failures[q])
              /\ Len(failures[q]) + 1 - 1 \in 1..Len(failures[q])
              /\ Len(failures[q]) + 1 - j <= Len(failures[q]) + 1 - 1
          BY <3>1
        <5>2. DOMAIN failures[q] = 1..Len(failures[q])
          BY <1>1
        <5>3. QED BY <5>1, <5>2 DEF ThrottleInv, FailuresInOrder, FromLast
      <4>2. 1 \in 1..Len(failures[q])
        BY <3>1
      <4>3. /\ FromLast(failures[q], 1) \in Nat /\ FromLast(failures[q], j) \in Nat
            /\ excused[q] \in Nat /\ excused[q] <= ThrottleWindow
        BY <1>1, <1>2, <3>1, <4>2
      <4>4. FromLast(failures[q], 1) < excused[q]
        BY <2>1, <3>1, <4>1, <4>3
      <4>5. FromLast(Kept(q), 1) = FromLast(failures[q], 1)
        BY <4>2, <4>4 DEF ThrottleInv, FailuresAreKept
      <4>6. QED BY <4>3, <4>4, <4>5, ThrottleNumbers
    <3>4. Kept(q)' = Kept(q)
      BY <2>1, <2>2, <3>3
    <3>5. QED BY <3>1, <3>2, <3>4
  <2>3. CASE q = k
    <3>0. Kept(q)' = Append(Held(k), 0)
      BY <2>1, <2>3
    <3>a. 1 <= Len(Append(Held(k), 0))
      BY <1>5, <1>6
    <3>1. CASE j = 1 /\ FromLast(failures'[k], j) = 0
      <4>1. FromLast(Kept(q)', j) = 0
        BY <1>6, <3>0, <3>1
      <4>2. QED BY <2>3, <3>0, <3>a, <3>1, <4>1
    <3>2. CASE /\ j - 1 \in 1..Len(failures[k])
               /\ FromLast(failures'[k], j) = FromLast(failures[k], j - 1)
      <4>1. /\ j - 1 <= Len(Kept(k))
            /\ FromLast(Kept(k), j - 1) = FromLast(failures[k], j - 1)
        BY <1>0, <2>1, <2>3, <3>2 DEF ThrottleInv, FailuresAreKept
      <4>2. j - 1 \in 1..Len(Kept(k)) /\ FromLast(Kept(k), j - 1) < ThrottleWindow
        <5>1. j - 1 \in 1..Len(Kept(k)) /\ FromLast(Kept(k), j - 1) < excused[k]
          BY <1>0, <1>1, <2>1, <2>3, <3>2, <4>1
        <5>2. FromLast(Kept(k), j - 1) \in Nat
          BY <1>0, <1>1, <1>2, <5>1
        <5>3. QED BY <1>0, <1>1, <5>1, <5>2, ThrottleNumbers
      <4>3. j - 1 \in 1..Len(Held(k)) /\ j \in 2..Len(Held(k)) + 1
        BY <1>5, <4>2
      <4>4. FromLast(Kept(q)', j) = FromLast(Held(k), j - 1) /\ j <= Len(Kept(q)')
        BY <1>6, <3>0, <4>3
      <4>5. FromLast(Held(k), j - 1) = FromLast(Kept(k), j - 1)
        BY <1>5, <4>3
      <4>6. QED BY <2>3, <3>2, <4>1, <4>4, <4>5
    <3>3. QED BY <1>3, <2>3, <3>1, <3>2
  <2>4. QED BY <2>2, <2>3
<1>8. FewAreKept'
  <2> SUFFICES ASSUME NEW q \in ThrottleKeys, NEW j \in 1..Len(Kept(q)'),
                      FromLast(Kept(q)', j) < excused'[q]
               PROVE  j + Cardinality(LetThrough(q)') <= MaxTries + Cardinality(Slots) - 1
    BY DEF FewAreKept, FromLast
  <2>0. j \in Int /\ Cardinality(LetThrough(q)') \in Nat /\ Cardinality(LetThrough(q)) \in Nat
        /\ Cardinality(LetThrough(q)') <= Cardinality(LetThrough(q))
        /\ Cardinality(LetThrough(q)) <= Cardinality(Slots)
    <3>1. Cardinality(LetThrough(q)') <= Cardinality(LetThrough(q))
      BY <1>0, SlotFreed
    <3>2. Cardinality(LetThrough(q)) \in Nat /\ Cardinality(LetThrough(q)) <= Cardinality(Slots)
      BY UnderWay
    <3>3. Cardinality(LetThrough(q)') \in Nat
      <4>1. LetThrough(q)' \in SUBSET Slots /\ IsFiniteSet(Slots)
        BY ThrottleAssumption DEF LetThrough
      <4>2. IsFiniteSet(LetThrough(q)')
        BY <4>1, FS_Subset
      <4>3. QED BY <4>2, FS_CardinalityType
    <3>4. QED BY <3>1, <3>2, <3>3
  <2>1. /\ FromLast(Kept(q)', j) < excused[q]
        /\ q # k => Kept(q)' = Kept(q)
        /\ q = k => Kept(q)' = Append(Held(q), 0) /\ ~attempt[s].open
    <3>1. Kept(q)' # <<>>
      OBVIOUS
    <3>2. QED BY <1>1, <1>4, <3>1
  <2>2. CASE q # k
    <3>1. j + Cardinality(LetThrough(q)) <= MaxTries + Cardinality(Slots) - 1
      BY <2>1, <2>2 DEF ThrottleInv, FewAreKept
    <3>2. QED BY <2>0, <3>1, ThrottleNumbers
  <2>3. CASE q = k
    <3>1. Cardinality(LetThrough(q)') = Cardinality(LetThrough(q)) - 1
      BY <1>0, <2>1, <2>3, SlotFreed
    <3>2. CASE j = 1
      BY <2>0, <3>1, <3>2, ThrottleNumbers
    <3>3. CASE j # 1
      <4>1. j \in 2..Len(Held(k)) + 1 /\ j - 1 \in 1..Len(Held(k)) /\ j - 1 \in 1..Len(Kept(k))
        BY <1>0, <1>1, <1>5, <1>6, <2>1, <2>3, <3>3
      <4>2. FromLast(Kept(q), j - 1) < excused[q] /\ j - 1 \in 1..Len(Kept(q))
        BY <1>5, <1>6, <2>1, <2>3, <4>1
      <4>3. j - 1 + Cardinality(LetThrough(q)) <= MaxTries + Cardinality(Slots) - 1
        BY <4>2 DEF ThrottleInv, FewAreKept
      <4>4. QED BY <2>0, <3>1, <4>3, ThrottleNumbers
    <3>4. QED BY <3>2, <3>3
  <2>4. QED BY <2>2, <2>3
<1>9. QED BY <1>7, <1>8

LEMMA ThrottleCheckStep == ASSUME ThrottleInv, NEW s \in Slots, CheckThrottle(s) PROVE ThrottleInv'
<1>1. PICK k \in ThrottleKeys :
        /\ window' = Pruned(k)
        /\ attempt' = IF Throttled(k) THEN attempt
                      ELSE [attempt EXCEPT ![s] = [key |-> k, open |-> FALSE]]
  BY DEF CheckThrottle
<1>2. attempt[s] = NoAttempt /\ UNCHANGED <<backend, failures, excused>>
  BY DEF CheckThrottle
<1>3. /\ window \in [DOMAIN window -> Seq(Ages) \ {<<>>}] /\ DOMAIN window \subseteq ThrottleKeys
      /\ attempt \in [Slots -> Attempt] /\ excused \in [ThrottleKeys -> Ages]
  BY DEF ThrottleInv, ThrottleTypeOK
<1>4. /\ Held(k) \in Seq(Ages) /\ Len(Held(k)) \in Nat /\ Len(Held(k)) <= Len(Kept(k))
      /\ \A j \in 1..Len(Held(k)) : FromLast(Held(k), j) = FromLast(Kept(k), j)
      /\ \A j \in 1..Len(Kept(k)) : FromLast(Kept(k), j) < ThrottleWindow => j <= Len(Held(k))
  BY HeldTypes DEF ThrottleInv
<1>5. /\ DOMAIN window' \subseteq DOMAIN window
      /\ window' \in [DOMAIN window' -> Seq(Ages) \ {<<>>}]
      /\ Kept(k)' = Held(k)
      /\ \A q \in ThrottleKeys : q # k => Kept(q)' = Kept(q)
  <2>1. CASE Held(k) = <<>>
    <3>1. window' = [j \in DOMAIN window \ {k} |-> window[j]]
      BY <1>1, <2>1 DEF Pruned
    <3>2. DOMAIN window' = DOMAIN window \ {k} /\ \A j \in DOMAIN window \ {k} : window'[j] = window[j]
      BY <3>1
    <3>3. window' \in [DOMAIN window' -> Seq(Ages) \ {<<>>}]
      BY <1>3, <3>1
    <3>4. QED BY <2>1, <3>2, <3>3 DEF Kept
  <2>2. CASE Held(k) # <<>>
    <3>1. window' = [window EXCEPT ![k] = Held(k)] /\ k \in DOMAIN window
      BY <1>1, <2>2 DEF Pruned, Held
    <3>2. DOMAIN window' = DOMAIN window /\ window'[k] = Held(k)
          /\ \A j \in DOMAIN window : j # k => window'[j] = window[j]
      BY <3>1
    <3>3. window' \in [DOMAIN window' -> Seq(Ages) \ {<<>>}]
      BY <1>3, <1>4, <2>2, <3>1, <3>2
    <3>4. QED BY <3>1, <3>2, <3>3 DEF Kept
  <2>3. QED BY <2>1, <2>2
<1>6. \A q \in ThrottleKeys : /\ excused[q] \in Nat /\ excused[q] <= ThrottleWindow
                              /\ Kept(q) \in Seq(Ages)
                              /\ \A j \in 1..Len(Kept(q)) : FromLast(Kept(q), j) \in Nat
  <2> SUFFICES ASSUME NEW q \in ThrottleKeys
               PROVE  /\ excused[q] \in Nat /\ excused[q] <= ThrottleWindow
                      /\ Kept(q) \in Seq(Ages)
                      /\ \A j \in 1..Len(Kept(q)) : FromLast(Kept(q), j) \in Nat
    OBVIOUS
  <2>1. Kept(q) \in Seq(Ages)
    BY KeptTypes DEF ThrottleInv
  <2>2. \A j \in 1..Len(Kept(q)) : FromLast(Kept(q), j) \in Ages
    BY <2>1, Ageing
  <2>3. excused[q] \in Ages
    BY <1>3
  <2>4. QED BY <2>1, <2>2, <2>3, ThrottleNumbers DEF Ages
<1>7. attempt' \in [Slots -> Attempt]
  <2>1. [key |-> k, open |-> FALSE] \in Attempt
    BY DEF Attempt
  <2>2. QED BY <1>1, <1>3, <2>1
<1>8. ThrottleTypeOK'
  <2>1. DOMAIN window' \subseteq ThrottleKeys
    BY <1>3, <1>5
  <2>2. /\ backend' \in {"process", "redis"} /\ failures' \in [ThrottleKeys -> Seq(Ages)]
        /\ excused' \in [ThrottleKeys -> Ages]
    BY <1>2 DEF ThrottleInv, ThrottleTypeOK
  <2>3. QED BY <1>5, <1>7, <2>1, <2>2 DEF ThrottleTypeOK
<1>9. FailuresInOrder'
  BY <1>2 DEF ThrottleInv, FailuresInOrder
<1>10. FailuresAreKept'
  <2> SUFFICES ASSUME NEW q \in ThrottleKeys, NEW j \in 1..Len(failures[q]),
                      FromLast(failures[q], j) < excused[q]
               PROVE  j <= Len(Kept(q)') /\ FromLast(Kept(q)', j) = FromLast(failures[q], j)
    BY <1>2 DEF FailuresAreKept, FromLast
  <2>1. j <= Len(Kept(q)) /\ FromLast(Kept(q), j) = FromLast(failures[q], j)
    BY DEF ThrottleInv, FailuresAreKept
  <2>2. CASE q # k
    BY <1>5, <2>1, <2>2
  <2>3. CASE q = k
    <3>1. j \in 1..Len(Kept(k)) /\ FromLast(Kept(k), j) < excused[k]
      BY <1>6, <2>1, <2>3
    <3>2. FromLast(Kept(k), j) < ThrottleWindow
      BY <1>6, <3>1, ThrottleNumbers
    <3>3. j \in 1..Len(Held(k))
      BY <1>4, <3>1, <3>2
    <3>4. QED BY <1>4, <1>5, <2>1, <2>3, <3>3
  <2>4. QED BY <2>2, <2>3
<1>11. \A q \in ThrottleKeys : q # k \/ Throttled(k) => LetThrough(q)' = LetThrough(q)
  <2>1. CASE Throttled(k)
    BY <1>1, <2>1 DEF LetThrough
  <2>2. CASE ~Throttled(k)
    <3>1. /\ attempt'[s] = [key |-> k, open |-> FALSE]
          /\ \A t \in Slots : t # s => attempt'[t] = attempt[t]
      BY <1>1, <1>3, <2>2
    <3>2. \A q \in ThrottleKeys : q # k => LetThrough(q)' = LetThrough(q)
      BY <1>2, <3>1 DEF LetThrough
    <3>3. QED BY <2>2, <3>2
  <2>3. QED BY <2>1, <2>2
<1>12. FewAreKept'
  <2> SUFFICES ASSUME NEW q \in ThrottleKeys, NEW j \in 1..Len(Kept(q)'),
                      FromLast(Kept(q)', j) < excused[q]
               PROVE  j + Cardinality(LetThrough(q)') <= MaxTries + Cardinality(Slots) - 1
    BY <1>2 DEF FewAreKept, FromLast
  <2>1. j \in 1..Len(Kept(q)) /\ FromLast(Kept(q), j) < excused[q]
    BY <1>4, <1>5, <1>6
  <2>2. j + Cardinality(LetThrough(q)) <= MaxTries + Cardinality(Slots) - 1
    BY <2>1 DEF ThrottleInv, FewAreKept
  <2>3. CASE q # k \/ Throttled(k)
    BY <1>11, <2>2, <2>3
  <2>4. CASE q = k /\ ~Throttled(k)
    <3>1. j <= MaxTries - 1 /\ j \in Nat
      BY <1>4, <1>5, <2>4, ThrottleNumbers DEF Throttled
    <3>2. LetThrough(q)' \in SUBSET Slots /\ IsFiniteSet(Slots)
      BY ThrottleAssumption DEF LetThrough
    <3>3. Cardinality(LetThrough(q)') <= Cardinality(Slots) /\ IsFiniteSet(LetThrough(q)')
      BY <3>2, FS_Subset
    <3>4. Cardinality(LetThrough(q)') \in Nat
      BY <3>3, FS_CardinalityType
    <3>5. QED BY <3>1, <3>3, <3>4, ThrottleNumbers
  <2>5. QED BY <2>3, <2>4
<1>13. FewKeys'
  <2>1. DOMAIN window' \in SUBSET (DOMAIN window) /\ IsFiniteSet(DOMAIN window)
    BY <1>5 DEF ThrottleInv, FewKeys
  <2>2. IsFiniteSet(DOMAIN window') /\ Cardinality(DOMAIN window') <= Cardinality(DOMAIN window)
    BY <2>1, FS_Subset
  <2>3. Cardinality(DOMAIN window') \in Nat /\ Cardinality(DOMAIN window) \in Nat
    BY <2>1, <2>2, FS_CardinalityType
  <2>4. QED BY <1>2, <2>2, <2>3, ThrottleNumbers DEF ThrottleInv, FewKeys
<1>14. OpenInRedis'
  <2>1. \A t \in Slots : attempt'[t].open => attempt[t].open
    BY <1>1, <1>3
  <2>2. QED BY <1>2, <2>1 DEF ThrottleInv, OpenInRedis
<1>15. QED BY <1>8, <1>9, <1>10, <1>12, <1>13, <1>14 DEF ThrottleInv

\* Nothing is kept, and nothing that was let through is added to what is under way.
LEMMA NothingKept ==
  ASSUME ThrottleInv, UNCHANGED <<backend, window, failures, excused>>,
         attempt' \in [Slots -> Attempt], OpenInRedis',
         \A k : Cardinality(LetThrough(k)') \in Nat
                /\ Cardinality(LetThrough(k)') <= Cardinality(LetThrough(k))
  PROVE  ThrottleInv'
<1>1. ThrottleTypeOK'
  BY DEF ThrottleInv, ThrottleTypeOK
<1>2. \A k : Kept(k)' = Kept(k)
  BY DEF Kept
<1>3. FailuresInOrder' /\ FailuresAreKept' /\ FewKeys'
  BY <1>2 DEF ThrottleInv, FailuresInOrder, FailuresAreKept, FewKeys
<1>4. FewAreKept'
  <2> SUFFICES ASSUME NEW k \in ThrottleKeys, NEW j \in 1..Len(Kept(k)),
                      FromLast(Kept(k), j) < excused[k]
               PROVE  j + Cardinality(LetThrough(k)') <= MaxTries + Cardinality(Slots) - 1
    BY <1>2 DEF FewAreKept
  <2>1. j + Cardinality(LetThrough(k)) <= MaxTries + Cardinality(Slots) - 1
    BY DEF ThrottleInv, FewAreKept
  <2>2. Cardinality(LetThrough(k)) \in Nat /\ j \in Int
    BY UnderWay
  <2>3. QED BY <2>1, <2>2, ThrottleNumbers
<1>5. QED BY <1>1, <1>3, <1>4 DEF ThrottleInv

LEMMA NothingRecordedStep ==
  ASSUME ThrottleInv, NEW s \in Slots, NothingRecorded(s) \/ CheckFallsOpen(s)
  PROVE  ThrottleInv'
<1>0. UNCHANGED <<backend, window, failures, excused>> /\ attempt \in [Slots -> Attempt]
  BY DEF NothingRecorded, CheckFallsOpen, ThrottleInv, ThrottleTypeOK
<1>1. /\ attempt' \in [Slots -> Attempt] /\ OpenInRedis'
      /\ \A k : Cardinality(LetThrough(k)') <= Cardinality(LetThrough(k))
  <2>1. CASE NothingRecorded(s)
    <3>1. attempt[s] # NoAttempt /\ attempt' = [attempt EXCEPT ![s] = NoAttempt]
      BY <2>1 DEF NothingRecorded
    <3>2. QED BY <1>0, <3>1, SlotFreed
  <2>2. CASE CheckFallsOpen(s)
    <3>1. PICK k \in ThrottleKeys : attempt' = [attempt EXCEPT ![s] = [key |-> k, open |-> TRUE]]
      BY <2>2 DEF CheckFallsOpen
    <3>2. backend = "redis" /\ attempt[s] = NoAttempt
      BY <2>2 DEF CheckFallsOpen
    <3>3. [key |-> k, open |-> TRUE] \in Attempt
      BY DEF Attempt
    <3>4. attempt' \in [Slots -> Attempt]
      BY <1>0, <3>1, <3>3
    <3>5. /\ attempt'[s] = [key |-> k, open |-> TRUE]
          /\ \A t \in Slots : t # s => attempt'[t] = attempt[t]
      BY <1>0, <3>1
    <3>6. \A q : LetThrough(q)' = LetThrough(q)
      BY <3>2, <3>5 DEF LetThrough
    <3>7. OpenInRedis'
      BY <1>0, <3>2 DEF OpenInRedis
    <3>8. \A q : Cardinality(LetThrough(q)') <= Cardinality(LetThrough(q))
      BY <3>6, UnderWay
    <3>9. QED BY <3>4, <3>7, <3>8
  <2>3. QED BY <2>1, <2>2
<1>2. \A k : Cardinality(LetThrough(k)') \in Nat
  <2> TAKE k
  <2>1. LetThrough(k)' \in SUBSET Slots /\ IsFiniteSet(Slots)
    BY ThrottleAssumption DEF LetThrough
  <2>2. IsFiniteSet(LetThrough(k)')
    BY <2>1, FS_Subset
  <2>3. QED BY <2>2, FS_CardinalityType
<1>3. QED BY <1>0, <1>1, <1>2, NothingKept

LEMMA RedisStep == ASSUME ThrottleInv, NEW s \in Slots, RecordInRedis(s) PROVE ThrottleInv'
<1>0. PICK k : k = attempt[s].key
  OBVIOUS
<1>1. /\ Failing(s) /\ attempt[s] # NoAttempt /\ attempt' = [attempt EXCEPT ![s] = NoAttempt]
      /\ UNCHANGED backend /\ backend = "redis"
  BY DEF RecordInRedis, Failing
<1>2. k \in ThrottleKeys /\ attempt' \in [Slots -> Attempt] /\ OpenInRedis'
  BY <1>0, <1>1, SlotFreed
<1>3. /\ window \in [DOMAIN window -> Seq(Ages) \ {<<>>}] /\ DOMAIN window \subseteq ThrottleKeys
      /\ excused \in [ThrottleKeys -> Ages] /\ 0 \in Ages
  BY ThrottleNumbers DEF ThrottleInv, ThrottleTypeOK
<1>4. failures' \in [ThrottleKeys -> Seq(Ages)] /\ FailuresInOrder'
  BY <1>1, FailureAdds
<1>5. Append(Held(k), 0) \in Seq(Ages) \ {<<>>}
  <2>1. Held(k) \in Seq(Ages)
    BY <1>2, HeldTypes DEF ThrottleInv
  <2>2. Append(Held(k), 0) \in Seq(Ages) /\ Len(Append(Held(k), 0)) = Len(Held(k)) + 1
    BY <2>1, OneMore
  <2>3. Len(Held(k)) \in Nat
    BY <2>1
  <2>4. QED BY <2>2, <2>3
<1>6. \/ /\ window' = [j \in DOMAIN window \cup {k} |->
                          IF j = k THEN Append(Held(k), 0) ELSE window[j]]
         /\ excused' = IF attempt[s].open THEN [excused EXCEPT ![k] = 0] ELSE excused
      \/ excused' = [excused EXCEPT ![k] = 0] /\ UNCHANGED window
  BY <1>0 DEF RecordInRedis
<1>7. /\ DOMAIN window' \subseteq DOMAIN window \cup {k}
      /\ window' \in [DOMAIN window' -> Seq(Ages) \ {<<>>}]
      /\ excused' \in [ThrottleKeys -> Ages]
      /\ \A q \in ThrottleKeys :
           \/ excused'[q] = 0
           \/ /\ excused'[q] = excused[q]
              /\ q # k => Kept(q)' = Kept(q)
              /\ q = k => Kept(q)' = Append(Held(q), 0) /\ ~attempt[s].open
  <2>1. CASE excused' = [excused EXCEPT ![k] = 0] /\ UNCHANGED window
    <3>1. excused' \in [ThrottleKeys -> Ages]
      BY <1>3, <2>1
    <3>2. excused'[k] = 0 /\ \A q \in ThrottleKeys : q # k => excused'[q] = excused[q]
      BY <1>2, <1>3, <2>1
    <3>3. \A q : Kept(q)' = Kept(q)
      BY <2>1 DEF Kept
    <3>4. QED BY <1>3, <2>1, <3>1, <3>2, <3>3
  <2>2. CASE /\ window' = [j \in DOMAIN window \cup {k} |->
                             IF j = k THEN Append(Held(k), 0) ELSE window[j]]
             /\ excused' = IF attempt[s].open THEN [excused EXCEPT ![k] = 0] ELSE excused
    <3>1. DOMAIN window' = DOMAIN window \cup {k} /\ window'[k] = Append(Held(k), 0)
          /\ \A j \in DOMAIN window : j # k => window'[j] = window[j]
      BY <2>2
    <3>2. window' \in [DOMAIN window' -> Seq(Ages) \ {<<>>}]
      BY <1>3, <1>5, <2>2, <3>1
    <3>3. Kept(k)' = Append(Held(k), 0) /\ \A q \in ThrottleKeys : q # k => Kept(q)' = Kept(q)
      BY <3>1 DEF Kept
    <3>4. excused' \in [ThrottleKeys -> Ages]
      BY <1>3, <2>2
    <3>5. \A q \in ThrottleKeys : \/ q = k /\ attempt[s].open /\ excused'[q] = 0
                                  \/ ~(q = k /\ attempt[s].open) /\ excused'[q] = excused[q]
      BY <1>2, <1>3, <2>2
    <3>6. QED BY <3>1, <3>2, <3>3, <3>4, <3>5
  <2>3. QED BY <1>6, <2>1, <2>2
<1>8. ThrottleTypeOK'
  <2>1. DOMAIN window' \subseteq ThrottleKeys
    BY <1>2, <1>3, <1>7
  <2>2. backend' \in {"process", "redis"}
    BY <1>1
  <2>3. QED BY <1>2, <1>4, <1>7, <2>1, <2>2 DEF ThrottleTypeOK
<1>9. FailuresAreKept' /\ FewAreKept'
  BY <1>0, <1>1, <1>7, <1>8, KeepingStep
<1>10. FewKeys'
  <2>1. IsFiniteSet(DOMAIN window \cup {k})
    BY FS_AddElement DEF ThrottleInv, FewKeys
  <2>2. DOMAIN window' \in SUBSET (DOMAIN window \cup {k})
    BY <1>7
  <2>3. IsFiniteSet(DOMAIN window')
    BY <2>1, <2>2, FS_Subset
  <2>4. QED BY <1>1, <2>3 DEF FewKeys
<1>11. QED BY <1>2, <1>4, <1>8, <1>9, <1>10 DEF ThrottleInv

LEMMA ProcessStep == ASSUME ThrottleInv, NEW s \in Slots, RecordInProcess(s) PROVE ThrottleInv'
<1>0. PICK k : k = attempt[s].key
  OBVIOUS
<1> DEFINE kept == {j \in DOMAIN window : LatestOf(window[j]) < ThrottleWindow} \cup {k}
           next == [j \in kept |-> IF j = k THEN Append(Held(k), 0) ELSE window[j]]
<1>1. /\ Failing(s) /\ attempt[s] # NoAttempt /\ attempt' = [attempt EXCEPT ![s] = NoAttempt]
      /\ UNCHANGED backend /\ backend = "process"
  BY DEF RecordInProcess, Failing
<1>2. /\ k \in ThrottleKeys /\ attempt' \in [Slots -> Attempt] /\ OpenInRedis'
      /\ ~attempt[s].open
  <2>1. ~attempt[s].open
    BY <1>1 DEF ThrottleInv, OpenInRedis
  <2>2. QED BY <1>0, <1>1, <2>1, SlotFreed
<1>3. /\ window \in [DOMAIN window -> Seq(Ages) \ {<<>>}] /\ DOMAIN window \subseteq ThrottleKeys
      /\ excused \in [ThrottleKeys -> Ages] /\ 0 \in Ages
  BY ThrottleNumbers DEF ThrottleInv, ThrottleTypeOK
<1>4. failures' \in [ThrottleKeys -> Seq(Ages)] /\ FailuresInOrder'
  BY <1>1, FailureAdds
<1>5. Append(Held(k), 0) \in Seq(Ages) \ {<<>>}
  <2>1. Held(k) \in Seq(Ages)
    BY <1>2, HeldTypes DEF ThrottleInv
  <2>2. Append(Held(k), 0) \in Seq(Ages) /\ Len(Append(Held(k), 0)) = Len(Held(k)) + 1
    BY <2>1, OneMore
  <2>3. Len(Held(k)) \in Nat
    BY <2>1
  <2>4. QED BY <2>2, <2>3
<1>6. \/ Cardinality(kept) <= MaxKeys /\ window' = next /\ UNCHANGED excused
      \/ /\ ~(Cardinality(kept) <= MaxKeys)
         /\ \E gone \in kept \ {k} : /\ window' = [j \in kept \ {gone} |-> next[j]]
                                     /\ excused' = [excused EXCEPT ![gone] = 0]
  BY <1>0 DEF RecordInProcess
<1>7. /\ k \in kept /\ kept \subseteq DOMAIN window \cup {k} /\ kept \subseteq ThrottleKeys
      /\ \A j \in DOMAIN window : j \notin kept => LatestOf(window[j]) >= ThrottleWindow
  <2>1. \A j \in DOMAIN window : LatestOf(window[j]) \in Nat
    <3> SUFFICES ASSUME NEW j \in DOMAIN window PROVE LatestOf(window[j]) \in Nat
      OBVIOUS
    <3>1. window[j] \in Seq(Ages) /\ window[j] # <<>>
      BY <1>3
    <3>2. window[j][Len(window[j])] \in Ages
      BY <3>1
    <3>3. QED BY <3>2, ThrottleNumbers DEF LatestOf
  <2>2. QED BY <1>2, <1>3, <2>1, ThrottleNumbers
<1>8. /\ DOMAIN next = kept /\ next[k] = Append(Held(k), 0)
      /\ \A j \in kept : j # k => j \in DOMAIN window /\ next[j] = window[j]
      /\ next \in [kept -> Seq(Ages) \ {<<>>}]
  <2>1. \A j \in kept : j # k => j \in DOMAIN window /\ window[j] \in Seq(Ages) \ {<<>>}
    BY <1>3
  <2>2. next[k] = Append(Held(k), 0)
    BY <1>7
  <2>3. QED BY <1>5, <2>1, <2>2
<1> HIDE DEF kept, next
<1>9. ASSUME NEW ks \in SUBSET kept, window' = [j \in ks |-> next[j]]
      PROVE  /\ DOMAIN window' = ks /\ ks \subseteq ThrottleKeys
             /\ window' \in [DOMAIN window' -> Seq(Ages) \ {<<>>}]
             /\ \A q \in ThrottleKeys :
                  /\ q = k /\ k \in ks => Kept(q)' = Append(Held(q), 0)
                  /\ q # k => \/ Kept(q)' = Kept(q)
                              \/ Kept(q)' = <<>> /\ ~(FromLast(Kept(q), 1) < ThrottleWindow)
                              \/ q \in kept \ ks
  <2>1. DOMAIN window' = ks /\ \A j \in ks : window'[j] = next[j]
    BY <1>9
  <2>2. window' \in [DOMAIN window' -> Seq(Ages) \ {<<>>}]
    BY <1>8, <1>9, <2>1
  <2>3. \A q \in ThrottleKeys : q = k /\ k \in ks => Kept(q)' = Append(Held(q), 0)
    BY <1>8, <2>1 DEF Kept
  <2>4. ASSUME NEW q \in ThrottleKeys, q # k, q \notin kept \ ks
        PROVE  \/ Kept(q)' = Kept(q)
               \/ Kept(q)' = <<>> /\ ~(FromLast(Kept(q), 1) < ThrottleWindow)
    <3>1. CASE q \in ks
      <4>1. q \in DOMAIN window /\ window'[q] = window[q] /\ q \in DOMAIN window'
        BY <1>8, <2>1, <2>4, <3>1
      <4>2. QED BY <4>1 DEF Kept
    <3>2. CASE q \notin ks /\ q \in DOMAIN window
      <4>1. q \notin kept
        BY <2>4, <3>2
      <4>2. LatestOf(window[q]) >= ThrottleWindow /\ window[q] \in Seq(Ages) /\ window[q] # <<>>
        BY <1>3, <1>7, <3>2, <4>1
      <4>3. Len(window[q]) + 1 - 1 = Len(window[q])
        BY <4>2
      <4>4. window[q][Len(window[q])] \in Nat
        <5>1. window[q][Len(window[q])] \in Ages
          BY <4>2
        <5>2. QED BY <5>1, ThrottleNumbers
      <4>5. ~(FromLast(window[q], 1) < ThrottleWindow)
        BY <4>2, <4>3, <4>4, ThrottleNumbers DEF FromLast, LatestOf
      <4>6. QED BY <2>1, <3>2, <4>5 DEF Kept
    <3>3. CASE q \notin ks /\ q \notin DOMAIN window
      BY <2>1, <3>3 DEF Kept
    <3>4. QED BY <3>1, <3>2, <3>3
  <2>5. QED BY <1>7, <2>1, <2>2, <2>3, <2>4
<1>10. IsFiniteSet(kept) /\ Cardinality(kept) \in Nat /\ Cardinality(kept) <= MaxKeys + 1
  <2>1. IsFiniteSet(DOMAIN window) /\ Cardinality(DOMAIN window) <= MaxKeys
    BY <1>1 DEF ThrottleInv, FewKeys
  <2>2. Cardinality(DOMAIN window) \in Nat
    BY <2>1, FS_CardinalityType
  <2>3. /\ IsFiniteSet(DOMAIN window \cup {k})
        /\ Cardinality(DOMAIN window \cup {k})
             = IF k \in DOMAIN window THEN Cardinality(DOMAIN window)
               ELSE Cardinality(DOMAIN window) + 1
    BY <2>1, FS_AddElement
  <2>4. kept \in SUBSET (DOMAIN window \cup {k})
    BY <1>7
  <2>5. IsFiniteSet(kept) /\ Cardinality(kept) <= Cardinality(DOMAIN window \cup {k})
    BY <2>3, <2>4, FS_Subset
  <2>6. Cardinality(kept) \in Nat
    BY <2>5, FS_CardinalityType
  <2>7. QED BY <2>1, <2>2, <2>3, <2>5, <2>6, ThrottleNumbers
<1>11. /\ window' \in [DOMAIN window' -> Seq(Ages) \ {<<>>}] /\ DOMAIN window' \subseteq ThrottleKeys
       /\ excused' \in [ThrottleKeys -> Ages]
       /\ IsFiniteSet(DOMAIN window') /\ Cardinality(DOMAIN window') <= MaxKeys
       /\ \A q \in ThrottleKeys :
            \/ excused'[q] = 0
            \/ /\ excused'[q] = excused[q]
               /\ q # k => \/ Kept(q)' = Kept(q)
                           \/ Kept(q)' = <<>> /\ ~(FromLast(Kept(q), 1) < ThrottleWindow)
               /\ q = k => Kept(q)' = Append(Held(q), 0) /\ ~attempt[s].open
  <2>1. CASE Cardinality(kept) <= MaxKeys /\ window' = next /\ UNCHANGED excused
    <3>1. window' = [j \in kept |-> next[j]]
      BY <1>8, <2>1
    <3>2. QED BY <1>2, <1>3, <1>7, <1>9, <1>10, <2>1, <3>1
  <2>2. CASE /\ ~(Cardinality(kept) <= MaxKeys)
             /\ \E gone \in kept \ {k} : /\ window' = [j \in kept \ {gone} |-> next[j]]
                                         /\ excused' = [excused EXCEPT ![gone] = 0]
    <3>1. PICK gone \in kept \ {k} : /\ window' = [j \in kept \ {gone} |-> next[j]]
                                     /\ excused' = [excused EXCEPT ![gone] = 0]
      BY <2>2
    <3>2. kept \ {gone} \in SUBSET kept /\ k \in kept \ {gone} /\ kept \ (kept \ {gone}) = {gone}
      BY <1>7
    <3>3. /\ DOMAIN window' = kept \ {gone} /\ kept \ {gone} \subseteq ThrottleKeys
          /\ window' \in [DOMAIN window' -> Seq(Ages) \ {<<>>}]
          /\ \A q \in ThrottleKeys :
               /\ q = k => Kept(q)' = Append(Held(q), 0)
               /\ q # k => \/ Kept(q)' = Kept(q)
                           \/ Kept(q)' = <<>> /\ ~(FromLast(Kept(q), 1) < ThrottleWindow)
                           \/ q = gone
      BY <1>9, <3>1, <3>2
    <3>4. IsFiniteSet(kept \ {gone}) /\ Cardinality(kept \ {gone}) = Cardinality(kept) - 1
      BY <1>10, FS_RemoveElement
    <3>5. Cardinality(kept \ {gone}) <= MaxKeys
      BY <1>10, <3>4, ThrottleNumbers
    <3>6. excused' \in [ThrottleKeys -> Ages]
      BY <1>3, <3>1
    <3>7. \A q \in ThrottleKeys : IF q = gone THEN excused'[q] = 0 ELSE excused'[q] = excused[q]
      BY <1>3, <3>1
    <3>8. \A q \in ThrottleKeys :
            \/ excused'[q] = 0
            \/ /\ excused'[q] = excused[q]
               /\ q # k => \/ Kept(q)' = Kept(q)
                           \/ Kept(q)' = <<>> /\ ~(FromLast(Kept(q), 1) < ThrottleWindow)
               /\ q = k => Kept(q)' = Append(Held(q), 0) /\ ~attempt[s].open
      BY <1>2, <3>3, <3>7
    <3>9. QED BY <3>3, <3>4, <3>5, <3>6, <3>8
  <2>3. QED BY <1>6, <2>1, <2>2
<1>12. ThrottleTypeOK'
  <2>1. backend' \in {"process", "redis"}
    BY <1>1
  <2>2. QED BY <1>2, <1>4, <1>11, <2>1 DEF ThrottleTypeOK
<1>13. FailuresAreKept' /\ FewAreKept'
  BY <1>0, <1>1, <1>11, <1>12, KeepingStep
<1>14. FewKeys'
  BY <1>11 DEF FewKeys
<1>15. QED BY <1>2, <1>4, <1>12, <1>13, <1>14 DEF ThrottleInv

LEMMA ThrottleInvariance == ThrottleSpec => []ThrottleInv
<1>1. ThrottleInit => ThrottleInv
  <2> SUFFICES ASSUME ThrottleInit PROVE ThrottleInv
    OBVIOUS
  <2>1. /\ DOMAIN window = {} /\ attempt = [s \in Slots |-> NoAttempt]
        /\ failures = [k \in ThrottleKeys |-> <<>>]
        /\ excused = [k \in ThrottleKeys |-> ThrottleWindow]
        /\ backend \in {"process", "redis"}
    BY DEF ThrottleInit
  <2>2. window \in [DOMAIN window -> Seq(Ages) \ {<<>>}]
    BY DEF ThrottleInit
  <2>3. failures \in [ThrottleKeys -> Seq(Ages)]
    BY <2>1
  <2>4. excused \in [ThrottleKeys -> Ages] /\ attempt \in [Slots -> Attempt]
    BY <2>1, ThrottleNumbers DEF Attempt
  <2>5. ThrottleTypeOK
    BY <2>1, <2>2, <2>3, <2>4 DEF ThrottleTypeOK
  <2>6. FailuresInOrder /\ FailuresAreKept
    BY <2>1 DEF FailuresInOrder, FailuresAreKept
  <2>7. FewAreKept /\ OpenInRedis
    BY <2>1 DEF FewAreKept, Kept, OpenInRedis, NoAttempt
  <2>8. FewKeys
    BY <2>1, FS_EmptySet, ThrottleNumbers DEF FewKeys
  <2>9. QED BY <2>5, <2>6, <2>7, <2>8 DEF ThrottleInv
<1>2. ThrottleInv /\ [ThrottleNext]_throttleVars => ThrottleInv'
  <2> SUFFICES ASSUME ThrottleInv, [ThrottleNext]_throttleVars PROVE ThrottleInv'
    OBVIOUS
  <2>1. CASE ThrottleNext
    BY <2>1, TickStep, ThrottleCheckStep, NothingRecordedStep, RedisStep, ProcessStep DEF ThrottleNext
  <2>2. CASE UNCHANGED throttleVars
    <3>1. UNCHANGED <<backend, window, failures, excused, attempt>>
      BY <2>2 DEF throttleVars
    <3>2. \A k : Kept(k)' = Kept(k) /\ LetThrough(k)' = LetThrough(k)
      BY <3>1 DEF Kept, LetThrough
    <3>3. QED BY <3>1, <3>2 DEF ThrottleInv, ThrottleTypeOK, FailuresInOrder, FailuresAreKept,
                                FewAreKept, FewKeys, OpenInRedis
  <2>3. QED BY <2>1, <2>2
<1>3. QED BY <1>1, <1>2, PTL DEF ThrottleSpec

(***************************************************************************)
(* For any keys, limits, window and number of attempts under way, in the   *)
(* process or in Redis: a key cannot fail more often than max_attempts     *)
(* and what is under way beside the last attempt, however checks, records, *)
(* evictions and the passing of time interleave, and the process's table   *)
(* stays within max_keys (rate_limit.py:56-83, 144-177).                   *)
(***************************************************************************)
THEOREM ThrottleHoldsAlways == ThrottleSpec => []ThrottleHolds
<1>1. ThrottleInv => ThrottleHolds
  <2> SUFFICES ASSUME ThrottleInv PROVE ThrottleHolds
    OBVIOUS
  <2>1. ASSUME NEW k \in ThrottleKeys, excused[k] = ThrottleWindow
        PROVE  Len(failures[k]) <= MaxTries + Cardinality(Slots) - 1
    <3>0. failures[k] \in Seq(Ages) /\ Kept(k) \in Seq(Ages)
      BY KeptTypes DEF ThrottleInv, ThrottleTypeOK
    <3>1. CASE Len(failures[k]) = 0
      BY <3>1, ThrottleNumbers
    <3>2. CASE Len(failures[k]) # 0
      <4> DEFINE j == Len(failures[k])
      <4>1. j \in 1..Len(failures[k]) /\ FromLast(failures[k], j) = failures[k][1]
        BY <3>0, <3>2 DEF FromLast
      <4>2. failures[k][1] < ThrottleWindow
        BY <3>0, <3>2 DEF ThrottleInv, FailuresInOrder
      <4>3. j <= Len(Kept(k)) /\ FromLast(Kept(k), j) = FromLast(failures[k], j)
        BY <2>1, <4>1, <4>2 DEF ThrottleInv, FailuresAreKept
      <4>4. j \in 1..Len(Kept(k)) /\ FromLast(Kept(k), j) < excused[k]
        BY <2>1, <3>0, <4>1, <4>2, <4>3
      <4>5. j + Cardinality(LetThrough(k)) <= MaxTries + Cardinality(Slots) - 1
        BY <4>4 DEF ThrottleInv, FewAreKept
      <4>6. QED BY <3>0, <4>5, UnderWay, ThrottleNumbers
    <3>3. QED BY <3>1, <3>2
  <2>2. backend = "process" => Cardinality(DOMAIN window) <= MaxKeys
    BY DEF ThrottleInv, FewKeys
  <2>3. QED BY <2>1, <2>2 DEF ThrottleHolds
<1>2. QED BY <1>1, ThrottleInvariance, PTL

----------------------------------------------------------------------------
(***************************************************************************)
(* The erasure of a person.                                                *)
(***************************************************************************)

Retained(t) == Inventory[t].erasure = "retain"

\* While an erasure is under way, whoever is writing is late.
WritersAreLate == Underway => \A w \in Writers : writing[w] # NotWriting => writing[w].late

\* What names the person is late, held by the erasure, to be retained, or in a
\* table the erasure has still to come to.
HeldOrAhead ==
  \A e \in Erasers : erasing[e] # Idle =>
    \A r \in rows : r.names =>
      \/ r.late \/ e \in r.doomed \/ Retained(r.table)
      \/ \E i \in (erasing[e] + 1)..Len(TableOrder) : r.table = TableOrder[i]

\* Once the person is gone, what still comes is late, refused or retained.
NothingNewComes ==
  ~exists => /\ \A r \in rows : r.names =>
                  Retained(r.table) \/ (Inventory[r.table].key = "none" /\ r.late)
             /\ \A w \in Writers : writing[w] # NotWriting =>
                  writing[w].late \/ Retained(writing[w].table)
                    \/ Inventory[writing[w].table].key # "none"

\* What was written is there, unless the person is gone and it was to be deleted.
NothingElseGoes ==
  \A t \in written : (exists \/ Inventory[t].erasure # "delete") =>
    \E r \in rows : r.table = t /\ (exists => r.names)

ErasureInv == ErasureTypeOK /\ WritersAreLate /\ HeldOrAhead /\ NothingNewComes /\ NothingElseGoes

----------------------------------------------------------------------------
LEMMA InventoryFacts ==
  /\ \A t \in DOMAIN Inventory : /\ Inventory[t].key \in {"cascade", "set null", "none"}
                                 /\ Inventory[t].erasure # "delete" => Inventory[t].key # "cascade"
  /\ "user_news_preferences" \in DOMAIN Inventory
  /\ Inventory["user_news_preferences"].erasure = "delete"
<1> DEFINE Sound(t) == /\ Inventory[t].key \in {"cascade", "set null", "none"}
                       /\ Inventory[t].erasure # "delete" => Inventory[t].key # "cascade"
<1>1. DOMAIN Inventory = {"memberships", "refresh_tokens", "organization_invitations",
                          "user_news_preferences", "user_news_feed", "news_article_matches",
                          "chat_conversations", "chat_messages", "search_feedback",
                          "notifications", "agent_runs", "agent_recommendations", "watchlists",
                          "watchlist_entries", "alert_rules", "audit_log"}
  BY DEF Inventory
<1>2. Sound("memberships")
  BY DEF Inventory, Entry
<1>3. Sound("refresh_tokens")
  BY DEF Inventory, Entry
<1>4. Sound("organization_invitations")
  BY DEF Inventory, Entry
<1>5. Sound("user_news_preferences")
  BY DEF Inventory, Entry
<1>6. Sound("user_news_feed")
  BY DEF Inventory, Entry
<1>7. Sound("news_article_matches")
  BY DEF Inventory, Entry
<1>8. Sound("chat_conversations")
  BY DEF Inventory, Entry
<1>9. Sound("chat_messages")
  BY DEF Inventory, Entry
<1>10. Sound("search_feedback")
  BY DEF Inventory, Entry
<1>11. Sound("notifications")
  BY DEF Inventory, Entry
<1>12. Sound("agent_runs")
  BY DEF Inventory, Entry
<1>13. Sound("agent_recommendations")
  BY DEF Inventory, Entry
<1>14. Sound("watchlists")
  BY DEF Inventory, Entry
<1>15. Sound("watchlist_entries")
  BY DEF Inventory, Entry
<1>16. Sound("alert_rules")
  BY DEF Inventory, Entry
<1>17. Sound("audit_log")
  BY DEF Inventory, Entry
<1>18. Inventory["user_news_preferences"].erasure = "delete"
  BY DEF Inventory, Entry
<1> HIDE DEF Sound
<1>19. \A t \in DOMAIN Inventory : Sound(t)
  BY <1>1, <1>2, <1>3, <1>4, <1>5, <1>6, <1>7, <1>8, <1>9,
     <1>10, <1>11, <1>12, <1>13, <1>14, <1>15, <1>16, <1>17
<1>20. QED BY <1>1, <1>18, <1>19 DEF Sound

LEMMA Order == /\ Len(TableOrder) \in Nat /\ DOMAIN TableOrder = 1..Len(TableOrder)
               /\ Tables = {TableOrder[i] : i \in 1..Len(TableOrder)}
               /\ Tables \subseteq DOMAIN Inventory /\ "none" \notin DOMAIN Inventory
  BY InventoryAssumption DEF Tables, ToSet, Inventory

\* A row another statement has touched is otherwise the same.
LEMMA Touched ==
  ASSUME NEW r \in PersonalRow, NEW D \in SUBSET Erasers
  PROVE  /\ [r EXCEPT !.doomed = D] \in PersonalRow
         /\ [r EXCEPT !.doomed = D].table = r.table /\ [r EXCEPT !.doomed = D].names = r.names
         /\ [r EXCEPT !.doomed = D].late = r.late /\ [r EXCEPT !.doomed = D].doomed = D
  BY DEF PersonalRow

\* What an erasure leaves of a row names nobody, or is the row.
LEMMA WhatIsLeft ==
  ASSUME NEW r \in PersonalRow, NEW e \in Erasers
  PROVE  /\ Erased(r, e) \subseteq PersonalRow
         /\ \A s \in Erased(r, e) : s.table = r.table
         /\ \A s \in Erased(r, e) : s.names => s = r
         /\ r \in Erased(r, e) /\ r.names =>
              e \notin r.doomed /\ Inventory[r.table].key \notin {"cascade", "set null"}
         /\ Inventory[r.table].erasure # "delete" => Erased(r, e) # {}
<1> DEFINE anon == [r EXCEPT !.names = FALSE, !.doomed = {}]
           null == [r EXCEPT !.names = FALSE]
<1>1. /\ anon \in PersonalRow /\ anon.table = r.table /\ ~anon.names
      /\ null \in PersonalRow /\ null.table = r.table /\ ~null.names
  BY DEF PersonalRow
<1>2. r.table \in DOMAIN Inventory
  BY Order DEF PersonalRow
<1>3. Erased(r, e) = IF e \in r.doomed
                     THEN IF Inventory[r.table].erasure = "delete" THEN {} ELSE {anon}
                     ELSE IF Inventory[r.table].key = "cascade" THEN {}
                     ELSE IF Inventory[r.table].key = "set null" THEN {null}
                     ELSE {r}
  BY DEF Erased
<1> HIDE DEF anon, null
<1>4. QED BY <1>1, <1>2, <1>3, InventoryFacts

\* A writer that is overtaken is late; one that is at rest stays so.
LEMMA MarkedLate ==
  ASSUME NEW v \in PendingWrite
  PROVE  /\ [v EXCEPT !.late = v # NotWriting] \in PendingWrite
         /\ v = NotWriting => [v EXCEPT !.late = v # NotWriting] = NotWriting
         /\ v # NotWriting => /\ [v EXCEPT !.late = v # NotWriting].late
                              /\ [v EXCEPT !.late = v # NotWriting].table = v.table
<1>1. CASE v = NotWriting
  <2>0. \A b \in BOOLEAN : [[table |-> "none", late |-> b] EXCEPT !.late = b]
                             = [table |-> "none", late |-> b]
    OBVIOUS
  <2>1. [v EXCEPT !.late = FALSE] = NotWriting
    BY <1>1, <2>0 DEF NotWriting
  <2>2. (v # NotWriting) = FALSE
    BY <1>1
  <2>3. QED BY <1>1, <2>1, <2>2 DEF PendingWrite
<1>2. CASE v # NotWriting
  <2>1. /\ [v EXCEPT !.late = TRUE] \in PendingWrite
        /\ [v EXCEPT !.late = TRUE].late = TRUE /\ [v EXCEPT !.late = TRUE].table = v.table
    BY <1>2 DEF PendingWrite
  <2>2. (v # NotWriting) = TRUE
    BY <1>2
  <2>3. QED BY <1>2, <2>1, <2>2
<1>3. QED BY <1>1, <1>2

LEMMA ErasureTypesStep == ErasureTypeOK /\ ErasureNext => ErasureTypeOK'
<1> SUFFICES ASSUME ErasureTypeOK, ErasureNext PROVE ErasureTypeOK'
  OBVIOUS
<1> USE DEF ErasureTypeOK
<1>0. /\ rows \subseteq PersonalRow
      /\ \A w \in Writers : writing[w] # NotWriting =>
           writing[w].table \in Tables /\ writing[w].late \in BOOLEAN
      /\ NotWriting \in PendingWrite
  BY DEF PendingWrite
<1>1. ASSUME NEW w \in Writers, BeginWrite(w) PROVE ErasureTypeOK'
  <2>1. PICK t \in Tables, late \in BOOLEAN :
          writing' = [writing EXCEPT ![w] = [table |-> t, late |-> late]]
    BY <1>1 DEF BeginWrite
  <2>2. QED BY <1>1, <2>1 DEF BeginWrite, PendingWrite
<1>2. ASSUME NEW w \in Writers, CommitWrite(w) PROVE ErasureTypeOK'
  <2> DEFINE r == [table |-> writing[w].table, names |-> TRUE, doomed |-> {},
                   late |-> writing[w].late]
  <2>1. writing[w].table \in Tables
    BY <1>0, <1>2 DEF CommitWrite
  <2>2. r \in PersonalRow
    BY <1>0, <1>2, <2>1 DEF CommitWrite, PersonalRow
  <2>3. rows' \subseteq PersonalRow
    BY <1>0, <1>2, <2>2 DEF CommitWrite
  <2>4. written' \subseteq Tables
    BY <1>2, <2>1 DEF CommitWrite
  <2>5. writing' \in [Writers -> PendingWrite]
    BY <1>0, <1>2 DEF CommitWrite
  <2>6. QED BY <1>2, <2>3, <2>4, <2>5 DEF CommitWrite, PersonalRow
<1>3. ASSUME NEW w \in Writers, LoseWrite(w) PROVE ErasureTypeOK'
  BY <1>0, <1>3 DEF LoseWrite
<1>4. ASSUME NEW e \in Erasers, BeginErasure(e) PROVE ErasureTypeOK'
  <2>1. writing' \in [Writers -> PendingWrite]
    <3>1. ASSUME NEW v \in PendingWrite PROVE [v EXCEPT !.late = v # NotWriting] \in PendingWrite
      BY MarkedLate
    <3>2. QED BY <1>4, <3>1 DEF BeginErasure
  <2>2. erasing' \in [Erasers -> -1..(Len(TableOrder) + 1)]
    BY <1>4, Order DEF BeginErasure
  <2>3. QED BY <1>4, <2>1, <2>2 DEF BeginErasure
<1>5. ASSUME NEW e \in Erasers, EraseTable(e) PROVE ErasureTypeOK'
  <2>1. PICK hit \in SUBSET rows : rows' = (rows \ hit) \cup {[r EXCEPT !.doomed = {e}] : r \in hit}
    BY <1>5 DEF EraseTable, Matches, About
  <2>2. rows' \subseteq PersonalRow
    <3>1. ASSUME NEW r \in hit PROVE [r EXCEPT !.doomed = {e}] \in PersonalRow
      BY <1>0, Touched
    <3>2. QED BY <1>0, <2>1, <3>1
  <2>3. erasing' \in [Erasers -> -1..(Len(TableOrder) + 1)]
    BY <1>5, Order DEF EraseTable
  <2>4. QED BY <1>5, <2>2, <2>3 DEF EraseTable, PersonalRow
<1>6. ASSUME NEW e \in Erasers, EraseAccount(e) PROVE ErasureTypeOK'
  BY <1>6, Order DEF EraseAccount
<1>7. ASSUME NEW e \in Erasers, CommitErasure(e) PROVE ErasureTypeOK'
  <2>1. rows' \subseteq PersonalRow
    <3>1. ASSUME NEW r \in rows PROVE Erased(r, e) \subseteq PersonalRow
      BY <1>0, WhatIsLeft
    <3>2. rows' = UNION {Erased(r, e) : r \in rows}
      BY <1>7 DEF CommitErasure
    <3>3. QED BY <3>1, <3>2
  <2>2. erasing' \in [Erasers -> -1..(Len(TableOrder) + 1)]
    BY <1>7, Order DEF CommitErasure, Idle
  <2>3. QED BY <1>7, <2>1, <2>2 DEF CommitErasure, PersonalRow
<1>8. ASSUME NEW e \in Erasers, FailErasure(e) PROVE ErasureTypeOK'
  <2>1. rows' \subseteq PersonalRow
    <3>1. ASSUME NEW r \in rows PROVE [r EXCEPT !.doomed = r.doomed \ {e}] \in PersonalRow
      BY <1>0, Touched DEF PersonalRow
    <3>2. QED BY <1>8, <3>1 DEF FailErasure
  <2>2. QED BY <1>8, <2>1, Order DEF FailErasure, PersonalRow, Idle
<1>9. CASE Prune
  <2>1. rows' \subseteq rows /\ written' \subseteq written /\ UNCHANGED <<exists, writing, erasing>>
    BY <1>9 DEF Prune
  <2>2. QED BY <2>1
<1>10. QED
  BY <1>1, <1>2, <1>3, <1>4, <1>5, <1>6, <1>7, <1>8, <1>9 DEF ErasureNext

\* Who is writing when an erasure begins, or begins while one is under way, is late.
LEMMA LateStep == ErasureTypeOK /\ WritersAreLate /\ ErasureNext => WritersAreLate'
<1> SUFFICES ASSUME ErasureTypeOK, WritersAreLate, ErasureNext PROVE WritersAreLate'
  OBVIOUS
<1> USE DEF WritersAreLate, Underway
<1>0. writing \in [Writers -> PendingWrite]
  BY DEF ErasureTypeOK
<1>1. ASSUME NEW w \in Writers, BeginWrite(w) PROVE WritersAreLate'
  <2>1. PICK t \in Tables, late \in BOOLEAN :
          /\ writing' = [writing EXCEPT ![w] = [table |-> t, late |-> late]] /\ UNCHANGED erasing
          /\ Underway => late
    BY <1>1 DEF BeginWrite
  <2>2. QED BY <1>0, <2>1
<1>2. ASSUME NEW w \in Writers, CommitWrite(w) \/ LoseWrite(w) PROVE WritersAreLate'
  BY <1>0, <1>2 DEF CommitWrite, LoseWrite
<1>3. ASSUME NEW e \in Erasers, BeginErasure(e) PROVE WritersAreLate'
  <2>1. writing' = [w \in Writers |-> [writing[w] EXCEPT !.late = writing[w] # NotWriting]]
    BY <1>3 DEF BeginErasure
  <2>2. ASSUME NEW w \in Writers, writing'[w] # NotWriting PROVE writing'[w].late
    BY <1>0, <2>1, <2>2, MarkedLate
  <2>3. QED BY <2>2
<1>4. ASSUME NEW e \in Erasers,
             EraseTable(e) \/ EraseAccount(e) \/ CommitErasure(e) \/ FailErasure(e)
      PROVE WritersAreLate'
  <2>1. UNCHANGED writing /\ erasing[e] # Idle
    BY <1>4, Order DEF EraseTable, EraseAccount, CommitErasure, FailErasure, Idle
  <2>2. QED BY <2>1
<1>5. CASE Prune
  BY <1>5 DEF Prune
<1>6. QED BY <1>1, <1>2, <1>3, <1>4, <1>5 DEF ErasureNext

\* Nothing an erasure has been through is on time and names the person.
LEMMA HeldStep ==
  ASSUME ErasureTypeOK, WritersAreLate, HeldOrAhead, ErasureNext
  PROVE  HeldOrAhead'
<1> DEFINE Ahead(e, r) == \E i \in (erasing[e] + 1)..Len(TableOrder) : r.table = TableOrder[i]
           Covered(e, r) == r.late \/ e \in r.doomed \/ Retained(r.table) \/ Ahead(e, r)
<1>0. /\ rows \subseteq PersonalRow /\ erasing \in [Erasers -> -1..(Len(TableOrder) + 1)]
      /\ writing \in [Writers -> PendingWrite]
  BY DEF ErasureTypeOK, PersonalRow
<1>a. \A e \in Erasers : erasing[e] # Idle => \A r \in rows : r.names => Covered(e, r)
  BY DEF HeldOrAhead
<1>b. ASSUME UNCHANGED erasing, \A r \in rows' : r.names => r \in rows \/ (Underway => r.late)
      PROVE  HeldOrAhead'
  BY <1>a, <1>b DEF HeldOrAhead, Underway
<1>1. ASSUME NEW w \in Writers, BeginWrite(w) PROVE HeldOrAhead'
  BY <1>1, <1>b DEF BeginWrite
<1>2. ASSUME NEW w \in Writers, CommitWrite(w) PROVE HeldOrAhead'
  <2>1. UNCHANGED erasing
    BY <1>2 DEF CommitWrite
  <2>2. ASSUME NEW r \in rows' PROVE r \in rows \/ (Underway => r.late)
    BY <1>2 DEF CommitWrite, WritersAreLate
  <2>3. QED BY <2>1, <2>2, <1>b
<1>3. ASSUME NEW w \in Writers, LoseWrite(w) PROVE HeldOrAhead'
  BY <1>3, <1>b DEF LoseWrite
<1>4. ASSUME NEW e \in Erasers, BeginErasure(e) PROVE HeldOrAhead'
  <2>1. erasing' = [erasing EXCEPT ![e] = 0] /\ rows' = rows
    BY <1>4 DEF BeginErasure
  <2>2. ASSUME NEW d \in Erasers, erasing'[d] # Idle, NEW r \in rows, r.names
        PROVE  Covered(d, r)'
    <3>1. CASE d = e
      <4>1. erasing'[d] + 1 = 1
        BY <1>0, <2>1, <3>1
      <4>2. \E i \in 1..Len(TableOrder) : r.table = TableOrder[i]
        BY <1>0, Order DEF PersonalRow
      <4>3. QED BY <4>1, <4>2
    <3>2. CASE d # e
      <4>1. erasing'[d] = erasing[d]
        BY <1>0, <2>1, <3>2
      <4>2. QED BY <1>a, <2>2, <4>1
    <3>3. QED BY <3>1, <3>2
  <2>3. QED BY <2>1, <2>2 DEF HeldOrAhead
<1>5. ASSUME NEW e \in Erasers, EraseTable(e) PROVE HeldOrAhead'
  <2>1. PICK t \in Tables, hit \in SUBSET rows :
          /\ t = TableOrder[erasing[e] + 1]
          /\ ~Retained(t) => hit = About(t)
          /\ \A r \in hit : r.doomed = {}
          /\ rows' = (rows \ hit) \cup {[r EXCEPT !.doomed = {e}] : r \in hit}
          /\ erasing' = [erasing EXCEPT ![e] = @ + 1]
    <3> DEFINE t == TableOrder[erasing[e] + 1]
               hit == IF Inventory[t].erasure = "retain" THEN {} ELSE About(t)
    <3>1. /\ \A r \in hit : r.doomed = {}
          /\ rows' = (rows \ hit) \cup {[r EXCEPT !.doomed = {e}] : r \in hit}
          /\ erasing' = [erasing EXCEPT ![e] = @ + 1]
      BY <1>5 DEF EraseTable, Matches
    <3>2. t \in Tables
      <4>1. erasing[e] + 1 \in 1..Len(TableOrder)
        BY <1>5, Order DEF EraseTable
      <4>2. QED BY <4>1, Order
    <3>3. hit \in SUBSET rows /\ (~Retained(t) => hit = About(t))
      BY DEF About, Retained
    <3> HIDE DEF hit, t
    <3>4. QED BY <3>1, <3>2, <3>3 DEF t
  <2>2. ASSUME NEW d \in Erasers, erasing'[d] # Idle, NEW s \in rows', s.names
        PROVE  Covered(d, s)'
    <3>1. PICK r \in rows : /\ r.table = s.table /\ r.names = s.names /\ r.late = s.late
                            /\ \/ s = r /\ r \notin hit
                               \/ r \in hit /\ s.doomed = {e}
      <4>1. CASE s \in rows \ hit
        BY <4>1
      <4>2. ASSUME NEW r \in hit, s = [r EXCEPT !.doomed = {e}]
            PROVE  /\ r.table = s.table /\ r.names = s.names /\ r.late = s.late
                   /\ s.doomed = {e}
        BY <1>0, <4>2, Touched
      <4>3. QED BY <2>1, <4>1, <4>2
    <3>2. CASE d = e
      <4>1. erasing[e] \in 0..(Len(TableOrder) - 1) /\ erasing'[e] = erasing[e] + 1
        BY <1>0, <1>5, <2>1 DEF EraseTable
      <4>a. erasing[e] # Idle
        BY <4>1, Order DEF Idle
      <4>2. Covered(e, r)
        BY <1>a, <2>2, <3>1, <4>a
      <4>3. CASE s.doomed = {e}
        BY <3>2, <4>3
      <4>4. CASE s = r /\ r \notin hit /\ Ahead(e, r)
        <5>1. PICK i \in (erasing[e] + 1)..Len(TableOrder) : r.table = TableOrder[i]
          BY <4>4
        <5>2. CASE i = erasing[e] + 1
          <6>1. r.table = t
            BY <2>1, <5>1, <5>2
          <6>2. Retained(t)
            BY <2>1, <2>2, <3>1, <4>4, <6>1 DEF About
          <6>3. QED BY <4>4, <6>1, <6>2
        <5>3. CASE i # erasing[e] + 1
          <6>1. i \in (erasing'[e] + 1)..Len(TableOrder)
            BY <4>1, <5>1, <5>3, Order
          <6>2. QED BY <3>2, <4>4, <5>1, <6>1
        <5>4. QED BY <5>2, <5>3
      <4>5. CASE s = r /\ r \notin hit /\ ~Ahead(e, r)
        BY <3>2, <4>2, <4>5
      <4>6. QED BY <3>1, <4>3, <4>4, <4>5
    <3>3. CASE d # e
      <4>1. erasing'[d] = erasing[d]
        BY <1>0, <2>1, <3>3
      <4>2. Covered(d, r)
        BY <1>a, <2>2, <3>1, <4>1
      <4>3. e \notin r.doomed \/ s = r
        BY <2>1, <3>1
      <4>4. d \in r.doomed => d \in s.doomed
        BY <2>1, <3>1
      <4>5. QED BY <3>1, <4>1, <4>2, <4>4
    <3>4. QED BY <3>2, <3>3
  <2>3. QED BY <2>2 DEF HeldOrAhead
<1>6. ASSUME NEW e \in Erasers, EraseAccount(e) PROVE HeldOrAhead'
  <2>1. erasing[e] = Len(TableOrder) /\ erasing' = [erasing EXCEPT ![e] = @ + 1] /\ rows' = rows
    BY <1>6 DEF EraseAccount
  <2>2. ASSUME NEW d \in Erasers, erasing'[d] # Idle, NEW r \in rows, r.names
        PROVE  Covered(d, r)'
    <3>1. CASE d = e
      <4>1. Covered(e, r) /\ ~Ahead(e, r)
        BY <1>a, <2>1, <2>2, Order DEF Idle
      <4>2. QED BY <3>1, <4>1
    <3>2. CASE d # e
      <4>1. erasing'[d] = erasing[d]
        BY <1>0, <2>1, <3>2
      <4>2. QED BY <1>a, <2>2, <4>1
    <3>3. QED BY <3>1, <3>2
  <2>3. QED BY <2>1, <2>2 DEF HeldOrAhead
<1>7. ASSUME NEW e \in Erasers, CommitErasure(e) \/ FailErasure(e) PROVE HeldOrAhead'
  <2>1. erasing' = [erasing EXCEPT ![e] = Idle]
    BY <1>7 DEF CommitErasure, FailErasure
  <2>2. ASSUME NEW s \in rows', s.names
        PROVE  \E r \in rows : /\ r.table = s.table /\ r.names = s.names /\ r.late = s.late
                               /\ r.doomed \ {e} \subseteq s.doomed
    <3>1. CASE CommitErasure(e)
      <4>1. PICK r \in rows : s \in Erased(r, e)
        BY <3>1 DEF CommitErasure
      <4>2. s = r
        BY <1>0, <2>2, <4>1, WhatIsLeft
      <4>3. QED BY <4>2
    <3>2. CASE FailErasure(e)
      <4>1. PICK r \in rows : s = [r EXCEPT !.doomed = r.doomed \ {e}]
        BY <3>2 DEF FailErasure
      <4>2. r \in PersonalRow /\ r.doomed \ {e} \in SUBSET Erasers
        BY <1>0 DEF PersonalRow
      <4>3. r.table = s.table /\ r.names = s.names /\ r.late = s.late /\ s.doomed = r.doomed \ {e}
        BY <4>1, <4>2, Touched
      <4>4. QED BY <4>3
    <3>3. QED BY <1>7, <3>1, <3>2
  <2>3. ASSUME NEW d \in Erasers, erasing'[d] # Idle, NEW s \in rows', s.names
        PROVE  Covered(d, s)'
    <3>1. d # e /\ erasing'[d] = erasing[d]
      BY <1>0, <2>1, <2>3
    <3>2. PICK r \in rows : /\ r.table = s.table /\ r.names = s.names /\ r.late = s.late
                            /\ r.doomed \ {e} \subseteq s.doomed
      BY <2>2, <2>3
    <3>3. Covered(d, r)
      BY <1>a, <2>3, <3>1, <3>2
    <3>4. QED BY <3>1, <3>2, <3>3
  <2>4. QED BY <2>3 DEF HeldOrAhead
<1>8. CASE Prune
  BY <1>8, <1>b DEF Prune
<1>9. QED BY <1>1, <1>2, <1>3, <1>4, <1>5, <1>6, <1>7, <1>8 DEF ErasureNext

\* When the account goes, what is held goes, and what is late is of a table that
\* nothing ties to the account; nothing on time comes afterwards.
LEMMA GoneStep ==
  ASSUME ErasureTypeOK, WritersAreLate, HeldOrAhead, NothingNewComes, ErasureNext
  PROVE  NothingNewComes'
<1> DEFINE Harmless(r) == Retained(r.table) \/ (Inventory[r.table].key = "none" /\ r.late)
           Expected(v) == v.late \/ Retained(v.table) \/ Inventory[v.table].key # "none"
<1>0. /\ rows \subseteq PersonalRow /\ erasing \in [Erasers -> -1..(Len(TableOrder) + 1)]
      /\ writing \in [Writers -> PendingWrite] /\ exists \in BOOLEAN
  BY DEF ErasureTypeOK
<1>a. ~exists => /\ \A r \in rows : r.names => Harmless(r)
                 /\ \A w \in Writers : writing[w] # NotWriting => Expected(writing[w])
  BY DEF NothingNewComes
<1>b. ASSUME ~exists' => /\ \A r \in rows' : r.names => Harmless(r)
                         /\ \A w \in Writers : writing'[w] # NotWriting => Expected(writing'[w])
      PROVE NothingNewComes'
  BY <1>b DEF NothingNewComes
<1> HIDE DEF Harmless
<1>1. ASSUME NEW w \in Writers, BeginWrite(w) PROVE NothingNewComes'
  <2>1. PICK t \in Tables, late \in BOOLEAN :
          /\ writing' = [writing EXCEPT ![w] = [table |-> t, late |-> late]]
          /\ IF t = "user_news_feed" THEN About("user_news_preferences") # {} ELSE exists
          /\ late = (Underway \/ (/\ t = "user_news_feed"
                                  /\ \A r \in About("user_news_preferences") : r.late))
    BY <1>1 DEF BeginWrite
  <2>2. UNCHANGED <<exists, rows>>
    BY <1>1 DEF BeginWrite
  <2>3. ASSUME ~exists PROVE late
    <3>1. t = "user_news_feed"
      BY <2>1, <2>3
    <3>2. ASSUME NEW r \in About("user_news_preferences") PROVE r.late
      <4>1. r \in rows /\ r.names /\ r.table = "user_news_preferences"
        BY DEF About
      <4>2. Harmless(r) /\ ~Retained(r.table)
        BY <1>a, <2>3, <4>1, InventoryFacts DEF Retained
      <4>3. QED BY <4>2 DEF Harmless
    <3>3. QED BY <2>1, <3>1, <3>2
  <2>4. ASSUME ~exists, NEW v \in Writers, writing'[v] # NotWriting PROVE Expected(writing'[v])
    <3>1. CASE v = w
      <4>1. writing'[v] = [table |-> t, late |-> late]
        BY <1>0, <2>1, <3>1
      <4>2. QED BY <2>3, <2>4, <4>1
    <3>2. CASE v # w
      <4>1. writing'[v] = writing[v]
        BY <1>0, <2>1, <3>2
      <4>2. QED BY <1>a, <2>4, <4>1
    <3>3. QED BY <3>1, <3>2
  <2>5. QED BY <1>a, <1>b, <2>2, <2>4
<1>2. ASSUME NEW w \in Writers, CommitWrite(w) PROVE NothingNewComes'
  <2>1. /\ writing[w] # NotWriting /\ exists' = exists
        /\ Inventory[writing[w].table].key # "none" => exists
        /\ rows' = rows \cup {[table |-> writing[w].table, names |-> TRUE, doomed |-> {},
                               late |-> writing[w].late]}
        /\ writing' = [writing EXCEPT ![w] = NotWriting]
    BY <1>2 DEF CommitWrite
  <2>2. ASSUME ~exists, NEW r \in rows', r.names PROVE Harmless(r)
    <3>1. CASE r \in rows
      BY <1>a, <2>2, <3>1
    <3>2. CASE r.table = writing[w].table /\ r.late = writing[w].late
      BY <1>a, <2>1, <2>2, <3>2 DEF Harmless
    <3>3. QED BY <2>1, <3>1, <3>2
  <2>3. \A v \in Writers : writing'[v] # NotWriting => writing'[v] = writing[v]
    BY <1>0, <2>1
  <2>4. QED BY <1>a, <1>b, <2>1, <2>2, <2>3
<1>3. ASSUME NEW w \in Writers, LoseWrite(w) PROVE NothingNewComes'
  <2>1. \A v \in Writers : writing'[v] # NotWriting => writing'[v] = writing[v]
    BY <1>0, <1>3 DEF LoseWrite
  <2>2. UNCHANGED <<exists, rows>>
    BY <1>3 DEF LoseWrite
  <2>3. QED BY <1>a, <1>b, <2>1, <2>2
<1>4. ASSUME NEW e \in Erasers, BeginErasure(e) PROVE NothingNewComes'
  BY <1>4, <1>b DEF BeginErasure
<1>5. ASSUME NEW e \in Erasers, EraseTable(e) \/ FailErasure(e) PROVE NothingNewComes'
  <2>1. UNCHANGED <<exists, writing>>
    BY <1>5 DEF EraseTable, FailErasure
  <2>2. ASSUME NEW s \in rows'
        PROVE  \E r \in rows : r.table = s.table /\ r.names = s.names /\ r.late = s.late
    <3>1. s \in rows \/ \E r \in rows, D \in SUBSET Erasers : s = [r EXCEPT !.doomed = D]
      <4>1. CASE EraseTable(e)
        BY ZenonT(30), <4>1 DEF EraseTable, Matches, About
      <4>2. CASE FailErasure(e)
        <5>1. PICK r \in rows : s = [r EXCEPT !.doomed = r.doomed \ {e}]
          BY <4>2 DEF FailErasure
        <5>2. r.doomed \ {e} \in SUBSET Erasers
          BY <1>0 DEF PersonalRow
        <5>3. QED BY <5>1, <5>2
      <4>3. QED BY <1>5, <4>1, <4>2
    <3>2. CASE s \in rows
      BY <3>2
    <3>3. ASSUME NEW r \in rows, NEW D \in SUBSET Erasers, s = [r EXCEPT !.doomed = D]
          PROVE  r.table = s.table /\ r.names = s.names /\ r.late = s.late
      BY <1>0, <3>3, Touched
    <3>4. QED BY <3>1, <3>2, <3>3
  <2>3. ASSUME ~exists, NEW s \in rows', s.names PROVE Harmless(s)
    BY <1>a, <2>2, <2>3 DEF Harmless
  <2>4. QED BY <1>a, <1>b, <2>1, <2>3
<1>6. ASSUME NEW e \in Erasers, EraseAccount(e) PROVE NothingNewComes'
  BY <1>6, <1>a, <1>b DEF EraseAccount
<1>7. ASSUME NEW e \in Erasers, CommitErasure(e) PROVE NothingNewComes'
  <2>1. /\ erasing[e] = Len(TableOrder) + 1 /\ UNCHANGED writing
        /\ rows' = UNION {Erased(r, e) : r \in rows}
    BY <1>7 DEF CommitErasure
  <2>2. erasing[e] # Idle /\ ~\E i \in (erasing[e] + 1)..Len(TableOrder) : TRUE
    BY <2>1, Order DEF Idle
  <2>3. ASSUME NEW s \in rows', s.names PROVE Harmless(s)
    <3>1. PICK r \in rows : s \in Erased(r, e)
      BY <2>1
    <3>2. /\ s = r /\ e \notin s.doomed
          /\ Inventory[s.table].key \notin {"cascade", "set null"}
      BY <1>0, <2>3, <3>1, WhatIsLeft
    <3>3. s.late \/ Retained(s.table)
      BY <2>2, <2>3, <3>1, <3>2 DEF HeldOrAhead
    <3>4. Inventory[s.table].key = "none" \/ Retained(s.table)
      BY <1>0, <3>1, <3>2, InventoryFacts, Order DEF PersonalRow
    <3>5. QED BY <3>3, <3>4 DEF Harmless
  <2>4. \A w \in Writers : writing[w] # NotWriting => Expected(writing[w])
    BY <2>2 DEF WritersAreLate, Underway
  <2>5. QED BY <1>b, <2>1, <2>3, <2>4
<1>8. CASE Prune
  <2>1. rows' \subseteq rows /\ UNCHANGED <<exists, writing>>
    BY <1>8 DEF Prune
  <2>2. QED BY <1>a, <1>b, <2>1
<1>9. QED BY <1>1, <1>2, <1>3, <1>4, <1>5, <1>6, <1>7, <1>8 DEF ErasureNext

\* Deleting and changing rows leaves every table what was written to it.
LEMMA KeptStep == ErasureTypeOK /\ NothingElseGoes /\ ErasureNext => NothingElseGoes'
<1> SUFFICES ASSUME ErasureTypeOK, NothingElseGoes, ErasureNext PROVE NothingElseGoes'
  OBVIOUS
<1>0. /\ rows \subseteq PersonalRow /\ written \subseteq Tables
      /\ \A w \in Writers : writing[w] \in PendingWrite
  BY DEF ErasureTypeOK
<1>a. \A t \in written : (exists \/ Inventory[t].erasure # "delete") =>
        \E r \in rows : r.table = t /\ (exists => r.names)
  BY DEF NothingElseGoes
<1>b. ASSUME UNCHANGED <<exists, written>>,
             \A r \in rows : \E s \in rows' : s.table = r.table /\ s.names = r.names
      PROVE  NothingElseGoes'
  <2> SUFFICES ASSUME NEW t \in written, exists \/ Inventory[t].erasure # "delete"
               PROVE  \E s \in rows' : s.table = t /\ (exists => s.names)
    BY <1>b DEF NothingElseGoes
  <2>1. PICK r \in rows : r.table = t /\ (exists => r.names)
    BY <1>a
  <2>2. QED BY <1>b, <2>1
<1>1. ASSUME NEW w \in Writers, BeginWrite(w) \/ LoseWrite(w) PROVE NothingElseGoes'
  BY <1>1, <1>b DEF BeginWrite, LoseWrite
<1>2. ASSUME NEW w \in Writers, CommitWrite(w) PROVE NothingElseGoes'
  <2> DEFINE r == [table |-> writing[w].table, names |-> TRUE, doomed |-> {},
                   late |-> writing[w].late]
  <2>1. /\ rows' = rows \cup {r} /\ written' = written \cup {writing[w].table} /\ exists' = exists
    BY <1>2 DEF CommitWrite
  <2>2. r.table = writing[w].table /\ r.names
    OBVIOUS
  <2> HIDE DEF r
  <2>3. QED BY <1>a, <2>1, <2>2 DEF NothingElseGoes
<1>3. ASSUME NEW e \in Erasers, BeginErasure(e) \/ EraseAccount(e) PROVE NothingElseGoes'
  BY <1>3, <1>b DEF BeginErasure, EraseAccount
<1>4. ASSUME NEW e \in Erasers, EraseTable(e) PROVE NothingElseGoes'
  <2>1. PICK hit \in SUBSET rows : rows' = (rows \ hit) \cup {[r EXCEPT !.doomed = {e}] : r \in hit}
    BY <1>4 DEF EraseTable, Matches, About
  <2>2. ASSUME NEW r \in rows PROVE \E s \in rows' : s.table = r.table /\ s.names = r.names
    <3>1. CASE r \in hit
      <4>1. [r EXCEPT !.doomed = {e}] \in rows'
        BY <2>1, <3>1
      <4>2. r \in PersonalRow /\ {e} \in SUBSET Erasers
        BY <1>0
      <4>3. /\ [r EXCEPT !.doomed = {e}].table = r.table
            /\ [r EXCEPT !.doomed = {e}].names = r.names
        BY <4>2, Touched
      <4>4. QED BY <4>1, <4>3
    <3>2. CASE r \notin hit
      BY <2>1, <3>2
    <3>3. QED BY <3>1, <3>2
  <2>3. QED BY <1>4, <1>b, <2>2 DEF EraseTable
<1>5. ASSUME NEW e \in Erasers, CommitErasure(e) PROVE NothingElseGoes'
  <2>1. /\ exists' = FALSE /\ written' = written
        /\ rows' = UNION {Erased(r, e) : r \in rows}
    BY <1>5 DEF CommitErasure
  <2>2. ASSUME NEW t \in written, Inventory[t].erasure # "delete" PROVE \E s \in rows' : s.table = t
    <3>1. PICK r \in rows : r.table = t
      BY <1>a, <2>2
    <3>2. PICK s : s \in Erased(r, e)
      BY ZenonT(30), <1>0, <2>2, <3>1, WhatIsLeft
    <3>3. s.table = t
      BY <1>0, <3>1, <3>2, WhatIsLeft
    <3>4. QED BY <2>1, <3>2, <3>3
  <2>3. QED BY <2>1, <2>2 DEF NothingElseGoes
<1>6. ASSUME NEW e \in Erasers, FailErasure(e) PROVE NothingElseGoes'
  <2>1. rows' = {[r EXCEPT !.doomed = r.doomed \ {e}] : r \in rows} /\ UNCHANGED <<exists, written>>
    BY <1>6 DEF FailErasure
  <2>2. ASSUME NEW r \in rows PROVE \E s \in rows' : s.table = r.table /\ s.names = r.names
    <3>1. /\ [r EXCEPT !.doomed = r.doomed \ {e}] \in rows'
          /\ r \in PersonalRow /\ r.doomed \ {e} \in SUBSET Erasers
      BY <1>0, <2>1 DEF PersonalRow
    <3>2. /\ [r EXCEPT !.doomed = r.doomed \ {e}].table = r.table
          /\ [r EXCEPT !.doomed = r.doomed \ {e}].names = r.names
      BY <3>1, Touched
    <3>3. QED BY <3>1, <3>2
  <2>3. QED BY <1>b, <2>1, <2>2
<1>7. CASE Prune
  <2>1. PICK t \in Tables : /\ rows' = {r \in rows : r.table # t} /\ written' = written \ {t}
                            /\ UNCHANGED exists
    BY <1>7 DEF Prune
  <2>2. QED BY <1>a, <2>1 DEF NothingElseGoes
<1>8. QED BY <1>1, <1>2, <1>3, <1>4, <1>5, <1>6, <1>7 DEF ErasureNext

LEMMA ErasureInvariance == ErasureSpec => []ErasureInv
<1>1. ErasureInit => ErasureInv
  <2> SUFFICES ASSUME ErasureInit PROVE ErasureInv
    OBVIOUS
  <2>1. ErasureTypeOK
    BY Order DEF ErasureInit, ErasureTypeOK, PendingWrite, Idle
  <2>2. QED
    BY <2>1 DEF ErasureInit, ErasureInv, WritersAreLate, HeldOrAhead, NothingNewComes,
              NothingElseGoes
<1>2. ErasureInv /\ [ErasureNext]_erasureVars => ErasureInv'
  <2> SUFFICES ASSUME ErasureInv, [ErasureNext]_erasureVars PROVE ErasureInv'
    OBVIOUS
  <2> USE DEF ErasureInv
  <2>1. CASE ErasureNext
    BY <2>1, ErasureTypesStep, LateStep, HeldStep, GoneStep, KeptStep
  <2>2. CASE UNCHANGED erasureVars
    BY <2>2 DEF erasureVars, ErasureTypeOK, WritersAreLate, Underway, HeldOrAhead,
              NothingNewComes, NothingElseGoes
  <2>3. QED BY <2>1, <2>2
<1>3. QED BY <1>1, <1>2, PTL DEF ErasureSpec

(***************************************************************************)
(* For any inventory of these tables, in any order, and any number of      *)
(* writers and of erasures that overlap, fail and are repeated: what an    *)
(* erasure that commits leaves behind, and what it takes (subject.py).     *)
(***************************************************************************)
THEOREM ErasedMeansGoneHolds == ErasureSpec => []ErasedMeansGone
<1>1. ErasureInv => ErasedMeansGone
  BY DEF ErasureInv, NothingNewComes, NothingElseGoes, ErasedMeansGone, Retained
<1>2. QED BY <1>1, ErasureInvariance, PTL
=============================================================================
