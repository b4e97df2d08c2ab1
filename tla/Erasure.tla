------------------------------- MODULE Erasure -------------------------------
(***************************************************************************)
(* The erasure of one person against the requests and tasks that write     *)
(* about them, and the retention windows:                                  *)
(* src/shared/procuresignal/privacy and jobs/retention.py.                 *)
(*                                                                         *)
(* An erasure goes through the inventory, a statement for each table that  *)
(* is linked to the person, deletes the account last and commits once.     *)
(* Writers have looked who they write for before they insert.  Foreign     *)
(* keys refuse insertions for an account that is gone, and take care of    *)
(* those that came after the table's statement; where there is none,       *)
(* nothing does.                                                           *)
(***************************************************************************)
EXTENDS Integers, SequencesExt

CONSTANTS TableOrder,  \* tables linked to a person, as the inventory lists them
          Writers,     \* requests and tasks that write about the person
          Erasers      \* requests that erase the person

Entry(link, erasure, key, expires) ==
  [link |-> link, erasure |-> erasure, key |-> key, expires |-> expires]

\* INVENTORY, with each link's foreign key: "cascade", "set null" or "none".
Inventory ==
  [memberships              |-> Entry("id", "delete", "cascade", FALSE),
   refresh_tokens           |-> Entry("id", "delete", "cascade", TRUE),
   organization_invitations |-> Entry("id", "anonymise", "set null", TRUE),
   user_news_preferences    |-> Entry("public_id", "delete", "none", FALSE),
   user_news_feed           |-> Entry("public_id", "delete", "none", TRUE),
   news_article_matches     |-> Entry("public_id", "delete", "none", TRUE),
   chat_conversations       |-> Entry("public_id", "delete", "none", TRUE),
   chat_messages            |-> Entry("public_id", "delete", "none", TRUE),
   search_feedback          |-> Entry("id", "delete", "cascade", TRUE),
   notifications            |-> Entry("id", "delete", "cascade", TRUE),
   agent_runs               |-> Entry("id", "delete", "cascade", TRUE),
   agent_recommendations    |-> Entry("id", "anonymise", "set null", FALSE),
   watchlists               |-> Entry("id", "anonymise", "set null", FALSE),
   watchlist_entries        |-> Entry("id", "anonymise", "set null", FALSE),
   alert_rules              |-> Entry("id", "anonymise", "set null", FALSE),
   audit_log                |-> Entry("id", "retain", "none", FALSE)]

ASSUME InventoryAssumption == TableOrder \in Seq(DOMAIN Inventory)

Tables == ToSet(TableOrder)

VARIABLES
  exists,   \* the person's row in users
  rows,     \* rows about the person: the table, whether they name the person, which
            \* erasures have deleted or changed them and not committed, and whether they
            \* are late: from a writer that an erasure overlapped, or through such a row
  written,  \* tables to which a row about the person has been committed
  writing,  \* what each writer is about to insert
  erasing   \* for each erasure the number of tables it is through, or Idle

erasureVars == <<exists, rows, written, writing, erasing>>

Idle == -1
NotWriting == [table |-> "none", late |-> FALSE]

ErasureInit == /\ exists = TRUE
               /\ rows = {}
               /\ written = {}
               /\ writing = [w \in Writers |-> NotWriting]
               /\ erasing = [e \in Erasers |-> Idle]

Underway == \E e \in Erasers : erasing[e] # Idle
About(t) == {r \in rows : r.table = t /\ r.names}

\* A request for the person finds the account; the task that fills feeds finds
\* preferences, be they left over from a person who is gone.
BeginWrite(w) ==
  /\ writing[w] = NotWriting
  /\ \E t \in Tables :
       /\ IF t = "user_news_feed" THEN About("user_news_preferences") # {} ELSE exists
       /\ writing' = [writing EXCEPT ![w] =
            [table |-> t,
             late |-> Underway \/ (/\ t = "user_news_feed"
                                   /\ \A r \in About("user_news_preferences") : r.late)]]
  /\ UNCHANGED <<exists, rows, written, erasing>>

\* The account is deleted, but not for good yet: insertions that refer to it wait.
AccountLocked == \E e \in Erasers : erasing[e] = Len(TableOrder) + 1

CommitWrite(w) ==
  /\ writing[w] # NotWriting
  /\ LET t == writing[w].table
     IN /\ Inventory[t].key # "none" => exists /\ ~AccountLocked
        /\ rows' = rows \cup {[table |-> t, names |-> TRUE, doomed |-> {},
                               late |-> writing[w].late]}
        /\ written' = written \cup {t}
  /\ writing' = [writing EXCEPT ![w] = NotWriting]
  /\ UNCHANGED <<exists, erasing>>

\* It raises, as it does when the account it refers to has gone.
LoseWrite(w) == /\ writing[w] # NotWriting
                /\ writing' = [writing EXCEPT ![w] = NotWriting]
                /\ UNCHANGED <<exists, rows, written, erasing>>

\* erase_user_data finds the person in the administrator's organization.
BeginErasure(e) ==
  /\ erasing[e] = Idle /\ exists
  /\ erasing' = [erasing EXCEPT ![e] = 0]
  /\ writing' = [w \in Writers |-> [writing[w] EXCEPT !.late = writing[w] # NotWriting]]
  /\ UNCHANGED <<exists, rows, written>>

\* Mutant of Matches: one of the two shapes of link is forgotten.
MatchesById(t) == IF Inventory[t].link = "id" THEN About(t) ELSE {}

Matches(t) == About(t)

\* The statement for the next table: rows another erasure holds are waited for.
EraseTable(e) ==
  /\ erasing[e] \in 0..(Len(TableOrder) - 1)
  /\ LET t == TableOrder[erasing[e] + 1]
         hit == IF Inventory[t].erasure = "retain" THEN {} ELSE Matches(t)
     IN /\ \A r \in hit : r.doomed = {}
        /\ rows' = (rows \ hit) \cup {[r EXCEPT !.doomed = {e}] : r \in hit}
  /\ erasing' = [erasing EXCEPT ![e] = @ + 1]
  /\ UNCHANGED <<exists, written, writing>>

\* DELETE of the account; of two, the second waits.
EraseAccount(e) ==
  /\ erasing[e] = Len(TableOrder)
  /\ ~AccountLocked
  /\ erasing' = [erasing EXCEPT ![e] = @ + 1]
  /\ UNCHANGED <<exists, rows, written, writing>>

\* What becomes of a row when the account goes.
Erased(r, e) ==
  LET t == r.table
  IN IF e \in r.doomed
     THEN IF Inventory[t].erasure = "delete" THEN {} ELSE {[r EXCEPT !.names = FALSE,
                                                                     !.doomed = {}]}
     ELSE IF Inventory[t].key = "cascade" THEN {}
     ELSE IF Inventory[t].key = "set null" THEN {[r EXCEPT !.names = FALSE]}
     ELSE {r}

CommitErasure(e) ==
  /\ erasing[e] = Len(TableOrder) + 1
  /\ exists' = FALSE
  /\ rows' = UNION {Erased(r, e) : r \in rows}
  /\ erasing' = [erasing EXCEPT ![e] = Idle]
  /\ UNCHANGED <<written, writing>>

\* One of its statements fails, or it dies: all of it is rolled back.
FailErasure(e) ==
  /\ erasing[e] # Idle
  /\ rows' = {[r EXCEPT !.doomed = @ \ {e}] : r \in rows}
  /\ erasing' = [erasing EXCEPT ![e] = Idle]
  /\ UNCHANGED <<exists, written, writing>>

\* prune_expired_records: rows of any age, but only in tables with a window.
Prune ==
  /\ \E t \in Tables :
       /\ Inventory[t].expires /\ \E r \in rows : r.table = t
       /\ \A r \in rows : r.table = t => r.doomed = {}
       /\ rows' = {r \in rows : r.table # t}
       /\ written' = written \ {t}
  /\ UNCHANGED <<exists, writing, erasing>>

ErasureNext ==
  \/ \E w \in Writers : BeginWrite(w) \/ CommitWrite(w) \/ LoseWrite(w)
  \/ \E e \in Erasers : \/ BeginErasure(e) \/ EraseTable(e) \/ EraseAccount(e)
                        \/ CommitErasure(e) \/ FailErasure(e)
  \/ Prune

ErasureSpec == ErasureInit /\ [][ErasureNext]_erasureVars

----------------------------------------------------------------------------
PersonalRow == [table : Tables, names : BOOLEAN, doomed : SUBSET Erasers, late : BOOLEAN]
PendingWrite == {NotWriting} \cup [table : Tables, late : BOOLEAN]

ErasureTypeOK ==
  /\ exists \in BOOLEAN
  /\ rows \subseteq PersonalRow
  /\ written \subseteq Tables
  /\ writing \in [Writers -> PendingWrite]
  /\ erasing \in [Erasers -> -1..(Len(TableOrder) + 1)]

(***************************************************************************)
(* An erasure takes away all there is about the person, in tables of every *)
(* shape, and nothing that is somebody else's: afterwards a row names the  *)
(* person only if it is to be retained, or if nothing ties its table to    *)
(* the account and a writer overlapped the erasure.  Until it has taken    *)
(* place, however often it fails, every row is there; what is anonymised   *)
(* is there in any case (subject.py:116-127).                              *)
(***************************************************************************)
ErasedMeansGone ==
  /\ ~exists => \A r \in rows : r.names =>
       Inventory[r.table].erasure = "retain" \/ (Inventory[r.table].key = "none" /\ r.late)
  /\ \A t \in written : (exists \/ Inventory[t].erasure # "delete") =>
       \E r \in rows : r.table = t /\ (exists => r.names)
=============================================================================
