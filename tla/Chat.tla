--------------------------------- MODULE Chat ---------------------------------
(***************************************************************************)
(* One conversation of one user, open in several browser tabs: the         *)
(* web socket chat_websocket and the request that clears the user's        *)
(* history (src/api/routers/chat.py).  Nothing is locked: every step reads *)
(* in one statement and commits in a later one.                            *)
(*                                                                         *)
(* MessageRow written by other tabs in between show as they do under READ        *)
(* COMMITTED.  A thread that was deleted and created again is another row: *)
(* an update of the one that was read then matches nothing and raises.     *)
(***************************************************************************)
EXTENDS Integers, Sequences, FiniteSets

CONSTANTS Tabs,      \* web sockets of this user that name the conversation
          TurnBound, \* messages a tab sends, at most
          ClearBound \* times the history is cleared, at most

ASSUME ChatAssumption == IsFiniteSet(Tabs) /\ TurnBound \in Nat /\ ClearBound \in Nat

VARIABLES
  thread,   \* the row of chat_conversations: [id, titled, count]; id 0: none
  said,     \* the rows of chat_messages, oldest first: [tab, turn, role]
  tab,      \* what each web socket is doing
  clearing  \* the request to clear: [on, doomed, left]; the oldest doomed rows go

chatVars == <<thread, said, tab, clearing>>

NoThread == [id |-> 0, titled |-> FALSE, count |-> 0]
\* at; the thread it read last; the turn; what the turn ended with; whether the
\* model was given its question twice; whether history was cleared meanwhile.
ClosedTab == [at |-> "closed", seen |-> NoThread, turn |-> 0, told |-> "none",
              echoed |-> FALSE, cleared |-> FALSE]

ChatInit == /\ thread = NoThread /\ said = <<>>
            /\ tab = [t \in Tabs |-> ClosedTab]
            /\ clearing = [on |-> FALSE, doomed |-> 0, left |-> ClearBound]

Said == {said[i] : i \in DOMAIN said}
Question(t) == [tab |-> t, turn |-> tab[t].turn, role |-> "user"]
Answer(t) == [tab |-> t, turn |-> tab[t].turn, role |-> "assistant"]
Answers == {m \in Said : m.role = "assistant"}

----------------------------------------------------------------------------
\* The socket is accepted; _ensure_conversation looks the thread up ...
Open(t) ==
  /\ tab[t].at = "closed" /\ tab[t].turn = 0
  /\ tab' = [tab EXCEPT ![t].at = "opening", ![t].seen = thread]
  /\ UNCHANGED <<thread, said, clearing>>

\* The id of a thread created now: threads are deleted only by clearing.
ThisThread == ClearBound - clearing.left + IF clearing.on THEN 0 ELSE 1

\* ... and creates it when there was none.  The id is unique: of two tabs that
\* found none, the second raises, and its socket is closed.
Ensure(t) ==
  /\ tab[t].at = "opening"
  /\ \/ tab[t].seen # NoThread /\ UNCHANGED thread
     \/ tab[t].seen = NoThread /\ thread = NoThread
        /\ thread' = [NoThread EXCEPT !.id = ThisThread]
  /\ tab' = [tab EXCEPT ![t].at = "ready"]
  /\ UNCHANGED <<said, clearing>>

EnsureLost(t) ==
  /\ tab[t].at = "opening" /\ tab[t].seen = NoThread /\ thread # NoThread
  /\ tab' = [tab EXCEPT ![t].at = "closed"]
  /\ UNCHANGED <<thread, said, clearing>>

\* _persist_user_message: the thread is read ...
Say(t) ==
  /\ tab[t].at = "ready" /\ tab[t].turn < TurnBound
  /\ tab' = [tab EXCEPT ![t] = [tab[t] EXCEPT !.at = "saying", !.seen = thread,
                                              !.turn = @ + 1, !.told = "none",
                                              !.echoed = FALSE, !.cleared = clearing.on]]
  /\ UNCHANGED <<thread, said, clearing>>

\* The row an update changes is the one that was read.
Stale(t) == tab[t].seen.id # 0 /\ tab[t].seen.id # thread.id

SetsTitle(t) == tab[t].seen.id # 0 /\ ~tab[t].seen.titled

\* ... and the message committed, with the title if it was the first.
CommitSay(t) ==
  /\ tab[t].at = "saying" /\ ~(SetsTitle(t) /\ Stale(t))
  /\ said' = Append(said, Question(t))
  /\ thread' = IF SetsTitle(t) THEN [thread EXCEPT !.titled = TRUE] ELSE thread
  /\ tab' = [tab EXCEPT ![t].at = "said"]
  /\ UNCHANGED clearing

\* The history is everything but its last row, which is taken to be the message.
Repeats(t) == \E i \in 1..(Len(said) - 1) : said[i] = Question(t)

ReadHistory(t) ==
  /\ tab[t].at = "said"
  /\ tab' = [tab EXCEPT ![t].at = "answering",
                        ![t].echoed = Repeats(t)]
  /\ UNCHANGED <<thread, said, clearing>>

\* _persist_assistant_message, once the answer has been streamed.
Store(t) ==
  /\ tab[t].at = "answering"
  /\ tab' = [tab EXCEPT ![t].at = "storing", ![t].seen = thread]
  /\ UNCHANGED <<thread, said, clearing>>

CommitStore(t) ==
  /\ tab[t].at = "storing" /\ ~Stale(t)
  /\ said' = Append(said, Answer(t))
  /\ thread' = IF tab[t].seen.id = 0 THEN thread
               ELSE [thread EXCEPT !.count = tab[t].seen.count + 2]
  /\ tab' = [tab EXCEPT ![t].at = "ready", ![t].told = "end"]
  /\ UNCHANGED clearing

\* The model fails, or the thread that was read is gone: nothing of the step is
\* kept, the tab is told, and the socket stays open.
Raise(t) ==
  /\ \/ tab[t].at \in {"said", "answering"}
     \/ tab[t].at = "saying" /\ SetsTitle(t) /\ Stale(t)
     \/ tab[t].at = "storing" /\ Stale(t)
  /\ tab' = [tab EXCEPT ![t].at = "ready", ![t].told = "error"]
  /\ UNCHANGED <<thread, said, clearing>>

\* The browser goes away, or the server stops.
Leave(t) ==
  /\ tab[t].at # "closed"
  /\ tab' = [tab EXCEPT ![t].at = "closed"]
  /\ UNCHANGED <<thread, said, clearing>>

----------------------------------------------------------------------------
\* clear_conversation_history deletes the messages it sees, which are the oldest
\* when it commits (rows are only added meanwhile), then the threads.
BeginClear ==
  /\ ~clearing.on /\ clearing.left > 0
  /\ clearing' = [on |-> TRUE, doomed |-> Len(said), left |-> clearing.left - 1]
  /\ tab' = [t \in Tabs |-> [tab[t] EXCEPT !.cleared = TRUE]]
  /\ UNCHANGED <<thread, said>>

CommitClear ==
  /\ clearing.on
  /\ thread' = NoThread
  /\ said' = SubSeq(said, clearing.doomed + 1, Len(said))
  /\ clearing' = [clearing EXCEPT !.on = FALSE, !.doomed = 0]
  /\ UNCHANGED tab

ChatNext == \/ \E t \in Tabs : \/ Open(t) \/ Ensure(t) \/ EnsureLost(t)
                               \/ Say(t) \/ CommitSay(t) \/ ReadHistory(t)
                               \/ Store(t) \/ CommitStore(t) \/ Raise(t) \/ Leave(t)
            \/ BeginClear \/ CommitClear

ChatSpec == ChatInit /\ [][ChatNext]_chatVars

----------------------------------------------------------------------------
ThreadRow == [id : 0..(ClearBound + 1), titled : BOOLEAN, count : Nat]
MessageRow == [tab : Tabs, turn : 1..TurnBound, role : {"user", "assistant"}]
TabAt == {"closed", "opening", "ready", "saying", "said", "answering", "storing"}
TurnEnd == {"none", "end", "error"}
TabState == [at : TabAt, seen : ThreadRow, turn : 0..TurnBound, told : TurnEnd,
             echoed : BOOLEAN, cleared : BOOLEAN]

ChatTypeOK ==
  /\ thread \in ThreadRow
  /\ said \in Seq(MessageRow)
  /\ tab \in [Tabs -> TabState]
  /\ clearing \in [on : BOOLEAN, doomed : Nat, left : 0..ClearBound]

(***************************************************************************)
(* The frame "end" promises the exchange is stored (chat.py:282-285):      *)
(* unless the user clears the history, both sides of it are, and the       *)
(* thread's count has counted no exchange that is not there, though tabs   *)
(* that answer at once may count theirs as one.  The model reads a         *)
(* question twice only when another tab writes, too.                        *)
(***************************************************************************)
EndMeansStored ==
  /\ \A t \in Tabs : tab[t].told = "end" /\ ~tab[t].cleared => {Question(t), Answer(t)} \subseteq Said
  /\ thread.count <= 2 * Cardinality(Answers)
  /\ \A t \in Tabs : tab[t].echoed => \E u \in Tabs \ {t} : tab[u].turn > 0
=============================================================================
