----------------------------- MODULE ArticleWork -----------------------------
(***************************************************************************)
(* What the enrichment queue promises, without leases, clocks or tables:   *)
(* an article is worked on by at most one execution at a time, and an      *)
(* article that has been enriched is never worked on again.                *)
(* EnrichmentQueue implements it (ImplementsArticleWork there).            *)
(***************************************************************************)
CONSTANTS Workers, Articles

VARIABLES works,  \* the articles each worker's execution is spending work on
          done    \* the articles that have been enriched

vars == <<works, done>>

\* Nobody works on it and it has not been enriched.
Open == {a \in Articles : a \notin done /\ \A w \in Workers : a \notin works[w]}

Init == /\ works = [w \in Workers |-> {}]
        /\ done = {}

\* An execution gives up some of its articles and takes open ones instead.
Exchange(w, dropped, taken) ==
  /\ taken \subseteq Open
  /\ works' = [works EXCEPT ![w] = (@ \ dropped) \cup taken]
  /\ done' = done

\* An execution ends; some of its articles have been enriched.
Complete(w, enriched) ==
  /\ enriched \subseteq works[w]
  /\ done' = done \cup enriched
  /\ works' = [works EXCEPT ![w] = {}]

Next == \E w \in Workers : \E S \in SUBSET Articles :
          \/ \E D \in SUBSET Articles : Exchange(w, D, S)
          \/ Complete(w, S)

Spec == Init /\ [][Next]_vars
=============================================================================
