------------------------------- MODULE Ranking -------------------------------
(***************************************************************************)
(* How search results are ranked and how two retrievers' results are fused *)
(* (src/shared/procuresignal/search/hybrid.py and lexical.py).             *)
(*                                                                         *)
(* Articles are numbers, their processed_id.  A retriever's result is a    *)
(* sequence of them without repetition, best first.                        *)
(***************************************************************************)
EXTENDS Sums, Ordering, SequencesExt

CONSTANTS RrfK,        \* RRF_K
          Multiplier   \* CANDIDATE_MULTIPLIER

ASSUME RankingAssumption == RrfK \in Nat /\ Multiplier \in Nat \ {0}

----------------------------------------------------------------------------
\* _PROCESSED_FIELDS and _RAW_FIELDS, in tenths.
FieldWeight == [normalized_title |-> 10, summary |-> 4,
                title |-> 10, description |-> 2, content_snippet |-> 2]

\* _substring_search's score; "fields": those of the article that have the query.
FieldScore(fields) == SumOf([f \in fields |-> FieldWeight[f]])

\* _substring_search: of the newest 3 * limit matches the best, in the order of
\* their scores and, sort() being stable, of their age.  A candidate is a
\* record of its id, its fields with the query, and its age.
SubstringSearch(candidates, limit) ==
  LET found == {c \in candidates : c.fields # {}}
      newer(c) == {d \in found : d.age < c.age}
      newest == {c \in found : Cardinality(newer(c)) < 3 * limit}
      better(c, d) == \/ FieldScore(c.fields) > FieldScore(d.fields)
                      \/ FieldScore(c.fields) = FieldScore(d.fields) /\ c.age < d.age
      ranked == InOrder(newest, OrderBy(newest, better))
      cut == IF Len(ranked) > limit THEN limit ELSE Len(ranked)
  IN [i \in 1..cut |-> ranked[i].id]

----------------------------------------------------------------------------
RankIn(x, hits) == CHOOSE i \in DOMAIN hits : hits[i] = x

\* The sum of the reciprocals of k + rank, as numerator and denominator.
Score(x, lexical, vector) ==
  LET i == IF x \in ToSet(lexical) THEN RrfK + RankIn(x, lexical) ELSE 0
      j == IF x \in ToSet(vector) THEN RrfK + RankIn(x, vector) ELSE 0
  IN IF i = 0 THEN [num |-> 1, den |-> j]
     ELSE IF j = 0 THEN [num |-> 1, den |-> i]
     ELSE [num |-> i + j, den |-> i * j]

\* fuse: equal scores in the order of the retriever that found them first, and
\* of their rank there.
Fused(lexical, vector) ==
  LET score == [x \in ToSet(lexical) \cup ToSet(vector) |-> Score(x, lexical, vector)]
      Scaled(x, y) == score[x].num * score[y].den
      Standing(x) == IF x \in ToSet(lexical) THEN RankIn(x, lexical)
                  ELSE Len(lexical) + RankIn(x, vector)
      Above(x, y) == \/ Scaled(x, y) > Scaled(y, x)
                     \/ Scaled(x, y) = Scaled(y, x) /\ Standing(x) < Standing(y)
  IN InOrder(DOMAIN score, OrderBy(DOMAIN score, Above))

First(hits, limit) == SubSeq(hits, 1, IF Len(hits) > limit THEN limit ELSE Len(hits))

\* search.  "asks": the query has something to search for; "provider": none is
\* configured, it fails, or it answers; lexical and vector: what the retrievers
\* have, the nearest neighbours that are similar enough.
Search(asks, provider, lexical, vector, limit) ==
  LET words == First(lexical, limit * Multiplier)
      near == First(vector, limit * Multiplier)
      Outcome(mode, other) == [mode |-> mode, hits |-> First(Fused(words, other), limit)]
  IN CASE ~asks -> [mode |-> "lexical", hits |-> <<>>]
       [] asks /\ provider = "none" -> Outcome("lexical", <<>>)
       [] asks /\ provider = "fails" -> Outcome("degraded", <<>>)
       [] asks /\ provider = "answers" ->
            IF near = <<>> THEN Outcome("degraded", <<>>) ELSE Outcome("hybrid", near)

----------------------------------------------------------------------------
(* What both retrievers rank higher is ranked higher; nothing is lost or    *)
(* repeated, and with one retriever silent the other's order stands.        *)
FusionIsFair(lexical, vector) ==
  LET fused == Fused(lexical, vector)
      Above(x, y, hits) == /\ x \in ToSet(hits)
                           /\ y \in ToSet(hits) => RankIn(x, hits) < RankIn(y, hits)
  IN /\ ToSet(fused) = ToSet(lexical) \cup ToSet(vector)
     /\ IsInjective(fused)
     /\ \A x, y \in ToSet(fused) :
          Above(x, y, lexical) /\ Above(x, y, vector) => RankIn(x, fused) < RankIn(y, fused)
     /\ Fused(lexical, <<>>) = lexical /\ Fused(<<>>, vector) = vector

(* Of the articles that have the query, none is left out that is newer than *)
(* one shown and has the query where it counts as much.                     *)
NewerAndBetterIsShown(candidates, limit) ==
  LET shown == ToSet(SubstringSearch(candidates, limit)) IN
  \A c, d \in candidates :
    /\ c.id \in shown => c.fields # {}
    /\ c.id \in shown /\ d.fields # {} /\ d.age < c.age /\ FieldScore(d.fields) >= FieldScore(c.fields)
         => d.id \in shown

(* The mode tells what contributed: a result that says "hybrid" had a       *)
(* neighbour to offer, and without one the words' order stands; and what    *)
(* both put first is on the first page however short that is.               *)
ModeTellsWhatContributed(asks, provider, lexical, vector, limit) ==
  LET outcome == Search(asks, provider, lexical, vector, limit)
  IN /\ Len(outcome.hits) <= limit
     /\ outcome.mode # "hybrid" => \/ outcome.hits = First(lexical, limit)
                                   \/ outcome.hits = <<>> /\ ~asks
     /\ outcome.mode = "hybrid" /\ lexical # <<>> /\ Head(lexical) = Head(vector)
          => Head(outcome.hits) = Head(lexical)
=============================================================================
