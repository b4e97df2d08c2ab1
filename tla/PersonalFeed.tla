---------------------------- MODULE PersonalFeed ----------------------------
(***************************************************************************)
(* One user's materialised feed:                                           *)
(* src/shared/procuresignal/personalization/pipeline.py and                *)
(* preference_manager.py, as the feed and preference endpoints and         *)
(* personalize_feeds_task call them.                                       *)
(*                                                                         *)
(* A generation reads the preference (the task does so once for all users, *)
(* long before it comes to this one), then which articles the feed has,    *)
(* then the recent articles, and commits the rows it adds.  Saving         *)
(* preferences deletes the feed, and commits.  Any number of these overlap *)
(* and any of them may fail.  The table has no uniqueness constraint.      *)
(***************************************************************************)
EXTENDS Matching, FiniteSetsExt

CONSTANTS Articles,    \* processed articles, as records (see Matching)
          Generators,  \* executions of generate_feed
          Patches,     \* what requests set: functions on fields of a preference
          SupplierOf,  \* the registry: from names to ids of suppliers
          Limit,       \* rows one generation adds
          SaveBound    \* bound: saves of the preferences

PreferenceFields == {"categories", "suppliers", "supplierIds", "regions", "signals",
                     "noCategories", "noTopics", "noSuppliers", "noSupplierIds",
                     "noRegions", "noSignals"}

ASSUME FeedAssumption ==
  /\ Limit \in Nat \ {0} /\ SaveBound \in Nat
  /\ \A patch \in Patches : DOMAIN patch \subseteq PreferenceFields

VARIABLES
  pref,    \* the UserNewsPreference row
  saved,   \* how often it is saved in this behaviour
  recent,  \* articles processed in the last days
  feed,    \* for each article its rows: how many, and how many of them are
           \* from a generation that a save overtook
  gen,     \* the generations
  save     \* the request that is saving preferences

feedVars == <<pref, saved, recent, feed, gen, save>>

\* The preference of a user who has none.
NoPreference == [f \in PreferenceFields |-> {}]

NoRows == [a \in Articles |-> [all |-> 0, late |-> 0]]
Resting == [phase |-> "idle", pref |-> NoPreference, has |-> {}, rows |-> {}, late |-> FALSE]
NoSave == [phase |-> "idle", next |-> NoPreference, doomed |-> NoRows]

Resolved(names) == {SupplierOf[n] : n \in names \cap DOMAIN SupplierOf}

\* Absent fields keep their values; categories and topics are kept alike; the
\* names are resolved again.
Patched(p, patch) ==
  LET q == [f \in DOMAIN p |-> IF f \in DOMAIN patch THEN patch[f] ELSE p[f]]
      given == {"noCategories", "noTopics"} \cap DOMAIN patch
      topics == IF "noCategories" \in given THEN patch.noCategories
                ELSE patch.noTopics
  IN [q EXCEPT !.noCategories = IF given = {} THEN @ ELSE topics,
               !.noTopics = IF given = {} THEN @ ELSE topics,
               !.supplierIds = Resolved(q.suppliers),
               !.noSupplierIds = Resolved(q.noSuppliers)]

\* The user has none, or has saved some before.
FeedInit == /\ pref \in {NoPreference} \cup {Patched(NoPreference, patch) : patch \in Patches}
            /\ saved = 0
            /\ recent = {}
            /\ feed = NoRows
            /\ gen = [g \in Generators |-> Resting]
            /\ save = NoSave

\* _fallback_preference: nothing is watched.  supplierIds and noSupplierIds are
\* not among the fields it sets.
Fallback(p) ==
  [NoPreference EXCEPT !.noCategories = p.noCategories, !.noTopics = p.noTopics,
                       !.noSuppliers = p.noSuppliers, !.noRegions = p.noRegions,
                       !.noSignals = p.noSignals]

\* _score_articles
Scored(p, has) == {a \in recent \ has : ShouldInclude(a, p) /\ Overall(a, p) >= Threshold}

\* The best of a set by score; articles that score alike in either order.
Best(S, p) ==
  {T \in kSubset(IF Cardinality(S) < Limit THEN Cardinality(S) ELSE Limit, S) :
     \A a \in T, b \in S \ T : Overall(a, p) >= Overall(b, p)}

\* The rows a generation adds: with the preference, or, when it lets nothing
\* through, with the fallback.
Additions(p, has) ==
  IF Scored(p, has) # {} THEN Best(Scored(p, has), p)
  ELSE Best(Scored(Fallback(p), has), Fallback(p))

\* A save that has deleted the rows but not committed overtakes it at once.
ReadPreference(g) ==
  /\ gen[g].phase = "idle"
  /\ gen' = [gen EXCEPT ![g] = [Resting EXCEPT !.phase = "reading", !.pref = pref,
                                               !.late = save.phase = "deleted"]]
  /\ UNCHANGED <<pref, saved, recent, feed, save>>

ReadExisting(g) ==
  /\ gen[g].phase = "reading"
  /\ gen' = [gen EXCEPT ![g].phase = "excluding",
                        ![g].has = {a \in Articles : feed[a].all > 0}]
  /\ UNCHANGED <<pref, saved, recent, feed, save>>

\* The recent articles are read, scored and sorted.
Choose(g) ==
  /\ gen[g].phase = "excluding"
  /\ \E rows \in Additions(gen[g].pref, gen[g].has) :
       gen' = [gen EXCEPT ![g].phase = "ready", ![g].rows = rows, ![g].has = {}]
  /\ UNCHANGED <<pref, saved, recent, feed, save>>

CommitFeed(g) ==
  /\ gen[g].phase = "ready"
  /\ feed' = [a \in Articles |->
                IF a \in gen[g].rows
                THEN [all |-> feed[a].all + 1,
                      late |-> feed[a].late + IF gen[g].late THEN 1 ELSE 0]
                ELSE feed[a]]
  /\ gen' = [gen EXCEPT ![g] = Resting]
  /\ UNCHANGED <<pref, saved, recent, save>>

\* It raises or dies before its commit.
FailFeed(g) == /\ gen[g].phase # "idle"
               /\ gen' = [gen EXCEPT ![g] = Resting]
               /\ UNCHANGED <<pref, saved, recent, feed, save>>

\* Mutant of BeginSave: the feed is kept.
BeginSaveKeepingFeed ==
  /\ save.phase = "idle"
  /\ saved < SaveBound
  /\ \E patch \in Patches :
       save' = [phase |-> "deleted", next |-> Patched(pref, patch), doomed |-> NoRows]
  /\ gen' = [g \in Generators |-> [gen[g] EXCEPT !.late = @ \/ gen[g].phase # "idle"]]
  /\ UNCHANGED <<pref, saved, recent, feed>>

\* create_or_update_preference as far as its DELETE, which sees the rows that
\* are committed.  Its UPDATE or INSERT has locked the preference: another save
\* waits, or, of the first two, fails.  What generations have read is stale now.
BeginSave ==
  /\ save.phase = "idle"
  /\ saved < SaveBound
  /\ \E patch \in Patches :
       save' = [phase |-> "deleted", next |-> Patched(pref, patch), doomed |-> feed]
  /\ gen' = [g \in Generators |-> [gen[g] EXCEPT !.late = @ \/ gen[g].phase # "idle"]]
  /\ UNCHANGED <<pref, saved, recent, feed>>

CommitSave ==
  /\ save.phase = "deleted"
  /\ pref' = save.next
  /\ saved' = saved + 1
  /\ feed' = [a \in Articles |-> [all |-> feed[a].all - save.doomed[a].all,
                                  late |-> feed[a].late - save.doomed[a].late]]
  /\ save' = NoSave
  /\ UNCHANGED <<recent, gen>>

FailSave == /\ save.phase = "deleted"
            /\ save' = NoSave
            /\ UNCHANGED <<pref, saved, recent, feed, gen>>

Publish == \E a \in Articles \ recent : /\ recent' = recent \cup {a}
                                        /\ UNCHANGED <<pref, saved, feed, gen, save>>

\* An article leaves the last days.
Age == \E a \in recent : /\ recent' = recent \ {a}
                         /\ UNCHANGED <<pref, saved, feed, gen, save>>

FeedNext == \/ \E g \in Generators : \/ ReadPreference(g) \/ ReadExisting(g) \/ Choose(g)
                                     \/ CommitFeed(g) \/ FailFeed(g)
            \/ BeginSave \/ CommitSave \/ FailSave \/ Publish \/ Age

FeedSpec == FeedInit /\ [][FeedNext]_feedVars

----------------------------------------------------------------------------
FeedTypeOK ==
  /\ recent \subseteq Articles
  /\ saved \in 0..SaveBound
  /\ feed \in [Articles -> [all : Nat, late : Nat]]
  /\ DOMAIN gen = Generators
  /\ \A g \in Generators :
       /\ DOMAIN gen[g] = {"phase", "pref", "has", "rows", "late"}
       /\ gen[g].phase \in {"idle", "reading", "excluding", "ready"}
       /\ DOMAIN gen[g].pref = PreferenceFields
       /\ gen[g].rows \subseteq Articles /\ gen[g].has \subseteq Articles
       /\ gen[g].late \in BOOLEAN
  /\ save.phase \in {"idle", "deleted"}
  /\ save.doomed \in [Articles -> [all : Nat, late : Nat]]
  /\ DOMAIN pref = PreferenceFields /\ DOMAIN save.next = PreferenceFields

(***************************************************************************)
(* A feed honours the exclusions its user has saved last: whatever         *)
(* fallback, partial update and failure it went through, the only rows     *)
(* that may hit one (other than by a supplier's identity) are those of     *)
(* generations that a save overtook (preference_manager.py:117-118).       *)
(***************************************************************************)
FeedHonoursExclusions ==
  \A a \in Articles :
    feed[a].all > feed[a].late => ~HasExcludedMatch(a, [pref EXCEPT !.noSupplierIds = {}])

(***************************************************************************)
(* pipeline.py:23: the fallback is "a baseline preference that keeps       *)
(* exclusions".  So is the exclusion of a supplier however it is spelled.  *)
(***************************************************************************)
FallbackKeepsExclusions ==
  \A a \in Articles : feed[a].all > feed[a].late => ~HasExcludedMatch(a, pref)
=============================================================================
