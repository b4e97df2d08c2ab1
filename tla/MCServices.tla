----------------------------- MODULE MCServices -----------------------------
(***************************************************************************)
(* The services around the pipeline, and the algorithms they use, on small *)
(* instances for TLC, side by side: a behaviour is about one of them.      *)
(***************************************************************************)
EXTENDS PersonalFeed, RiskEvents, Suppliers, Access, RateLimit, Erasure,
        Watchlists, Chat, BrowserSession, Fetching, EnrichmentCache, DeadLetters, RecoveryDrill,
        MCSamples

VARIABLE part  \* what this behaviour is about

\* Two articles: one of a registered supplier under a name of it that nobody
\* watches as such, one of an unregistered one.
Article(top, names, ids) ==
  [top |-> top, detected |-> {}, names |-> names, said |-> names, ids |-> ids,
   regions |-> {}, tags |-> {}, priority |-> {}]
MCArticles == {Article("metals", {"Siemens AG"}, {"sup1"}), Article("energy", {"Bosch"}, {})}
MCPatches == {("noSuppliers" :> {"Siemens"}) @@ ("categories" :> {"labor"}),
              ("noSuppliers" :> {"Bosch"}) @@ ("noCategories" :> {"metals"})}
MCSupplierOf == "Siemens" :> "sup1" @@ "Siemens AG" :> "sup1"

MCFound == <<{"x"}, {"x", "y"}, {}>>

MCFormsOf == "A" :> {"a", "x"} @@ "B" :> {"b", "x"}
MCRecognised == <<{"a"}, {}>>
\* Enrichment finds a supplier in the text of a designation, too.
MCRecognisedInBoth == <<{"a"}, {"b"}>>
MCDesignated == <<{}, {"a", "y"}>>

MCTableOrder == <<"user_news_preferences", "user_news_feed", "watchlists">>

MCNormalised == "Key" :> "key" @@ "KEY" :> "key" @@ "-" :> ""

\* One that is over, and one beyond what is waited for.
MCRetryAfters == {-1, 2000}

MCBatchOf == "n1" :> <<"f", "g">> @@ "n2" :> <<"g", "f", "f">>
MCMaxRetries == "j1" :> 2 @@ "j2" :> 0

MCVars == <<feedVars, scanVars, suppliersVars, accessVars, throttleVars, erasureVars,
            watchVars, chatVars, browserVars, fetchVars, cacheVars, letterVars, recoveryVars,
            sample, part>>

MCInit == /\ part \in {"feed", "scan", "suppliers", "access", "throttle", "erasure",
                       "watch", "chat", "browser", "fetch", "cache", "letters", "recovery",
                       "sample"}
          /\ FeedInit /\ ScanInit /\ SuppliersInit /\ AccessInit
          /\ ThrottleInit /\ ErasureInit /\ WatchInit
          /\ ChatInit /\ BrowserInit /\ FetchInit /\ CacheInit /\ LettersInit /\ RecoveryInit
          \* One start is enough for the parts that are not this behaviour's.
          /\ part # "throttle" => backend = "process"
          /\ part # "feed" => pref = NoPreference
          /\ part # "fetch" => kind = "ordinary" /\ defers
          /\ part # "recovery" => archive = NoFile /\ drill.keeps
          /\ part # "browser" => page["p1"].access = "good"
          /\ IF part = "sample" THEN Samples ELSE sample = NoSample

\* What comes to an end: a sample has nothing to do, a person who is gone leaves
\* nothing to do, and requests, runs and processes are finite.
AtRest ==
  /\ \/ part = "sample"
     \/ part = "erasure" /\ ~exists
     \/ part = "watch" /\ \A q \in Askers : ask[q].phase = "done"
     \/ part = "chat" /\ ~clearing.on /\ \A t \in Tabs : tab[t].at = "closed"
     \/ part = "browser" /\ \A p \in Pages : /\ page[p].access = "none" /\ refresh[p] = NoRefresh
                                              /\ \A c \in Calls : page[p].call[c] = "idle"
     \/ part = "fetch" /\ fetch.phase = "over" /\ ~fetch.file
     \/ part = "cache" /\ \A p \in Passes : Settled(p)
     \/ part = "letters" /\ \A j \in Jobs : job[j].at \in {"finished", "failed", "gone"}
     \/ part = "recovery" /\ drill.phase = "over"
          /\ \A b \in Backups : backup[b].phase \in {"over", "dead"}
  /\ UNCHANGED MCVars

MCNext ==
  \/ AtRest
  \/ part = "feed" /\ FeedNext
       /\ UNCHANGED <<scanVars, suppliersVars, accessVars, throttleVars, erasureVars,
                       watchVars, chatVars, browserVars, fetchVars, cacheVars, letterVars, recoveryVars, sample, part>>
  \/ part = "scan" /\ ScanNext
       /\ UNCHANGED <<feedVars, suppliersVars, accessVars, throttleVars, erasureVars,
                       watchVars, chatVars, browserVars, fetchVars, cacheVars, letterVars, recoveryVars, sample, part>>
  \/ part = "suppliers" /\ SuppliersNext
       /\ UNCHANGED <<feedVars, scanVars, accessVars, throttleVars, erasureVars,
                       watchVars, chatVars, browserVars, fetchVars, cacheVars, letterVars, recoveryVars, sample, part>>
  \/ part = "access" /\ AccessNext
       /\ UNCHANGED <<feedVars, scanVars, suppliersVars, throttleVars, erasureVars,
                       watchVars, chatVars, browserVars, fetchVars, cacheVars, letterVars, recoveryVars, sample, part>>
  \/ part = "throttle" /\ ThrottleNext
       /\ UNCHANGED <<feedVars, scanVars, suppliersVars, accessVars, erasureVars,
                       watchVars, chatVars, browserVars, fetchVars, cacheVars, letterVars, recoveryVars, sample, part>>
  \/ part = "erasure" /\ ErasureNext
       /\ UNCHANGED <<feedVars, scanVars, suppliersVars, accessVars, throttleVars,
                       watchVars, chatVars, browserVars, fetchVars, cacheVars, letterVars, recoveryVars, sample, part>>
  \/ part = "watch" /\ WatchNext
       /\ UNCHANGED <<feedVars, scanVars, suppliersVars, accessVars, throttleVars, erasureVars,
                       chatVars, browserVars, fetchVars, cacheVars, letterVars, recoveryVars, sample, part>>
  \/ part = "chat" /\ ChatNext
       /\ UNCHANGED <<feedVars, scanVars, suppliersVars, accessVars, throttleVars, erasureVars,
                       watchVars, browserVars, fetchVars, cacheVars, letterVars, recoveryVars, sample, part>>
  \/ part = "browser" /\ BrowserNext
       /\ UNCHANGED <<feedVars, scanVars, suppliersVars, accessVars, throttleVars, erasureVars,
                       watchVars, chatVars, fetchVars, cacheVars, letterVars, recoveryVars, sample, part>>
  \/ part = "fetch" /\ FetchNext
       /\ UNCHANGED <<feedVars, scanVars, suppliersVars, accessVars, throttleVars, erasureVars,
                       watchVars, chatVars, browserVars, cacheVars, letterVars, recoveryVars, sample, part>>
  \/ part = "cache" /\ CacheNext
       /\ UNCHANGED <<feedVars, scanVars, suppliersVars, accessVars, throttleVars, erasureVars,
                       watchVars, chatVars, browserVars, fetchVars, letterVars, recoveryVars, sample, part>>
  \/ part = "letters" /\ LettersNext
       /\ UNCHANGED <<feedVars, scanVars, suppliersVars, accessVars, throttleVars, erasureVars,
                       watchVars, chatVars, browserVars, fetchVars, cacheVars, recoveryVars, sample, part>>
  \/ part = "recovery" /\ RecoveryNext
       /\ UNCHANGED <<feedVars, scanVars, suppliersVars, accessVars, throttleVars, erasureVars,
                       watchVars, chatVars, browserVars, fetchVars, cacheVars, letterVars, sample, part>>

MCSpec == MCInit /\ [][MCNext]_MCVars

\* Every variable has its type.
Types == /\ FeedTypeOK /\ ScanTypeOK /\ SuppliersTypeOK /\ AccessTypeOK
         /\ ThrottleTypeOK /\ ErasureTypeOK
         /\ WatchTypeOK /\ ChatTypeOK /\ BrowserTypeOK /\ FetchTypeOK
         /\ CacheTypeOK /\ LettersTypeOK /\ RecoveryTypeOK

(***************************************************************************)
(* What one part tells another, or a person, is so: a chat's "end"         *)
(* (EndMeansStored), a backup and a drill's receipt (BackupIsWhole), a     *)
(* watchlist's or a rule's status (AskedMeansSet), what the breaker hears  *)
(* of a fetch (OutcomeRecordedOnce), the cache (CacheSaysWhatWasDone) and  *)
(* the dead letters (FailuresAreSaid).                                     *)
(***************************************************************************)
ToldIsTrue == /\ EndMeansStored /\ BackupIsWhole /\ AskedMeansSet
              /\ OutcomeRecordedOnce /\ CacheSaysWhatWasDone /\ FailuresAreSaid
=============================================================================
