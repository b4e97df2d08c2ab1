------------------------------ MODULE Ingestion ------------------------------
(***************************************************************************)
(* Which fetched articles are stored and which stored ones go on to        *)
(* enrichment: src/shared/procuresignal/retrieval (deduplication.py,       *)
(* persistence.py) and src/shared/procuresignal/normalization.             *)
(*                                                                         *)
(* A fetched article is a record:                                          *)
(*   provider, id    id is {} or the provider's own identifier of it       *)
(*   url             its canonical address or, without one, the address:   *)
(*                   [at |-> where it points, extras |-> parameters]       *)
(*   headline        title, source and date together                       *)
(*   class           the class of its source                               *)
(*   rank            its place in the order of whole articles              *)
(*   title, description, snippet, link, date, blocked, declared, detected  *)
(*                   what the quality checks tell apart                    *)
(***************************************************************************)
EXTENDS Ordering, SequencesExt

CONSTANTS TrackingParameters,  \* _TRACKING_PARAMETERS, utm_* among them
          StableIdProviders    \* _STABLE_ID_PROVIDERS

----------------------------------------------------------------------------
\* canonicalize_url.  It never returns an empty address, so that the branch of
\* article_fingerprint that reads the content is never taken.
CanonicalUrl(url) == [url EXCEPT !.extras = @ \ TrackingParameters]

\* has_stable_provider_id
HasStableId(a) == a.id # {} /\ a.provider \in StableIdProviders

\* article_fingerprint
Fingerprint(a) ==
  IF HasStableId(a) THEN [by |-> "provider", provider |-> a.provider, id |-> a.id]
  ELSE [by |-> "url", url |-> CanonicalUrl(a.url)]

Authority(class) == CASE class = "official"          -> 3
                      [] class = "established_media" -> 2
                      [] class = "industry"          -> 1
                      [] OTHER                       -> 0

\* _preference: authority, then the order of whole articles.
Preferred(a, b) == \/ Authority(a.class) > Authority(b.class)
                   \/ Authority(a.class) = Authority(b.class) /\ a.rank <= b.rank

\* deduplicate_within_run: one article of each group, in _result_order.
Deduplicated(articles) ==
  LET group(a) == {b \in ToSet(articles) : Fingerprint(b) = Fingerprint(a)}
      kept == {a \in ToSet(articles) : \A b \in group(a) : Preferred(a, b)}
  IN InOrder(kept, OrderBy(kept, LAMBDA a, b : a.rank < b.rank))

\* _create_ingest_hash
IngestKey(a) ==
  IF HasStableId(a) THEN [by |-> "provider", provider |-> a.provider, id |-> a.id]
  ELSE [by |-> "headline", headline |-> a.headline]

\* ArticlePersistence.save_articles, into an empty table: of the rows with
\* one key the first is inserted, the others are duplicates.
Saved(articles) ==
  {articles[i] : i \in {j \in DOMAIN articles :
     \A k \in 1..(j - 1) : IngestKey(articles[k]) # IngestKey(articles[j])}}

----------------------------------------------------------------------------
Passed == "passed"

\* check_title; the texts are "none", "blank", "short", "spam", "long" or "fine".
CheckTitle(a) == CASE a.title = "none" -> "critical"
                   [] a.title \in {"blank", "short", "long"} -> "error"
                   [] a.title = "spam" -> "warning"
                   [] OTHER -> Passed

\* check_content: a blank text is there, and is too short.
CheckContent(a) == CASE a.description = "none" /\ a.snippet = "none" -> "error"
                     [] "fine" \in {a.description, a.snippet} -> Passed
                     [] OTHER -> "warning"

CheckUrl(a) == CASE a.link \in {"none", "blank"} -> "critical"
                 [] a.link \in {"scheme", "long"} -> "error"
                 [] OTHER -> Passed

CheckTimestamp(a) == CASE a.date = "none" -> "error"
                       [] a.date \in {"future", "old"} -> "warning"
                       [] OTHER -> Passed

\* check_all: warnings do not fail an article.
CheckAll(a) ==
  {CheckTitle(a), CheckContent(a), CheckUrl(a), CheckTimestamp(a)} \subseteq {Passed, "warning"}

\* normalize_text, as far as a later condition looks at it.
Text(t) == IF t = "blank" THEN "none" ELSE t

\* LanguageValidator.validate: nothing is detected ("none") in a short title.
LanguageOk(a) == a.detected = a.declared

\* ArticleNormalizer.normalize accepts the article.  One without any text left
\* is not asked for its language.
Normalized(a) ==
  /\ ~a.blocked
  /\ CheckAll(a)
  /\ {Text(a.description), Text(a.snippet)} # {"none"} => LanguageOk(a)

----------------------------------------------------------------------------
(* The order in which sources answer does not show in what is kept: every   *)
(* story is kept once, in the words of its most authoritative source, and   *)
(* what is kept is kept when it is fetched again.                           *)
FetchOrderDoesNotMatter(articles) ==
  LET kept == Deduplicated(articles)
  IN /\ \A i, j \in DOMAIN articles :
          Deduplicated([articles EXCEPT ![i] = articles[j], ![j] = articles[i]]) = kept
     /\ \A i, j \in DOMAIN kept :
          Fingerprint(kept[i]) = Fingerprint(kept[j]) => i = j
     /\ \A a \in ToSet(articles) : \E b \in ToSet(kept) :
          Fingerprint(a) = Fingerprint(b) /\ Authority(b.class) >= Authority(a.class)
     /\ Deduplicated(kept \o articles) = kept

(* A tracking parameter never makes a second story of one, and a record of  *)
(* a structured source, all of which share an address, is never lost to     *)
(* another: neither within the run nor when it is stored.                   *)
EveryRecordIsStored(articles) ==
  LET kept == Deduplicated(articles)
  IN /\ \A a, b \in ToSet(kept) :
          a.url.at = b.url.at /\ ~HasStableId(a) /\ ~HasStableId(b) =>
            a = b \/ (a.url.extras \ TrackingParameters) # (b.url.extras \ TrackingParameters)
     /\ \A a \in ToSet(articles) : HasStableId(a) =>
          \E b \in Saved(kept) : HasStableId(b) /\ b.id = a.id /\ b.provider = a.provider

(* What only looks poor goes on to enrichment; what cannot be read, linked  *)
(* or dated does not, nor what is not in the language it says.              *)
OnlyDefectsReject(a) ==
  /\ Normalized(a) => /\ a.title \in {"fine", "spam"} /\ a.link = "fine" /\ a.date # "none"
                      /\ a.detected = a.declared
                           \/ {a.description, a.snippet} \subseteq {"none", "blank"}
  /\ (/\ a.title \in {"fine", "spam"} /\ a.link = "fine" /\ ~a.blocked
      /\ a.detected = a.declared /\ a.date # "none"
      /\ {a.description, a.snippet} # {"none"}) => Normalized(a)
=============================================================================
