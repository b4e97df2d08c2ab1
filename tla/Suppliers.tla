------------------------------ MODULE Suppliers ------------------------------
(***************************************************************************)
(* The supplier registry, the mentions of suppliers in articles, and the   *)
(* screening of sanctions designations:                                    *)
(* src/shared/procuresignal/suppliers and the suppliers endpoints.         *)
(*                                                                         *)
(* A name is one for all spellings that normalize alike.  Administrators   *)
(* register, teach aliases and merge; enrichment and the nightly backfill  *)
(* resolve names first and commit the mentions later; hourly screening     *)
(* goes through designations that have no mention yet.                     *)
(***************************************************************************)
EXTENDS Integers, FiniteSets

CONSTANTS SupplierIds, Names,
          FormsOf,     \* alias_forms of each supplier's canonical name
          Documents,   \* processed articles, ids in order
          Recognised,  \* for each the suppliers' names its text gave (detected_suppliers)
          Designated,  \* for each the names of the designation it is, if it is one
          Registrars,  \* requests that register
          Screeners,   \* executions of screen_sanctions_task
          BatchLimit,  \* documents one of them looks at
          MergeBound   \* bound: merges

ASSUME RegistryAssumption ==
  /\ \A s \in SupplierIds : FormsOf[s] \subseteq Names /\ FormsOf[s] # {}
  /\ \A d \in Documents : Recognised[d] \cup Designated[d] \subseteq Names
  /\ Documents \subseteq Nat /\ BatchLimit \in Nat \ {0} /\ MergeBound \in Nat

Nobody == "nobody"
ASSUME NobodyAssumption == Nobody \notin SupplierIds

VARIABLES
  supplier,   \* whether it is registered, and active
  holder,     \* supplier_aliases: who holds a name
  mention,    \* for each document the names recorded, with whom they resolved to
  enriched,   \* documents with a processed row
  writer,     \* what is writing mentions of a document: the names as it resolved
              \* them, and those among them it inserts
  registrar,  \* the requests that register
  screener,   \* the executions of the screening
  screened,   \* whether a document's designation was screened
  merges      \* how many there have been

suppliersVars ==
  <<supplier, holder, mention, enriched, writer, registrar, screener, screened, merges>>

NoMentions == [n \in {} |-> Nobody]
NoWriter == [phase |-> "idle", found |-> NoMentions, new |-> {}, late |-> FALSE]
NoScreener == [phase |-> "idle", batch |-> {}, found |-> [d \in {} |-> NoMentions], late |-> FALSE]

SuppliersInit ==
  /\ supplier = [s \in SupplierIds |-> "unknown"]
  /\ holder = [n \in Names |-> Nobody]
  /\ mention = [d \in Documents |-> NoMentions]
  /\ enriched = {}
  /\ writer = [d \in Documents |-> NoWriter]
  /\ registrar = [r \in Registrars |-> Nobody]
  /\ screener = [c \in Screeners |-> NoScreener]
  /\ screened = [d \in Documents |-> FALSE]
  /\ merges = 0

\* resolve_many: a name held by a supplier that was merged away resolves to none.
Resolve(names) ==
  [n \in names |-> IF holder[n] # Nobody /\ supplier[holder[n]] = "active"
                   THEN holder[n] ELSE Nobody]

\* register_supplier checks its name and every derived alias.
CheckRegistration(r, s) ==
  /\ registrar[r] = Nobody
  /\ supplier[s] = "unknown"
  /\ \A n \in FormsOf[s] : holder[n] = Nobody
  /\ registrar' = [registrar EXCEPT ![r] = s]
  /\ UNCHANGED <<supplier, holder, mention, enriched, writer, screener, screened, merges>>

\* Mutant of Register: it takes the aliases that are left.
RegisterWhatIsLeft(r) ==
  /\ registrar[r] # Nobody
  /\ LET s == registrar[r]
     IN /\ supplier' = [supplier EXCEPT ![s] = IF @ = "unknown" THEN "active" ELSE @]
        /\ holder' = [n \in Names |-> IF n \in FormsOf[s] /\ holder[n] = Nobody THEN s
                                      ELSE holder[n]]
  /\ registrar' = [registrar EXCEPT ![r] = Nobody]
  /\ UNCHANGED <<mention, enriched, writer, screener, screened, merges>>

\* Its flushes and the commit; what was taken since violates a uniqueness
\* constraint, and nothing of it stays.
Register(r) ==
  /\ registrar[r] # Nobody
  /\ LET s == registrar[r]
         free == supplier[s] = "unknown" /\ \A n \in FormsOf[s] : holder[n] = Nobody
     IN /\ supplier' = IF free THEN [supplier EXCEPT ![s] = "active"] ELSE supplier
        /\ holder' = IF free THEN [n \in Names |-> IF n \in FormsOf[s] THEN s ELSE holder[n]]
                     ELSE holder
  /\ registrar' = [registrar EXCEPT ![r] = Nobody]
  /\ UNCHANGED <<mention, enriched, writer, screener, screened, merges>>

\* add_alias: the supplier exists, be it merged away; nobody holds the name.
AddAlias ==
  /\ \E s \in SupplierIds, n \in Names :
       /\ supplier[s] # "unknown" /\ holder[n] = Nobody
       /\ holder' = [holder EXCEPT ![n] = s]
  /\ UNCHANGED <<supplier, mention, enriched, writer, registrar, screener, screened, merges>>

\* A mention of the supplier that is merged goes to the one that is kept.  To
\* one that was merged away itself, it is lost already.
Merged(from, to, row) ==
  IF row.to # from THEN row
  ELSE [to |-> to, late |-> row.late \/ supplier[to] # "active"]

\* merge_suppliers: only that both exist is checked.  Writers that have
\* resolved names but not committed are overtaken.
Merge ==
  /\ merges < MergeBound
  /\ merges' = merges + 1
  /\ \E keep, from \in SupplierIds :
       /\ keep # from
       /\ supplier[keep] # "unknown" /\ supplier[from] # "unknown"
       /\ supplier' = [supplier EXCEPT ![from] = "merged"]
       /\ holder' = [n \in Names |-> IF holder[n] = from THEN keep ELSE holder[n]]
       /\ mention' = [d \in Documents |->
                        [n \in DOMAIN mention[d] |-> Merged(from, keep, mention[d][n])]]
  /\ writer' = [d \in Documents |-> [writer[d] EXCEPT !.late = writer[d].phase # "idle"]]
  /\ screener' = [c \in Screeners |->
                    [screener[c] EXCEPT !.late = screener[c].phase = "resolved"]]
  /\ UNCHANGED <<enriched, registrar, screened>>

\* Enrichment adds a processed row and resolves its names (_add_processed).
Enrich(d) ==
  /\ d \notin enriched /\ writer[d].phase = "idle"
  /\ writer' = [writer EXCEPT ![d] = [NoWriter EXCEPT !.phase = "enriching",
                                               !.found = Resolve(Recognised[d])]]
  /\ UNCHANGED <<supplier, holder, mention, enriched, registrar, screener, screened, merges>>

Rows(found, late) == [n \in DOMAIN found |-> [to |-> found[n], late |-> late]]

\* Rows are set or added, the others stay.
Upsert(rows, m) ==
  [n \in DOMAIN rows \cup DOMAIN m |-> IF n \in DOMAIN rows THEN rows[n] ELSE m[n]]

CommitEnrichment(d) ==
  /\ writer[d].phase = "enriching"
  /\ enriched' = enriched \cup {d}
  /\ mention' = [mention EXCEPT ![d] = Rows(writer[d].found, writer[d].late)]
  /\ writer' = [writer EXCEPT ![d] = NoWriter]
  /\ UNCHANGED <<supplier, holder, registrar, screener, screened, merges>>

\* _backfill_mentions comes to a document: record_mentions resolves the names
\* its text gave, _retry_unresolved those that nobody held before.
Backfill(d) ==
  /\ d \in enriched /\ writer[d].phase = "idle"
  /\ LET open == (Recognised[d] \ DOMAIN mention[d])
                   \cup {n \in DOMAIN mention[d] : mention[d][n].to = Nobody}
         found == Resolve(open)
     IN /\ \E n \in open : n \notin DOMAIN mention[d] \/ found[n] # Nobody
        /\ writer' = [writer EXCEPT ![d] =
                         [NoWriter EXCEPT !.phase = "filling", !.found = found,
                                          !.new = open \ DOMAIN mention[d]]]
  /\ UNCHANGED <<supplier, holder, mention, enriched, registrar, screener, screened, merges>>

\* Its insertions must not violate uq_mention_article_surface.
CommitBackfill(d) ==
  /\ writer[d].phase = "filling"
  /\ writer[d].new \cap DOMAIN mention[d] = {}
  /\ mention' = [mention EXCEPT ![d] = Upsert(Rows(writer[d].found, writer[d].late), @)]
  /\ writer' = [writer EXCEPT ![d] = NoWriter]
  /\ UNCHANGED <<supplier, holder, enriched, registrar, screener, screened, merges>>

\* Either raises or dies.
LoseWriter(d) ==
  /\ writer[d].phase # "idle"
  /\ writer' = [writer EXCEPT ![d] = NoWriter]
  /\ UNCHANGED <<supplier, holder, mention, enriched, registrar, screener, screened, merges>>

\* What has no mention counts as not screened: every provider keeps a payload,
\* so that designations or not, all documents do.
ToScreen == {d \in enriched : DOMAIN mention[d] = {}}

\* screen_processed_articles selects its batch.
BeginScreening(c) ==
  /\ screener[c].phase = "idle"
  /\ screener' = [screener EXCEPT ![c] =
       [NoScreener EXCEPT !.phase = "selected",
        !.batch = {d \in ToScreen : Cardinality({e \in ToScreen : e < d}) < BatchLimit}]]
  /\ UNCHANGED <<supplier, holder, mention, enriched, writer, registrar, screened, merges>>

Screenable(c) == {d \in screener[c].batch : Designated[d] # {}}

\* Its designations are resolved; names that have a mention by now are left alone.
Screen(c) ==
  /\ screener[c].phase = "selected"
  /\ screener' = [screener EXCEPT ![c].phase = "resolved",
       ![c].found = [d \in Screenable(c) |-> Resolve(Designated[d] \ DOMAIN mention[d])]]
  /\ UNCHANGED <<supplier, holder, mention, enriched, writer, registrar, screened, merges>>

\* Mentions and audit in one commit; none of the mentions may have come meanwhile.
CommitScreening(c) ==
  /\ screener[c].phase = "resolved"
  /\ LET found == screener[c].found
     IN /\ \A d \in DOMAIN found : DOMAIN found[d] \cap DOMAIN mention[d] = {}
        /\ mention' = [d \in Documents |->
                         IF d \in DOMAIN found
                         THEN Upsert(Rows(found[d], screener[c].late), mention[d]) ELSE mention[d]]
        /\ screened' = [d \in Documents |-> screened[d] \/ d \in DOMAIN found]
  /\ screener' = [screener EXCEPT ![c] = NoScreener]
  /\ UNCHANGED <<supplier, holder, enriched, writer, registrar, merges>>

\* It raises, runs into its time limit, or one of its mentions is there by now.
LoseScreening(c) ==
  /\ screener[c].phase # "idle"
  /\ screener' = [screener EXCEPT ![c] = NoScreener]
  /\ UNCHANGED <<supplier, holder, mention, enriched, writer, registrar, screened, merges>>

SuppliersNext ==
  \/ \E r \in Registrars : Register(r) \/ \E s \in SupplierIds : CheckRegistration(r, s)
  \/ AddAlias \/ Merge
  \/ \E d \in Documents : \/ Enrich(d) \/ CommitEnrichment(d) \/ Backfill(d)
                          \/ CommitBackfill(d) \/ LoseWriter(d)
  \/ \E c \in Screeners : BeginScreening(c) \/ Screen(c) \/ CommitScreening(c) \/ LoseScreening(c)

SuppliersSpec == SuppliersInit /\ [][SuppliersNext]_suppliersVars

----------------------------------------------------------------------------
SuppliersTypeOK ==
  /\ supplier \in [SupplierIds -> {"unknown", "active", "merged"}]
  /\ holder \in [Names -> SupplierIds \cup {Nobody}]
  /\ enriched \subseteq Documents
  /\ \A d \in Documents :
       /\ DOMAIN mention[d] \subseteq Names
       /\ \A n \in DOMAIN mention[d] : mention[d][n].to \in SupplierIds \cup {Nobody}
       /\ writer[d].phase \in {"idle", "enriching", "filling"}
  /\ registrar \in [Registrars -> SupplierIds \cup {Nobody}]
  /\ screened \in [Documents -> BOOLEAN]

(***************************************************************************)
(* The registry keeps its promises across requests: whatever registrations *)
(* race, a supplier that is active answers to every form of its name ("a   *)
(* conflict leaves no half-registered supplier behind", registry.py:88-89),*)
(* and a mention follows its supplier through every merge, unless it was   *)
(* being written when the merge came or the survivor was itself merged     *)
(* away before (registry.py:137-164).                                      *)
(***************************************************************************)
RegistryConsistent ==
  /\ \A s \in SupplierIds : supplier[s] = "active" => \A n \in FormsOf[s] : holder[n] = s
  /\ \A d \in Documents : \A n \in DOMAIN mention[d] :
       mention[d][n].to # Nobody =>
         supplier[mention[d][n].to] = "active" \/ mention[d][n].late

(***************************************************************************)
(* screening.py:118-125: designations with no mention are the ones still   *)
(* to be screened ("the mentions table is the progress cursor").  So one   *)
(* that has a mention has been screened.                                   *)
(***************************************************************************)
MentionedIsScreened ==
  \A d \in enriched : Designated[d] # {} /\ DOMAIN mention[d] # {} => screened[d]
=============================================================================
