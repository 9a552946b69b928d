----------------------------- MODULE Enrichment -----------------------------
(***************************************************************************)
(* The pipeline behind POST /sync/mal/run and POST /sync/mal/run-now       *)
(* (app/api/routes/sync.py): the sync, then the embeddings of the manga    *)
(* that have none (app/services/ai/manga_index.py), then the digests of    *)
(* the manga that were never looked up at Jikan                            *)
(* (app/services/ai/community_reviews.py).  Pipelines run one after the    *)
(* other and at once, without end, until the process is restarted.         *)
(*                                                                         *)
(* Each stage reads what is missing ONCE, then works the list off with     *)
(* awaits in between and one commit per batch of embeddings or per digest. *)
(* Texts, vectors and digests are left out: the model keeps which model a  *)
(* manga was embedded with, and whether and with what it was looked up.    *)
(*                                                                         *)
(* The queries have no ORDER BY, so LIMIT takes any of the pending manga.  *)
(* Refused manga are ones whose digest Gemini declines every time, which   *)
(* LLMRefusalError calls "not retryable as-is".                            *)
(***************************************************************************)
EXTENDS ProviderErrors, FiniteSets

CONSTANTS Manga,
          Pipelines,
          Background,   \* those of POST /sync/mal/run
          Refused,      \* manga whose digest is always declined
          BatchSize,    \* _BATCH_SIZE, 32
          DigestLimit,  \* _DEFAULT_BACKFILL_LIMIT, 15
          Models,       \* the values of EMBEDDING_MODEL
          NULL

ASSUME LimitAssumption == BatchSize \in Nat \ {0} /\ DigestLimit \in Nat \ {0}
ASSUME PipelineAssumption == Background \subseteq Pipelines /\ Refused \subseteq Manga

VARIABLES catalog,      \* the manga there are
          setting,      \* the configured embedding model
          embedding,    \* the model each manga is embedded with, or NULL
          stamped,      \* manga with a community_review_digest_generated_at
          digest,       \* manga with a digest
          pc,
          pending,      \* what a stage of each pipeline has left to do
          calm          \* no service fails any more, and no process restarts

tableVars == <<catalog, setting, embedding, stamped, digest>>
vars == <<tableVars, pc, pending, calm>>

Stage  == {"sync", "embed", "embedding", "digest", "digesting"}
Answer == {"done", "failed", "sync_failed"}

TypeOK == /\ catalog \subseteq Manga
          /\ setting \in Models
          /\ embedding \in [Manga -> Models \cup {NULL}]
          /\ stamped \subseteq Manga
          /\ digest \subseteq Manga
          /\ pc \in [Pipelines -> {"idle"} \cup Stage \cup Answer]
          /\ pending \in [Pipelines -> SUBSET Manga]
          /\ calm \in BOOLEAN

Init == /\ catalog \in SUBSET Manga
        /\ setting \in Models
        /\ \E model \in Models \cup {NULL} :     \* of an earlier setting, perhaps
              embedding = [m \in Manga |-> IF m \in catalog THEN model ELSE NULL]
        /\ stamped = {}
        /\ digest = {}
        /\ pc = [p \in Pipelines |-> "idle"]
        /\ pending = [p \in Pipelines |-> {}]
        /\ calm = FALSE

Goto(p, label) == pc' = [pc EXCEPT ![p] = label]
List(p, S)     == pending' = [pending EXCEPT ![p] = S]

\* A list is worked off, or given up.
Leave(p, label) == Goto(p, label) /\ List(p, {})

-----------------------------------------------------------------------------
\* POST /sync/mal/run or /run-now; a pipeline that is over may be asked for anew.
Begin(p) == /\ pc[p] \in {"idle"} \cup Answer
            /\ Goto(p, "sync")
            /\ UNCHANGED <<tableVars, pending>>

\* sync_user commits the manga that are new.
Sync(p) == /\ pc[p] = "sync"
           /\ \E new \in SUBSET (Manga \ catalog) : catalog' = catalog \cup new
           /\ Goto(p, "embed")
           /\ UNCHANGED <<setting, embedding, stamped, digest, pending>>

\* sync_user raises: nothing after it is tried.
SyncFails(p) == /\ pc[p] = "sync" /\ ~calm
                /\ Goto(p, "sync_failed")
                /\ UNCHANGED <<tableVars, pending>>

\* Mutant of Unembedded: the embeddings of another model pass for embeddings.
AnyEmbedding == {m \in catalog : embedding[m] = NULL}

Unembedded == {m \in catalog : embedding[m] # setting}

\* backfill_missing_embeddings reads its list.
ListUnembedded(p) == /\ pc[p] = "embed"
                     /\ List(p, Unembedded)
                     /\ Goto(p, IF Unembedded = {} THEN "digest" ELSE "embedding")
                     /\ UNCHANGED tableVars

\* Up to BatchSize manga are embedded in one call and committed.
EmbedBatch(p) ==
    /\ pc[p] = "embedding"
    /\ \E batch \in SUBSET pending[p] :
          /\ Cardinality(batch) = IF Cardinality(pending[p]) < BatchSize
                                  THEN Cardinality(pending[p]) ELSE BatchSize
          /\ embedding' = [m \in Manga |-> IF m \in batch THEN setting ELSE embedding[m]]
          /\ List(p, pending[p] \ batch)
          /\ Goto(p, IF batch = pending[p] THEN "digest" ELSE "embedding")
    /\ UNCHANGED <<catalog, setting, stamped, digest>>

\* embed_documents raises: the batches before are committed, and the pipeline
\* ends.  The background task logs it; run-now answers with the error.
EmbedFails(p) == /\ pc[p] = "embedding" /\ ~calm
                 /\ Leave(p, IF p \in Background THEN "done" ELSE "failed")
                 /\ UNCHANGED tableVars

Unstamped == catalog \ stamped

\* backfill_community_review_digests reads its list.
ListUnstamped(p) ==
    /\ pc[p] = "digest"
    /\ \E S \in SUBSET Unstamped :
          /\ Cardinality(S) = IF Cardinality(Unstamped) < DigestLimit
                              THEN Cardinality(Unstamped) ELSE DigestLimit
          /\ List(p, S)
          /\ Goto(p, IF S = {} THEN "done" ELSE "digesting")
    /\ UNCHANGED tableVars

\* The exceptions that Jikan and Gemini end in.
Exceptions ==
    LET Results == {JikanResult(o) : o \in JikanOutcome}
                     \cup {GeminiResult(o) : o \in GeminiOutcome}
    IN  Results \ {"reviews", "none", "ok"}

\* generate_digest: a digest, no reviews ("none"), or an exception.
DigestResults(m) == (IF m \in Refused THEN {"LLMRefusalError"} ELSE {"ok", "none"})
                        \cup (IF calm THEN {} ELSE Exceptions)

\* What the loop catches before it goes on with the next manga.
Caught == {"JikanError"} \cup LLMError

\* m is done with, whether or not it was stamped.
NextManga(p, m) == /\ List(p, pending[p] \ {m})
                   /\ Goto(p, IF pending[p] = {m} THEN "done" ELSE "digesting")

\* Mutant of Store: None is written as a value like any other.
StoreWhole(m, result) == IF result = "ok" THEN digest \cup {m} ELSE digest \ {m}

\* The digests with the result for m.  The manga was read without a digest, so
\* that None differs from nothing and is not part of the UPDATE.
Store(m, result) == IF result = "ok" THEN digest \cup {m} ELSE digest

\* Mutants of Stamped: only a digest is stamped, or only that there is none.
StampedFound(m, result) == IF result = "ok" THEN stamped \cup {m} ELSE stamped
StampedEmpty(m, result) == IF result = "ok" THEN stamped ELSE stamped \cup {m}

Stamped(m, result) == stamped \cup {m}

\* The digest of m, or that there is none, is committed with the stamp.
StampManga(p, m) ==
    /\ pc[p] = "digesting" /\ m \in pending[p]
    /\ \E result \in DigestResults(m) \cap {"ok", "none"} :
          digest' = Store(m, result) /\ stamped' = Stamped(m, result)
    /\ NextManga(p, m)
    /\ UNCHANGED <<catalog, setting, embedding>>

\* JikanError or LLMError: logged, and left for a later sync.
SkipManga(p, m) == /\ pc[p] = "digesting" /\ m \in pending[p]
                   /\ DigestResults(m) \cap Caught # {}
                   /\ NextManga(p, m)
                   /\ UNCHANGED tableVars

\* Any other exception ends the backfill; both routes catch it.
DigestsFail(p) ==
    /\ pc[p] = "digesting"
    /\ \E m \in pending[p] : DigestResults(m) \ (Caught \cup {"ok", "none"}) # {}
    /\ Leave(p, "done")
    /\ UNCHANGED tableVars

\* The process restarts, perhaps with another embedding model; what ran is gone.
Restart == /\ ~calm
           /\ \E model \in Models : setting' = model
           /\ pc' = [p \in Pipelines |-> "idle"]
           /\ pending' = [p \in Pipelines |-> {}]
           /\ UNCHANGED <<catalog, embedding, stamped, digest, calm>>

\* The last failure and the last restart are over.
Settle == /\ ~calm
          /\ calm' = TRUE
          /\ UNCHANGED <<tableVars, pc, pending>>

PipelineStep(p) == \/ Sync(p)
                   \/ SyncFails(p)
                   \/ ListUnembedded(p)
                   \/ EmbedBatch(p)
                   \/ EmbedFails(p)
                   \/ ListUnstamped(p)
                   \/ \E m \in Manga : StampManga(p, m) \/ SkipManga(p, m)
                   \/ DigestsFail(p)

Pipeline(p) == (Begin(p) \/ PipelineStep(p)) /\ UNCHANGED calm

Next == \/ \E p \in Pipelines : Pipeline(p)
        \/ Restart
        \/ Settle

\* Syncs are asked for again and again, each await ends (Gemini and Jikan time
\* out), and failures and restarts do not go on for ever.
Spec == /\ Init /\ [][Next]_vars
        /\ WF_vars(Settle)
        /\ \A p \in Pipelines : WF_vars(Pipeline(p))

-----------------------------------------------------------------------------
(***************************************************************************)
(* Properties.                                                             *)
(***************************************************************************)
\* A digest always has its stamp, and stages work on manga that exist, however
\* many pipelines overlap and wherever they were cut off.
DigestsStamped == /\ digest \subseteq stamped /\ stamped \subseteq catalog
                  /\ \A m \in Manga : embedding[m] # NULL => m \in catalog
                  /\ \A p \in Pipelines : pending[p] \subseteq catalog

\* A stage runs as long as it has something left, and leaves nothing behind.
ListsWorkedOff ==
    \A p \in Pipelines : pc[p] \in {"embedding", "digesting"} <=> pending[p] # {}

EnrichmentInv == TypeOK /\ DigestsStamped /\ ListsWorkedOff

\* What one pipeline has found out another one that started earlier does not
\* take back: a digest is never overwritten by the "no reviews" of a slower one.
DigestsKept == [][digest \subseteq digest']_vars

\* "the remaining backlog gets picked up incrementally on subsequent syncs"
\* (community_reviews.py:67): each manga that can have a digest is looked up.
BacklogDrains == \A m \in Manga \ Refused : m \in catalog ~> m \in stamped

\* "Each sync ... backfills missing manga embeddings so new titles are immediately
\* searchable/recommendable" (README.md:303), once failures and restarts are over.
NewTitlesSearchable == \A m \in Manga : m \in catalog ~> embedding[m] = setting

=============================================================================
