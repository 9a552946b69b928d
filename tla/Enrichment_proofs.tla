-------------------------- MODULE Enrichment_proofs --------------------------
(***************************************************************************)
(* Proofs about Enrichment: whatever is embedded or looked up is a manga   *)
(* of the catalog, a digest has its stamp and is never taken back, and a   *)
(* stage has work as long as it runs; for any number of pipelines, manga   *)
(* and embedding models.                                                   *)
(***************************************************************************)
EXTENDS Enrichment, TLAPS

LEMMA InitEnrichmentInv == Init => EnrichmentInv
<1> SUFFICES ASSUME Init PROVE EnrichmentInv
  OBVIOUS
<1>1. PICK model \in Models \cup {NULL} :
        embedding = [m \in Manga |-> IF m \in catalog THEN model ELSE NULL]
  BY DEF Init
<1>2. TypeOK
  BY <1>1 DEF Init, TypeOK
<1>3. DigestsStamped
  BY <1>1 DEF Init, DigestsStamped
<1>4. ListsWorkedOff
  BY DEF Init, ListsWorkedOff
<1> QED BY <1>2, <1>3, <1>4 DEF EnrichmentInv

\* What a pipeline does to its list and where it goes with it.
Advances(p, label, S) == /\ Goto(p, label) /\ List(p, S)
                         /\ label \in {"idle"} \cup Stage \cup Answer
                         /\ label \in {"embedding", "digesting"} <=> S # {}

\* A pipeline that goes on with a list of manga of the catalog, while the tables
\* stay consistent.
LEMMA AdvanceKeeps ==
    ASSUME EnrichmentInv, NEW p \in Pipelines, NEW label, NEW S, Advances(p, label, S),
           S \subseteq catalog', calm' \in BOOLEAN, setting' = setting,
           catalog \subseteq catalog', catalog' \subseteq Manga,
           embedding' \in [Manga -> Models \cup {NULL}],
           \A m \in Manga : embedding'[m] # NULL => m \in catalog',
           digest' \subseteq stamped', stamped' \subseteq catalog'
    PROVE  EnrichmentInv'
<1>1. /\ pc'[p] = label /\ pending'[p] = S
      /\ \A q \in Pipelines : q # p => pc'[q] = pc[q] /\ pending'[q] = pending[q]
  BY DEF Advances, Goto, List, EnrichmentInv, TypeOK
<1>2. TypeOK'
  <2>1. S \in SUBSET Manga
    OBVIOUS
  <2>2. pc' \in [Pipelines -> {"idle"} \cup Stage \cup Answer]
    BY DEF Advances, Goto, EnrichmentInv, TypeOK
  <2>3. pending' \in [Pipelines -> SUBSET Manga]
    BY <2>1 DEF Advances, List, EnrichmentInv, TypeOK
  <2> QED BY <2>2, <2>3 DEF EnrichmentInv, TypeOK
<1>3. DigestsStamped'
  <2>1. ASSUME NEW q \in Pipelines
        PROVE  pending'[q] \subseteq catalog'
    BY <1>1 DEF EnrichmentInv, DigestsStamped
  <2> QED BY <2>1 DEF DigestsStamped
<1>4. ListsWorkedOff'
  BY <1>1 DEF Advances, EnrichmentInv, ListsWorkedOff
<1> QED BY <1>2, <1>3, <1>4 DEF EnrichmentInv

\* The same when the tables are left alone.
LEMMA QuietAdvanceKeeps ==
    ASSUME EnrichmentInv, NEW p \in Pipelines, NEW label, NEW S, Advances(p, label, S),
           S \subseteq catalog, UNCHANGED <<tableVars, calm>>
    PROVE  EnrichmentInv'
<1>1. UNCHANGED <<catalog, setting, embedding, stamped, digest, calm>>
  BY DEF tableVars
<1>2. /\ calm' \in BOOLEAN /\ catalog' \subseteq Manga
      /\ embedding' \in [Manga -> Models \cup {NULL}]
      /\ \A m \in Manga : embedding'[m] # NULL => m \in catalog'
      /\ digest' \subseteq stamped' /\ stamped' \subseteq catalog'
  BY <1>1 DEF EnrichmentInv, TypeOK, DigestsStamped
<1> QED BY <1>1, <1>2, AdvanceKeeps

\* The steps up to the list of manga to embed.
LEMMA SyncStepsKeep ==
    ASSUME EnrichmentInv, NEW p \in Pipelines,
           Begin(p) \/ Sync(p) \/ SyncFails(p) \/ ListUnembedded(p), UNCHANGED calm
    PROVE  EnrichmentInv'
<1>1. pc[p] \notin {"embedding", "digesting"} => pending[p] = {}
  BY DEF EnrichmentInv, ListsWorkedOff
<1>2. pending = [pending EXCEPT ![p] = pending[p]]
  BY DEF EnrichmentInv, TypeOK
<1>3. CASE Begin(p) \/ SyncFails(p)
  <2>1. /\ pending[p] = {} /\ pending' = pending /\ UNCHANGED tableVars
        /\ Goto(p, "sync") \/ Goto(p, "sync_failed")
    BY <1>1, <1>3 DEF Begin, SyncFails, Answer
  <2>2. Advances(p, "sync", {}) \/ Advances(p, "sync_failed", {})
    <3>1. List(p, {})
      BY <1>2, <2>1 DEF List
    <3> QED BY <2>1, <3>1 DEF Advances, Stage, Answer
  <2> QED BY <2>1, <2>2, QuietAdvanceKeeps
<1>4. CASE Sync(p)
  <2>1. PICK new \in SUBSET (Manga \ catalog) : catalog' = catalog \cup new
    BY <1>4 DEF Sync
  <2>2. pending[p] = {} /\ UNCHANGED <<setting, embedding, stamped, digest, pending>>
    BY <1>1, <1>4 DEF Sync
  <2>3. Advances(p, "embed", {})
    BY <1>2, <1>4, <2>2 DEF Sync, Advances, List, Stage
  <2>4. /\ calm' \in BOOLEAN /\ catalog' \subseteq Manga
        /\ embedding' \in [Manga -> Models \cup {NULL}]
        /\ \A m \in Manga : embedding'[m] # NULL => m \in catalog'
        /\ digest' \subseteq stamped' /\ stamped' \subseteq catalog'
    BY <2>1, <2>2 DEF EnrichmentInv, TypeOK, DigestsStamped
  <2> QED BY <2>1, <2>2, <2>3, <2>4, AdvanceKeeps
<1>5. CASE ListUnembedded(p)
  <2> DEFINE U == Unembedded
  <2>1. U \subseteq catalog
    BY DEF Unembedded
  <2>2. /\ List(p, U) /\ Goto(p, IF U = {} THEN "digest" ELSE "embedding")
        /\ UNCHANGED tableVars
    BY <1>5 DEF ListUnembedded
  <2> HIDE DEF U
  <2>3. Advances(p, "digest", U) \/ Advances(p, "embedding", U)
    BY <2>2 DEF Advances, Stage
  <2> QED BY <2>1, <2>2, <2>3, QuietAdvanceKeeps
<1> QED BY <1>3, <1>4, <1>5

\* A batch is taken from the list, and its manga are in the catalog.
LEMMA EmbedBatchKeeps ==
    ASSUME EnrichmentInv, NEW p \in Pipelines, EmbedBatch(p), UNCHANGED calm
    PROVE  EnrichmentInv'
<1>1. PICK batch \in SUBSET pending[p] :
        /\ embedding' = [m \in Manga |-> IF m \in batch THEN setting ELSE embedding[m]]
        /\ List(p, pending[p] \ batch)
        /\ Goto(p, IF batch = pending[p] THEN "digest" ELSE "embedding")
  BY DEF EmbedBatch
<1>2. UNCHANGED <<catalog, setting, stamped, digest>>
  BY DEF EmbedBatch
<1>3. pending[p] \subseteq catalog
  BY DEF EnrichmentInv, DigestsStamped
<1>4. Advances(p, "digest", pending[p] \ batch) \/ Advances(p, "embedding", pending[p] \ batch)
  BY <1>1 DEF Advances, Stage
<1>5. /\ calm' \in BOOLEAN /\ catalog' \subseteq Manga
      /\ embedding' \in [Manga -> Models \cup {NULL}]
      /\ \A m \in Manga : embedding'[m] # NULL => m \in catalog'
      /\ digest' \subseteq stamped' /\ stamped' \subseteq catalog'
  BY <1>1, <1>2, <1>3 DEF EnrichmentInv, TypeOK, DigestsStamped
<1> QED BY <1>2, <1>3, <1>4, <1>5, AdvanceKeeps

\* The list of manga to look up, and the ends of the two lists.
LEMMA ListStepsKeep ==
    ASSUME EnrichmentInv, NEW p \in Pipelines,
           EmbedFails(p) \/ ListUnstamped(p) \/ DigestsFail(p), UNCHANGED calm
    PROVE  EnrichmentInv'
<1>1. CASE EmbedFails(p) \/ DigestsFail(p)
  <2>1. UNCHANGED tableVars /\ (Leave(p, "done") \/ Leave(p, "failed"))
    BY <1>1 DEF EmbedFails, DigestsFail
  <2>2. Advances(p, "done", {}) \/ Advances(p, "failed", {})
    BY <2>1 DEF Advances, Leave, Answer
  <2> QED BY <2>1, <2>2, QuietAdvanceKeeps
<1>2. CASE ListUnstamped(p)
  <2>1. PICK S \in SUBSET Unstamped : /\ List(p, S)
                                      /\ Goto(p, IF S = {} THEN "done" ELSE "digesting")
    BY <1>2 DEF ListUnstamped
  <2>2. S \subseteq catalog /\ UNCHANGED tableVars
    BY <1>2 DEF ListUnstamped, Unstamped
  <2>3. Advances(p, "done", S) \/ Advances(p, "digesting", S)
    BY <2>1 DEF Advances, Stage, Answer
  <2> QED BY <2>2, <2>3, QuietAdvanceKeeps
<1> QED BY <1>1, <1>2

\* One manga is done with, stamped or not.
LEMMA DigestStepsKeep ==
    ASSUME EnrichmentInv, NEW p \in Pipelines, NEW m \in Manga,
           StampManga(p, m) \/ SkipManga(p, m), UNCHANGED calm
    PROVE  EnrichmentInv'
<1>1. m \in pending[p] /\ pending[p] \subseteq catalog /\ NextManga(p, m)
  BY DEF StampManga, SkipManga, EnrichmentInv, DigestsStamped
<1> DEFINE S == pending[p] \ {m}
<1>2. Advances(p, "done", S) \/ Advances(p, "digesting", S)
  BY <1>1 DEF NextManga, Advances, Stage, Answer
<1>3. S \subseteq catalog
  BY <1>1
<1> HIDE DEF S
<1>4. CASE SkipManga(p, m)
  <2>1. UNCHANGED tableVars
    BY <1>4 DEF SkipManga
  <2> QED BY <1>2, <1>3, <2>1, QuietAdvanceKeeps
<1>5. CASE StampManga(p, m)
  <2>1. PICK result : digest' = Store(m, result) /\ stamped' = Stamped(m, result)
    BY <1>5 DEF StampManga
  <2>2. digest' \subseteq digest \cup {m} /\ stamped' = stamped \cup {m}
    BY <2>1 DEF Store, Stamped
  <2>3. UNCHANGED <<catalog, setting, embedding>>
    BY <1>5 DEF StampManga
  <2>4. /\ calm' \in BOOLEAN /\ catalog' \subseteq Manga
        /\ embedding' \in [Manga -> Models \cup {NULL}]
        /\ \A n \in Manga : embedding'[n] # NULL => n \in catalog'
        /\ digest' \subseteq stamped' /\ stamped' \subseteq catalog'
    BY <1>1, <2>2, <2>3 DEF EnrichmentInv, TypeOK, DigestsStamped
  <2> QED BY <1>2, <1>3, <2>3, <2>4, AdvanceKeeps
<1> QED BY <1>4, <1>5

LEMMA NextEnrichmentInv == EnrichmentInv /\ [Next]_vars => EnrichmentInv'
<1> SUFFICES ASSUME EnrichmentInv, [Next]_vars PROVE EnrichmentInv'
  OBVIOUS
<1>1. ASSUME NEW p \in Pipelines, Pipeline(p) PROVE EnrichmentInv'
  BY <1>1, SyncStepsKeep, EmbedBatchKeeps, ListStepsKeep, DigestStepsKeep
     DEF Pipeline, PipelineStep
<1>2. CASE Restart
  <2>1. setting' \in Models /\ UNCHANGED <<catalog, embedding, stamped, digest, calm>>
    BY <1>2 DEF Restart
  <2>2. /\ pc' = [p \in Pipelines |-> "idle"]
        /\ pending' = [p \in Pipelines |-> {}]
    BY <1>2 DEF Restart
  <2>3. TypeOK'
    BY <2>1, <2>2 DEF EnrichmentInv, TypeOK
  <2>4. DigestsStamped' /\ ListsWorkedOff'
    BY <2>1, <2>2 DEF EnrichmentInv, DigestsStamped, ListsWorkedOff
  <2> QED BY <2>3, <2>4 DEF EnrichmentInv
<1>3. CASE Settle \/ UNCHANGED vars
  <2>1. UNCHANGED <<catalog, setting, embedding, stamped, digest, pc, pending>>
    BY <1>3 DEF Settle, vars, tableVars
  <2>2. calm' \in BOOLEAN
    BY <1>3 DEF Settle, vars, EnrichmentInv, TypeOK
  <2> QED BY <2>1, <2>2 DEF EnrichmentInv, TypeOK, DigestsStamped, ListsWorkedOff
<1> QED BY <1>1, <1>2, <1>3 DEF Next

\* Whatever is embedded or looked up exists, a digest has its stamp, and a stage
\* has something left to do as long as it runs, however many pipelines overlap and
\* wherever they fail or are cut off.
THEOREM EnrichmentConsistent == Spec => []EnrichmentInv
<1>1. EnrichmentInv /\ [Next]_vars => EnrichmentInv'
  BY NextEnrichmentInv
<1> QED BY InitEnrichmentInv, <1>1, PTL DEF Spec

\* No step takes a digest back: a pipeline that finds no reviews leaves what a
\* faster one has found.
THEOREM DigestsAreKept == Spec => DigestsKept
<1>1. [Next]_vars => [digest \subseteq digest']_vars
  <2> SUFFICES ASSUME Next PROVE digest \subseteq digest'
    OBVIOUS
  <2>1. ASSUME NEW p \in Pipelines, NEW m \in Manga, StampManga(p, m)
        PROVE  digest \subseteq digest'
    BY <2>1 DEF StampManga, Store
  <2>2. ASSUME NEW p \in Pipelines, Pipeline(p), \A m \in Manga : ~StampManga(p, m)
        PROVE  digest' = digest
    BY <2>2 DEF Pipeline, PipelineStep, Begin, Sync, SyncFails, ListUnembedded, EmbedBatch,
                EmbedFails, ListUnstamped, SkipManga, DigestsFail, tableVars
  <2> QED BY <2>1, <2>2 DEF Next, Restart, Settle, tableVars
<1> QED BY <1>1, PTL DEF Spec, DigestsKept

=============================================================================
