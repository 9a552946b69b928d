----------------------------- MODULE CachedReads -----------------------------
(***************************************************************************)
(* The AI reads of one user (app/api/routes/ai.py), over the taste         *)
(* profiles that other requests generate meanwhile:                        *)
(*   - GET /ai/recommendations, under a key that has the version of the    *)
(*     profile that is current when the request comes in;                  *)
(*   - GET /ai/habits, under a key of the user's;                          *)
(*   - POST /ai/search, under the query and the limit (one of each here);  *)
(*   - GET /ai/roast/{manga_id}, of one manga, which is not cached.        *)
(* The other three go through CacheClient.get_or_compute                   *)
(* (app/core/cache.py): look up, compute on a miss, store, with awaits in  *)
(* between and no lock.                                                    *)
(*                                                                         *)
(* Redis may fail at every call, and forgets an entry when its TTL is      *)
(* over.  Of a value the model keeps what it was made from (the version of *)
(* the profile, or the revision of the library), the revision of the       *)
(* library whose manga were left out of the picks, and whether its         *)
(* explanations are missing.                                               *)
(*                                                                         *)
(* Bounds: a reader makes one request; MaxReviews reviews of the roasted   *)
(* manga.                                                                  *)
(***************************************************************************)
EXTENDS TasteProfiles, ProviderErrors

CONSTANTS Readers,
          Kinds,        \* the reads that are made
          MaxReviews,
          NoValue

Kind == {"recommendations", "habits", "search", "roast"}
Key == (Kind \ {"roast"}) \X Nat
Value == [from : Nat, asOf : Nat, degraded : BOOLEAN]

ASSUME KindAssumption == Kinds \subseteq Kind
ASSUME ReviewsAssumption == MaxReviews \in Nat
ASSUME NoValueAssumption == NoValue \notin Value

VARIABLES cache,        \* what Redis has, a function on some of the keys
          reviews,      \* how many reviews of the manga the user has
          rpc,
          kind,
          seen,         \* the version a reader found current when it began, or 0
          value,        \* what a reader has computed or found
          code          \* the status code a reader is answered with, or 0

answerVars == <<rpc, value, code>>
readVars == <<cache, reviews, kind, seen, answerVars>>
vars     == <<tasteVars, readVars>>

\* "get" and "set" are the calls of Redis; the pipelines are in between.
Pipeline == {"compute", "embed", "candidates", "entry", "review", "generate"}
ReadBusy == {"get", "set"} \cup Pipeline
Code     == {200, 400, 404, 422, 429, 500, 502}

ReadsTypeOK ==
    /\ DOMAIN cache \subseteq Key
    /\ \A k \in DOMAIN cache : cache[k] \in Value
    /\ reviews \in 0 .. MaxReviews
    /\ rpc \in [Readers -> {"idle", "ended", "aborted"} \cup ReadBusy]
    /\ kind \in [Readers -> Kind \cup {NoValue}]
    /\ seen \in [Readers -> Nat]
    /\ value \in [Readers -> Value \cup {NoValue}]
    /\ code \in [Readers -> Code \cup {0}]
    /\ \A r \in Readers : rpc[r] = "ended" <=> code[r] # 0

ReadsInit == /\ Init
             /\ cache = [k \in {} |-> NoValue]
             /\ reviews = 0
             /\ rpc = [r \in Readers |-> "idle"]
             /\ kind = [r \in Readers |-> NoValue]
             /\ seen = [r \in Readers |-> 0]
             /\ value = [r \in Readers |-> NoValue]
             /\ code = [r \in Readers |-> 0]

\* The reader goes on with v.
Go(r, label, v) == /\ rpc' = [rpc EXCEPT ![r] = label]
                   /\ value' = [value EXCEPT ![r] = v]
                   /\ UNCHANGED code

Answer(r, c, v) == /\ rpc' = [rpc EXCEPT ![r] = "ended"]
                   /\ code' = [code EXCEPT ![r] = c]
                   /\ value' = [value EXCEPT ![r] = v]

Refuse(r, c) == Answer(r, c, NoValue)

\* Mutant of CacheKey: the version of the profile is left out of the key.
UserKey(r) == <<kind[r], 0>>

CacheKey(r) == <<kind[r], seen[r]>>

Cached(k) == k \in DOMAIN cache

\* What generate_structured and embed_query come to for the code that calls them.
Answers == {GeminiResult(o) : o \in GeminiOutcome}
Embeddings == {EmbedResult(o) : o \in EmbedOutcome}

-----------------------------------------------------------------------------
\* The handler, up to the lookup: get_recommendations reads the current profile.
BeginRead(r) ==
    /\ rpc[r] = "idle"
    /\ \E k \in Kinds :
          /\ kind' = [kind EXCEPT ![r] = k]
          /\ seen' = [seen EXCEPT ![r] = IF k = "recommendations" THEN latest ELSE 0]
          /\ Go(r, IF k = "roast" THEN "entry" ELSE "get", NoValue)
    /\ UNCHANGED <<cache, reviews>>

CacheHit(r) == /\ rpc[r] = "get" /\ Cached(CacheKey(r))
               /\ Answer(r, 200, cache[CacheKey(r)])
               /\ UNCHANGED cache

\* Nothing under the key, Redis out of reach, or a value that does not parse.
CacheMiss(r) == /\ rpc[r] = "get"
                /\ Go(r, IF kind[r] = "search" THEN "embed" ELSE "compute", NoValue)
                /\ UNCHANGED cache

\* RecommendationService.recommend reads the current profile anew.
ReadProfile(r) ==
    /\ rpc[r] = "compute" /\ kind[r] = "recommendations"
    /\ IF latest = 0
       THEN Refuse(r, 400)
       ELSE Go(r, "candidates", [from |-> latest, asOf |-> 0, degraded |-> FALSE])
    /\ UNCHANGED cache

\* HabitAnalysisService.analyze_reading_habits reads the library.
ReadLibrary(r) ==
    /\ rpc[r] = "compute" /\ kind[r] = "habits"
    /\ CASE SnapshotRaises -> Refuse(r, 500)
         [] ~SnapshotRaises /\ entries < MinEntries -> Refuse(r, 400)
         [] OTHER -> Go(r, "generate", [from |-> revision, asOf |-> revision,
                                        degraded |-> FALSE])
    /\ UNCHANGED cache

\* SearchService.search embeds the query.
EmbedQuery(r) ==
    /\ rpc[r] = "embed"
    /\ \E result \in Embeddings :
          IF result = "ok"
          THEN Go(r, "candidates", [from |-> 0, asOf |-> 0, degraded |-> FALSE])
          ELSE Refuse(r, HttpAnswer(result))
    /\ UNCHANGED cache

\* The vector search, which leaves out what is in the library if it is for
\* recommendations.  With no candidate there is nothing to generate.
FetchCandidates(r) ==
    LET now == IF kind[r] = "recommendations" THEN revision ELSE 0 IN
    /\ rpc[r] = "candidates"
    /\ \E label \in {"generate", "set"} : Go(r, label, [value[r] EXCEPT !.asOf = now])
    /\ UNCHANGED cache

\* RoastService.roast: the entry, if the manga is in the library.
FindEntry(r) == /\ rpc[r] = "entry"
                /\ \/ Refuse(r, 404)
                   \/ entries > 0 /\ Go(r, "review", NoValue)
                /\ UNCHANGED cache

\* The review, and the prompt: one_or_none raises if there are two, and .value
\* if the status is a str.
FindReview(r) ==
    /\ rpc[r] = "review"
    /\ IF reviews > 1 \/ ~StatusIsEnum
       THEN Refuse(r, 500)
       ELSE Go(r, "generate", [from |-> 0, asOf |-> 0, degraded |-> FALSE])
    /\ UNCHANGED cache

\* generate_structured.  A search outlives its failure, without explanations; any
\* other exception goes through the handler of the route, which adds nothing.
Generate(r) ==
    /\ rpc[r] = "generate"
    /\ \E result \in Answers :
          CASE result = "ok" /\ kind[r] # "roast" -> Go(r, "set", value[r])
            [] result = "ok" /\ kind[r] = "roast" -> Answer(r, 200, value[r])
            [] result # "ok" /\ kind[r] = "search" ->
                   Go(r, "set", [value[r] EXCEPT !.degraded = TRUE])
            [] OTHER -> Refuse(r, HttpAnswer(result))
    /\ UNCHANGED cache

\* The value is stored, unless Redis fails, and returned in either case.
CacheSet(r) ==
    /\ rpc[r] = "set"
    /\ \/ cache' = [k \in DOMAIN cache \cup {CacheKey(r)} |->
                       IF k = CacheKey(r) THEN value[r] ELSE cache[k]]
       \/ UNCHANGED cache
    /\ Answer(r, 200, value[r])

\* A statement fails, the client goes away, or the process dies.
Abort(r) == /\ rpc[r] \in Pipeline
            /\ Go(r, "aborted", NoValue)
            /\ UNCHANGED cache

\* The TTL of an entry is over.
Expire(k) == /\ Cached(k)
             /\ cache' = [q \in DOMAIN cache \ {k} |-> cache[q]]
             /\ UNCHANGED <<reviews, kind, seen, answerVars>>

\* POST and DELETE /reviews: nothing keeps a second review of a manga out.
WriteReview == /\ reviews < MaxReviews
               /\ reviews' = reviews + 1
               /\ UNCHANGED <<cache, kind, seen, answerVars>>

RemoveReview == /\ reviews > 0
                /\ reviews' = reviews - 1
                /\ UNCHANGED <<cache, kind, seen, answerVars>>

ReaderStep(r) == \/ CacheHit(r)
                 \/ CacheMiss(r)
                 \/ ReadProfile(r)
                 \/ ReadLibrary(r)
                 \/ EmbedQuery(r)
                 \/ FetchCandidates(r)
                 \/ FindEntry(r)
                 \/ FindReview(r)
                 \/ Generate(r)
                 \/ CacheSet(r)
                 \/ Abort(r)

ReadsNext == \/ /\ \E r \in Readers :
                      BeginRead(r) \/ (ReaderStep(r) /\ UNCHANGED <<reviews, kind, seen>>)
                /\ UNCHANGED tasteVars
             \/ /\ \/ \E k \in DOMAIN cache : Expire(k)
                   \/ WriteReview
                   \/ RemoveReview
                /\ UNCHANGED tasteVars
             \/ Next /\ UNCHANGED readVars

ReadsSpec == ReadsInit /\ [][ReadsNext]_vars

-----------------------------------------------------------------------------
(***************************************************************************)
(* Properties.                                                             *)
(***************************************************************************)
\* "a fresh taste-profile generation naturally busts the old recommendation
\* cache" (README.md:175): what is stored for a version is never made from an
\* older profile, though the version is read again before it is used.
CacheKeyHolds ==
    \A k \in DOMAIN cache : k[1] = "recommendations" => cache[k].from >= k[2]

\* A reader is never served picks from a profile older than the one that was
\* current when it asked, nor told that there is none when there was.
ServedCurrentTaste ==
    \A r \in Readers : kind[r] = "recommendations" =>
        /\ code[r] = 200 => value[r].from >= seen[r] /\ value[r].from > 0
        /\ code[r] = 400 => seen[r] = 0

\* Nothing that the library of the profile with version v had is among picks.
KnowsLibrary(v, picks) ==
    \A g \in Generations :
        Exists(g) /\ profiles[g].version = v => picks.asOf >= profiles[g].basis

\* "none of these are in the reader's library yet" (recommendations.py:118) is said
\* of the moment a list is made, and lists are cached.  What does hold of a cached
\* one: whoever adds a manga and then generates a profile is not recommended that
\* manga, whichever request has made the list.
PicksKnowTheProfilesLibrary ==
    \A r \in Readers :
        kind[r] = "recommendations" /\ code[r] = 200 => KnowsLibrary(seen[r], value[r])

\* What lists and profiles were made from is of the past.
BasisIsPast == \A g \in Generations :
                   /\ snapshot[g] <= revision
                   /\ Exists(g) => profiles[g].basis <= revision

\* Where a request is fits what it asks for.
KindFits ==
    \A r \in Readers :
        /\ rpc[r] # "idle" => kind[r] \in Kind
        /\ rpc[r] = "embed" => kind[r] = "search"
        /\ rpc[r] \in {"entry", "review"} => kind[r] = "roast"
        /\ rpc[r] = "candidates" => kind[r] \in {"recommendations", "search"}
        /\ rpc[r] = "set" => kind[r] # "roast"
        /\ rpc[r] \in {"candidates", "generate", "set"} => value[r] # NoValue

\* What a request for recommendations has in hand is fit to be stored.
InHandFits ==
    \A r \in Readers : kind[r] = "recommendations" =>
        /\ seen[r] <= latest
        /\ rpc[r] \in {"candidates", "generate", "set"} =>
              value[r].from >= seen[r] /\ value[r].from > 0
        /\ rpc[r] \in {"generate", "set"} => KnowsLibrary(seen[r], value[r])

\* What is stored is fit to be served, under a version that exists.
StoredFits ==
    \A k \in DOMAIN cache : k[1] = "recommendations" =>
        cache[k].from > 0 /\ k[2] <= latest /\ KnowsLibrary(k[2], cache[k])

\* The invariant behind all of these, inductive together with IInv.
ReadsInv == /\ ReadsTypeOK
            /\ CacheKeyHolds
            /\ ServedCurrentTaste
            /\ PicksKnowTheProfilesLibrary
            /\ BasisIsPast
            /\ KindFits
            /\ InHandFits
            /\ StoredFits

\* "on-demand ... roast of a manga in your library, personalized to your own
\* progress/score/review" (README.md:340): once the manga is found in the library,
\* the provider is asked, unless the request is cut off.
RoastGetsMade ==
    [][\A r \in Readers :
          rpc[r] = "review" => rpc'[r] \in {"review", "generate", "aborted"}]_vars

=============================================================================
