------------------------- MODULE CachedReads_proofs -------------------------
(***************************************************************************)
(* For any number of readers and generations: a reader of recommendations  *)
(* is served what was made from a profile at least as new as the one that  *)
(* was current when it asked, and from no manga that this profile's        *)
(* library had.                                                            *)
(*                                                                         *)
(* The generations are those of TasteProfiles, of whose steps the argument *)
(* needs only TasteStep: the latest version never falls, rows are not      *)
(* rewritten, and the library only moves on.                               *)
(***************************************************************************)
EXTENDS CachedReads, TasteProfiles_proofs

LEMMA LatestIsNat == ASSUME IInv PROVE latest \in Nat
PROOF
<1>1. \A p \in Current : profiles[p].version \in Nat
  BY DEF IInv, TypeOK, Current, Exists, Row
<1> QED
  BY <1>1, LatestIs DEF latest

\* What a step of the generations and the library changes.
LEMMA TasteStep ==
    ASSUME IInv, BasisIsPast, [Next]_tasteVars
    PROVE  /\ IInv' /\ BasisIsPast'
           /\ latest \in Nat /\ latest' \in Nat /\ latest <= latest'
           /\ \A g \in Generations : Exists(g)' =>
                 \/ /\ Exists(g)
                    /\ profiles'[g].version = profiles[g].version
                    /\ profiles'[g].basis = profiles[g].basis
                 \/ profiles'[g].version > latest
PROOF
<1>1. latest \in Nat
  BY LatestIsNat
<1>2. IInv'
  <2>1. CASE Next
    BY <2>1, StepKeepsIInv
  <2>2. CASE UNCHANGED tasteVars
    BY <2>2, OthersKeepIInv DEF tasteVars, IInv, TypeOK
  <2> QED
    BY <2>1, <2>2
<1>3. ASSUME NEW g \in Generations, PublishVersion(g)
      PROVE  /\ latest' = latest + 1
             /\ profiles'[g].version = latest + 1 /\ profiles'[g].basis = snapshot[g]
             /\ UNCHANGED <<revision, snapshot>>
             /\ \A h \in Generations \ {g} :
                   /\ Exists(h)' <=> Exists(h)
                   /\ Exists(h) => /\ profiles'[h].version = profiles[h].version
                                   /\ profiles'[h].basis = profiles[h].basis
  <2>1. Since(previous[g]) = latest
    BY <1>3, SinceIsLatest DEF PublishVersion
  <2>2. profiles'[g] = [version |-> latest + 1, is_current |-> TRUE,
                        basis |-> snapshot[g], since |-> latest]
    BY <1>3, <2>1, Published
  <2>3. profiles'[g].version = latest + 1 /\ profiles'[g].basis = snapshot[g]
    BY <2>2
  <2>4. latest' = latest + 1
    BY <1>3, PublishedIsLatest
  <2> QED
    BY <1>3, <2>3, <2>4, Published DEF PublishVersion, libraryVars
<1>4. ASSUME NEW g \in Generations, PublishVersion(g)
      PROVE  BasisIsPast'
  <2>1. \A h \in Generations : snapshot'[h] <= revision'
    BY <1>3, <1>4 DEF BasisIsPast
  <2>2. ASSUME NEW h \in Generations, Exists(h)'
        PROVE  profiles'[h].basis <= revision'
    <3>1. CASE h = g
      BY <1>3, <1>4, <3>1 DEF BasisIsPast
    <3>2. CASE h # g
      <4>1. Exists(h) /\ profiles'[h].basis = profiles[h].basis /\ revision' = revision
        BY <1>3, <1>4, <2>2, <3>2
      <4> QED
        BY <4>1 DEF BasisIsPast
    <3> QED
      BY <3>1, <3>2
  <2> QED
    BY <2>1, <2>2 DEF BasisIsPast
<1>5. CASE \E g \in Generations : PublishVersion(g)
  <2>1. PICK g \in Generations : PublishVersion(g)
    BY <1>5
  <2>2. latest' \in Nat /\ latest <= latest' /\ profiles'[g].version > latest
    BY <1>1, <1>3, <2>1
  <2> QED
    BY <1>1, <1>2, <1>3, <1>4, <2>1, <2>2
<1>6. CASE ~\E g \in Generations : PublishVersion(g)
  <2>1. UNCHANGED profiles
    BY <1>6 DEF Next, ChangeLibrary, GenerationStep, ReadSnapshot, ReadPrevious, Analyze,
               Retire, LoseRace, Fail, Rest, tasteVars
  <2>2. latest' = latest /\ \A g \in Generations : Exists(g)' <=> Exists(g)
    BY <2>1 DEF latest, Current, Exists
  <2>3. /\ revision' \in Nat /\ revision <= revision'
        /\ \A g \in Generations : snapshot'[g] \in {snapshot[g], revision}
        /\ revision \in Nat /\ snapshot \in [Generations -> Nat]
    <3>1. revision \in Nat /\ snapshot \in [Generations -> Nat]
      BY DEF IInv, TypeOK
    <3>2. revision' \in {revision, revision + 1}
      BY DEF Next, ChangeLibrary, GenerationStep, ReadSnapshot, ReadPrevious, Analyze,
             Retire, PublishVersion, LoseRace, Fail, Rest, tasteVars, libraryVars
    <3>3. \/ snapshot' = snapshot
          \/ \E g \in Generations : snapshot' = [snapshot EXCEPT ![g] = revision]
      BY DEF Next, ChangeLibrary, GenerationStep, ReadSnapshot, ReadPrevious, Analyze,
             Retire, PublishVersion, LoseRace, Fail, Rest, tasteVars
    <3> QED
      BY <3>1, <3>2, <3>3
  <2>4. BasisIsPast'
    <3>1. ASSUME NEW g \in Generations
          PROVE  snapshot'[g] <= revision'
      <4>1. snapshot[g] <= revision /\ snapshot[g] \in Nat
        BY <2>3 DEF BasisIsPast
      <4> QED
        BY <2>3, <4>1
    <3>2. ASSUME NEW g \in Generations, Exists(g)
          PROVE  profiles[g].basis <= revision'
      <4>1. profiles[g].basis \in Nat
        BY <3>2 DEF IInv, TypeOK, Exists, Row
      <4>2. profiles[g].basis <= revision
        BY <3>2 DEF BasisIsPast
      <4> QED
        BY <2>3, <4>1, <4>2
    <3> QED
      BY <2>1, <2>2, <3>1, <3>2 DEF BasisIsPast
  <2> QED
    BY <1>1, <1>2, <2>1, <2>2, <2>4
<1> QED
  BY <1>5, <1>6

\* Picks that know the library of an existing version go on knowing it.
LEMMA KnowledgeStays ==
    ASSUME IInv, BasisIsPast, [Next]_tasteVars, NEW v \in Nat, v <= latest, NEW picks,
           KnowsLibrary(v, picks)
    PROVE  \A g \in Generations :
              Exists(g)' /\ profiles'[g].version = v => picks.asOf >= profiles'[g].basis
PROOF
<1>1. ASSUME NEW g \in Generations, Exists(g)', profiles'[g].version = v
      PROVE  picks.asOf >= profiles'[g].basis
  <2>1. \/ /\ Exists(g)
           /\ profiles'[g].version = profiles[g].version
           /\ profiles'[g].basis = profiles[g].basis
        \/ profiles'[g].version > latest
    BY <1>1, TasteStep
  <2>2. latest \in Nat
    BY TasteStep
  <2> QED
    BY <1>1, <2>1, <2>2 DEF KnowsLibrary
<1> QED
  BY <1>1

\* No call of the provider is answered with a 400.
LEMMA ProviderAnswers ==
    ASSUME NEW result \in Answers \cup Embeddings, result # "ok"
    PROVE  HttpAnswer(result) \in {422, 429, 500, 502}
PROOF
<1>1. \A o \in GeminiOutcome :
          GeminiResult(o) \in LLMError \cup {"ok", "connection_drop", "timeout"}
  BY DEF GeminiOutcome, EmbedOutcome, GeminiResult, Translated, LLMError
<1>2. \A o \in EmbedOutcome :
          EmbedResult(o) \in LLMError \cup {"ok", "connection_drop", "timeout"}
  BY DEF EmbedOutcome, EmbedResult, Translated, LLMError
<1>3. result \in LLMError \cup {"ok", "connection_drop", "timeout"}
  BY <1>1, <1>2 DEF Answers, Embeddings
<1> QED
  BY <1>3 DEF HttpAnswer, LLMError

-----------------------------------------------------------------------------
\* ReadsInv reader by reader and key by key: what it asks of a reader that is at
\* label with a read of kind k, the version s, the value v and the answer c ...
ReaderFits(label, k, s, v, c) ==
    /\ label \in {"idle", "ended", "aborted"} \cup ReadBusy
    /\ k \in Kind \cup {NoValue} /\ s \in Nat
    /\ v \in Value \cup {NoValue} /\ c \in Code \cup {0}
    /\ label = "ended" <=> c # 0
    /\ label # "idle" => k \in Kind
    /\ label = "embed" => k = "search"
    /\ label \in {"entry", "review"} => k = "roast"
    /\ label = "candidates" => k \in {"recommendations", "search"}
    /\ label = "set" => k # "roast"
    /\ label \in {"candidates", "generate", "set"} => v # NoValue
    /\ k = "recommendations" =>
          /\ s <= latest
          /\ c = 400 => s = 0
          /\ c = 200 \/ label \in {"candidates", "generate", "set"} =>
                v.from >= s /\ v.from > 0
          /\ c = 200 \/ label \in {"generate", "set"} => KnowsLibrary(s, v)

\* ... and of a value v that is stored under the key k.
EntryFits(k, v) ==
    /\ k \in Key /\ v \in Value
    /\ k[1] = "recommendations" =>
          v.from >= k[2] /\ v.from > 0 /\ k[2] <= latest /\ KnowsLibrary(k[2], v)

ReadersTyped == /\ rpc \in [Readers -> {"idle", "ended", "aborted"} \cup ReadBusy]
                /\ kind \in [Readers -> Kind \cup {NoValue}]
                /\ seen \in [Readers -> Nat]
                /\ value \in [Readers -> Value \cup {NoValue}]
                /\ code \in [Readers -> Code \cup {0}]

AllFit == /\ ReadersTyped
          /\ reviews \in 0 .. MaxReviews
          /\ BasisIsPast
          /\ \A r \in Readers : ReaderFits(rpc[r], kind[r], seen[r], value[r], code[r])
          /\ \A k \in DOMAIN cache : EntryFits(k, cache[k])

LEMMA AllFitIsReadsInv == AllFit <=> ReadsInv
PROOF
<1>1. ASSUME AllFit
      PROVE  ReadsInv
  <2>1. ReadsTypeOK
    BY <1>1 DEF AllFit, ReadersTyped, ReaderFits, EntryFits, ReadsTypeOK
  <2>2. CacheKeyHolds /\ StoredFits
    BY <1>1 DEF AllFit, EntryFits, CacheKeyHolds, StoredFits
  <2>3. ServedCurrentTaste /\ PicksKnowTheProfilesLibrary
    BY <1>1 DEF AllFit, ReaderFits, ServedCurrentTaste, PicksKnowTheProfilesLibrary
  <2>4. KindFits /\ InHandFits
    BY <1>1 DEF AllFit, ReaderFits, KindFits, InHandFits
  <2> QED
    BY <1>1, <2>1, <2>2, <2>3, <2>4 DEF AllFit, ReadsInv
<1>2. ASSUME ReadsInv
      PROVE  AllFit
  <2>1. ReadersTyped /\ reviews \in 0 .. MaxReviews /\ BasisIsPast
    BY <1>2 DEF ReadsInv, ReadsTypeOK, ReadersTyped
  <2>2. ASSUME NEW r \in Readers
        PROVE  ReaderFits(rpc[r], kind[r], seen[r], value[r], code[r])
    <3>1. /\ rpc[r] \in {"idle", "ended", "aborted"} \cup ReadBusy
          /\ kind[r] \in Kind \cup {NoValue} /\ seen[r] \in Nat
          /\ value[r] \in Value \cup {NoValue} /\ code[r] \in Code \cup {0}
          /\ rpc[r] = "ended" <=> code[r] # 0
      BY <1>2 DEF ReadsInv, ReadsTypeOK
    <3>2. kind[r] = "recommendations" =>
             /\ code[r] = 200 => /\ value[r].from >= seen[r] /\ value[r].from > 0
                                 /\ KnowsLibrary(seen[r], value[r])
             /\ code[r] = 400 => seen[r] = 0
      BY <1>2 DEF ReadsInv, ServedCurrentTaste, PicksKnowTheProfilesLibrary
    <3> QED
      BY <1>2, <3>1, <3>2 DEF ReadsInv, KindFits, InHandFits, ReaderFits
  <2>3. \A k \in DOMAIN cache : EntryFits(k, cache[k])
    BY <1>2 DEF ReadsInv, ReadsTypeOK, CacheKeyHolds, StoredFits, EntryFits
  <2> QED
    BY <2>1, <2>2, <2>3 DEF AllFit
<1> QED
  BY <1>1, <1>2

\* The generations and the library leave what is in hand and stored in order.
LEMMA TasteKeepsAllFit ==
    ASSUME IInv, AllFit, [Next]_tasteVars, UNCHANGED readVars
    PROVE  AllFit'
PROOF
<1>1. /\ IInv' /\ BasisIsPast' /\ latest \in Nat /\ latest' \in Nat /\ latest <= latest'
  BY TasteStep DEF AllFit
<1>2. /\ UNCHANGED <<cache, reviews, rpc, kind, seen, value, code>>
      /\ BasisIsPast /\ ReadersTyped
  BY DEF readVars, answerVars, AllFit
<1>3. ASSUME NEW v \in Nat, v <= latest, NEW picks, KnowsLibrary(v, picks)
      PROVE  \A g \in Generations :
                Exists(g)' /\ profiles'[g].version = v => picks.asOf >= profiles'[g].basis
  BY <1>2, <1>3, KnowledgeStays
<1>4. ASSUME NEW r \in Readers
      PROVE  ReaderFits(rpc[r], kind[r], seen[r], value[r], code[r])'
  <2>1. ReaderFits(rpc[r], kind[r], seen[r], value[r], code[r]) /\ seen[r] \in Nat
    BY <1>2 DEF AllFit, ReadersTyped
  <2>2. kind[r] = "recommendations" => seen[r] <= latest /\ seen[r] <= latest'
    BY <1>1, <2>1 DEF ReaderFits
  <2>3. kind[r] = "recommendations" /\ KnowsLibrary(seen[r], value[r])
           => KnowsLibrary(seen[r], value[r])'
    BY <1>2, <1>3, <2>1, <2>2 DEF KnowsLibrary
  <2> QED
    BY <1>2, <2>1, <2>2, <2>3 DEF ReaderFits
<1>5. ASSUME NEW k \in DOMAIN cache
      PROVE  EntryFits(k, cache[k])'
  <2>1. EntryFits(k, cache[k]) /\ k[2] \in Nat
    BY DEF AllFit, EntryFits, Key
  <2>2. k[1] = "recommendations" => k[2] <= latest /\ k[2] <= latest'
    BY <1>1, <2>1 DEF EntryFits
  <2>3. k[1] = "recommendations" /\ KnowsLibrary(k[2], cache[k])
           => KnowsLibrary(k[2], cache[k])'
    BY <1>2, <1>3, <2>1, <2>2 DEF KnowsLibrary
  <2> QED
    BY <1>2, <2>1, <2>2, <2>3 DEF EntryFits
<1> QED
  BY <1>1, <1>2, <1>4, <1>5 DEF AllFit, ReadersTyped

\* The reader r comes to label with a read of kind k, the version s, the value v and
\* the answer c, which fit.
Moves(r, label, k, s, v, c) ==
    /\ ReaderFits(label, k, s, v, c)
    /\ rpc' = [rpc EXCEPT ![r] = label]
    /\ kind' = [kind EXCEPT ![r] = k]
    /\ seen' = [seen EXCEPT ![r] = s]
    /\ value' = [value EXCEPT ![r] = v]
    /\ code' = [code EXCEPT ![r] = c]
    /\ UNCHANGED <<tasteVars, reviews>>

\* A step of one reader, between those of the generations.
LEMMA MoveKeepsAllFit ==
    ASSUME IInv, AllFit,
           NEW r \in Readers, NEW label, NEW k, NEW s, NEW v, NEW c,
           Moves(r, label, k, s, v, c),
           \A q \in DOMAIN cache' : EntryFits(q, cache'[q])
    PROVE  AllFit'
PROOF
<1>1. UNCHANGED <<latest, profiles, revision, snapshot>>
  BY DEF Moves, tasteVars, latest, Current, Exists
<1>2. \A x, picks : KnowsLibrary(x, picks)' <=> KnowsLibrary(x, picks)
  BY <1>1 DEF KnowsLibrary, Exists
<1>3. BasisIsPast' /\ reviews' \in 0 .. MaxReviews
  BY <1>1 DEF AllFit, BasisIsPast, Exists, Moves
<1>4. ReadersTyped'
  BY DEF AllFit, ReadersTyped, ReaderFits, Moves
<1>5. ASSUME NEW q \in Readers
      PROVE  ReaderFits(rpc[q], kind[q], seen[q], value[q], code[q])'
  <2>1. ReaderFits(rpc'[q], kind'[q], seen'[q], value'[q], code'[q])
    BY DEF AllFit, ReadersTyped, Moves
  <2> QED
    BY <1>1, <2>1 DEF ReaderFits, KnowsLibrary, Exists
<1>6. ASSUME NEW q \in DOMAIN cache'
      PROVE  EntryFits(q, cache[q])'
  BY <1>1 DEF EntryFits, KnowsLibrary, Exists
<1> QED
  BY <1>3, <1>4, <1>5, <1>6 DEF AllFit

\* A step that leaves r with its kind and its version goes to label with v, or is an
\* answer.
LEMMA StepMoves ==
    ASSUME AllFit, NEW r \in Readers, NEW label, NEW v, NEW c,
           rpc' = [rpc EXCEPT ![r] = label], value' = [value EXCEPT ![r] = v],
           code' = [code EXCEPT ![r] = c], UNCHANGED <<kind, seen, tasteVars, reviews>>,
           ReaderFits(label, kind[r], seen[r], v, c)
    PROVE  Moves(r, label, kind[r], seen[r], v, c)
PROOF
<1>1. kind' = [kind EXCEPT ![r] = kind[r]] /\ seen' = [seen EXCEPT ![r] = seen[r]]
  BY DEF AllFit, ReadersTyped
<1> QED
  BY <1>1 DEF Moves

LEMMA GoMoves ==
    ASSUME AllFit, NEW r \in Readers, rpc[r] # "ended",
           NEW label \in ReadBusy \cup {"aborted"}, NEW v \in Value \cup {NoValue},
           Go(r, label, v), UNCHANGED <<kind, seen, tasteVars, reviews>>,
           kind[r] \in Kind,
           label = "embed" => kind[r] = "search",
           label \in {"entry", "review"} => kind[r] = "roast",
           label = "candidates" => kind[r] \in {"recommendations", "search"},
           label = "set" => kind[r] # "roast",
           label \in {"candidates", "generate", "set"} => v # NoValue,
           kind[r] = "recommendations" =>
              /\ label \in {"candidates", "generate", "set"} => v.from >= seen[r] /\ v.from > 0
              /\ label \in {"generate", "set"} => KnowsLibrary(seen[r], v)
    PROVE  Moves(r, label, kind[r], seen[r], v, 0)
PROOF
<1>1. ReaderFits(rpc[r], kind[r], seen[r], value[r], code[r]) /\ seen[r] \in Nat
  BY DEF AllFit, ReadersTyped
<1>2. code[r] = 0 /\ code' = [code EXCEPT ![r] = 0]
  <2>1. code[r] = 0
    BY <1>1 DEF ReaderFits
  <2> QED
    BY <2>1 DEF Go, AllFit, ReadersTyped
<1>3. label # "ended" /\ label \in {"idle", "ended", "aborted"} \cup ReadBusy
  BY DEF ReadBusy, Pipeline
<1>4. ReaderFits(label, kind[r], seen[r], v, 0)
  BY <1>1, <1>3 DEF ReaderFits
<1> QED
  BY <1>2, <1>4, StepMoves DEF Go

LEMMA AnswerMoves ==
    ASSUME AllFit, NEW r \in Readers, NEW c \in Code, NEW v \in Value \cup {NoValue},
           Answer(r, c, v), UNCHANGED <<kind, seen, tasteVars, reviews>>,
           kind[r] \in Kind,
           kind[r] = "recommendations" =>
              /\ c = 400 => seen[r] = 0
              /\ c = 200 => v.from >= seen[r] /\ v.from > 0 /\ KnowsLibrary(seen[r], v)
    PROVE  Moves(r, "ended", kind[r], seen[r], v, c)
PROOF
<1>1. ReaderFits(rpc[r], kind[r], seen[r], value[r], code[r])
  BY DEF AllFit
<1>2. c # 0
  BY DEF Code
<1>3. ReaderFits("ended", kind[r], seen[r], v, c)
  BY <1>1, <1>2 DEF ReaderFits
<1> QED
  BY <1>3, StepMoves DEF Answer

\* A refusal is not a 400 for someone who had a profile.
LEMMA RefuseMoves ==
    ASSUME AllFit, NEW r \in Readers, NEW c \in Code \ {200}, Refuse(r, c),
           UNCHANGED <<kind, seen, tasteVars, reviews>>, kind[r] \in Kind,
           c = 400 /\ kind[r] = "recommendations" => seen[r] = 0
    PROVE  Moves(r, "ended", kind[r], seen[r], NoValue, c)
PROOF BY AnswerMoves DEF Refuse

LEMMA ValueIsNotNone == ASSUME NEW v \in Value PROVE v # NoValue
PROOF BY NoValueAssumption

LEMMA ReaderStepKeepsAllFit ==
    ASSUME IInv, AllFit, NEW r \in Readers, ReaderStep(r),
           UNCHANGED <<reviews, kind, seen, tasteVars>>
    PROVE  AllFit'
PROOF
<1>1. /\ ReaderFits(rpc[r], kind[r], seen[r], value[r], code[r])
      /\ seen[r] \in Nat /\ latest \in Nat /\ ReadersTyped
      /\ value[r] \in Value \cup {NoValue}
      /\ \A q \in DOMAIN cache : EntryFits(q, cache[q])
  BY LatestIsNat DEF AllFit, ReadersTyped
<1>2. rpc[r] \in ReadBusy
  BY DEF ReaderStep, CacheHit, CacheMiss, ReadProfile, ReadLibrary, EmbedQuery,
         FetchCandidates, FindEntry, FindReview, Generate, CacheSet, Abort, ReadBusy, Pipeline
<1>3. rpc[r] # "ended" /\ rpc[r] # "idle" /\ kind[r] \in Kind
  BY <1>1, <1>2 DEF ReadBusy, Pipeline, ReaderFits
<1>4. cache' = cache => \A q \in DOMAIN cache' : EntryFits(q, cache'[q])
  BY <1>1
<1>5. /\ Code = {200, 400, 404, 422, 429, 500, 502}
      /\ {"compute", "embed", "candidates", "entry", "review", "generate", "get", "set"}
           \subseteq ReadBusy
      /\ revision \in Nat
  BY DEF Code, ReadBusy, Pipeline, IInv, TypeOK
<1>6. CASE CacheHit(r)
  <2>1. /\ EntryFits(CacheKey(r), cache[CacheKey(r)]) /\ cache' = cache
        /\ Answer(r, 200, cache[CacheKey(r)])
    BY <1>1, <1>6 DEF CacheHit, Cached
  <2>2. CacheKey(r)[1] = kind[r] /\ CacheKey(r)[2] = seen[r]
    BY DEF CacheKey
  <2>3. Moves(r, "ended", kind[r], seen[r], cache[CacheKey(r)], 200)
    BY <1>3, <1>5, <2>1, <2>2, AnswerMoves DEF EntryFits
  <2> QED
    BY <1>4, <2>1, <2>3, MoveKeepsAllFit
<1>7. CASE CacheMiss(r)
  <2>1. CASE kind[r] = "search"
    <3>1. Moves(r, "embed", kind[r], seen[r], NoValue, 0)
      BY <1>3, <1>5, <1>7, <2>1, GoMoves DEF CacheMiss
    <3> QED
      BY <1>4, <1>7, <3>1, MoveKeepsAllFit DEF CacheMiss
  <2>2. CASE kind[r] # "search"
    <3>1. Moves(r, "compute", kind[r], seen[r], NoValue, 0)
      BY <1>3, <1>5, <1>7, <2>2, GoMoves DEF CacheMiss
    <3> QED
      BY <1>4, <1>7, <3>1, MoveKeepsAllFit DEF CacheMiss
  <2> QED
    BY <2>1, <2>2
<1>8. CASE ReadProfile(r)
  <2>1. kind[r] = "recommendations" /\ seen[r] <= latest /\ cache' = cache
    BY <1>1, <1>8 DEF ReadProfile, ReaderFits
  <2>2. CASE latest = 0
    <3>1. seen[r] = 0
      BY <1>1, <2>1, <2>2
    <3>2. Moves(r, "ended", kind[r], seen[r], NoValue, 400)
      BY <1>3, <1>5, <1>8, <2>2, <3>1, RefuseMoves DEF ReadProfile
    <3> QED
      BY <1>4, <2>1, <3>2, MoveKeepsAllFit
  <2>3. CASE latest # 0
    <3> DEFINE v == [from |-> latest, asOf |-> 0, degraded |-> FALSE]
    <3>1. v \in Value /\ v.from >= seen[r] /\ v.from > 0 /\ v # NoValue
      <4>1. v.from = latest /\ v \in Value
        BY <1>1 DEF Value
      <4> HIDE DEF v
      <4> QED
        BY <1>1, <2>1, <2>3, <4>1, ValueIsNotNone
    <3>2. Go(r, "candidates", v)
      BY <1>8, <2>3 DEF ReadProfile
    <3> HIDE DEF v
    <3>3. Moves(r, "candidates", kind[r], seen[r], v, 0)
      BY <1>3, <1>5, <2>1, <3>1, <3>2, GoMoves
    <3> QED
      BY <1>4, <2>1, <3>3, MoveKeepsAllFit
  <2> QED
    BY <2>2, <2>3
<1>9. CASE ReadLibrary(r)
  <2> DEFINE v == [from |-> revision, asOf |-> revision, degraded |-> FALSE]
  <2>1. /\ kind[r] = "habits" /\ cache' = cache
        /\ Refuse(r, 500) \/ Refuse(r, 400) \/ Go(r, "generate", v)
    BY <1>9 DEF ReadLibrary
  <2>2. v \in Value /\ v # NoValue
    <3>1. v \in Value
      BY <1>5 DEF Value
    <3> HIDE DEF v
    <3> QED
      BY <3>1, ValueIsNotNone
  <2> HIDE DEF v
  <2>3. CASE Refuse(r, 500)
    <3>1. Moves(r, "ended", kind[r], seen[r], NoValue, 500)
      BY <1>3, <1>5, <2>1, <2>3, RefuseMoves
    <3> QED
      BY <1>4, <2>1, <3>1, MoveKeepsAllFit
  <2>4. CASE Refuse(r, 400)
    <3>1. Moves(r, "ended", kind[r], seen[r], NoValue, 400)
      BY <1>3, <1>5, <2>1, <2>4, RefuseMoves
    <3> QED
      BY <1>4, <2>1, <3>1, MoveKeepsAllFit
  <2>5. CASE Go(r, "generate", v)
    <3>1. Moves(r, "generate", kind[r], seen[r], v, 0)
      BY <1>3, <1>5, <2>1, <2>2, <2>5, GoMoves
    <3> QED
      BY <1>4, <2>1, <3>1, MoveKeepsAllFit
  <2> QED
    BY <2>1, <2>3, <2>4, <2>5
<1>10. CASE EmbedQuery(r)
  <2> DEFINE v == [from |-> 0, asOf |-> 0, degraded |-> FALSE]
  <2>1. kind[r] = "search" /\ cache' = cache
    BY <1>1, <1>10 DEF EmbedQuery, ReaderFits
  <2>2. v \in Value /\ v # NoValue
    <3>1. v \in Value
      BY DEF Value
    <3> HIDE DEF v
    <3> QED
      BY <3>1, ValueIsNotNone
  <2>3. PICK result \in Embeddings :
           IF result = "ok" THEN Go(r, "candidates", v) ELSE Refuse(r, HttpAnswer(result))
    BY <1>10 DEF EmbedQuery
  <2> HIDE DEF v
  <2>4. CASE result = "ok"
    <3>1. Moves(r, "candidates", kind[r], seen[r], v, 0)
      BY <1>3, <1>5, <2>1, <2>2, <2>3, <2>4, GoMoves
    <3> QED
      BY <1>4, <2>1, <3>1, MoveKeepsAllFit
  <2>5. CASE result # "ok"
    <3>1. HttpAnswer(result) \in Code \ {200, 400}
      BY <1>5, <2>5, ProviderAnswers
    <3>2. Moves(r, "ended", kind[r], seen[r], NoValue, HttpAnswer(result))
      BY <1>3, <2>1, <2>3, <2>5, <3>1, RefuseMoves
    <3> QED
      BY <1>4, <2>1, <3>2, MoveKeepsAllFit
  <2> QED
    BY <2>4, <2>5
<1>11. CASE FetchCandidates(r)
  <2> DEFINE now == IF kind[r] = "recommendations" THEN revision ELSE 0
             v == [value[r] EXCEPT !.asOf = now]
  <2>1. /\ cache' = cache /\ value[r] \in Value
        /\ kind[r] \in {"recommendations", "search"}
        /\ kind[r] = "recommendations" => value[r].from >= seen[r] /\ value[r].from > 0
    BY <1>1, <1>11 DEF FetchCandidates, ReaderFits
  <2>2. PICK label \in {"generate", "set"} : Go(r, label, v)
    BY <1>11 DEF FetchCandidates
  <2>3. v \in Value /\ v.from = value[r].from /\ v.asOf = now /\ v # NoValue
    BY <1>5, <2>1, ValueIsNotNone DEF Value
  <2>4. kind[r] = "recommendations" => KnowsLibrary(seen[r], v)
    <3>1. ASSUME NEW g \in Generations, Exists(g)
          PROVE  profiles[g].basis \in Nat /\ profiles[g].basis <= revision
      BY <3>1 DEF AllFit, BasisIsPast, IInv, TypeOK, Exists, Row
    <3> HIDE DEF v
    <3> QED
      BY <1>5, <2>3, <3>1 DEF KnowsLibrary
  <2> HIDE DEF v
  <2>5. kind[r] # "roast" /\ label \in ReadBusy /\ label # "embed" /\ label # "candidates"
    BY <1>5, <2>1
  <2>6. Moves(r, label, kind[r], seen[r], v, 0)
    BY <1>3, <2>1, <2>2, <2>3, <2>4, <2>5, GoMoves
  <2> QED
    BY <1>4, <2>1, <2>6, MoveKeepsAllFit
<1>12. CASE FindEntry(r)
  <2>1. cache' = cache /\ kind[r] = "roast"
    BY <1>1, <1>12 DEF FindEntry, ReaderFits
  <2>2. CASE Refuse(r, 404)
    <3>1. Moves(r, "ended", kind[r], seen[r], NoValue, 404)
      BY <1>3, <1>5, <2>2, RefuseMoves
    <3> QED
      BY <1>4, <2>1, <3>1, MoveKeepsAllFit
  <2>3. CASE Go(r, "review", NoValue)
    <3>1. Moves(r, "review", kind[r], seen[r], NoValue, 0)
      BY <1>3, <1>5, <2>1, <2>3, GoMoves
    <3> QED
      BY <1>4, <2>1, <3>1, MoveKeepsAllFit
  <2> QED
    BY <1>12, <2>2, <2>3 DEF FindEntry
<1>13. CASE FindReview(r)
  <2> DEFINE v == [from |-> 0, asOf |-> 0, degraded |-> FALSE]
  <2>1. cache' = cache /\ kind[r] # "recommendations"
    BY <1>1, <1>13 DEF FindReview, ReaderFits
  <2>2. v \in Value /\ v # NoValue
    <3>1. v \in Value
      BY DEF Value
    <3> HIDE DEF v
    <3> QED
      BY <3>1, ValueIsNotNone
  <2>3. Refuse(r, 500) \/ Go(r, "generate", v)
    BY <1>13 DEF FindReview
  <2> HIDE DEF v
  <2>4. CASE Refuse(r, 500)
    <3>1. Moves(r, "ended", kind[r], seen[r], NoValue, 500)
      BY <1>3, <1>5, <2>4, RefuseMoves
    <3> QED
      BY <1>4, <2>1, <3>1, MoveKeepsAllFit
  <2>5. CASE Go(r, "generate", v)
    <3>1. Moves(r, "generate", kind[r], seen[r], v, 0)
      BY <1>3, <1>5, <2>1, <2>2, <2>5, GoMoves
    <3> QED
      BY <1>4, <2>1, <3>1, MoveKeepsAllFit
  <2> QED
    BY <2>3, <2>4, <2>5
<1>14. CASE Generate(r)
  <2>1. /\ cache' = cache /\ value[r] \in Value /\ value[r] # NoValue
        /\ kind[r] = "recommendations" =>
              value[r].from >= seen[r] /\ value[r].from > 0 /\ KnowsLibrary(seen[r], value[r])
    BY <1>1, <1>14, NoValueAssumption DEF Generate, ReaderFits
  <2>2. PICK result \in Answers :
          CASE result = "ok" /\ kind[r] # "roast" -> Go(r, "set", value[r])
            [] result = "ok" /\ kind[r] = "roast" -> Answer(r, 200, value[r])
            [] result # "ok" /\ kind[r] = "search" ->
                   Go(r, "set", [value[r] EXCEPT !.degraded = TRUE])
            [] OTHER -> Refuse(r, HttpAnswer(result))
    BY <1>14 DEF Generate
  <2>3. CASE result = "ok" /\ kind[r] # "roast"
    <3>1. Go(r, "set", value[r])
      BY <2>2, <2>3
    <3>2. Moves(r, "set", kind[r], seen[r], value[r], 0)
      BY <1>3, <1>5, <2>1, <2>3, <3>1, GoMoves
    <3> QED
      BY <1>4, <2>1, <3>2, MoveKeepsAllFit
  <2>4. CASE result = "ok" /\ kind[r] = "roast"
    <3>1. Answer(r, 200, value[r])
      BY <2>2, <2>4
    <3>2. Moves(r, "ended", kind[r], seen[r], value[r], 200)
      BY <1>3, <1>5, <2>1, <2>4, <3>1, AnswerMoves
    <3> QED
      BY <1>4, <2>1, <3>2, MoveKeepsAllFit
  <2>5. CASE result # "ok" /\ kind[r] = "search"
    <3> DEFINE v == [value[r] EXCEPT !.degraded = TRUE]
    <3>1. Go(r, "set", v)
      BY <2>2, <2>5
    <3>2. v \in Value /\ v # NoValue
      <4>1. v \in Value
        BY <2>1 DEF Value
      <4> HIDE DEF v
      <4> QED
        BY <4>1, ValueIsNotNone
    <3> HIDE DEF v
    <3>3. Moves(r, "set", kind[r], seen[r], v, 0)
      BY <1>3, <1>5, <2>5, <3>1, <3>2, GoMoves
    <3> QED
      BY <1>4, <2>1, <3>3, MoveKeepsAllFit
  <2>6. CASE result # "ok" /\ kind[r] # "search"
    <3>1. HttpAnswer(result) \in Code \ {200, 400}
      BY <1>5, <2>6, ProviderAnswers
    <3>2. Refuse(r, HttpAnswer(result))
      BY <2>2, <2>6
    <3>3. Moves(r, "ended", kind[r], seen[r], NoValue, HttpAnswer(result))
      BY <1>3, <3>1, <3>2, RefuseMoves
    <3> QED
      BY <1>4, <2>1, <3>3, MoveKeepsAllFit
  <2> QED
    BY <2>3, <2>4, <2>5, <2>6
<1>15. CASE CacheSet(r)
  <2>1. /\ value[r] \in Value /\ kind[r] # "roast"
        /\ kind[r] = "recommendations" =>
              /\ value[r].from >= seen[r] /\ value[r].from > 0
              /\ seen[r] <= latest /\ KnowsLibrary(seen[r], value[r])
    BY <1>1, <1>15 DEF CacheSet, ReaderFits
  <2>2. EntryFits(CacheKey(r), value[r])
    <3>1. CacheKey(r) \in Key /\ CacheKey(r)[1] = kind[r] /\ CacheKey(r)[2] = seen[r]
      BY <1>1, <1>3, <2>1 DEF CacheKey, Key
    <3> QED
      BY <2>1, <3>1 DEF EntryFits
  <2>3. \A q \in DOMAIN cache' : EntryFits(q, cache'[q])
    <3>1. CASE cache' = cache
      BY <1>4, <3>1
    <3>2. CASE cache' = [k \in DOMAIN cache \cup {CacheKey(r)} |->
                           IF k = CacheKey(r) THEN value[r] ELSE cache[k]]
      BY <1>1, <2>2, <3>2
    <3> QED
      BY <1>15, <3>1, <3>2 DEF CacheSet
  <2>4. Moves(r, "ended", kind[r], seen[r], value[r], 200)
    BY <1>3, <1>5, <1>15, <2>1, AnswerMoves DEF CacheSet
  <2> QED
    BY <2>3, <2>4, MoveKeepsAllFit
<1>16. CASE Abort(r)
  <2>1. Moves(r, "aborted", kind[r], seen[r], NoValue, 0)
    BY <1>3, <1>16, GoMoves DEF Abort
  <2> QED
    BY <1>4, <1>16, <2>1, MoveKeepsAllFit DEF Abort
<1> QED
  BY <1>6, <1>7, <1>8, <1>9, <1>10, <1>11, <1>12, <1>13, <1>14, <1>15, <1>16 DEF ReaderStep

LEMMA BeginKeepsAllFit ==
    ASSUME IInv, AllFit, NEW r \in Readers, BeginRead(r), UNCHANGED tasteVars
    PROVE  AllFit'
PROOF
<1>1. /\ ReaderFits(rpc[r], kind[r], seen[r], value[r], code[r])
      /\ latest \in Nat /\ ReadersTyped
      /\ \A q \in DOMAIN cache : EntryFits(q, cache[q])
  BY LatestIsNat DEF AllFit
<1>2. rpc[r] = "idle" /\ cache' = cache /\ reviews' = reviews
  BY DEF BeginRead
<1>3. PICK k \in Kinds :
         /\ kind' = [kind EXCEPT ![r] = k]
         /\ seen' = [seen EXCEPT ![r] = IF k = "recommendations" THEN latest ELSE 0]
         /\ Go(r, IF k = "roast" THEN "entry" ELSE "get", NoValue)
  BY DEF BeginRead
<1> DEFINE s == IF k = "recommendations" THEN latest ELSE 0
           label == IF k = "roast" THEN "entry" ELSE "get"
<1>4. code[r] = 0 /\ code' = [code EXCEPT ![r] = 0]
  <2>1. code[r] = 0
    BY <1>1, <1>2 DEF ReaderFits
  <2> QED
    BY <1>1, <1>3, <2>1 DEF Go, ReadersTyped
<1>5. /\ k \in Kind /\ s \in Nat /\ (k = "recommendations" => s <= latest)
      /\ label \in {"entry", "get"} /\ (label = "entry" => k = "roast")
  BY <1>1, KindAssumption DEF Kind
<1>6. ReaderFits(label, k, s, NoValue, 0)
  <2> HIDE DEF s, label
  <2> QED
    BY <1>5 DEF ReaderFits, ReadBusy, Pipeline
<1>7. Moves(r, label, k, s, NoValue, 0)
  BY <1>2, <1>3, <1>4, <1>6 DEF Moves, Go
<1> HIDE DEF s, label
<1> QED
  BY <1>1, <1>2, <1>7, MoveKeepsAllFit

\* An entry whose TTL is over, and a review that is written or deleted.
LEMMA OthersKeepAllFit ==
    ASSUME AllFit, (\E k \in DOMAIN cache : Expire(k)) \/ WriteReview \/ RemoveReview,
           UNCHANGED tasteVars
    PROVE  AllFit'
PROOF
<1>1. UNCHANGED <<latest, profiles, revision, snapshot, rpc, kind, seen, value, code>>
  <2>1. UNCHANGED <<kind, seen, answerVars>>
    BY DEF Expire, WriteReview, RemoveReview
  <2> QED
    BY <2>1 DEF answerVars, tasteVars, latest, Current, Exists
<1>2. reviews' \in 0 .. MaxReviews
  <2>1. reviews \in 0 .. MaxReviews
    BY DEF AllFit
  <2>2. \/ reviews' = reviews
        \/ reviews < MaxReviews /\ reviews' = reviews + 1
        \/ reviews > 0 /\ reviews' = reviews - 1
    BY DEF Expire, WriteReview, RemoveReview
  <2> QED
    BY <2>1, <2>2, ReviewsAssumption
<1>3. \A q \in DOMAIN cache' : q \in DOMAIN cache /\ cache'[q] = cache[q]
  BY DEF Expire, WriteReview, RemoveReview
<1>4. \A q \in DOMAIN cache' : EntryFits(q, cache'[q])
  BY <1>3 DEF AllFit
<1>5. ASSUME NEW q \in DOMAIN cache'
      PROVE  EntryFits(q, cache[q])'
  BY <1>1, <1>4 DEF EntryFits, KnowsLibrary, Exists
<1>6. ASSUME NEW r \in Readers
      PROVE  ReaderFits(rpc[r], kind[r], seen[r], value[r], code[r])'
  BY <1>1 DEF AllFit, ReaderFits, KnowsLibrary, Exists
<1> QED
  BY <1>1, <1>2, <1>5, <1>6 DEF AllFit, ReadersTyped, BasisIsPast, Exists

\* What every request for an AI read, every stored list and every generated profile
\* agree on, whatever the requests do at once: the invariant of app/core/cache.py
\* and of the reads of app/api/routes/ai.py.
THEOREM ReadsInvariance == ReadsSpec => []ReadsInv
PROOF
<1>1. ReadsInit => IInv /\ AllFit
  <2> SUFFICES ASSUME ReadsInit
               PROVE  IInv /\ AllFit
    OBVIOUS
  <2>1. IInv
    BY LimitAssumption DEF ReadsInit, Init, IInv, TypeOK, VersionsDense, NewestIsCurrent,
                           PreviousExists, Exists, Current
  <2>2. BasisIsPast /\ reviews \in 0 .. MaxReviews
    BY ReviewsAssumption DEF ReadsInit, Init, BasisIsPast, Exists
  <2>3. ReadersTyped
    BY DEF ReadsInit, ReadersTyped
  <2>4. \A r \in Readers : ReaderFits(rpc[r], kind[r], seen[r], value[r], code[r])
    <3>1. latest \in Nat
      BY <2>1, LatestIsNat
    <3> QED
      BY <3>1 DEF ReadsInit, ReaderFits
  <2>5. \A k \in DOMAIN cache : EntryFits(k, cache[k])
    BY DEF ReadsInit
  <2> QED
    BY <2>1, <2>2, <2>3, <2>4, <2>5 DEF AllFit
<1>2. IInv /\ AllFit /\ [ReadsNext]_vars => (IInv /\ AllFit)'
  <2> SUFFICES ASSUME IInv, AllFit, [ReadsNext]_vars
               PROVE  IInv' /\ AllFit'
    OBVIOUS
  <2>1. [Next]_tasteVars
    BY DEF ReadsNext, vars
  <2>2. IInv'
    BY <2>1, TasteStep DEF AllFit
  <2>3. CASE UNCHANGED readVars
    BY <2>1, <2>2, <2>3, TasteKeepsAllFit
  <2>4. CASE UNCHANGED tasteVars /\ \E r \in Readers :
                BeginRead(r) \/ (ReaderStep(r) /\ UNCHANGED <<reviews, kind, seen>>)
    BY <2>2, <2>4, BeginKeepsAllFit, ReaderStepKeepsAllFit
  <2>5. CASE /\ UNCHANGED tasteVars
             /\ (\E k \in DOMAIN cache : Expire(k)) \/ WriteReview \/ RemoveReview
    BY <2>2, <2>5, OthersKeepAllFit
  <2>6. UNCHANGED vars => UNCHANGED readVars
    BY DEF vars
  <2> QED
    BY <2>2, <2>3, <2>4, <2>5, <2>6 DEF ReadsNext
<1>3. AllFit => ReadsInv
  BY AllFitIsReadsInv
<1> QED
  BY <1>1, <1>2, <1>3, PTL DEF ReadsSpec

\* No one who adds a manga and then generates a profile is recommended that manga,
\* though the lists are cached and other requests make and store them meanwhile.
THEOREM PicksKnow == ReadsSpec => []PicksKnowTheProfilesLibrary
PROOF
<1>1. ReadsInv => PicksKnowTheProfilesLibrary
  BY DEF ReadsInv
<1> QED
  BY <1>1, ReadsInvariance, PTL

-----------------------------------------------------------------------------
\* Whatever readers, the cache and reviews do, the generations beside them are those
\* of TasteProfiles: an AI read changes nothing of the table of profiles
\* (app/services/ai/taste_profile.py is the only writer).
THEOREM ReadersOnlyRead == ReadsSpec => Spec
PROOF
<1>1. ReadsInit => Init
  BY DEF ReadsInit
<1>2. [ReadsNext]_vars => [Next]_tasteVars
  BY DEF ReadsNext, vars
<1> QED
  BY <1>1, <1>2, PTL DEF ReadsSpec, Spec

\* With readers beside the generations the table is the append-only history still,
\* its versions dense and the newest one current.
THEOREM ReadsRefinement == ReadsSpec => HistorySpec /\ []IInv
PROOF
<1> QED
  BY ReadersOnlyRead, Refinement, Invariance, PTL

=============================================================================
