# Manga tracker: a verification development

TLA+ models of the manga tracker backend (`src/app`), the TLC runs that check
them on small instances, and theorems about them that TLAPS proves for every
value of the constants. Paths below are relative to `src/`.

## The system

A FastAPI service over PostgreSQL (SQLAlchemy, async), with Redis as a cache,
MyAnimeList (MAL) as the source of the user's list, Jikan for community reviews
and Gemini for text and embeddings. Requests, and the background tasks they
schedule, are coroutines of one event loop, each with a database session of its
own; several processes may serve at once. There is no lock between them but the
database's and one `asyncio.Lock` in the Jikan client. So almost everything that
is hard here is of one kind: **something is read, the code awaits, and writes
later what it made of it**.

| component | state | operations | talks to |
|---|---|---|---|
| Library and activity log (`api/routes/library.py`) | `library_entries`, `reading_activities` | POST, PATCH, DELETE | database |
| MAL sync (`services/mal/sync.py`, `client.py`) | one session per run: flushed, uncommitted rows | `sync_user`: token, list, upserts, outcome | MAL, the library's rows, the account's row |
| MAL account (`models/mal_account.py`, `api/routes/sync.py`) | tokens, outcome of the last sync | connect, refresh, record, status | MAL's OAuth server |
| Taste profiles (`services/ai/taste_profile.py`) | `taste_profiles`: versions and one current flag | `generate_new_version`, `get_current` | library, Gemini |
| Cached AI reads (`core/cache.py`, `api/routes/ai.py`) | Redis keys with a TTL | recommendations, habits, search | profiles, library, Gemini, Redis |
| Embedding backfill (`services/ai/manga_index.py`) | `manga.embedding`, its model | after every sync | Gemini |
| Digest backfill (`services/ai/community_reviews.py`) | `manga.community_review_digest` and its stamp | after every sync, 15 at a time | Jikan, Gemini |
| Roast (`services/ai/roast.py`) | none | one roast of one manga, not cached | library, reviews, Gemini |
| Provider errors and answers (`services/llm`, `services/jikan`, `main.py`) | none | translate what a call ends in; answer what nobody catches | SDK, HTTP client |
| Jikan throttle (`services/jikan/client.py`, `services/factory.py`) | lock, time of the last request | `_throttle` | Jikan |
| Reviews (`api/routes/reviews.py`, `services/ai/habit_analysis.py`) | `reviews`: body and analysis | create, edit, analyze, delete, background analysis | Gemini |
| Accounts and tokens of the API (`api/routes/auth.py`, `core/security.py`, `api/deps.py`) | `users`; the tokens are with the clients | register, login, refresh, the check of every request | database |

What makes each of them correct:

- *Library and log*: the log never tells another story than the table. Whatever
  two writers do at once, the last report of a field since an entry was opened
  is the value that the table has, and every commit reports each tracked column
  it changes.
- *Sync*: a run ends, whatever it meets; a run cut off
  half-way keeps only rows with their activities; failures are on record.
- *Account*: the stored tokens are one pair; a token that was spent is replaced, and
  no run puts an older pair back;
  the tokens are those of the named user.
- *Taste profiles*: versions 1, 2, 3, ... without gap or repeat, the newest one
  current, newer versions describing newer libraries.
- *Cached reads*: nobody is served picks of an older profile than the one that
  was current when they asked, nor picks among what the library of that profile
  had; Redis may do what it likes.
- *Accounts*: an email belongs to whoever registered it first; what anybody does
  with an account goes back to its owner; an account that is switched off comes to
  rest.
- *Backfills*: what one pipeline found another one does not take back; every
  manga has its turn; a failure of the enrichment is not one of the sync.
- *Throttle*: requests are an interval apart for any number of callers, each of
  whom gets its turn.
- *Reviews*: an analysis is of the body beside it, and a body without its own
  gets one.

## The modules

```
ReadingActivity            what a write is logged as (operators only)
  ReadingLedger            abstract: library and log change together
    LibrarySync            requests and sync runs; implements ReadingLedger
      MCLibrarySync        small instances
ProfileHistory             abstract: an append-only history
TasteProfiles              generations; implements ProfileHistory
ProviderErrors             what a call ends in, and is answered with (operators only)
  CachedReads              readers, Redis, reviews; composed with TasteProfiles
    MCCachedReads          symmetry
  Enrichment               sync, embeddings, digests as pipelines
MalAccount                 tokens and outcomes
AccountBook                abstract: who owns an account and who may work on it
Accounts                   registrations, tokens, requests; implements AccountBook
Reviews                    one review and its analyses
JikanThrottle              callers, clients, the lock, time
```

Each `*_proofs` module holds the theorems of the module it is named after;
`CachedReads_proofs` builds on `TasteProfiles_proofs`, and `LibrarySync_proofs` has
those of `ReadingLedger`, which it needs, too.

**Steps.** A step of a model ends where the code awaits something whose result
another process can change: a statement of the database, a flush, a commit, a
call of MAL, Jikan, Gemini or Redis. What lies between two awaits is one step,
as the event loop runs it.

**The database** is PostgreSQL at READ COMMITTED, as `db/session.py` uses it
(`autoflush=False`, `expire_on_commit=False`). The models rest on these facts of
PostgreSQL and SQLAlchemy, which are not in the repository:

- a SELECT sees what is committed when it starts; a flushed row stays locked and
  unseen until its transaction ends; an INSERT waits for an uncommitted one with
  the same unique key; a deadlock is found and one of its transactions aborted;
- the UPDATE of a loaded object has only the columns whose value *differs from
  the loaded one* (`Dirty`, `Updated`, `Write`, `Patched`). This rule decides
  many of the properties: it is why a concurrent edit of other columns survives
  and why its log stays true, and why clearing what was not loaded clears
  nothing;
- an UPDATE that finds no row raises, a DELETE that finds none does not; an
  exception inside an explicit `flush()` leaves a session whose next `commit()`
  raises, so that `sync_user`'s `finally` clause raises in turn;
- `now()` is the begin of the transaction.

Other external facts: MAL spends a refresh token when it is used (what the code
prepares for by storing the new one); google-genai raises `APIError` for the
server's answers and lets its HTTP client's exceptions through; FastAPI resolves
a sync dependency in a thread and drops the background tasks of a response that
is an exception; `lru_cache` calls its function without a lock and returns to
each caller what its own call returned; `asyncio.Lock` is first come, first
served. In PROJECT.json these definitions are marked external.

**`StatusIsEnum`.** `status` is declared `Mapped[ReadingStatus]` over
`String(20)`, and the code calls `.value` on loaded rows. With that column type
SQLAlchemy loads a plain `str`, which has no `.value`. Both readings are
modelled: TRUE is what the annotations and all calls assume, FALSE is what the
column yields. `IInv` and `LogAgrees` are checked under both (`sync_requests` and
`two_syncs`), and all theorems about `LibrarySync` hold for both; where a status is
an enum more runs get to the end, so that more of them meet. That the calls fail
where it is a `str`, and a changed status is not logged, is a finding
(`status_is_str`), and nothing is claimed of the log entry for the case in which
they would not.

### LibrarySync

Processes: `Requests` (`Load`, then `AddEntry`, `PatchEntry`, `PatchAborts` or
`RemoveEntry`) and `Syncs`. A sync walks `token -> (refresh) -> list -> manga ->
entry -> list ... -> success | error -> synced | failed`, or ends `broken` when
nothing could be committed. `wip[s]`, `fresh[s]` and `acts[s]` are what run `s`
has flushed; `account` is the lock on the account's row. `CommitSync` is the
`finally` clause, which also runs after an exception (`ListError`, `EntryError`).
`DuplicateManga`, `EntryGone` and `AbortDeadlock` are the failed flushes.
`touch` says whether an untracked column (or a manga column) changes as well,
which decides whether a row is written and locked at all.

### MalAccount

The same row seen from its tokens: `BeginConnect`/`CommitConnect`, and a run's
`RefreshAtMal` (MAL spends the token), `FlushTokens`, `CommitRun`. A token half
is named by the pair it came with: who it belongs to and which grant or run it was
issued to. A refresh that gets no pair is one of two things, which the code cannot
tell apart: MAL has refused it or was not reached (`RefreshRefused`), or it has
spent the token and the answer was lost, late or no JSON (`RefreshLost`). `used` is
the token that each run has spent.

A connect stores whatever pair it is sent: one of those that `scripts/mal_auth.py`
has printed (`Grants` times, for each user), which may be the pair that is stored,
one that was replaced long ago, or the same in both connects. `resent` remembers
the spent pairs that connects have brought back.

### TasteProfiles

`ReadSnapshot`, `ReadPrevious`, `Analyze`, `Retire` (the UPDATE, which locks the
previous row), `PublishVersion` or `LoseRace` (the unique constraint). `revision`
counts the changes of the library, so that a profile's `basis` says which library
it was made from.

### CachedReads

The generations of TasteProfiles go on while readers make their requests.
`BeginRead` is the handler up to the lookup, `CacheHit` and `CacheMiss` the
lookup, `CacheSet` the store, which may fail. In between, each kind has its own
pipeline: `ReadProfile`, `FetchCandidates`, `Generate` for recommendations,
`ReadLibrary`, `Generate` for habits, `EmbedQuery`, `FetchCandidates`, `Generate`
for searches, `FindEntry`, `FindReview`, `Generate` for a roast, which nobody
caches. `Expire` is the TTL. Of a value the model keeps what it was made from
(`from`), the revision of the library whose manga were left out (`asOf`), and
whether its explanations are missing.

`code` is the status code of the answer. What the provider's calls end in goes
through `GeminiResult` or `EmbedResult` and from there through `HttpAnswer`, the
exception handlers of `main.py`, so that "a request fails" is never a free choice
of the model: a 429 comes from the server's 429, a 500 from what no handler knows.
`WriteReview` and `RemoveReview` are the reviews of the roasted manga, of which a
user may have several.

### Accounts

A token is signed and stored nowhere. What the service knows of one is its type,
subject and expiry (`Create`, `Decodes`) and, an await later, the row of its
subject. So `held`, the tokens of each client, is the state of the clients, not of
the service, and a refresh ends nothing. `Register`, `Insert` or `InsertFails`,
`Registered` are the register handler between its awaits (SELECT; commit; refresh
of the row and pair of tokens); `Login` is one step; `PresentRefresh`, `Renew` and
`PresentAccess`, `Authorize`, `Serve` are a request before and after it has waited
for the row. `Fail` is a failure at any await: what was committed stays. Outside
the repository, and marked so, are `Share` (a client hands an ACCESS token on, to
a tool or another device), `Switch` (nothing in `src/` writes `is_active` of a row
that exists, though every check reads it) and `Tick`. That tokens cannot be made up and
that a password is known to its owner only is assumed.

`Accounts` implements `AccountBook`, which has no tokens, no clock and no races:
an email is claimed once (`Claim`), whoever may work on an account may let others
in (`LetIn`), and is admitted to an active account only (`Admit`). The mapping
reads the owner of an email off the table and the guests of an account off the
tokens that are about (`owner`, `disabled`, `guests`, `admitted`).

### Enrichment

A pipeline is `Sync`, `ListUnembedded`, `EmbedBatch`..., `ListUnstamped`,
`StampManga` or `SkipManga`..., and may be asked for again and again. The lists
are read once, which is what makes overlapping pipelines work on stale copies.
Services fail and the process restarts until `Settle`, after which `calm` is TRUE:
what must happen eventually is asked of the time after the last failure, from
whatever state the failures have left behind.
Which exceptions end the loop is computed from `ProviderErrors`: the outcomes of
a call are pushed through `GeminiResult` and `JikanResult`.

### Reviews

One review. `Load` reads it, `CommitPatch` writes the dirty columns, `Respond`
reads it again (the 404 or 500 of a review that is gone drops the scheduled task), `BeginAnalysis` and
`CommitAnalysis` are the background task or the request that analyzes now. An
analysis is the body it was made from. `overlapped` and `broken` only remember
that two requests have met and that something has failed, and `overtaken` that the
analysis there is was stored after its body had been replaced, so that one run can
say what holds of behaviours without the one or without the others.

### JikanThrottle

`RequestAtOnce`, `Sleep`, `Wake` are `_throttle`; `GetClient` and `Build` are the
cached factory. `Tick` is time. An observer opens a window whenever it likes and
counts, which states "n requests take n - 1 intervals" as an invariant.

## What is checked

Runs that pass:

| run | instance | checks |
|---|---|---|
| `sync_requests` | 2 manga, 2 requests, 1 sync, all patches and items | the inductive invariant, `LogAgrees`, implementation of the ledger, `EditsSurvive` |
| `two_syncs` | 1 manga, 2 syncs, 1 request, statuses are `str` | the same invariants, and that every run ends, with deadlocks, duplicates and runs cut off in the middle |
| `cached_reads` | 2 generations, 1 change of the library, 2 readers, 4 kinds of reads, 2 reviews of a manga, every outcome of a call | versions, the current flag, implementation of the history; no picks of an older profile, none of what the profile's library had |
| `accounts` | 2 clients, 1 email, access tokens live 1 tick, refresh tokens 2, time ends after 3 | one account per email, tokens that fit, implementation of the book; a disabled account comes to rest |
| `mal_account` | 2 connects, 2 runs, 2 MAL users with 1 grant each, sent any number of times | the pair stays whole; spent tokens are replaced unless the new pair was lost or the old one sent again (`AccountInv`); no run puts a replaced pair back (`PairsMoveOn`) |
| `enrichment` | 3 manga of which 1 is always refused, 2 pipelines, 2 embedding models, batches of 2, failures, restarts | stamps and digests; every manga is embedded and has its turn |
| `reviews` | 3 requests with their analyses, overlapping and failing | the analysis is of the body (`SerialInv`); a body without its own has one on its way (`AnalysisOnItsWay`), and gets it (`BodyGetsAnalyzed`) |
| `throttle` | 3 callers, interval 2, window 3 | the pacing; each call is sent |

Why the bounds are enough: races here are between *two* writers of a row, and
what a third one adds is a second round of the same race; two generations beside
two readers, or two requests beside a sync, give every pair of positions in such
a round. Two syncs meet on one manga and the account, which they can lock in
opposite orders; what a run does over two manga, half-walked lists included, is
in `sync_requests`, and the invariants of both runs are proved for any number of
processes and manga. Three manga with batches of two make a second batch. Three
tracked columns are all kept, and every patch, list item and starting row that
tells two branches of the code apart is in `MCPatches`, `MCItems` and
`MCNewEntries`; `MCTouches` has rows that are written though no tracked column
changes, and rows that are not written at all. Each process runs once (what it
does a second time it does from a state that another process can make);
one grant of each of two MAL users is enough for two connects to send the pair that is
stored, the other user's, and one that a run has spent meanwhile;
pipelines, throttled callers and observers run without end. Two clients and one email race for it, and the loser still
has requests to make with what the winner hands it; three ticks see an access
token expire, its renewal, and the refresh token of the first pair expire; the
proofs have any number of each. One change of the library before, between or
after two generations gives every order of profiles, lists and libraries. `Window`
and `Interval` count ticks; the proof has them arbitrary. Readers and generations are
symmetric in `cached_reads`, which checks safety only. `CHECK_DEADLOCK` is on
everywhere: where everything may come to rest, an action (`Terminated`, `Rest`)
says when.

Runs that end in a violation, each a place where the code does something else
than its own text says:

| run | the text | the code |
|---|---|---|
| `status_is_str` | changes are logged | `.value` of a `str` raises, and the run ends |
| `tokens_belong` | the row links one user with the tokens on their behalf | a refresh that began before a reconnect writes over its tokens |
| `backlog_stuck` | the backlog gets picked up | always refused manga fill every batch |
| `roast_fails` | a roast of a manga in your library, personalized to your review (`README.md:340-341`) | two reviews of one manga make the query for the one review raise: every roast of it is a 500 |

Seen while modelling, without a run. Each follows from one definition or line, so
that a model checker would add nothing:

- `build_library_snapshot` (`services/ai/context.py:44`) calls `.value` too: with a
  `str` no profile of a library that is not empty can be generated
  (`TasteProfiles!SnapshotRaises`), though `README.md:330` promises one.
- The library is read before the previous profile (`taste_profile.py:69`,
  `ReadSnapshot` before `ReadPrevious`): a generation that read the older library
  can publish the newer version, though `models/taste_profile.py:26` calls the
  current one "the latest snapshot".
- `get_or_compute` has no lock (`core/cache.py:55`, `CacheMiss`): two searches that
  come in at once both compute, though `api/routes/ai.py:141` says that
  "near-simultaneous searches for the same phrase skip both" calls.
- A token refresh that fails is outside the `try` of `sync_user`
  (`services/mal/sync.py:39`, `MalAccount!RefreshRefused`, `RefreshLost`), and a lost session
  cannot commit (`LoseSession`): the status route shows nothing of such a run,
  though `api/routes/sync.py:109` refers to it "for progress".
- `POST /sync/mal/connect` stores what it is sent (`api/routes/sync.py:56`,
  `MalAccount!BeginConnect`): a body that is sent again after a run has refreshed
  brings back a pair that MAL takes no more. And a refresh whose answer is lost
  (`mal/client.py:71`, `RefreshLost`) has spent the stored token. In both cases the
  account is cut off until the user grants the access anew. `AccountInv` says that
  these, and a run that dies or loses its session, are the only ways.
- Picks are cached for the whole TTL: a manga that is added after the profile was
  made may be among them (`recommendations.py:90`), though line 118 says that none is
  in the library "yet". `KnowsLibrary` is what does hold of cached picks.
- `POST /sync/mal/run-now` calls the embedding backfill outside any `try`
  (`api/routes/sync.py:129`, `Enrichment!EmbedFails`): an error there fails the
  request after the sync was committed, though `README.md:325` calls it "best-effort
  enrichment".
- `_generate` translates `APIError` only (`llm/gemini_provider.py:158`,
  `ProviderErrors!GeminiResult`): a dropped connection passes as it is and ends the
  loop over the digests, though `llm/exceptions.py:4` says that only its own
  exceptions are caught, and line 25 counts a "connection drop" among them.
- `ReadingActivity.created_at` is `now()`, the begin of the transaction
  (`models/activity.py:53`, `LibrarySync!BeginTransaction`), and a sync's
  transaction is long: `services/ai/context.py:125` announces the "most recent
  events, newest first" and may list an overridden change first.
- Two edits of a review schedule two analyses, and the one that ends last is kept
  (`habit_analysis.py:102`, `Reviews!CommitAnalysis`): what `schemas/review.py:25`
  calls an output "describing a single review" may describe a body that is gone.
  `AnalysisOnItsWay` says that this (`overtaken`) and failures are the only ways.
- `models/library.py:56` says that `synced_with_mal_at` "lets the sync service detect
  local edits that still need to be pushed upstream"; a sync writes it
  (`services/mal/sync.py:202`) and nothing reads it, so a sync takes back whatever MAL does not know of. `EditsSurvive` is
  what does hold of edits.
- The outcome of a run is two columns (`services/mal/sync.py:60`), of which only the
  changed ones are written: next to another run, "success" may keep the other's
  error text.
- `expires_in` is counted from the moment the pair reaches the API
  (`api/routes/sync.py:50`), and a 401 of the list is not answered with a refresh: a
  pair that is sent late is believed good after it has expired.
- With no candidate in the catalog the answer is "sync more manga first"
  (`recommendations.py:77`), and it is cached like any other: whoever does so is told
  the same again until the TTL is over or a new profile made
  (`CachedReads!FetchCandidates` goes to "set" without a candidate).
- `profile.embedding_model` is written and never read: after a change of the model,
  a profile is compared with a catalog of other vectors (`recommendations.py:91`)
  until the user generates a new one.
- Entries and activities with equal sort keys have no fixed order
  (`services/ai/context.py:38`), though `README.md:157` says "deterministic text —
  fixed ordering"; the list of low ratings is sorted from the best and cut at 60
  (line 51), so that it loses the lowest ones, and favourites are not cut, though
  line 24 says that hard caps keep the extremes.
- A search for 31 to 50 results (`schemas/search.py:15`) returns 30 at most
  (`services/ai/search.py:44`), and one that is found in the cache echoes the words of
  whoever asked first, since the key is the normalized query.
- A gap of 0.7 s (`jikan/client.py:33`) allows 86 requests a minute, though line
  14 says that it keeps the "~60 req/min" of Jikan. `Pace` is what it does keep.
- `lru_cache` calls `get_jikan_client` without a lock (`services/factory.py:46`,
  `JikanThrottle!Build`): two first calls build two clients, which pace only their
  own callers.
- `DELETE /library/{entry_id}` logs nothing (`api/routes/library.py:141`,
  `RemoveEntry`), though `README.md:317` says that "changes are logged".
- `README.md:321` says that `POST /reviews/{id}/analyze` "kicks off background"
  analysis; the handler (`api/routes/reviews.py:122`) runs it before it answers.

**Fairness.** Weak fairness of the steps of a process that has begun, and of the
beginning of one only for the pipelines of `Enrichment`, where the property is
about a user who keeps syncing. It is what the code provides: every await ends,
since Gemini's calls time out after 180 s (`gemini_provider.py:84`), the HTTP
clients' after 30 s (`services/factory.py`), and the database breaks deadlocks;
the event loop resumes what is ready. In `Accounts` it is the request that has
passed its first await (`RequestStep`); that clients come at all is not assumed.
Crashes and failures of the services are
never fair. In `JikanThrottle` time itself is weakly fair. Since the code has no
retry that could promise anything else, `BodyGetsAnalyzed` excepts behaviours
in which something has failed, and `Enrichment` assumes that failures end some
day (`WF_vars(Settle)`). `BacklogDrains` assumes in addition that fewer manga are
always refused than a batch holds, without which it is false (`backlog_stuck`).

**Mutants.** For each property of a passing run there is a mutated definition
(named beside the one it mutates: `SilentScore`, `NeverTaken`, `UserKey`,
`InsertAnyway`, `WholeRow`, `BeginIfNone`, ...)
that makes TLC find the property violated, under the bounds of that run.

## What is proved

All theorems hold for every value of the constants under the named assumptions
of the modules, which say no more than that the sets of values are disjoint where
the code tells them apart and that the bounds are natural numbers.

- `LibrarySync_proofs`: `LedgerAgrees` (`LedgerSpec => []LogAgrees`), for the ledger
  alone. `LogAgrees` is inductive with the types: a batch that reports a field
  reports its new value, and one that does not report it leaves it alone or opens
  the entry. For the system: `Invariance` (`Spec => []IInv`), `TypeCorrect`,
  `Refinement` (`Spec => LedgerSpec`) and with `LedgerAgrees` `Agreement`
  (`Spec => []LogAgrees`). `LogAgrees` says nothing of uncommitted rows, so it is
  not inductive for the detailed system. `IInv` adds what a commit needs:
  `ExclusiveRows` (the row locks work), `PendingAccounted` (each flushed row
  follows, with its flushed activities, from the row that is committed *now*) and
  `JobsFit` (a process has what it read). `PendingAccounted` survives the
  requests' commits because they wait for the lock.
- `LibrarySync_proofs`, steps: `EditsAreKept` is the rule of the dirty columns,
  `PatchWritesOwn` and `ItemWritesOwn` for every patch, item and row in between.
- `TasteProfiles_proofs`: `Invariance` (dense, unique versions, newest current) and
  `Refinement` (`Spec => HistorySpec`). The key step is `PublishVersion`: that no
  one has taken the next version implies that the row found current is the newest
  still, which density gives.
- `CachedReads_proofs`: `ReadsInvariance` (`ReadsSpec => []ReadsInv`) and with it
  `PicksKnow` (`ReadsSpec => []PicksKnowTheProfilesLibrary`). What a reader is served
  says nothing of what others compute and store meanwhile, so `ReadsInv` adds what
  is in hand (`InHandFits`), what is stored (`StoredFits`) and that lists and
  profiles are made from libraries of the past (`BasisIsPast`). The proof has it
  reader by reader and key by key (`AllFit`). Of the generations it needs
  `TasteStep`: the latest version never falls, published rows stay as they are, a
  new row has a new version, which is why a stored list goes on knowing the library
  of the version in its key.
  `ReadersOnlyRead` is the composition: `ReadsSpec => Spec`, so that what is proved of
  the generations holds with readers beside them (`ReadsRefinement`).
- `Accounts_proofs`: `Invariance` (`Spec => []IInv`) and `Refinement`
  (`Spec => BookSpec`). `RequestsFit` is what a request may do after its await
  because of what was checked before it; `TokensFit` says that what others have of
  an account its owner has, too, so that nothing is ever renewed that was handed
  on. In the refinement only `Insert` claims, `Authorize` admits and `Share` lets
  in; issuing, presenting and expiry of tokens stutter.
- `MalAccount_proofs`: `PairStaysWhole`. `LoadedWhole` is the strengthening: what a
  process loaded was whole, and so both halves differ from it or neither, whichever
  of the dirty columns it writes. `AccountStaysUsable` says when an account is cut
  off: a stored token that MAL has spent is about to be replaced by the run that
  spent it, or that run has died, lost its session or never got the answer, or a
  connect has sent the old pair again. A run that commits has either spent nothing
  or stores its own new pair, which needs that it still has its lock (`LockHeld`);
  and that what it stores is not spent itself needs `PairsAreNew`: the pair of a run
  is nowhere before that run commits it. `PairsNeverReturn` follows: of a stale row,
  a run stores only what it has obtained itself. That a connect may bring a spent
  pair back is part of the statement, since nothing in the route prevents it.
- `Enrichment_proofs`: `EnrichmentConsistent` and `DigestsAreKept`, for overlapping
  pipelines with lists that are read once. `ListsWorkedOff` (a stage is over exactly
  when its list is empty) and that whatever is listed, stamped or embedded is in the
  catalog are what makes it inductive. `DigestsKept` rests on the write of only
  those columns that differ from the ones the pipeline loaded.
- `Reviews_proofs`: `SerialAnalyses`. That an analysis is of the body beside it is
  kept only by requests that work on the review as it is (`LoadedCurrent`), which
  needs that they follow one another (`OneAtATime`). `NoneForgotten`, which needs
  neither, is the safety core of `BodyGetsAnalyzed`: until something fails, a body
  without its own analysis has one *of that body* scheduled or running, even where an
  edit has left an old analysis in place (a clear that writes nothing), unless what is
  stored came late. Of fairness the liveness then needs only that what is scheduled
  runs.
- `JikanThrottle_proofs`: `Invariance` and `Pace`. Of the throttle's three lines the
  argument needs that a sleeper holds the lock (`SleepersHoldLock`), that its
  sleep ends no earlier than the interval, and `CountedInWindow`, which adds the
  time since the last request to `Paced`.

Only model-checked: liveness, which rests on fairness (`EveryRunEnds`,
`DisablingTakesHold`, `BacklogDrains`, `NewTitlesSearchable`, `BodyGetsAnalyzed`,
`EveryCallIsSent`). The proof system here reaches neither `ENABLED` and fairness nor
induction over data; no module that is proved about declares a RECURSIVE operator.
Every invariant, action property and refinement of the passing runs is proved.

## What is not modelled

The text of prompts, answers and logs; titles and the other catalog columns;
untracked columns of an entry beyond the fact that a row is written; which manga
a search or a recommendation picks, and which entries, reviews and activities a
prompt is made of (`services/ai/context.py`: sorting and cutting, no state); routes
that only read; `scripts/mal_auth.py`, a helper outside the application; migrations,
configuration and wiring; the hash of a password and the signature of a token,
which are library calls. Status codes are modelled where an outcome of a provider
decides them (`CachedReads`); elsewhere a request is "answered", "refused" or
"aborted". `Retry-After` is left out. A background task is not checked against its
user again: a sync or an analysis that was scheduled goes on after the account was
switched off, so `DisablingTakesHold` is about requests. `config.py`'s values are
constants where a property depends on them.

## Plan

1. (done) Library, log and sync, with the ledger and its proofs, as the
   system's centre.
2. (done) Profiles with history and proofs; cached reads over them.
3. (done) Account, enrichment, provider errors, reviews, throttle; proofs of the
   account's pair and of the pacing.
4. (done) Accounts and API tokens, with the book they implement and its proofs.
5. (done for the AI reads) The answers: `main.py`'s handlers as `HttpAnswer`, and
   the status codes of `CachedReads`; the roast. Left: the codes of the sync routes.
6. The account in `LibrarySync` by composition with `MalAccount`, instead of the
   lock alone.
7. (done) Proofs of `ReadsInv` over the generations of `TasteProfiles`,
   `EnrichmentInv` and `DigestsKept`, `SerialInv`, `AccountInv`, and
   of the action properties.
8. Proofs of the safety cores of the remaining liveness properties: that a run
   that is open always has a step or waits for one that has.
