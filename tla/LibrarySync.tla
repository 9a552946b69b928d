---------------------------- MODULE LibrarySync ----------------------------
(***************************************************************************)
(* The writers of one user's library, each a process that runs once:       *)
(*   - Requests, the handlers of app/api/routes/library.py: POST, PATCH    *)
(*     and DELETE, each of which reads a row, and writes it later;         *)
(*   - Syncs, runs of MALSyncService.sync_user (app/services/mal/sync.py), *)
(*     each of which walks a whole MyAnimeList list in ONE transaction     *)
(*     that it commits at the end, with awaits between its statements.     *)
(* Two syncs run at once when POST /sync/mal/run is called twice.          *)
(*                                                                         *)
(* A step ends where the code awaits a statement whose outcome another     *)
(* transaction can change.  The database is PostgreSQL at READ COMMITTED   *)
(* as SQLAlchemy uses it (app/db/session.py): a SELECT sees the committed  *)
(* rows, a flushed row stays locked and unseen until its transaction ends  *)
(* (wip, fresh, account), an UPDATE sets only the columns whose value      *)
(* differs from the one that was loaded, an UPDATE that finds no row and   *)
(* an INSERT that finds a duplicate raise, and an exception inside a flush *)
(* leaves a session that cannot commit.                                    *)
(*                                                                         *)
(* The columns status and activity_type are declared Mapped[ReadingStatus] *)
(* over String(20).  StatusIsEnum says whether a loaded row's status is a  *)
(* ReadingStatus, as the annotation and the calls of .value assume, or the *)
(* plain str that a String column yields, which has no .value.             *)
(*                                                                         *)
(* Bounds: every process runs once, an item of the list is met once in a   *)
(* run.  A list item is what MyAnimeList says when it is fetched: the      *)
(* remote list needs no variable, as nothing ever writes to it.            *)
(***************************************************************************)
EXTENDS ReadingLedger

CONSTANTS Requests, Syncs,
          NewEntries,   \* the bodies POST /library may be sent
          Patches,      \* the bodies PATCH /library/{entry_id} may be sent
          Items,        \* what the MAL list may say of a manga
          Touches,      \* which untracked data a write changes: see touch below
          StatusIsEnum

ASSUME ProcessAssumption == /\ Requests \cap Syncs = {}
                            /\ Requests \cup Syncs \subseteq RowId
                            /\ NULL \notin Syncs
ASSUME EnumAssumption == StatusIsEnum \in BOOLEAN
ASSUME InputAssumption ==
    /\ NewEntries \subseteq Columns
    /\ Patches \subseteq {p \in Input :
                            /\ p["status"] \in Statuses \cup {NULL, Absent}
                            /\ p["score"] \in Scores \cup {NULL, Absent}
                            /\ p["progress_chapter"] \in Chapters \cup {NULL, Absent}}
    /\ Items \subseteq {i \in Input :
                            /\ i["status"] \in Statuses \cup {Absent}
                            /\ i["score"] \in Scores \cup {Absent}
                            /\ i["progress_chapter"] \in Chapters \cup {Absent}}
    /\ Touches \subseteq SUBSET {"manga", "entry"}

VARIABLES catalog,      \* the manga with a committed row
          clock,        \* transactions begun so far: now() is the begin of one
          pc,           \* where each process is
          at,           \* the now() of each process's transaction
          job,          \* what each process is working on, NULL when nothing
          wip,          \* library rows each sync has flushed and not committed
          fresh,        \* manga rows each sync has flushed and not committed
          acts,         \* activities each sync has flushed and not committed
          done,         \* the items each sync has dealt with
          account       \* the sync that has flushed the mal_accounts row, or NULL

own  == <<wip, fresh, acts, done>>
vars == <<library, log, catalog, clock, pc, at, job, own, account>>

Process == Requests \cup Syncs

\* touch: a write also changes the manga row, or untracked columns of the entry
\* (synced_with_mal_at, the raw item, notes), so that a row is written and
\* locked though no tracked column changes.
Job == [op : {"add", "patch", "remove", "item"}, manga : Manga,
        input : Input, touch : SUBSET {"manga", "entry"},
        loaded : Row \cup {NoRow}, seen : BOOLEAN]

RequestPc == {"idle", "loaded", "answered", "refused", "aborted"}
SyncOpen  == {"token", "refresh", "list", "manga", "entry", "success", "error"}
SyncEnded == {"synced", "failed", "broken"}

TypeOK == /\ library \in [Manga -> Row \cup {NoRow}]
          /\ log \in Seq(Batch)
          /\ catalog \subseteq Manga
          /\ clock \in Nat
          /\ pc \in [Process -> RequestPc \cup SyncOpen \cup SyncEnded]
          /\ at \in [Process -> Nat]
          /\ job \in [Process -> Job \cup {NULL}]
          /\ wip \in [Syncs -> [Manga -> Row \cup {NoRow}]]
          /\ fresh \in [Syncs -> SUBSET Manga]
          /\ acts \in [Syncs -> SUBSET Activity]
          /\ done \in [Syncs -> SUBSET Manga]
          /\ account \in Syncs \cup {NULL}

Clean == [m \in Manga |-> NoRow]

Init == /\ catalog \in SUBSET Manga
        /\ library \in [Manga -> {[id |-> i, val |-> v] : i \in RowId \ Process,
                                                          v \in NewEntries} \cup {NoRow}]
        /\ \A m \in Manga : library[m] # NoRow => m \in catalog
        /\ log = << >>
        /\ clock = 0
        /\ pc = [p \in Process |-> "idle"]
        /\ at = [p \in Process |-> 0]
        /\ job = [p \in Process |-> NULL]
        /\ wip = [s \in Syncs |-> Clean]
        /\ fresh = [s \in Syncs |-> {}]
        /\ acts = [s \in Syncs |-> {}]
        /\ done = [s \in Syncs |-> {}]
        /\ account = NULL

-----------------------------------------------------------------------------
(***************************************************************************)
(* Rows, locks and commits.                                                *)
(***************************************************************************)
Goto(p, label) == pc' = [pc EXCEPT ![p] = label]

\* The first statement of a transaction fixes its now().
BeginTransaction(p) == /\ clock' = clock + 1
                       /\ at' = [at EXCEPT ![p] = clock + 1]

\* A transaction other than p's holds an uncommitted version of m's entry.
EntryLocked(m, p) == \E t \in Syncs \ {p} : wip[t][m] # NoRow

MangaLocked(m, p) == \E t \in Syncs \ {p} : m \in fresh[t]

\* The row that was loaded is still there: it has not been deleted since.
SameRow(m, loaded) == library[m] # NoRow /\ library[m].id = loaded.id

\* The columns of the row whose value differs from the loaded one.
Dirty(loaded, new) == {f \in Tracked : new[f] # loaded.val[f]}

\* UPDATE library_entries SET <dirty columns> on the row's current version.
Updated(row, loaded, new) ==
    [row EXCEPT !.val = [f \in Tracked |-> IF f \in Dirty(loaded, new)
                                           THEN new[f] ELSE row.val[f]]]

\* The activities of a committed transaction: they all carry its now().
CommitActivities(p, as) ==
    log' = IF as = {} THEN log ELSE Append(log, [at |-> at[p], acts |-> as])

\* Mutant of CloseSync: a failing run leaves its session, and its lock, behind.
CloseSyncLeaky(s, label) ==
    /\ Goto(s, label)
    /\ job' = [job EXCEPT ![s] = NULL]
    /\ wip' = [wip EXCEPT ![s] = Clean]
    /\ fresh' = [fresh EXCEPT ![s] = {}]
    /\ acts' = [acts EXCEPT ![s] = {}]
    /\ done' = [done EXCEPT ![s] = {}]
    /\ account' = IF account = s /\ label # "broken" THEN NULL ELSE account

\* The session of a sync is over: its locks and uncommitted rows are gone.
CloseSync(s, label) ==
    /\ Goto(s, label)
    /\ job' = [job EXCEPT ![s] = NULL]
    /\ wip' = [wip EXCEPT ![s] = Clean]
    /\ fresh' = [fresh EXCEPT ![s] = {}]
    /\ acts' = [acts EXCEPT ![s] = {}]
    /\ done' = [done EXCEPT ![s] = {}]
    /\ account' = IF account = s THEN NULL ELSE account

\* Nothing was committed and no status was recorded.
Rollback(s) == /\ CloseSync(s, "broken")
               /\ UNCHANGED <<library, log, catalog, clock, at>>

-----------------------------------------------------------------------------
(***************************************************************************)
(* The request handlers.                                                   *)
(***************************************************************************)
\* The handler's first reads.  404 when there is no such manga or entry.
Load(r) ==
    /\ pc[r] = "idle"
    /\ BeginTransaction(r)
    /\ \E op \in {"add", "patch", "remove"}, m \in Manga :
          \E input \in CASE op = "add"   -> NewEntries
                         [] op = "patch" -> Patches
                         [] OTHER        -> {Nothing},
             touch \in IF op = "patch" THEN Touches ELSE {{}} :
             IF (op = "add" /\ m \in catalog) \/ (op # "add" /\ library[m] # NoRow)
             THEN /\ Goto(r, "loaded")
                  /\ job' = [job EXCEPT ![r] =
                        [op |-> op, manga |-> m, input |-> input, touch |-> touch,
                         loaded |-> library[m], seen |-> TRUE]]
             ELSE Goto(r, "refused") /\ UNCHANGED job
    /\ UNCHANGED <<library, log, catalog, own, account>>

\* The request's transaction ends, in a commit or a rollback.
Answer(r, label) == /\ Goto(r, label)
                    /\ job' = [job EXCEPT ![r] = NULL]
                    /\ UNCHANGED <<catalog, clock, at, own, account>>

\* The UPDATE or DELETE of the loaded row waits for no one.
RowFree(r) == LET m == job[r].manga IN
              SameRow(m, job[r].loaded) => ~EntryLocked(m, r)

\* POST /library.  The INSERT waits for an uncommitted one and answers 409 when
\* there is an entry.
AddEntry(r) ==
    LET m == job[r].manga IN
    /\ pc[r] = "loaded" /\ job[r].op = "add"
    /\ IF library[m] # NoRow
       THEN Answer(r, "refused") /\ UNCHANGED <<library, log>>
       ELSE /\ ~EntryLocked(m, r)
            /\ library' = [library EXCEPT ![m] = [id |-> r, val |-> job[r].input]]
            /\ CommitActivities(r, AddActivities(m, job[r].input))
            /\ Answer(r, "answered")

\* Mutant of Patched: a field that the body does not mention is taken for null.
PatchedWhole(r) == [f \in Tracked |-> IF job[r].input[f] = Absent
                                      THEN NULL ELSE job[r].input[f]]

\* The values PATCH assigns: the body's, and the loaded ones it does not mention.
Patched(r) == [f \in Tracked |-> IF job[r].input[f] = Absent
                                 THEN job[r].loaded.val[f]
                                 ELSE job[r].input[f]]

\* An exception before the write (.value of what is no ReadingStatus), or in it
\* (NOT NULL).
PatchRaises(r) ==
    LET dirty == Dirty(job[r].loaded, Patched(r)) IN
    \/ "status" \in dirty /\ (~StatusIsEnum \/ Patched(r)["status"] = NULL)
    \/ "progress_chapter" \in dirty /\ Patched(r)["progress_chapter"] = NULL

\* There is a column, tracked or not, to write.
PatchWrites(r) == \/ Dirty(job[r].loaded, Patched(r)) # {}
                  \/ "entry" \in job[r].touch

PatchEntry(r) ==
    LET m == job[r].manga
        loaded == job[r].loaded
    IN  /\ pc[r] = "loaded" /\ job[r].op = "patch"
        /\ ~PatchRaises(r)
        /\ PatchWrites(r) => RowFree(r) /\ SameRow(m, loaded)
        /\ library' = IF PatchWrites(r)
                      THEN [library EXCEPT ![m] = Updated(@, loaded, Patched(r))]
                      ELSE library
        /\ CommitActivities(r, ChangeActivities(m, loaded.val, Patched(r)))
        /\ Answer(r, "answered")

\* PATCH answers 500 and writes nothing: it raised, or its UPDATE found no row.
PatchAborts(r) ==
    /\ pc[r] = "loaded" /\ job[r].op = "patch"
    /\ \/ PatchRaises(r)
       \/ PatchWrites(r) /\ ~SameRow(job[r].manga, job[r].loaded)
    /\ Answer(r, "aborted")
    /\ UNCHANGED <<library, log>>

\* DELETE.  Removing a row that is gone already is no error.
RemoveEntry(r) ==
    LET m == job[r].manga IN
    /\ pc[r] = "loaded" /\ job[r].op = "remove"
    /\ RowFree(r)
    /\ library' = IF SameRow(m, job[r].loaded)
                  THEN [library EXCEPT ![m] = NoRow] ELSE library
    /\ Answer(r, "answered")
    /\ UNCHANGED log

-----------------------------------------------------------------------------
(***************************************************************************)
(* A run of the sync.                                                      *)
(***************************************************************************)
\* The session reads the mal_accounts row.
BeginSync(s) == /\ pc[s] = "idle"
                /\ BeginTransaction(s)
                /\ Goto(s, "token")
                /\ UNCHANGED <<library, log, catalog, job, own, account>>

\* _ensure_fresh_token: the stored token is good, or it must be refreshed.
CheckToken(s) == /\ pc[s] = "token"
                 /\ Goto(s, "list") \/ Goto(s, "refresh")
                 /\ UNCHANGED <<library, log, catalog, clock, at, job, own, account>>

\* The new pair is flushed, which locks the account's row until the run ends.
RefreshToken(s) == /\ pc[s] = "refresh"
                   /\ account = NULL
                   /\ account' = s
                   /\ Goto(s, "list")
                   /\ UNCHANGED <<library, log, catalog, clock, at, job, own>>

\* No tokens on file, or the refresh was refused: raised outside the try.
TokenRefused(s) == pc[s] \in {"token", "refresh"} /\ Rollback(s)

\* The next item of the list, and the SELECT of its manga.
FetchItem(s) ==
    /\ pc[s] = "list"
    /\ \E m \in Manga \ done[s], item \in Items, touch \in Touches :
          job' = [job EXCEPT ![s] =
                    [op |-> "item", manga |-> m, input |-> item, touch |-> touch,
                     loaded |-> NoRow, seen |-> m \in catalog]]
    /\ Goto(s, "manga")
    /\ UNCHANGED <<library, log, catalog, clock, at, own, account>>

EndOfList(s) == /\ pc[s] = "list"
                /\ Goto(s, "success")
                /\ UNCHANGED <<library, log, catalog, clock, at, job, own, account>>

\* A page of the list could not be had: caught, recorded, committed, re-raised.
ListError(s) == /\ pc[s] = "list"
                /\ Goto(s, "error")
                /\ UNCHANGED <<library, log, catalog, clock, at, job, own, account>>

MangaWrites(s) == ~job[s].seen \/ "manga" \in job[s].touch

\* The flush of the manga row, and the SELECT of the library entry.
UpsertManga(s) ==
    LET m == job[s].manga IN
    /\ pc[s] = "manga"
    /\ MangaWrites(s) => ~MangaLocked(m, s) /\ (job[s].seen \/ m \notin catalog)
    /\ fresh' = IF MangaWrites(s) THEN [fresh EXCEPT ![s] = @ \cup {m}] ELSE fresh
    /\ job' = [job EXCEPT ![s].loaded = library[m]]
    /\ Goto(s, "entry")
    /\ UNCHANGED <<library, log, catalog, clock, at, wip, acts, done, account>>

\* Another run has inserted the manga since it was looked for.
DuplicateManga(s) == /\ pc[s] = "manga"
                     /\ ~job[s].seen /\ job[s].manga \in catalog
                     /\ Rollback(s)

\* The values of the entry before and after the item is applied to it.
Before(s) == IF job[s].loaded = NoRow THEN Defaults ELSE job[s].loaded.val
After(s)  == Mapped(job[s].input, Before(s))

\* old_status.value of a loaded row whose status is a plain str.
EntryRaises(s) == /\ job[s].loaded # NoRow
                  /\ ~StatusIsEnum
                  /\ After(s)["status"] # Before(s)["status"]

EntryWrites(s) == \/ job[s].loaded = NoRow
                  \/ Before(s) # After(s)
                  \/ "entry" \in job[s].touch

\* What the item makes of the entry: a new row, or a new version of the row.
NextRow(s) == IF job[s].loaded = NoRow
              THEN [id |-> s, val |-> After(s)]
              ELSE Updated(library[job[s].manga], job[s].loaded, After(s))

\* The item done, the sync goes on to the next one.
ItemDone(s) == /\ Goto(s, "list")
               /\ job' = [job EXCEPT ![s] = NULL]
               /\ done' = [done EXCEPT ![s] = @ \cup {job[s].manga}]
               /\ UNCHANGED <<library, log, catalog, clock, at, fresh, account>>

\* _upsert_library_entry from its SELECT on: the INSERT or UPDATE of the entry
\* and the INSERTs of its activities.
WriteEntry(s) ==
    LET m == job[s].manga IN
    /\ pc[s] = "entry"
    /\ ~EntryRaises(s) /\ EntryWrites(s)
    /\ ~EntryLocked(m, s)
    /\ IF job[s].loaded = NoRow THEN library[m] = NoRow ELSE SameRow(m, job[s].loaded)
    /\ wip' = [wip EXCEPT ![s][m] = NextRow(s)]
    /\ acts' = [acts EXCEPT ![s] =
                  @ \cup DetectActivities(m, job[s].loaded = NoRow, Before(s), After(s))]
    /\ ItemDone(s)

\* Nothing differs from what was loaded: no statement is issued.
KeepEntry(s) == /\ pc[s] = "entry"
                /\ ~EntryRaises(s) /\ ~EntryWrites(s)
                /\ ItemDone(s)
                /\ UNCHANGED <<wip, acts>>

\* AttributeError in _detect_activities, before anything of the entry changes.
EntryError(s) == /\ pc[s] = "entry"
                 /\ EntryRaises(s)
                 /\ Goto(s, "error")
                 /\ UNCHANGED <<library, log, catalog, clock, at, job, own, account>>

\* The entry was added (IntegrityError) or removed (StaleDataError) since it
\* was read: the flush fails and takes the whole run with it.
EntryGone(s) ==
    LET m == job[s].manga IN
    /\ pc[s] = "entry"
    /\ ~EntryRaises(s) /\ EntryWrites(s)
    /\ IF job[s].loaded = NoRow THEN library[m] # NoRow ELSE ~SameRow(m, job[s].loaded)
    /\ Rollback(s)

\* Mutant of CommitSync: a run that ends in an error keeps its entries and drops
\* its activities.
CommitSilently(s) ==
    /\ pc[s] \in {"success", "error"}
    /\ account \in {NULL, s}
    /\ library' = [m \in Manga |-> IF wip[s][m] = NoRow THEN library[m] ELSE wip[s][m]]
    /\ catalog' = catalog \cup fresh[s]
    /\ CommitActivities(s, IF pc[s] = "error" THEN {} ELSE acts[s])
    /\ CloseSync(s, IF pc[s] = "success" THEN "synced" ELSE "failed")
    /\ UNCHANGED <<clock, at>>

\* The finally clause: last_synced_at is written, which needs the account's row,
\* and everything the run has flushed is committed, after an error as well.
CommitSync(s) ==
    /\ pc[s] \in {"success", "error"}
    /\ account \in {NULL, s}
    /\ library' = [m \in Manga |-> IF wip[s][m] = NoRow THEN library[m] ELSE wip[s][m]]
    /\ catalog' = catalog \cup fresh[s]
    /\ CommitActivities(s, acts[s])
    /\ CloseSync(s, IF pc[s] = "success" THEN "synced" ELSE "failed")
    /\ UNCHANGED <<clock, at>>

-----------------------------------------------------------------------------
(***************************************************************************)
(* Failures.                                                               *)
(***************************************************************************)
\* The statement s is about to issue needs a row that t has written.
Waits(s, t) ==
    \/ /\ pc[s] \in {"refresh", "success", "error"}
       /\ account = t
    \/ /\ pc[s] = "manga" /\ MangaWrites(s)
       /\ job[s].manga \in fresh[t]
    \/ /\ pc[s] = "entry" /\ ~EntryRaises(s) /\ EntryWrites(s)
       /\ wip[t][job[s].manga] # NoRow

\* PostgreSQL finds syncs that all wait for each other and aborts one of them.
AbortDeadlock(s) ==
    /\ \E S \in SUBSET Syncs :
          s \in S /\ \A q \in S : \E t \in S \ {q} : Waits(q, t)
    /\ Rollback(s)

\* The process or its connection dies.
CrashSync(s) == pc[s] \in SyncOpen /\ Rollback(s)

CrashRequest(r) == /\ pc[r] = "loaded"
                   /\ Answer(r, "aborted")
                   /\ UNCHANGED <<library, log>>

-----------------------------------------------------------------------------
RequestStep(r) == \/ Load(r)
                  \/ AddEntry(r)
                  \/ PatchEntry(r)
                  \/ PatchAborts(r)
                  \/ RemoveEntry(r)

SyncStep(s) == \/ CheckToken(s)
               \/ RefreshToken(s)
               \/ TokenRefused(s)
               \/ FetchItem(s)
               \/ EndOfList(s)
               \/ ListError(s)
               \/ UpsertManga(s)
               \/ DuplicateManga(s)
               \/ WriteEntry(s)
               \/ KeepEntry(s)
               \/ EntryError(s)
               \/ EntryGone(s)
               \/ CommitSync(s)
               \/ AbortDeadlock(s)

\* Every process has run: the system may rest.
Terminated == /\ \A r \in Requests : pc[r] \in {"answered", "refused", "aborted"}
              /\ \A s \in Syncs : pc[s] \in SyncEnded
              /\ UNCHANGED vars

Next == \/ \E r \in Requests : RequestStep(r) \/ CrashRequest(r)
        \/ \E s \in Syncs : BeginSync(s) \/ SyncStep(s) \/ CrashSync(s)
        \/ Terminated

Spec == Init /\ [][Next]_vars

\* The event loop resumes a task whose await is over, and every await ends: the
\* HTTP client times out after 30 seconds, the database breaks deadlocks.
FairSpec == Spec /\ \A s \in Syncs : WF_vars(SyncStep(s))

-----------------------------------------------------------------------------
(***************************************************************************)
(* Properties.                                                             *)
(***************************************************************************)
\* No two runs have an uncommitted version of the same entry.
ExclusiveRows == \A s, t \in Syncs, m \in Manga :
                    wip[s][m] # NoRow /\ wip[t][m] # NoRow => s = t

Pending(s) == [at |-> at[s], acts |-> acts[s]]

\* What a run has flushed and not committed is what it is going to log: each of
\* its rows follows, with its activities, from the row that is committed now,
\* whatever the requests committed since the run began.
PendingAccounted ==
    \A s \in Syncs, m \in Manga :
        /\ wip[s][m] # NoRow =>
              /\ m \in done[s]
              /\ Truthful(Pending(s), m, wip[s][m])
              /\ Complete(Pending(s), m, library[m], wip[s][m])
        /\ \A a \in acts[s] : wip[s][a.manga] # NoRow

\* A process with work in hand has what it needs to finish it: a request the
\* row it loaded, a sync an item that it has not dealt with.
JobsFit ==
    /\ \A r \in Requests : pc[r] = "loaded" =>
          /\ job[r] \in Job
          /\ job[r].op = "add" => job[r].input \in NewEntries
          /\ job[r].op = "patch" => job[r].input \in Patches
          /\ job[r].op \in {"patch", "remove"} => job[r].loaded # NoRow
    /\ \A s \in Syncs : pc[s] \in {"manga", "entry"} =>
          /\ job[s] \in Job
          /\ job[s].input \in Items
          /\ job[s].manga \notin done[s]

\* The strengthening of TypeOK and LogAgrees that every step preserves.
IInv == TypeOK /\ ExclusiveRows /\ PendingAccounted /\ JobsFit

\* The run s applies an item that changes the status of an entry it has found.
ChangesStatus(s) == /\ pc[s] = "entry" /\ pc'[s] \notin {"entry", "broken"}
                    /\ job[s].loaded # NoRow
                    /\ After(s)["status"] # job[s].loaded.val["status"]

\* A status that MyAnimeList has changed is logged once the item was read and
\* its entry was found, unless the run comes to nothing (README.md:189 "emits
\* `ReadingActivity` log entries for detected changes (status changes, ...").
StatusChangeIsLogged ==
    [][\A s \in Syncs : ChangesStatus(s) =>
          After(s)["status"] \in Reports(acts'[s], job[s].manga, "status")]_vars

\* What a PATCH writes into an entry is, column for column, what the body says or
\* the value that is there already.
PatchWritesOwn(r) ==
    LET m == job[r].manga IN
    (/\ pc[r] = "loaded" /\ pc'[r] = "answered"
     /\ job[r].op = "patch" /\ library'[m] # NoRow) =>
        \A f \in Tracked : library'[m].val[f] \in {library[m].val[f], job[r].input[f]}

\* The same of a run of the sync and an item of the list.
ItemWritesOwn(s) ==
    LET m == job[s].manga IN
    (pc[s] = "entry" /\ wip'[s][m] # NoRow /\ library[m] # NoRow) =>
        \A f \in Tracked :
            wip'[s][m].val[f] \in {library[m].val[f], Mapped(job[s].input, library[m].val)[f]}

\* A writer that read the entry before an edit writes over the columns that it has
\* values of its own for, and leaves the others as the edit has made them.
EditsSurvive == [][/\ \A r \in Requests : PatchWritesOwn(r)
                   /\ \A s \in Syncs : ItemWritesOwn(s)]_vars

\* A run that has begun ends, whatever it meets on the way.
EveryRunEnds == \A s \in Syncs : pc[s] \in SyncOpen ~> pc[s] \in SyncEnded

=============================================================================
