----------------------------- MODULE MalAccount -----------------------------
(***************************************************************************)
(* The mal_accounts row of a user: the MyAnimeList name and OAuth tokens,  *)
(* and what the last sync came to.  Its writers:                           *)
(*   - Connects, requests POST /sync/mal/connect, which replace the tokens *)
(*     (app/api/routes/sync.py);                                           *)
(*   - Runs of the sync, which refresh them, and record their outcome when *)
(*     they end (app/services/mal/sync.py: sync_user, _ensure_fresh_token).*)
(* Each reads the row when it begins, and much later sets the columns that *)
(* differ from what it READ (see LibrarySync for SQLAlchemy's rules).  A   *)
(* refreshed pair is flushed, not committed: the run holds the row's lock, *)
(* and loses the pair if it does not come to its commit.                   *)
(*                                                                         *)
(* The walk through the list is one step here; LibrarySync has it.  The    *)
(* OAuth server is external: a refresh spends the refresh token and issues *)
(* a new pair, which may be lost on the way, or it is refused.  Whether a  *)
(* stored token has expired is left open, which stands for every clock.    *)
(*                                                                         *)
(* The body of a connect is what scripts/mal_auth.py has printed when the  *)
(* user granted the access, now or long ago: the same body may be sent     *)
(* again, also after MyAnimeList has spent its refresh token.  That it is  *)
(* sent as it was printed, with the name of the user whose tokens they     *)
(* are, is assumed.                                                        *)
(*                                                                         *)
(* Bounds: every process runs once.  The variable resent only remembers.   *)
(***************************************************************************)
EXTENDS FiniteSets

CONSTANTS Connects, Runs,
          Users,        \* the MyAnimeList accounts one may connect to
          Errors,       \* the texts of exceptions
          Grants,       \* the times a user has run scripts/mal_auth.py
          NULL

Process == Connects \cup Runs

\* A token pair: the MyAnimeList user it is for, and the grant or the run that it
\* was issued to.  A column holds one half of a pair, which is named after the pair.
Granted == [owner : Users, by : Grants]
Pair == [owner : Users, by : Grants \cup Runs]

Columns == {"username", "access", "refresh", "status", "error", "synced"}
Account == [username : Users, access : Pair, refresh : Pair,
            status : {"success", "error", NULL}, error : Errors \cup {NULL},
            synced : Runs \cup {NULL}]

ASSUME ProcessAssumption == (Connects \cup Grants) \cap Runs = {}
ASSUME NullAssumption == NULL \notin Process \cup Users \cup Errors \cup Account \cup Pair

VARIABLES row,          \* the committed row, NULL before the first connect
          pc,
          loaded,       \* the row as each process has it, with what it flushed
          payload,      \* the pair a connect was sent
          flushed,      \* the run that has the row locked, or NULL
          used,         \* the refresh token each run has spent at MyAnimeList, or NULL
          resent        \* the spent pairs that a connect has brought back

mal  == <<used, resent>>
vars == <<row, pc, loaded, payload, flushed, mal>>

Busy  == {"loaded", "refreshed", "walk", "success", "error"}
Ended == {"connected", "refused", "synced", "failed", "unrecorded", "lost", "crashed"}

TypeOK == /\ row \in Account \cup {NULL}
          /\ pc \in [Process -> {"idle"} \cup Busy \cup Ended]
          /\ loaded \in [Process -> Account \cup {NULL}]
          /\ payload \in [Connects -> Granted \cup {NULL}]
          /\ flushed \in Runs \cup {NULL}
          /\ used \in [Runs -> Pair \cup {NULL}]
          /\ resent \subseteq Pair

\* What MyAnimeList takes no more.
Spent == {used[s] : s \in Runs} \ {NULL}

Connected(p) == [username |-> p.owner, access |-> p, refresh |-> p,
                 status |-> NULL, error |-> NULL, synced |-> NULL]

Init == /\ row \in {Connected(p) : p \in Granted} \cup {NULL}
        /\ pc = [p \in Process |-> "idle"]
        /\ loaded = [p \in Process |-> NULL]
        /\ payload = [c \in Connects |-> NULL]
        /\ flushed = NULL
        /\ used = [s \in Runs |-> NULL]
        /\ resent = {}

Goto(p, label) == pc' = [pc EXCEPT ![p] = label]

\* UPDATE mal_accounts SET <what differs from the loaded row>
Write(old, new) == [f \in Columns |-> IF new[f] # old[f] THEN new[f] ELSE row[f]]

RowFree(p) == flushed \in {NULL, p}

-----------------------------------------------------------------------------
\* connect_mal_account reads the row.  The body is stored whatever has become of its
\* pair: the handler asks neither the row nor MyAnimeList.
BeginConnect(c) ==
    /\ pc[c] = "idle"
    /\ \E p \in Granted : payload' = [payload EXCEPT ![c] = p]
    /\ loaded' = [loaded EXCEPT ![c] = row]
    /\ Goto(c, "loaded")
    /\ UNCHANGED <<row, flushed, mal>>

\* What the row is to become.
Linked(c) ==
    [username |-> payload[c].owner, access |-> payload[c], refresh |-> payload[c],
     status |-> NULL, error |-> NULL,
     synced |-> IF loaded[c] = NULL THEN NULL ELSE loaded[c].synced]

\* The INSERT or UPDATE, and the commit.
CommitConnect(c) ==
    /\ pc[c] = "loaded"
    /\ RowFree(c)
    /\ loaded[c] = NULL => row = NULL
    /\ row' = IF loaded[c] = NULL THEN Linked(c) ELSE Write(loaded[c], Linked(c))
    /\ resent' = IF row # NULL /\ row'.refresh = row.refresh
                 THEN resent ELSE resent \cup ({row'.refresh} \cap Spent)
    /\ Goto(c, "connected")
    /\ UNCHANGED <<loaded, payload, flushed, used>>

\* user_id is unique: another connect has inserted the row meanwhile.
ConnectTwice(c) == /\ pc[c] = "loaded"
                   /\ loaded[c] = NULL /\ row # NULL
                   /\ Goto(c, "refused")
                   /\ UNCHANGED <<row, loaded, payload, flushed, mal>>

-----------------------------------------------------------------------------
\* The run's session reads the row; without one there is nothing to sync.
BeginRun(s) == /\ pc[s] = "idle"
               /\ loaded' = [loaded EXCEPT ![s] = row]
               /\ Goto(s, IF row = NULL THEN "refused" ELSE "loaded")
               /\ UNCHANGED <<row, payload, flushed, mal>>

\* _ensure_fresh_token: the stored access token has not expired.
TokenGood(s) == /\ pc[s] = "loaded"
                /\ Goto(s, "walk")
                /\ UNCHANGED <<row, loaded, payload, flushed, mal>>

\* MyAnimeList takes the refresh token of the run s, which it takes once.
Spend(s) == /\ pc[s] = "loaded" /\ s \in Runs
            /\ loaded[s].refresh \notin Spent
            /\ used' = [used EXCEPT ![s] = loaded[s].refresh]
            /\ UNCHANGED <<row, loaded, payload, flushed, resent>>

\* refresh_access_token: the token is spent, and the answer has the new pair.
RefreshAtMal(s) == Spend(s) /\ Goto(s, "refreshed")

\* The token is spent, and the answer does not arrive in time, not at all or not as
\* the JSON it should be: raised outside the try, and the new pair is gone.
RefreshLost(s) == Spend(s) /\ Goto(s, "unrecorded")

\* MyAnimeList refuses, or was not reached: raised outside the try as well.
RefreshRefused(s) == /\ pc[s] = "loaded" /\ s \in Runs
                     /\ Goto(s, "unrecorded")
                     /\ UNCHANGED <<row, loaded, payload, flushed, mal>>

\* Mutant of Refreshed: the new refresh token is not kept.
AccessOnly(s) ==
    [loaded[s] EXCEPT !.access = [owner |-> loaded[s].refresh.owner, by |-> s]]

\* The pair that MyAnimeList issued in the place of the spent one.
Refreshed(s) ==
    LET new == [owner |-> loaded[s].refresh.owner, by |-> s] IN
    [loaded[s] EXCEPT !.access = new, !.refresh = new]

\* The pair is flushed, which locks the row until the run ends.
FlushTokens(s) == /\ pc[s] = "refreshed"
                  /\ RowFree(s)
                  /\ flushed' = s
                  /\ Goto(s, "walk")
                  /\ UNCHANGED <<row, loaded, payload, mal>>

\* The list was walked to its end, or an exception was caught on the way.
WalkList(s) == /\ pc[s] = "walk"
               /\ Goto(s, "success") \/ Goto(s, "error")
               /\ UNCHANGED <<row, loaded, payload, flushed, mal>>

\* Mutant of WithTokens: the whole row is written as the run has it.
WholeRow(s) == IF flushed = s THEN Write(loaded[s], Refreshed(s)) ELSE loaded[s]

\* The row with the run's uncommitted tokens.
WithTokens(s) == IF flushed = s THEN Write(loaded[s], Refreshed(s)) ELSE row

\* The finally clause: the outcome and the time are set, and committed.
CommitRun(s) ==
    /\ pc[s] \in {"success", "error"}
    /\ RowFree(s)
    /\ \E text \in IF pc[s] = "success" THEN {NULL} ELSE Errors :
          row' = [WithTokens(s) EXCEPT
                    !.status = IF pc[s] = loaded[s].status THEN @ ELSE pc[s],
                    !.error  = IF text = loaded[s].error THEN @ ELSE text,
                    !.synced = s]
    /\ Goto(s, IF pc[s] = "success" THEN "synced" ELSE "failed")
    /\ flushed' = IF flushed = s THEN NULL ELSE flushed
    /\ UNCHANGED <<loaded, payload, mal>>

\* The session was lost in a failed flush (see LibrarySync!Rollback): the commit
\* of the finally clause raises, and what was flushed is rolled back.
LoseSession(s) == /\ pc[s] = "walk"
                  /\ Goto(s, "lost")
                  /\ flushed' = IF flushed = s THEN NULL ELSE flushed
                  /\ UNCHANGED <<row, loaded, payload, mal>>

\* The process dies.
Crash(p) == /\ pc[p] \in Busy
            /\ Goto(p, "crashed")
            /\ flushed' = IF flushed = p THEN NULL ELSE flushed
            /\ UNCHANGED <<row, loaded, payload, mal>>

Rest == (\A p \in Process : pc[p] \in Ended) /\ UNCHANGED vars

RunStep(s) == \/ TokenGood(s)
              \/ RefreshAtMal(s)
              \/ RefreshLost(s)
              \/ RefreshRefused(s)
              \/ FlushTokens(s)
              \/ WalkList(s)
              \/ CommitRun(s)
              \/ LoseSession(s)

Next == \/ \E c \in Connects : BeginConnect(c) \/ CommitConnect(c) \/ ConnectTwice(c)
        \/ \E s \in Runs : BeginRun(s) \/ RunStep(s)
        \/ \E p \in Process : Crash(p)
        \/ Rest

Spec == Init /\ [][Next]_vars

-----------------------------------------------------------------------------
(***************************************************************************)
(* Properties.                                                             *)
(***************************************************************************)
\* The two halves of the stored pair always belong together: a connect and a
\* refresh that overlap never leave one half of each (MyAnimeList takes a
\* refresh token only with the client it was issued with).
PairKept == row # NULL => row.access = row.refresh

\* A process that works on the row has it, whole, and the row does not go away.
LoadedWhole ==
    /\ \A p \in Process : loaded[p] # NULL => loaded[p].access = loaded[p].refresh /\ row # NULL
    /\ \A s \in Runs : pc[s] \in Busy => loaded[s] # NULL
    /\ \A c \in Connects : pc[c] = "loaded" => payload[c] # NULL

\* The inductive invariant.
PairInv == TypeOK /\ PairKept /\ LoadedWhole

\* A stored refresh token that MyAnimeList has spent is about to be replaced by the
\* run that spent it, or the new pair is gone with that run (it died, lost its
\* session or never got the answer), or a connect has brought the old one back.  In no
\* other way is an account cut off: a run whose commit succeeds has replaced it.
SpentIsReplaced ==
    row # NULL => \A s \in Runs : used[s] = row.refresh =>
                      pc[s] \notin {"synced", "failed"} \/ row.refresh \in resent

\* A recorded outcome comes with the time of a run, whoever resets it.
OutcomeHasTime == row # NULL /\ row.status # NULL => row.synced # NULL

\* A pair that a run obtained is nowhere, neither stored nor read nor spent, before
\* that run commits it.
New(s) == /\ row # NULL => row.refresh.by # s
          /\ \A q \in Process : loaded[q] # NULL => loaded[q].refresh.by # s
          /\ \A t \in Spent : t.by # s
PairsAreNew == \A s \in Runs : pc[s] \notin {"synced", "failed"} => New(s)

\* A run has the row locked from the flush of a new pair to its end, and no other
\* run that goes on has spent a token.
Walking == {"walk", "success", "error"}
LockHeld == \A s \in Runs :
    /\ flushed = s => pc[s] \in Walking
    /\ used[s] # NULL => pc[s] \notin {"idle", "loaded"}
    /\ pc[s] \in Walking /\ used[s] # NULL => flushed = s

\* An account stays usable, and what is recorded of its last sync is whole; with
\* what makes that inductive.
AccountInv == SpentIsReplaced /\ OutcomeHasTime /\ PairsAreNew /\ LockHeld

\* A pair that was replaced comes back only if somebody sends it again: what a run
\* changes the stored pair to is a pair that nobody has stored, read or spent before,
\* however long ago it has read the row, and a connect stores what it was sent.
PairsMoveOn ==
    [][row # NULL /\ row' # NULL /\ row'.refresh # row.refresh =>
          \/ \E s \in Runs : New(s) /\ row'.refresh.by = s
          \/ \E c \in Connects : pc[c] = "loaded" /\ row'.refresh = payload[c]]_vars

\* "Links one local user to one MyAnimeList account and stores the OAuth2 tokens
\* needed to call the MAL API on their behalf" (mal_account.py:19).
TokensBelong == row # NULL => row.access.owner = row.username

=============================================================================
