-------------------------- MODULE MalAccount_proofs --------------------------
(***************************************************************************)
(* Proofs about MalAccount: the stored token pair stays whole, a spent     *)
(* token stays stored only where the new pair was lost with its run or a   *)
(* connect has sent the old one again, and no run puts an old pair back;   *)
(* for every number of connects, runs and grants.                          *)
(***************************************************************************)
EXTENDS MalAccount, TLAPS

USE ProcessAssumption, NullAssumption

LEMMA InitPairInv == Init => PairInv
<1> SUFFICES ASSUME Init PROVE PairInv
  OBVIOUS
<1>1. \A p \in Granted : Connected(p) \in Account /\ Connected(p).access = Connected(p).refresh
  <2>1. \A p \in Granted : p \in Pair /\ p.owner \in Users
    BY DEF Granted, Pair
  <2> QED BY <2>1 DEF Connected, Account
<1>2. TypeOK
  BY <1>1 DEF Init, TypeOK
<1>3. PairKept
  BY <1>1 DEF Init, PairKept
<1>4. LoadedWhole
  BY DEF Init, LoadedWhole, Process, Busy
<1> QED BY <1>2, <1>3, <1>4 DEF PairInv

\* An UPDATE that sets both halves, or none, keeps the pair whole.
LEMMA WriteKeeps ==
    ASSUME row \in Account, row.access = row.refresh,
           NEW old \in Account, old.access = old.refresh,
           NEW new \in Account, new.access = new.refresh
    PROVE  Write(old, new) \in Account /\ Write(old, new).access = Write(old, new).refresh
<1>1. Write(old, new) =
        [username |-> Write(old, new).username, access |-> Write(old, new).access,
         refresh |-> Write(old, new).refresh, status |-> Write(old, new).status,
         error |-> Write(old, new).error, synced |-> Write(old, new).synced]
  BY DEF Write, Columns
<1>2. /\ Write(old, new).username \in {old.username, new.username, row.username}
      /\ Write(old, new).access = IF new.access # old.access THEN new.access ELSE row.access
      /\ Write(old, new).refresh = IF new.refresh # old.refresh THEN new.refresh ELSE row.refresh
      /\ Write(old, new).status \in {new.status, row.status}
      /\ Write(old, new).error \in {new.error, row.error}
      /\ Write(old, new).synced \in {new.synced, row.synced}
  BY DEF Write, Columns
<1>3. Write(old, new).access = Write(old, new).refresh
  BY <1>2
<1>4. /\ Write(old, new).username \in Users
      /\ Write(old, new).access \in Pair /\ Write(old, new).refresh \in Pair
      /\ Write(old, new).status \in {"success", "error", NULL}
      /\ Write(old, new).error \in Errors \cup {NULL}
      /\ Write(old, new).synced \in Runs \cup {NULL}
  BY <1>2 DEF Account
<1> QED BY <1>1, <1>3, <1>4 DEF Account

\* What a process has, once it works on the row.
LEMMA RunHasRow ==
    ASSUME PairInv, NEW s \in Runs, pc[s] \in Busy
    PROVE  /\ s \in Process /\ row \in Account /\ row.access = row.refresh
           /\ loaded[s] \in Account /\ loaded[s].access = loaded[s].refresh
BY DEF PairInv, TypeOK, PairKept, LoadedWhole, Process

\* The steps that leave the row as it is.
LEMMA Others ==
    ASSUME PairInv, NEW p \in Process, UNCHANGED <<row, loaded, payload>>,
           pc' = [pc EXCEPT ![p] = pc'[p]],
           pc'[p] \in {"idle"} \cup Busy \cup Ended,
           p \in Runs /\ pc'[p] \in Busy => pc[p] \in Busy,
           p \in Connects => pc'[p] # "loaded",
           flushed' \in Runs \cup {NULL}, used' \in [Runs -> Pair \cup {NULL}],
           resent' = resent
    PROVE  PairInv'
<1>1. TypeOK'
  BY DEF PairInv, TypeOK
<1>2. PairKept'
  BY DEF PairInv, PairKept
<1>3. LoadedWhole'
  BY DEF PairInv, TypeOK, LoadedWhole, Process
<1> QED BY <1>1, <1>2, <1>3 DEF PairInv

LEMMA ConnectKeeps ==
    ASSUME PairInv, NEW c \in Connects, BeginConnect(c) \/ CommitConnect(c) \/ ConnectTwice(c)
    PROVE  PairInv'
<1>1. c \in Process
  BY DEF Process
<1>2. CASE BeginConnect(c)
  <2> PICK g \in Granted : payload' = [payload EXCEPT ![c] = g]
    BY <1>2 DEF BeginConnect
  <2>1. TypeOK'
    BY <1>1, <1>2 DEF BeginConnect, Goto, PairInv, TypeOK, Busy, mal
  <2>2. g # NULL
    <3>1. g \in Pair
      BY DEF Granted, Pair
    <3> QED BY <3>1
  <2>3. \A d \in Connects : payload'[d] = IF d = c THEN g ELSE payload[d]
    BY DEF PairInv, TypeOK
  <2>4. PairKept' /\ LoadedWhole'
    BY <1>1, <1>2, <2>2, <2>3 DEF BeginConnect, Goto, PairInv, TypeOK, PairKept, LoadedWhole, Busy
  <2> QED BY <2>1, <2>4 DEF PairInv
<1>3. CASE CommitConnect(c)
  <2>1. payload[c] \in Pair /\ loaded[c] \in Account \cup {NULL}
    BY <1>1, <1>3 DEF CommitConnect, PairInv, TypeOK, LoadedWhole, Granted, Pair
  <2>2. Linked(c) \in Account /\ Linked(c).access = Linked(c).refresh
    <3>1. payload[c].owner \in Users
      BY <2>1 DEF Pair
    <3>2. CASE loaded[c] = NULL
      BY <2>1, <3>1, <3>2 DEF Linked, Account
    <3>3. CASE loaded[c] # NULL
      <4>1. loaded[c].synced \in Runs \cup {NULL}
        BY <2>1, <3>3 DEF Account
      <4> QED BY <2>1, <3>1, <3>3, <4>1 DEF Linked, Account
    <3> QED BY <3>2, <3>3
  <2>3. row' \in Account /\ row'.access = row'.refresh
    <3>1. CASE loaded[c] = NULL
      BY <1>3, <2>2, <3>1 DEF CommitConnect
    <3>2. CASE loaded[c] # NULL
      <4>1. /\ row \in Account /\ row.access = row.refresh
            /\ loaded[c] \in Account /\ loaded[c].access = loaded[c].refresh
        BY <1>1, <2>1, <3>2 DEF PairInv, TypeOK, PairKept, LoadedWhole
      <4> QED BY <1>3, <2>2, <3>2, <4>1, WriteKeeps DEF CommitConnect
    <3> QED BY <3>1, <3>2
  <2>4. TypeOK'
    <3>1. resent' \subseteq Pair
      BY <1>3, <2>3 DEF CommitConnect, PairInv, TypeOK, Account
    <3> QED BY <1>1, <1>3, <2>3, <3>1 DEF CommitConnect, Goto, PairInv, TypeOK, Ended
  <2>5. PairKept'
    BY <2>3 DEF PairKept
  <2>6. row' # NULL
    BY <2>3
  <2>7. LoadedWhole'
    BY <1>1, <1>3, <2>6 DEF CommitConnect, Goto, PairInv, TypeOK, LoadedWhole, Busy
  <2> QED BY <2>4, <2>5, <2>7 DEF PairInv
<1>4. CASE ConnectTwice(c)
  <2>1. /\ UNCHANGED <<row, loaded, payload>> /\ pc' = [pc EXCEPT ![c] = "refused"]
        /\ pc'[c] = "refused" /\ flushed' = flushed /\ used' = used /\ resent' = resent
    BY <1>1, <1>4 DEF ConnectTwice, Goto, PairInv, TypeOK, mal
  <2>2. flushed' \in Runs \cup {NULL} /\ used' \in [Runs -> Pair \cup {NULL}]
    BY <2>1 DEF PairInv, TypeOK
  <2>3. c \notin Runs
    OBVIOUS
  <2> QED BY <1>1, <2>1, <2>2, <2>3, Others DEF Ended
<1> QED BY <1>2, <1>3, <1>4

LEMMA CommitRunKeeps == ASSUME PairInv, NEW s \in Runs, CommitRun(s) PROVE PairInv'
<1>1. pc[s] \in {"success", "error"} /\ pc[s] \in Busy
  BY DEF CommitRun, Busy
<1>2. /\ s \in Process /\ row \in Account /\ row.access = row.refresh
      /\ loaded[s] \in Account /\ loaded[s].access = loaded[s].refresh
  BY <1>1, RunHasRow
<1>3. Refreshed(s) \in Account /\ Refreshed(s).access = Refreshed(s).refresh
  <2>1. loaded[s].refresh.owner \in Users
    BY <1>2 DEF Account, Pair
  <2>2. [owner |-> loaded[s].refresh.owner, by |-> s] \in Pair
    BY <1>2, <2>1 DEF Pair
  <2> QED BY <1>2, <2>2 DEF Refreshed, Account
<1>4. WithTokens(s) \in Account /\ WithTokens(s).access = WithTokens(s).refresh
  BY <1>2, <1>3, WriteKeeps DEF WithTokens
<1>5. row' \in Account /\ row'.access = row'.refresh
  <2> DEFINE W == WithTokens(s)
  <2>1. PICK text \in IF pc[s] = "success" THEN {NULL} ELSE Errors :
           row' = [W EXCEPT !.status = IF pc[s] = loaded[s].status THEN @ ELSE pc[s],
                            !.error  = IF text = loaded[s].error THEN @ ELSE text,
                            !.synced = s]
    BY DEF CommitRun
  <2>2. text \in Errors \cup {NULL}
    OBVIOUS
  <2>3. W \in Account /\ W.access = W.refresh
    BY <1>4
  <2> HIDE DEF W
  <2> QED BY <1>1, <2>1, <2>2, <2>3 DEF Account
<1>6. TypeOK'
  BY <1>1, <1>2, <1>5 DEF CommitRun, Goto, PairInv, TypeOK, Ended, mal
<1>7. PairKept'
  BY <1>5 DEF PairKept
<1>8. row' # NULL
  BY <1>5
<1>9. LoadedWhole'
  <2>1. loaded' = loaded /\ payload' = payload
    BY DEF CommitRun
  <2>2. \A q \in Process : q # s => pc'[q] = pc[q]
    BY DEF CommitRun, Goto, PairInv, TypeOK
  <2>3. pc'[s] \notin Busy
    BY <1>2 DEF CommitRun, Goto, PairInv, TypeOK, Busy
  <2> QED BY <1>8, <2>1, <2>2, <2>3 DEF PairInv, LoadedWhole, Process
<1> QED BY <1>6, <1>7, <1>9 DEF PairInv

LEMMA RunKeeps == ASSUME PairInv, NEW s \in Runs, BeginRun(s) \/ RunStep(s) PROVE PairInv'
<1>1. s \in Process /\ s \notin Connects
  BY DEF Process
<1>2. CASE BeginRun(s)
  <2>1. TypeOK'
    BY <1>1, <1>2 DEF BeginRun, Goto, PairInv, TypeOK, Busy, Ended, mal
  <2>2. PairKept'
    BY <1>2 DEF BeginRun, PairInv, PairKept
  <2>3. /\ loaded'[s] = row /\ \A q \in Process : q # s => loaded'[q] = loaded[q] /\ pc'[q] = pc[q]
        /\ pc'[s] \in Busy => row # NULL
        /\ row' = row /\ payload' = payload
    BY <1>1, <1>2 DEF BeginRun, Goto, PairInv, TypeOK, Busy
  <2>4. LoadedWhole'
    BY <1>1, <2>3 DEF PairInv, PairKept, LoadedWhole, Process
  <2> QED BY <2>1, <2>2, <2>4 DEF PairInv
<1>3. CASE CommitRun(s)
  BY <1>3, CommitRunKeeps
<1>4. CASE RefreshAtMal(s) \/ RefreshLost(s)
  <2>1. pc[s] \in Busy
    BY <1>4 DEF RefreshAtMal, RefreshLost, Spend, Busy
  <2>2. loaded[s].refresh \in Pair
    BY <2>1, RunHasRow DEF Account
  <2>3. used' \in [Runs -> Pair \cup {NULL}] /\ resent' = resent /\ flushed' \in Runs \cup {NULL}
    BY <1>4, <2>2 DEF RefreshAtMal, RefreshLost, Spend, PairInv, TypeOK
  <2>4. /\ UNCHANGED <<row, loaded, payload>> /\ pc' = [pc EXCEPT ![s] = pc'[s]]
        /\ pc'[s] \in Busy \cup Ended
    BY <1>1, <1>4 DEF RefreshAtMal, RefreshLost, Spend, Goto, PairInv, TypeOK, Busy, Ended
  <2> QED BY <1>1, <2>1, <2>3, <2>4, Others
<1>5. CASE TokenGood(s) \/ RefreshRefused(s) \/ FlushTokens(s) \/ WalkList(s) \/ LoseSession(s)
  <2>1. /\ used' \in [Runs -> Pair \cup {NULL}] /\ resent' = resent
        /\ flushed' \in Runs \cup {NULL}
    BY <1>5 DEF TokenGood, RefreshRefused, FlushTokens, WalkList, LoseSession, PairInv, TypeOK, mal
  <2>2. /\ UNCHANGED <<row, loaded, payload>> /\ pc' = [pc EXCEPT ![s] = pc'[s]]
        /\ pc'[s] \in Busy \cup Ended /\ pc[s] \in Busy
    BY <1>1, <1>5 DEF TokenGood, RefreshRefused, FlushTokens, WalkList, LoseSession, Goto,
                      PairInv, TypeOK, Busy, Ended
  <2> QED BY <1>1, <2>1, <2>2, Others
<1> QED BY <1>2, <1>3, <1>4, <1>5 DEF RunStep

LEMMA NextPairInv == PairInv /\ [Next]_vars => PairInv'
<1> SUFFICES ASSUME PairInv, [Next]_vars PROVE PairInv'
  OBVIOUS
<1>1. ASSUME NEW c \in Connects, BeginConnect(c) \/ CommitConnect(c) \/ ConnectTwice(c)
      PROVE  PairInv'
  BY <1>1, ConnectKeeps
<1>2. ASSUME NEW s \in Runs, BeginRun(s) \/ RunStep(s)
      PROVE  PairInv'
  BY <1>2, RunKeeps
<1>3. ASSUME NEW p \in Process, Crash(p)
      PROVE  PairInv'
  <2>1. /\ UNCHANGED <<row, loaded, payload>> /\ pc' = [pc EXCEPT ![p] = pc'[p]]
        /\ pc'[p] = "crashed" /\ flushed' \in {NULL, flushed} /\ used' = used /\ resent' = resent
    BY <1>3 DEF Crash, Goto, PairInv, TypeOK, mal
  <2>2. flushed' \in Runs \cup {NULL} /\ used' \in [Runs -> Pair \cup {NULL}]
    BY <2>1 DEF PairInv, TypeOK
  <2>3. "crashed" \in Ended /\ "crashed" \notin Busy /\ "crashed" # "loaded"
    BY DEF Ended, Busy
  <2> QED BY <2>1, <2>2, <2>3, Others
<1>4. CASE UNCHANGED vars
  BY <1>4 DEF vars, mal, PairInv, TypeOK, PairKept, LoadedWhole
<1> QED BY <1>1, <1>2, <1>3, <1>4 DEF Next, Rest

\* However connects, refreshes, failures and crashes interleave, the stored access
\* and refresh tokens are the two halves of one pair.
THEOREM PairStaysWhole == Spec => []PairInv
<1>1. PairInv /\ [Next]_vars => PairInv'
  BY NextPairInv
<1> QED BY InitPairInv, <1>1, PTL DEF Spec

-----------------------------------------------------------------------------
(***************************************************************************)
(* An account stays usable.                                                *)
(***************************************************************************)
LEMMA InitAccountInv == Init => AccountInv
<1> SUFFICES ASSUME Init PROVE AccountInv
  OBVIOUS
<1>1. row # NULL => row.status = NULL /\ row.refresh.by \in Grants /\ row.refresh \in Pair
  BY DEF Init, Connected, Granted, Pair
<1>2. Spent = {}
  BY DEF Init, Spent
<1>3. SpentIsReplaced
  BY <1>1 DEF Init, SpentIsReplaced
<1>4. OutcomeHasTime
  BY <1>1 DEF OutcomeHasTime
<1>5. PairsAreNew
  BY <1>1, <1>2 DEF Init, PairsAreNew, New
<1>6. LockHeld
  BY DEF Init, LockHeld, Process, Walking
<1> QED BY <1>3, <1>4, <1>5, <1>6 DEF AccountInv

\* A step that stores and reads no pair of a run that has not committed it, and in
\* which only a refresh token that a process has read is spent.
LEMMA NewKept ==
    ASSUME PairsAreNew,
           \A s \in Runs : pc'[s] \notin {"synced", "failed"} => pc[s] \notin {"synced", "failed"},
           row' # NULL =>
             \/ row # NULL /\ row'.refresh = row.refresh
             \/ row'.refresh.by \in Grants
             \/ \E s \in Runs : pc'[s] \in {"synced", "failed"} /\ row'.refresh.by = s,
           \A q \in Process : loaded'[q] \in {loaded[q], row},
           \A t \in Spent' : t \in Spent
                              \/ \E q \in Process : loaded[q] # NULL /\ t = loaded[q].refresh
    PROVE  PairsAreNew'
<1> SUFFICES ASSUME NEW s \in Runs, pc'[s] \notin {"synced", "failed"}
             PROVE  New(s)'
  BY DEF PairsAreNew
<1>1. New(s) /\ s \notin Grants
  BY DEF PairsAreNew
<1>2. row' # NULL => row'.refresh.by # s
  BY <1>1 DEF New
<1>3. ASSUME NEW q \in Process, loaded'[q] # NULL
      PROVE  loaded'[q].refresh.by # s
  BY <1>1, <1>3 DEF New
<1>4. ASSUME NEW t \in Spent'
      PROVE  t.by # s
  BY <1>1, <1>4 DEF New
<1> QED BY <1>2, <1>3, <1>4 DEF New

\* A connect changes the stored pair to the one it was sent, or not at all.
LEMMA ConnectStores ==
    ASSUME PairInv, NEW c \in Connects, CommitConnect(c)
    PROVE  /\ payload[c] \in Granted /\ row'.refresh \in Pair
           /\ row'.refresh = payload[c] \/ (row # NULL /\ row'.refresh = row.refresh)
<1>1. c \in Process /\ payload[c] \in Granted
  BY DEF CommitConnect, PairInv, TypeOK, LoadedWhole, Process
<1>2. row'.refresh = payload[c] \/ (row # NULL /\ row'.refresh = row.refresh)
  <2>1. CASE loaded[c] = NULL
    BY <2>1 DEF CommitConnect, Linked
  <2>2. CASE loaded[c] # NULL
    <3>1. row # NULL
      BY <1>1, <2>2 DEF PairInv, LoadedWhole
    <3> QED BY <2>2, <3>1 DEF CommitConnect, Write, Columns, Linked
  <2> QED BY <2>1, <2>2
<1>3. payload[c] \in Pair
  BY <1>1 DEF Granted, Pair
<1>4. row # NULL => row.refresh \in Pair
  BY DEF PairInv, TypeOK, Account
<1> QED BY <1>1, <1>2, <1>3, <1>4

\* The commit of a connect: a spent pair that it brings back is remembered.
LEMMA ConnectKeepsAccount ==
    ASSUME PairInv, AccountInv, NEW c \in Connects, CommitConnect(c)
    PROVE  AccountInv'
<1>1. /\ c \in Process /\ c \notin Runs
      /\ loaded' = loaded /\ flushed' = flushed /\ used' = used
      /\ \A s \in Runs : pc'[s] = pc[s]
      /\ row' = IF loaded[c] = NULL THEN Linked(c) ELSE Write(loaded[c], Linked(c))
      /\ resent' = IF row # NULL /\ row'.refresh = row.refresh
                   THEN resent ELSE resent \cup ({row'.refresh} \cap Spent)
  BY DEF CommitConnect, Goto, PairInv, TypeOK, Process
<1>2. /\ payload[c] \in Granted /\ row'.refresh \in Pair
      /\ row'.refresh = payload[c] \/ (row # NULL /\ row'.refresh = row.refresh)
  BY ConnectStores
<1>3. Spent' = Spent
  BY <1>1 DEF Spent
<1>4. LockHeld'
  BY <1>1 DEF AccountInv, LockHeld
<1>5. SpentIsReplaced'
  <2> SUFFICES ASSUME NEW s \in Runs, used[s] = row'.refresh
               PROVE  pc[s] \notin {"synced", "failed"} \/ row'.refresh \in resent'
    BY <1>1 DEF SpentIsReplaced
  <2>1. CASE row # NULL /\ row'.refresh = row.refresh
    BY <1>1, <2>1 DEF AccountInv, SpentIsReplaced
  <2>2. CASE ~(row # NULL /\ row'.refresh = row.refresh)
    <3>1. row'.refresh # NULL
      BY <1>2
    <3>2. row'.refresh \in Spent
      BY <3>1 DEF Spent
    <3> QED BY <1>1, <2>2, <3>2
  <2> QED BY <2>1, <2>2
<1>6. PairsAreNew'
  <2>1. payload[c].by \in Grants
    BY <1>2 DEF Granted
  <2> QED BY <1>1, <1>2, <1>3, <2>1, NewKept DEF AccountInv
<1>7. OutcomeHasTime'
  <2>1. CASE loaded[c] = NULL
    BY <1>1, <2>1 DEF Linked, OutcomeHasTime
  <2>2. CASE loaded[c] # NULL
    <3>1. row # NULL
      BY <1>1, <2>2 DEF PairInv, LoadedWhole
    <3>2. row'.synced = row.synced /\ row'.status \in {NULL, row.status}
      BY <1>1, <2>2 DEF Write, Columns, Linked
    <3> QED BY <3>1, <3>2 DEF AccountInv, OutcomeHasTime
  <2> QED BY <2>1, <2>2
<1> QED BY <1>4, <1>5, <1>6, <1>7 DEF AccountInv

\* A run commits the tokens it has flushed, or those that are there.
LEMMA CommittedTokens ==
    ASSUME PairInv, NEW s \in Runs, CommitRun(s)
    PROVE  row'.refresh = WithTokens(s).refresh /\ row'.synced = s
<1> DEFINE W == WithTokens(s)
<1>1. pc[s] \in Busy
  BY DEF CommitRun, Busy
<1>2. s \in Process /\ loaded[s] \in Account
  BY <1>1, RunHasRow
<1>3. Refreshed(s) \in Account /\ Refreshed(s).access = Refreshed(s).refresh
  <2>1. loaded[s].refresh.owner \in Users
    BY <1>2 DEF Account, Pair
  <2>2. [owner |-> loaded[s].refresh.owner, by |-> s] \in Pair
    BY <1>2, <2>1 DEF Pair
  <2> QED BY <1>2, <2>2 DEF Refreshed, Account
<1>4. W \in Account
  BY <1>1, <1>3, RunHasRow, WriteKeeps DEF WithTokens
<1>5. PICK text \in IF pc[s] = "success" THEN {NULL} ELSE Errors :
         row' = [W EXCEPT !.status = IF pc[s] = loaded[s].status THEN @ ELSE pc[s],
                          !.error  = IF text = loaded[s].error THEN @ ELSE text,
                          !.synced = s]
  BY DEF CommitRun
<1>6. row'.refresh = W.refresh /\ row'.synced = s
  <2> HIDE DEF W
  <2> QED BY <1>4, <1>5 DEF Account
<1> QED BY <1>6

\* The commit of a run: it stores the new pair that it holds the row for, or it has
\* spent nothing and leaves the pair that is there.
LEMMA RunStores ==
    ASSUME PairInv, AccountInv, NEW s \in Runs, CommitRun(s)
    PROVE  /\ New(s)
           /\ \/ row'.refresh.by = s
              \/ used[s] = NULL /\ row # NULL /\ row'.refresh = row.refresh
<1>1. pc[s] \in Busy /\ pc[s] \in Walking /\ pc[s] \notin {"synced", "failed"}
  BY DEF CommitRun, Busy, Walking
<1>2. s \in Process /\ row \in Account /\ loaded[s] \in Account
  BY <1>1, RunHasRow
<1>3. row # NULL /\ loaded[s] # NULL
  BY <1>2
<1>4. New(s)
  BY <1>1 DEF AccountInv, PairsAreNew
<1>5. row'.refresh = WithTokens(s).refresh
  BY CommittedTokens
<1>6. CASE flushed = s
  <2>1. Refreshed(s).refresh = [owner |-> loaded[s].refresh.owner, by |-> s]
    BY <1>2 DEF Refreshed, Account
  <2>2. loaded[s].refresh.by # s
    BY <1>2, <1>3, <1>4 DEF New
  <2>3. Refreshed(s).refresh # loaded[s].refresh
    BY <2>1, <2>2
  <2>4. row'.refresh = Refreshed(s).refresh
    BY <1>5, <1>6, <2>3 DEF WithTokens, Write, Columns
  <2> QED BY <1>4, <2>1, <2>4
<1>7. CASE flushed # s
  <2>1. used[s] = NULL
    BY <1>1, <1>7 DEF AccountInv, LockHeld
  <2> QED BY <1>3, <1>4, <1>5, <1>7, <2>1 DEF WithTokens
<1> QED BY <1>6, <1>7

LEMMA CommitRunKeepsAccount ==
    ASSUME PairInv, AccountInv, NEW s \in Runs, CommitRun(s)
    PROVE  AccountInv'
<1>1. pc[s] \in {"success", "error"}
  BY DEF CommitRun
<1>2. /\ s \in Process /\ s # NULL /\ flushed \in {NULL, s} /\ flushed' = NULL
      /\ loaded' = loaded /\ used' = used /\ resent' = resent
      /\ pc'[s] \in {"synced", "failed"}
      /\ \A q \in Process : q # s => pc'[q] = pc[q]
  BY DEF CommitRun, RowFree, Goto, PairInv, TypeOK, Process, mal
<1>3. /\ New(s)
      /\ \/ row'.refresh.by = s
         \/ used[s] = NULL /\ row # NULL /\ row'.refresh = row.refresh
  BY RunStores
<1>4. Spent' = Spent
  BY <1>2 DEF Spent
<1>5. ASSUME NEW r \in Runs, pc'[r] \in Walking
      PROVE  r \in Process /\ r # s /\ pc'[r] = pc[r]
  BY <1>2, <1>5 DEF Process, Walking
<1>6. LockHeld'
  <2>1. ASSUME NEW r \in Runs
        PROVE  used'[r] # NULL => pc'[r] \notin {"idle", "loaded"}
    BY <1>2, <2>1 DEF AccountInv, LockHeld, Process
  <2>2. ASSUME NEW r \in Runs, pc'[r] \in Walking, used'[r] # NULL
        PROVE  flushed' = r
    BY <1>2, <1>5, <2>2 DEF AccountInv, LockHeld
  <2>3. \A r \in Runs : flushed' # r
    BY <1>2 DEF Process
  <2> QED BY <2>1, <2>2, <2>3 DEF LockHeld
<1>7. OutcomeHasTime'
  BY <1>2, CommittedTokens DEF OutcomeHasTime
<1>8. SpentIsReplaced'
  <2> SUFFICES ASSUME row' # NULL, NEW r \in Runs, used[r] = row'.refresh
               PROVE  pc'[r] \notin {"synced", "failed"} \/ row'.refresh \in resent
    BY <1>2 DEF SpentIsReplaced
  <2>1. row'.refresh # NULL
    <3>1. PairInv'
      BY CommitRunKeeps
    <3>2. row'.refresh \in Pair
      BY <3>1 DEF PairInv, TypeOK, Account
    <3> QED BY <3>2
  <2>2. row'.refresh \in Spent
    BY <2>1 DEF Spent
  <2>3. row'.refresh.by # s
    BY <1>3, <2>2 DEF New
  <2>4. row # NULL /\ row'.refresh = row.refresh /\ r # s
    BY <1>3, <2>1, <2>3
  <2>5. pc'[r] = pc[r]
    BY <1>2, <2>4 DEF Process
  <2> QED BY <2>4, <2>5 DEF AccountInv, SpentIsReplaced
<1>9. PairsAreNew'
  <2>1. \A r \in Runs : pc'[r] \notin {"synced", "failed"} => pc[r] \notin {"synced", "failed"}
    BY <1>1, <1>2 DEF Process
  <2> QED BY <1>2, <1>3, <1>4, <2>1, NewKept DEF AccountInv
<1> QED BY <1>6, <1>7, <1>8, <1>9 DEF AccountInv

\* The other steps of a process leave the row and what has come back.
LEMMA StepKeepsAccount ==
    ASSUME PairInv, AccountInv, NEW p \in Process,
           row' = row, resent' = resent, used' = used,
           \A q \in Process : q # p => pc'[q] = pc[q] /\ loaded'[q] = loaded[q],
           loaded'[p] \in {loaded[p], row},
           pc'[p] \notin {"synced", "failed"}, pc[p] \notin {"synced", "failed"},
           \* It takes the lock, keeps it while it walks, or gives it up.
           p \in Runs =>
             \/ /\ pc'[p] \notin Walking
                /\ flushed' = IF flushed = p THEN NULL ELSE flushed
             \/ /\ pc'[p] \in Walking
                /\ flushed' = p /\ flushed \in {NULL, p}
             \/ /\ pc'[p] \in Walking
                /\ flushed' = flushed
                /\ used[p] = NULL \/ pc[p] \in Walking,
           p \in Runs /\ pc'[p] \in {"idle", "loaded"} => pc[p] \in {"idle", "loaded"},
           p \in Connects => flushed' = flushed
    PROVE  AccountInv'
<1>1. \A s \in Runs : s \in Process /\ s # NULL /\ s \notin Connects
  BY DEF Process
<1>2. Spent' = Spent
  BY DEF Spent
<1>3. PairsAreNew'
  <2>1. \A s \in Runs : pc'[s] \notin {"synced", "failed"} => pc[s] \notin {"synced", "failed"}
    BY <1>1
  <2> QED BY <1>2, <2>1, NewKept DEF AccountInv
<1>4. LockHeld'
  <2> SUFFICES ASSUME NEW s \in Runs
               PROVE  /\ flushed' = s => pc'[s] \in Walking
                      /\ used[s] # NULL => pc'[s] \notin {"idle", "loaded"}
                      /\ pc'[s] \in Walking /\ used[s] # NULL => flushed' = s
    BY DEF LockHeld
  <2>1. /\ flushed = s => pc[s] \in Walking
        /\ used[s] # NULL => pc[s] \notin {"idle", "loaded"}
        /\ pc[s] \in Walking /\ used[s] # NULL => flushed = s
    BY DEF AccountInv, LockHeld
  <2>2. CASE s = p
    BY <1>1, <2>1, <2>2
  <2>3. CASE s # p
    BY <1>1, <2>1, <2>3 DEF Process
  <2> QED BY <2>2, <2>3
<1>5. SpentIsReplaced'
  <2>1. \A s \in Runs : pc'[s] \in {"synced", "failed"} => pc[s] = pc'[s]
    BY <1>1
  <2> QED BY <2>1 DEF AccountInv, SpentIsReplaced
<1>6. OutcomeHasTime'
  BY DEF AccountInv, OutcomeHasTime
<1> QED BY <1>3, <1>4, <1>5, <1>6 DEF AccountInv

\* MyAnimeList spends the refresh token, and the run has the new pair or never gets it.
LEMMA RefreshKeepsAccount ==
    ASSUME PairInv, AccountInv, NEW s \in Runs, RefreshAtMal(s) \/ RefreshLost(s)
    PROVE  AccountInv'
<1>1. s \in Process /\ pc[s] = "loaded" /\ pc[s] \in Busy
  BY DEF RefreshAtMal, RefreshLost, Spend, Process, Busy
<1>2. loaded[s] \in Account /\ loaded[s] # NULL
  <2>1. loaded[s] \in Account
    BY <1>1, RunHasRow
  <2> QED BY <2>1
<1>3. /\ UNCHANGED <<row, loaded, flushed, resent>> /\ pc'[s] \in {"refreshed", "unrecorded"}
      /\ used' = [used EXCEPT ![s] = loaded[s].refresh]
      /\ \A q \in Process : q # s => pc'[q] = pc[q]
  BY <1>1 DEF RefreshAtMal, RefreshLost, Spend, Goto, PairInv, TypeOK
<1>4. \A r \in Runs : used'[r] = IF r = s THEN loaded[s].refresh ELSE used[r]
  BY <1>3 DEF PairInv, TypeOK
<1>5. \A r \in Runs : r \in Process /\ (r # s => pc'[r] = pc[r])
  BY <1>3 DEF Process
<1>6. PairsAreNew'
  <2>1. \A t \in Spent' : t \in Spent
                           \/ \E q \in Process : loaded[q] # NULL /\ t = loaded[q].refresh
    BY <1>1, <1>2, <1>4 DEF Spent
  <2>2. \A r \in Runs : pc'[r] \notin {"synced", "failed"} => pc[r] \notin {"synced", "failed"}
    BY <1>1, <1>5
  <2> QED BY <1>3, <2>1, <2>2, NewKept DEF AccountInv
<1>7. LockHeld'
  <2> SUFFICES ASSUME NEW r \in Runs
               PROVE  /\ flushed = r => pc'[r] \in Walking
                      /\ used'[r] # NULL => pc'[r] \notin {"idle", "loaded"}
                      /\ pc'[r] \in Walking /\ used'[r] # NULL => flushed = r
    BY <1>3 DEF LockHeld
  <2>1. /\ flushed = r => pc[r] \in Walking
        /\ used[r] # NULL => pc[r] \notin {"idle", "loaded"}
        /\ pc[r] \in Walking /\ used[r] # NULL => flushed = r
    BY DEF AccountInv, LockHeld
  <2>2. CASE r = s
    BY <1>1, <1>3, <2>1, <2>2 DEF Walking
  <2>3. CASE r # s
    BY <1>4, <1>5, <2>1, <2>3
  <2> QED BY <2>2, <2>3
<1>8. SpentIsReplaced'
  <2> SUFFICES ASSUME row # NULL, NEW r \in Runs, used'[r] = row.refresh
               PROVE  pc'[r] \notin {"synced", "failed"} \/ row.refresh \in resent
    BY <1>3 DEF SpentIsReplaced
  <2>1. CASE r = s
    BY <1>3, <2>1
  <2>2. CASE r # s
    BY <1>4, <1>5, <2>2 DEF AccountInv, SpentIsReplaced
  <2> QED BY <2>1, <2>2
<1>9. OutcomeHasTime'
  BY <1>3 DEF AccountInv, OutcomeHasTime
<1> QED BY <1>6, <1>7, <1>8, <1>9 DEF AccountInv

LEMMA NextAccountInv == PairInv /\ AccountInv /\ [Next]_vars => AccountInv'
<1> SUFFICES ASSUME PairInv, AccountInv, [Next]_vars PROVE AccountInv'
  OBVIOUS
<1>1. ASSUME NEW c \in Connects, BeginConnect(c) \/ CommitConnect(c) \/ ConnectTwice(c)
      PROVE  AccountInv'
  <2>1. c \in Process /\ c \notin Runs /\ c \notin {flushed}
    BY DEF Process, PairInv, TypeOK
  <2>2. CASE BeginConnect(c)
    BY <2>1, <2>2, StepKeepsAccount DEF BeginConnect, Goto, PairInv, TypeOK, mal
  <2>3. CASE ConnectTwice(c)
    BY <2>1, <2>3, StepKeepsAccount DEF ConnectTwice, Goto, PairInv, TypeOK, mal
  <2>4. CASE CommitConnect(c)
    BY <2>4, ConnectKeepsAccount
  <2> QED BY <1>1, <2>2, <2>3, <2>4
<1>2. ASSUME NEW s \in Runs, BeginRun(s) \/ RunStep(s)
      PROVE  AccountInv'
  <2>1. s \in Process /\ s # NULL /\ s \notin Connects
    BY DEF Process
  <2>2. /\ flushed = s => pc[s] \in Walking
        /\ used[s] # NULL => pc[s] \notin {"idle", "loaded"}
    BY DEF AccountInv, LockHeld
  <2>3. CASE BeginRun(s)
    BY <2>1, <2>2, <2>3, StepKeepsAccount DEF BeginRun, Goto, PairInv, TypeOK, Walking, mal
  <2>4. CASE TokenGood(s)
    BY <2>1, <2>2, <2>4, StepKeepsAccount DEF TokenGood, Goto, PairInv, TypeOK, Walking, mal
  <2>5. CASE RefreshAtMal(s) \/ RefreshLost(s)
    BY <2>5, RefreshKeepsAccount
  <2>6. CASE RefreshRefused(s)
    BY <2>1, <2>2, <2>6, StepKeepsAccount DEF RefreshRefused, Goto, PairInv, TypeOK, Walking, mal
  <2>7. CASE FlushTokens(s)
    BY <2>1, <2>2, <2>7, StepKeepsAccount DEF FlushTokens, RowFree, Goto, PairInv, TypeOK, Walking, mal
  <2>8. CASE WalkList(s)
    <3>1. pc[s] \in Walking /\ pc'[s] \in {"success", "error"}
      BY <2>1, <2>8 DEF WalkList, Goto, PairInv, TypeOK, Walking
    <3>2. \A q \in Process : q # s => pc'[q] = pc[q]
      BY <2>8 DEF WalkList, Goto, PairInv, TypeOK
    <3> QED BY <2>1, <2>2, <2>8, <3>1, <3>2, StepKeepsAccount DEF WalkList, Walking, mal
  <2>9. CASE CommitRun(s)
    BY <2>9, CommitRunKeepsAccount
  <2>10. CASE LoseSession(s)
    BY <2>1, <2>2, <2>10, StepKeepsAccount DEF LoseSession, Goto, PairInv, TypeOK, Walking, mal
  <2> QED BY <1>2, <2>3, <2>4, <2>5, <2>6, <2>7, <2>8, <2>9, <2>10 DEF RunStep
<1>3. ASSUME NEW p \in Process, Crash(p)
      PROVE  AccountInv'
  <2>1. p # NULL /\ (p \in Connects => flushed # p)
    BY DEF Process, PairInv, TypeOK
  <2>2. pc[p] \notin {"synced", "failed"} /\ pc'[p] = "crashed"
    BY <1>3 DEF Crash, Goto, PairInv, TypeOK, Busy
  <2>3. /\ row' = row /\ used' = used /\ resent' = resent /\ loaded' = loaded
        /\ flushed' = IF flushed = p THEN NULL ELSE flushed
        /\ \A q \in Process : q # p => pc'[q] = pc[q]
    BY <1>3 DEF Crash, Goto, PairInv, TypeOK, mal
  <2> QED BY <2>1, <2>2, <2>3, StepKeepsAccount DEF Walking
<1>4. CASE UNCHANGED vars
  <2>1. Spent' = Spent
    BY <1>4 DEF vars, mal, Spent
  <2> QED BY <1>4, <2>1 DEF vars, mal, AccountInv, SpentIsReplaced, OutcomeHasTime, PairsAreNew,
                            New, LockHeld
<1> QED BY <1>1, <1>2, <1>3, <1>4 DEF Next, Rest

\* A stored refresh token that MyAnimeList no longer takes is about to be replaced
\* by the run that spent it, or that run died, lost its session or never got the
\* answer, or a connect has sent the replaced pair again; and whatever is recorded of
\* a sync comes with its time.
THEOREM AccountStaysUsable == Spec => []AccountInv
<1>1. AccountInv /\ PairInv /\ [Next]_vars => AccountInv'
  BY NextAccountInv
<1> QED BY InitAccountInv, PairStaysWhole, <1>1, PTL DEF Spec

-----------------------------------------------------------------------------
(***************************************************************************)
(* No run puts an old pair back.                                           *)
(***************************************************************************)
\* In no step but a commit does the row change.
LEMMA RowChanges ==
    ASSUME Next, row' # row
    PROVE  (\E c \in Connects : CommitConnect(c)) \/ (\E s \in Runs : CommitRun(s))
BY DEF Next, RunStep, BeginConnect, ConnectTwice, BeginRun, TokenGood, RefreshAtMal, RefreshLost,
       Spend, RefreshRefused, FlushTokens, WalkList, LoseSession, Crash, Rest, vars

\* What a run changes the stored pair to has not been stored, read or spent before,
\* however stale the row that the run has read; what a connect changes it to is what
\* it was sent.
THEOREM PairsNeverReturn == Spec => PairsMoveOn
<1>1. PairInv /\ AccountInv /\ [Next]_vars =>
        [row # NULL /\ row' # NULL /\ row'.refresh # row.refresh =>
            \/ \E s \in Runs : New(s) /\ row'.refresh.by = s
            \/ \E c \in Connects : pc[c] = "loaded" /\ row'.refresh = payload[c]]_vars
  <2> SUFFICES ASSUME PairInv, AccountInv, Next, row'.refresh # row.refresh
               PROVE  \/ \E s \in Runs : New(s) /\ row'.refresh.by = s
                      \/ \E c \in Connects : pc[c] = "loaded" /\ row'.refresh = payload[c]
    OBVIOUS
  <2>1. row' # row
    OBVIOUS
  <2>2. CASE \E c \in Connects : CommitConnect(c)
    BY <2>2, ConnectStores DEF CommitConnect
  <2>3. CASE \E s \in Runs : CommitRun(s)
    BY <2>3, RunStores
  <2> QED BY <2>1, <2>2, <2>3, RowChanges
<1> QED BY PairStaysWhole, AccountStaysUsable, <1>1, PTL DEF Spec, PairsMoveOn

=============================================================================
