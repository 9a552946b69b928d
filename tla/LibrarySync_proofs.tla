------------------------- MODULE LibrarySync_proofs -------------------------
(***************************************************************************)
(* LibrarySync implements ReadingLedger, for any number of requests, runs  *)
(* of the sync and manga: whatever the interleaving, each commit appends   *)
(* one batch of activities that accounts for all it changes.               *)
(*                                                                         *)
(* The proof goes by the inductive invariant IInv.  LogAgrees alone is not *)
(* inductive: a run of the sync works out its activities against rows that *)
(* it read earlier, and commits them much later.  IInv says what holds in  *)
(* between (PendingAccounted): the activities a run has flushed account    *)
(* for its uncommitted rows relative to the rows that are committed NOW.   *)
(* Row locks (ExclusiveRows) are what keeps that true.                     *)
(***************************************************************************)
EXTENDS LibrarySync, TLAPS

-----------------------------------------------------------------------------
(***************************************************************************)
(* The ledger: its log never contradicts the library.                      *)
(***************************************************************************)
LedgerType == /\ library \in [Manga -> Row \cup {NoRow}]
              /\ log \in Seq(Batch)

LedgerInv == LedgerType /\ LogAgrees

\* A batch that accounts for a change keeps the log in agreement with the
\* library: the fields it reports have the reported value, the fields it does
\* not report have the value that was reported last, unless it opens the entry.
LEMMA RecordAgrees ==
    ASSUME LedgerInv, Record
    PROVE  LedgerInv'
<1> DEFINE b == log'[Len(log')]
           n == Len(log)
<1>1. /\ log \in Seq(Batch)
      /\ library \in [Manga -> Row \cup {NoRow}]
      /\ b \in Batch
      /\ log' = Append(log, b)
      /\ Len(log') = n + 1
      /\ n \in Nat
      /\ library' \in [Manga -> Row \cup {NoRow}]
      /\ Accounts(b, library, library')
  BY DEF LedgerInv, LedgerType, Record
<1>2. LedgerType'
  BY <1>1 DEF LedgerType
<1>3. /\ DOMAIN log = 1..n
      /\ DOMAIN log' = 1..(n + 1)
      /\ \A i \in 1..n : log'[i] = log[i]
      /\ log'[n + 1] = b
  BY <1>1
<1> HIDE DEF b, n
<1>4. ASSUME NEW m \in Manga, NEW f \in Tracked, NEW i \in DOMAIN log',
             library'[m] # NoRow, LastWord(i, m, f)'
      PROVE  Reports(log'[i].acts, m, f) = {library'[m].val[f]}
  <2>1. /\ Truthful(b, m, library'[m])
        /\ Complete(b, m, library[m], library'[m])
    BY <1>1, <1>4 DEF Accounts
  <2>2. /\ Reports(log'[i].acts, m, f) # {}
        /\ \A j \in DOMAIN log' :
              j > i => Reports(log'[j].acts, m, f) = {} /\ ~Opens(log'[j].acts, m)
    BY <1>4 DEF LastWord
  <2>3. CASE i = n + 1
    BY <1>3, <1>4, <2>1, <2>2, <2>3 DEF Truthful
  <2>4. CASE i # n + 1
    <3>1. i \in 1..n /\ n + 1 > i /\ n + 1 \in DOMAIN log'
      BY <1>1, <1>3, <1>4, <2>4
    <3>2. Reports(b.acts, m, f) = {} /\ ~Opens(b.acts, m)
      BY <1>3, <2>2, <3>1
    <3>3. library[m] # NoRow /\ library'[m].val[f] = library[m].val[f]
      BY <1>4, <2>1, <3>2 DEF Complete
    <3>4. LastWord(i, m, f)
      <4>1. i \in DOMAIN log /\ log'[i] = log[i]
        BY <1>3, <3>1
      <4>2. ASSUME NEW j \in DOMAIN log, j > i
            PROVE  Reports(log[j].acts, m, f) = {} /\ ~Opens(log[j].acts, m)
        <5>1. j \in 1..n /\ j \in DOMAIN log'
          BY <1>1, <1>3, <4>2
        <5>2. log'[j] = log[j]
          BY <1>3, <5>1
        <5> QED
          BY <2>2, <4>2, <5>1, <5>2
      <4> QED
        BY <2>2, <4>1, <4>2 DEF LastWord
    <3>5. Reports(log[i].acts, m, f) = {library[m].val[f]}
      BY <1>3, <3>1, <3>3, <3>4 DEF LedgerInv, LogAgrees
    <3> QED
      BY <1>3, <3>1, <3>3, <3>5
  <2> QED
    BY <2>3, <2>4
<1>5. LogAgrees'
  BY <1>4 DEF LogAgrees
<1> QED
  BY <1>2, <1>5 DEF LedgerInv

\* A step that appends nothing changes no tracked column.
LEMMA UnloggedAgrees ==
    ASSUME LedgerInv, Unlogged
    PROVE  LedgerInv'
<1>1. LedgerType'
  BY DEF LedgerInv, LedgerType, Unlogged
<1>2. ASSUME NEW m \in Manga, NEW f \in Tracked, NEW i \in DOMAIN log',
             library'[m] # NoRow, LastWord(i, m, f)'
      PROVE  Reports(log'[i].acts, m, f) = {library'[m].val[f]}
  <2>1. /\ log' = log
        /\ library[m] # NoRow
        /\ library'[m].val[f] = library[m].val[f]
    BY <1>2 DEF Unlogged
  <2>2. LastWord(i, m, f)
    BY <1>2, <2>1 DEF LastWord
  <2> QED
    BY <1>2, <2>1, <2>2 DEF LedgerInv, LogAgrees
<1> QED
  BY <1>1, <1>2 DEF LedgerInv, LogAgrees

\* The last report of every tracked field is the value the library has, in
\* every behaviour of the ledger ("changes are logged to ReadingActivity").
THEOREM LedgerAgrees == LedgerSpec => []LogAgrees
<1>1. LedgerInit => LedgerInv
  BY DEF LedgerInit, LedgerInv, LedgerType, LogAgrees
<1>2. LedgerInv /\ [LedgerNext]_ledgerVars => LedgerInv'
  <2> SUFFICES ASSUME LedgerInv, [LedgerNext]_ledgerVars
               PROVE  LedgerInv'
    OBVIOUS
  <2>1. CASE Record
    BY <2>1, RecordAgrees
  <2>2. CASE Unlogged
    BY <2>2, UnloggedAgrees
  <2>3. CASE UNCHANGED ledgerVars
    BY <2>3 DEF ledgerVars, LedgerInv, LedgerType, LogAgrees, LastWord
  <2> QED
    BY <2>1, <2>2, <2>3 DEF LedgerNext
<1>3. LedgerInv => LogAgrees
  BY DEF LedgerInv
<1> QED
  BY <1>1, <1>2, <1>3, PTL DEF LedgerSpec

-----------------------------------------------------------------------------
(***************************************************************************)
(* Facts about activities.                                                 *)
(***************************************************************************)
LEMMA TrackedFields ==
    ASSUME NEW f \in Tracked
    PROVE  f = "status" \/ f = "score" \/ f = "progress_chapter"
BY DEF Tracked

LEMMA ColumnsInput ==
    ASSUME NEW v \in Columns
    PROVE  /\ v \in [Tracked -> Value]
           /\ v \in Input
           /\ \A f \in Tracked : v[f] \in Value /\ v[f] # Absent
<1>1. v \in [Tracked -> Value] /\ \A f \in Tracked : v[f] \in Value
  BY DEF Columns
<1>2. Absent \notin Value
  BY AbsentAssumption DEF Value
<1> QED
  BY <1>1, <1>2 DEF Input

LEMMA NothingInput ==
    /\ Nothing \in Input
    /\ \A f \in Tracked : Nothing[f] = Absent
BY DEF Nothing, Input

LEMMA ReportType ==
    ASSUME NEW m \in Manga, NEW type \in ActivityType, NEW g \in Tracked, NEW v \in Value
    PROVE  /\ Report(m, type, g, v) \in Activity
           /\ Report(m, type, g, v).manga = m
           /\ Report(m, type, g, v).to[g] = v
           /\ \A f \in Tracked \ {g} : Report(m, type, g, v).to[f] = Absent
<1> DEFINE to == [Nothing EXCEPT ![g] = v]
<1>1. /\ to \in Input
      /\ to[g] = v
      /\ \A f \in Tracked \ {g} : to[f] = Absent
  BY NothingInput DEF Input, Nothing
<1>2. Report(m, type, g, v) = [manga |-> m, type |-> type, opens |-> FALSE, to |-> to]
  BY DEF Report
<1> HIDE DEF to
<1> QED
  BY <1>1, <1>2 DEF Activity

LEMMA MarkerType ==
    ASSUME NEW m \in Manga, NEW type \in ActivityType
    PROVE  /\ Marker(m, type) \in Activity
           /\ Marker(m, type).manga = m
           /\ \A f \in Tracked : Marker(m, type).to[f] = Absent
BY NothingInput DEF Marker, Activity

LEMMA OpeningType ==
    ASSUME NEW m \in Manga, NEW type \in ActivityType, NEW to \in Input
    PROVE  /\ Opening(m, type, to) \in Activity
           /\ Opening(m, type, to).manga = m
           /\ Opening(m, type, to).opens
           /\ Opening(m, type, to).to = to
BY DEF Opening, Activity

\* What two sets of activities report together is what each of them reports.
LEMMA ReportsUnion ==
    ASSUME NEW A, NEW B, NEW m, NEW f
    PROVE  /\ Reports(A \cup B, m, f) = Reports(A, m, f) \cup Reports(B, m, f)
           /\ Opens(A \cup B, m) <=> Opens(A, m) \/ Opens(B, m)
BY DEF Reports, Opens

LEMMA ReportsOther ==
    ASSUME NEW A, NEW m, NEW f, \A a \in A : a.manga # m
    PROVE  Reports(A, m, f) = {} /\ ~Opens(A, m)
BY DEF Reports, Opens

\* The set of activities A is about m alone, and reports of it only what new says.
Faithful(A, m, new) == /\ A \subseteq Activity
                       /\ \A a \in A : a.manga = m
                       /\ \A f \in Tracked : Reports(A, m, f) \subseteq {new[f]}

LEMMA FaithfulUnion ==
    ASSUME NEW A, NEW B, NEW m, NEW new, Faithful(A, m, new), Faithful(B, m, new)
    PROVE  Faithful(A \cup B, m, new)
<1>1. \A f : Reports(A \cup B, m, f) = Reports(A, m, f) \cup Reports(B, m, f)
  BY ReportsUnion
<1> QED
  BY <1>1 DEF Faithful

LEMMA FaithfulEmpty ==
    ASSUME NEW m, NEW new
    PROVE  Faithful({}, m, new)
BY DEF Faithful, Reports

LEMMA FieldReportFaithful ==
    ASSUME NEW m \in Manga, NEW old \in Columns, NEW new \in Columns,
           NEW g \in Tracked, NEW type \in ActivityType
    PROVE  /\ Faithful(FieldReport(m, old, new, g, type), m, new)
           /\ Reports(FieldReport(m, old, new, g, type), m, g) # {} <=> new[g] # old[g]
           /\ \A f \in Tracked \ {g} : Reports(FieldReport(m, old, new, g, type), m, f) = {}
<1> DEFINE r == Report(m, type, g, new[g])
<1>1. CASE old[g] = new[g]
  <2>1. FieldReport(m, old, new, g, type) = {}
    BY <1>1 DEF FieldReport
  <2>2. \A f : Reports({}, m, f) = {}
    BY DEF Reports
  <2> QED
    BY <1>1, <2>1, <2>2, FaithfulEmpty
<1>2. CASE old[g] # new[g]
  <2>1. /\ r \in Activity
        /\ r.manga = m
        /\ r.to[g] = new[g]
        /\ new[g] # Absent
        /\ \A f \in Tracked \ {g} : r.to[f] = Absent
    BY ReportType, ColumnsInput
  <2>2. FieldReport(m, old, new, g, type) = {r}
    BY <1>2 DEF FieldReport
  <2> HIDE DEF r
  <2>3. Reports({r}, m, g) = {new[g]}
    BY <2>1 DEF Reports
  <2>4. \A f \in Tracked \ {g} : Reports({r}, m, f) = {}
    BY <2>1 DEF Reports
  <2> QED
    BY <1>2, <2>1, <2>2, <2>3, <2>4 DEF Faithful
<1> QED
  BY <1>1, <1>2

LEMMA StartedOrCompletedFaithful ==
    ASSUME NEW m \in Manga, NEW new \in Columns, NEW status, NEW started
    PROVE  /\ Faithful(StartedOrCompleted(m, status, started), m, new)
           /\ \A f \in Tracked : Reports(StartedOrCompleted(m, status, started), m, f) = {}
<1> DEFINE A == StartedOrCompleted(m, status, started)
<1>1. \A a \in A : a = Marker(m, "started") \/ a = Marker(m, "completed")
  BY DEF StartedOrCompleted
<1>2. \A a \in A : /\ a \in Activity
                   /\ a.manga = m
                   /\ \A f \in Tracked : a.to[f] = Absent
  BY <1>1, MarkerType DEF ActivityType
<1> HIDE DEF A
<1>3. \A f \in Tracked : Reports(A, m, f) = {}
  BY <1>2 DEF Reports
<1>4. Faithful(A, m, new)
  BY <1>2, <1>3 DEF Faithful
<1> QED
  BY <1>3, <1>4 DEF A

\* A change of an entry is reported field by field, and nothing else is.
LEMMA ChangeAccounts ==
    ASSUME NEW m \in Manga, NEW old \in Columns, NEW new \in Columns
    PROVE  /\ Faithful(ChangeActivities(m, old, new), m, new)
           /\ \A f \in Tracked :
                 Reports(ChangeActivities(m, old, new), m, f) # {} <=> new[f] # old[f]
<1> DEFINE A == FieldReport(m, old, new, "status", "status_change")
           B == IF old["status"] = new["status"] THEN {}
                ELSE StartedOrCompleted(m, new["status"],
                        new["status"] = Reading /\ old["status"] = PlanToRead)
           C == FieldReport(m, old, new, "score", "score_change")
           D == FieldReport(m, old, new, "progress_chapter", "progress_update")
<1>1. /\ Faithful(A, m, new)
      /\ Reports(A, m, "status") # {} <=> new["status"] # old["status"]
      /\ Reports(A, m, "score") = {} /\ Reports(A, m, "progress_chapter") = {}
  BY FieldReportFaithful DEF Tracked, ActivityType
<1>2. Faithful(B, m, new) /\ \A f \in Tracked : Reports(B, m, f) = {}
  <2>1. CASE old["status"] = new["status"]
    BY <2>1, FaithfulEmpty DEF Reports
  <2>2. CASE old["status"] # new["status"]
    BY <2>2, StartedOrCompletedFaithful
  <2> QED
    BY <2>1, <2>2
<1>3. /\ Faithful(C, m, new)
      /\ Reports(C, m, "score") # {} <=> new["score"] # old["score"]
      /\ Reports(C, m, "status") = {} /\ Reports(C, m, "progress_chapter") = {}
  BY FieldReportFaithful DEF Tracked, ActivityType
<1>4. /\ Faithful(D, m, new)
      /\ Reports(D, m, "progress_chapter") # {}
            <=> new["progress_chapter"] # old["progress_chapter"]
      /\ Reports(D, m, "status") = {} /\ Reports(D, m, "score") = {}
  BY FieldReportFaithful DEF Tracked, ActivityType
<1>5. ChangeActivities(m, old, new) = A \cup B \cup C \cup D
  BY DEF ChangeActivities
<1> HIDE DEF A, B, C, D
<1>6. Faithful(A \cup B \cup C \cup D, m, new)
  BY <1>1, <1>2, <1>3, <1>4, FaithfulUnion
<1>7. \A f \in Tracked :
         Reports(A \cup B \cup C \cup D, m, f) =
            Reports(A, m, f) \cup Reports(B, m, f) \cup Reports(C, m, f) \cup Reports(D, m, f)
  <2> SUFFICES ASSUME NEW f \in Tracked
               PROVE  Reports(A \cup B \cup C \cup D, m, f) =
                        Reports(A, m, f) \cup Reports(B, m, f)
                            \cup Reports(C, m, f) \cup Reports(D, m, f)
    OBVIOUS
  <2>1. Reports(A \cup B, m, f) = Reports(A, m, f) \cup Reports(B, m, f)
    BY ReportsUnion
  <2>2. Reports((A \cup B) \cup C, m, f) = Reports(A \cup B, m, f) \cup Reports(C, m, f)
    BY ReportsUnion
  <2>3. Reports(((A \cup B) \cup C) \cup D, m, f) =
            Reports((A \cup B) \cup C, m, f) \cup Reports(D, m, f)
    BY ReportsUnion
  <2> QED
    BY <2>1, <2>2, <2>3
<1> QED
  <2>1. ASSUME NEW f \in Tracked
        PROVE  Reports(A \cup B \cup C \cup D, m, f) # {} <=> new[f] # old[f]
    BY <1>1, <1>2, <1>3, <1>4, <1>7, TrackedFields
  <2> QED
    BY <1>5, <1>6, <2>1

\* What a sync logs of an entry it creates or changes.
LEMMA DetectAccounts ==
    ASSUME NEW m \in Manga, NEW old \in Columns, NEW new \in Columns, NEW created \in BOOLEAN
    PROVE  /\ Faithful(DetectActivities(m, created, old, new), m, new)
           /\ created => Opens(DetectActivities(m, created, old, new), m)
           /\ ~created => \A f \in Tracked :
                 Reports(DetectActivities(m, created, old, new), m, f) # {} <=> new[f] # old[f]
<1>1. CASE ~created
  BY <1>1, ChangeAccounts DEF DetectActivities
<1>2. CASE created
  <2> DEFINE a == Opening(m, "synced_from_mal", new)
             B == StartedOrCompleted(m, new["status"], new["status"] = Reading)
  <2>1. DetectActivities(m, created, old, new) = {a} \cup B
    BY <1>2 DEF DetectActivities
  <2>2. /\ a \in Activity
        /\ a.manga = m
        /\ a.opens
        /\ a.to = new
    BY OpeningType, ColumnsInput DEF ActivityType
  <2>3. Faithful(B, m, new)
    BY StartedOrCompletedFaithful
  <2> HIDE DEF a, B
  <2>4. Faithful({a}, m, new) /\ Opens({a}, m)
    BY <2>2 DEF Faithful, Reports, Opens
  <2>5. Faithful({a} \cup B, m, new) /\ Opens({a} \cup B, m)
    BY <2>3, <2>4, FaithfulUnion, ReportsUnion
  <2> QED
    BY <1>2, <2>1, <2>5
<1> QED
  BY <1>1, <1>2

LEMMA AddAccounts ==
    ASSUME NEW m \in Manga, NEW new \in Columns
    PROVE  Faithful(AddActivities(m, new), m, new) /\ Opens(AddActivities(m, new), m)
<1> DEFINE to == [Nothing EXCEPT !["status"] = new["status"]]
           a == Opening(m, "status_change", to)
<1>1. /\ to \in Input
      /\ to["status"] = new["status"]
      /\ to["score"] = Absent
      /\ to["progress_chapter"] = Absent
  BY ColumnsInput DEF Nothing, Input, Tracked
<1>2. /\ a \in Activity
      /\ a.manga = m
      /\ a.opens
      /\ a.to = to
  BY <1>1, OpeningType DEF ActivityType
<1>3. AddActivities(m, new) = {a}
  BY DEF AddActivities
<1> HIDE DEF to, a
<1>4. \A f \in Tracked : a.to[f] = new[f] \/ a.to[f] = Absent
  BY <1>1, <1>2, TrackedFields
<1> QED
  BY <1>2, <1>3, <1>4 DEF Faithful, Reports, Opens

LEMMA DefaultsColumns == Defaults \in Columns
<1>1. Defaults \in [Tracked -> Value]
  BY StatusAssumption, UnreadAssumption DEF Defaults, Value, Tracked
<1>2. Defaults["status"] = PlanToRead /\ Defaults["score"] = NULL
        /\ Defaults["progress_chapter"] = Unread
  BY DEF Defaults, Tracked
<1> QED
  BY <1>1, <1>2, StatusAssumption, UnreadAssumption DEF Columns

LEMMA MappedColumns ==
    ASSUME NEW item \in Items, NEW old \in Columns
    PROVE  Mapped(item, old) \in Columns
<1>1. item["progress_chapter"] \in Chapters \cup {Absent}
  BY InputAssumption
<1>2. old["status"] \in Statuses /\ old["progress_chapter"] \in Chapters
  BY DEF Columns
<1>3. /\ Mapped(item, old)["status"] \in Statuses
      /\ Mapped(item, old)["score"] \in Scores \cup {NULL}
      /\ Mapped(item, old)["progress_chapter"] \in Chapters
  BY <1>1, <1>2 DEF Mapped, Tracked
<1>4. \A f \in Tracked : Mapped(item, old)[f] \in Value
  BY <1>3, TrackedFields DEF Value
<1>5. Mapped(item, old) = [f \in Tracked |-> Mapped(item, old)[f]]
  BY DEF Mapped
<1>6. Mapped(item, old) \in [Tracked -> Value]
  BY <1>4, <1>5
<1> QED
  BY <1>3, <1>6 DEF Columns

-----------------------------------------------------------------------------
(***************************************************************************)
(* The inductive invariant.                                                *)
(***************************************************************************)
\* Steps that flush and commit nothing leave what is pending accounted for, and
\* so do commits of rows that no run has an uncommitted version of.
LEMMA PendingKept ==
    ASSUME IInv,
           UNCHANGED <<wip, acts>>,
           \A s \in Syncs : done[s] \subseteq done'[s],
           \A s \in Syncs, m \in Manga : wip[s][m] # NoRow => library'[m] = library[m]
    PROVE  ExclusiveRows' /\ PendingAccounted'
<1>1. ExclusiveRows'
  BY DEF IInv, ExclusiveRows
<1>2. ASSUME NEW s \in Syncs, NEW m \in Manga, wip'[s][m] # NoRow
      PROVE  /\ m \in done'[s]
             /\ Truthful(Pending(s)', m, wip'[s][m])
             /\ Complete(Pending(s)', m, library'[m], wip'[s][m])
  BY <1>2 DEF IInv, PendingAccounted, Pending, Truthful, Complete
<1>3. \A s \in Syncs : \A a \in acts'[s] : wip'[s][a.manga] # NoRow
  <2> SUFFICES ASSUME NEW s \in Syncs, NEW a \in acts[s]
               PROVE  wip[s][a.manga] # NoRow
    OBVIOUS
  <2>1. a \in Activity
    BY DEF IInv, TypeOK
  <2>2. a.manga \in Manga
    BY <2>1 DEF Activity
  <2> QED
    BY <2>2 DEF IInv, PendingAccounted
<1> QED
  BY <1>1, <1>2, <1>3 DEF PendingAccounted

\* A run that ends without a commit leaves nothing pending.
LEMMA RollbackKeeps ==
    ASSUME IInv, NEW s \in Syncs, Rollback(s)
    PROVE  IInv'
<1> USE DEF Rollback, CloseSync, Goto
<1>1. TypeOK'
  BY DEF IInv, TypeOK, Process, SyncEnded, Clean
<1>2. \A t \in Syncs, m \in Manga :
         wip'[t][m] # NoRow => t # s /\ wip'[t][m] = wip[t][m]
  BY DEF IInv, TypeOK, Clean
<1>3. /\ acts'[s] = {}
      /\ \A t \in Syncs \ {s} : acts'[t] = acts[t] /\ wip'[t] = wip[t] /\ done'[t] = done[t]
  BY DEF IInv, TypeOK
<1>4. ExclusiveRows'
  BY <1>2 DEF IInv, ExclusiveRows
<1>5. ASSUME NEW t \in Syncs, NEW m \in Manga, wip'[t][m] # NoRow
      PROVE  /\ m \in done'[t]
             /\ Truthful(Pending(t)', m, wip'[t][m])
             /\ Complete(Pending(t)', m, library'[m], wip'[t][m])
  <2>1. /\ wip[t][m] # NoRow /\ wip'[t][m] = wip[t][m]
        /\ done'[t] = done[t] /\ acts'[t] = acts[t] /\ library' = library
    BY <1>2, <1>3, <1>5
  <2>2. /\ m \in done[t]
        /\ Truthful(Pending(t), m, wip[t][m])
        /\ Complete(Pending(t), m, library[m], wip[t][m])
    BY <2>1 DEF IInv, PendingAccounted
  <2>3. Pending(t)'.acts = Pending(t).acts
    BY <2>1 DEF Pending
  <2> HIDE DEF Rollback
  <2> QED
    BY <2>1, <2>2, <2>3 DEF Truthful, Complete
<1>6. ASSUME NEW t \in Syncs, NEW a \in acts'[t]
      PROVE  wip'[t][a.manga] # NoRow
  <2>1. t # s /\ a \in acts[t] /\ a \in Activity
    BY <1>3, <1>6 DEF IInv, TypeOK
  <2>2. a.manga \in Manga
    BY <2>1 DEF Activity
  <2> QED
    BY <1>3, <2>1, <2>2 DEF IInv, PendingAccounted
<1>7. PendingAccounted'
  BY <1>5, <1>6 DEF PendingAccounted
<1>8. JobsFit'
  <2>1. \A p \in Process \ {s} : pc'[p] = pc[p] /\ job'[p] = job[p]
    BY DEF IInv, TypeOK
  <2>2. pc'[s] = "broken"
    BY DEF IInv, TypeOK, Process
  <2>3. \A r \in Requests : r \in Process \ {s}
    BY ProcessAssumption DEF Process
  <2>4. \A t \in Syncs \ {s} : t \in Process \ {s} /\ done'[t] = done[t]
    BY <1>3 DEF Process
  <2> QED
    BY <2>1, <2>2, <2>3, <2>4 DEF IInv, JobsFit
<1> QED
  BY <1>1, <1>4, <1>7, <1>8 DEF IInv

-----------------------------------------------------------------------------
(***************************************************************************)
(* Writing a row that was read earlier.                                    *)
(***************************************************************************)
LEMMA UpdatedType ==
    ASSUME NEW row \in Row, NEW loaded \in Row, NEW new \in Columns
    PROVE  /\ Updated(row, loaded, new) \in Row
           /\ Updated(row, loaded, new).id = row.id
           /\ \A f \in Tracked : Updated(row, loaded, new).val[f] =
                    IF new[f] # loaded.val[f] THEN new[f] ELSE row.val[f]
<1> DEFINE val == [f \in Tracked |-> IF f \in Dirty(loaded, new) THEN new[f] ELSE row.val[f]]
<1>1. Updated(row, loaded, new) = [row EXCEPT !.val = val]
  BY DEF Updated
<1>2. \A f \in Tracked : val[f] = IF new[f] # loaded.val[f] THEN new[f] ELSE row.val[f]
  BY DEF Dirty
<1>3. val \in Columns
  <2>1. row.val \in Columns
    BY DEF Row
  <2>2. \A f \in Tracked : val[f] \in Value
    BY <1>2, <2>1 DEF Columns
  <2>3. val \in [Tracked -> Value]
    BY <2>2
  <2>4. "status" \in Tracked /\ "score" \in Tracked /\ "progress_chapter" \in Tracked
    BY DEF Tracked
  <2> HIDE DEF val
  <2> QED
    BY <1>2, <2>1, <2>3, <2>4 DEF Columns
<1> HIDE DEF val
<1> QED
  BY <1>1, <1>2, <1>3 DEF Row

\* Writing the dirty columns of a stale row, with the activities of the change as
\* it looked when the row was read, accounts for the change of the current row.
LEMMA StaleWriteAccounts ==
    ASSUME NEW m \in Manga, NEW row \in Row, NEW loaded \in Row, NEW new \in Columns, NEW b,
           \A f \in Tracked :
                /\ Reports(b.acts, m, f) \subseteq {new[f]}
                /\ Reports(b.acts, m, f) # {} <=> new[f] # loaded.val[f]
    PROVE  /\ Truthful(b, m, Updated(row, loaded, new))
           /\ row # NoRow => Complete(b, m, row, Updated(row, loaded, new))
<1> DEFINE u == Updated(row, loaded, new)
<1>1. \A f \in Tracked : u.val[f] = IF new[f] # loaded.val[f] THEN new[f] ELSE row.val[f]
  BY UpdatedType
<1> HIDE DEF u
<1>2. Truthful(b, m, u)
  BY <1>1 DEF Truthful
<1>3. row # NoRow => Complete(b, m, row, u)
  BY <1>1 DEF Complete
<1> QED
  BY <1>2, <1>3 DEF u

LEMMA RowNotNoRow == NoRow \notin Row
BY NoRowAssumption DEF Row

\* A commit that changes the entry of one manga, logged by activities about it.
LEMMA OneRowLogged ==
    ASSUME IInv, NEW p \in Process, NEW m \in Manga, NEW row \in Row, NEW A, A # {},
           library' = [library EXCEPT ![m] = row],
           CommitActivities(p, A),
           A \subseteq Activity,
           \A a \in A : a.manga = m,
           Truthful([at |-> at[p], acts |-> A], m, row),
           Complete([at |-> at[p], acts |-> A], m, library[m], row)
    PROVE  /\ LedgerNext
           /\ log' \in Seq(Batch)
           /\ library' \in [Manga -> Row \cup {NoRow}]
<1> DEFINE b == [at |-> at[p], acts |-> A]
<1>1. b \in Batch /\ b.acts = A
  BY DEF IInv, TypeOK, Batch
<1>2. log \in Seq(Batch) /\ log' = Append(log, b)
  BY DEF CommitActivities, IInv, TypeOK
<1>3. /\ Len(log') = Len(log) + 1
      /\ log'[Len(log')] = b
      /\ log' \in Seq(Batch)
  BY <1>1, <1>2
<1>4. /\ library' \in [Manga -> Row \cup {NoRow}]
      /\ library'[m] = row
      /\ \A n \in Manga \ {m} : library'[n] = library[n]
  BY DEF IInv, TypeOK
<1>5. \A n \in Manga \ {m}, f \in Tracked : Reports(b.acts, n, f) = {}
  <2> SUFFICES ASSUME NEW n \in Manga \ {m}, NEW f \in Tracked
               PROVE  Reports(b.acts, n, f) = {}
    OBVIOUS
  <2> QED
    BY <1>1, ReportsOther
<1>6. Accounts(b, library, library')
  <2> HIDE DEF b
  <2>1. \A n \in Manga \ {m} : /\ Truthful(b, n, library'[n])
                               /\ Complete(b, n, library[n], library'[n])
    BY <1>4, <1>5 DEF Truthful, Complete
  <2>2. Truthful(b, m, library'[m]) /\ Complete(b, m, library[m], library'[m])
    BY <1>4 DEF b
  <2> QED
    BY <2>1, <2>2 DEF Accounts
<1> HIDE DEF b
<1> QED
  BY <1>1, <1>2, <1>3, <1>4, <1>6 DEF LedgerNext, Record

-----------------------------------------------------------------------------
(***************************************************************************)
(* The requests.                                                           *)
(***************************************************************************)
LEMMA AnswerFits ==
    ASSUME IInv, NEW r \in Requests, NEW label \in {"answered", "refused", "aborted"},
           Answer(r, label)
    PROVE  /\ JobsFit'
           /\ library' \in [Manga -> Row \cup {NoRow}] /\ log' \in Seq(Batch) => TypeOK'
<1>1. /\ \A p \in Process \ {r} : pc'[p] = pc[p] /\ job'[p] = job[p]
      /\ pc'[r] = label
      /\ done' = done
  BY DEF Answer, Goto, IInv, TypeOK, Process, own
<1>2. \A s \in Syncs : s \in Process \ {r}
  BY ProcessAssumption DEF Process
<1>3. JobsFit'
  BY <1>1, <1>2 DEF IInv, JobsFit, Process
<1>4. library' \in [Manga -> Row \cup {NoRow}] /\ log' \in Seq(Batch) => TypeOK'
  BY DEF IInv, TypeOK, Answer, Goto, own, RequestPc
<1> QED
  BY <1>3, <1>4

\* The work of a request that has loaded its row.
LEMMA LoadedJob ==
    ASSUME IInv, NEW r \in Requests, pc[r] = "loaded"
    PROVE  /\ job[r] \in Job
           /\ job[r].manga \in Manga
           /\ job[r].op = "add" => job[r].input \in Columns
           /\ job[r].op = "patch" => job[r].input \in Patches
           /\ job[r].op \in {"patch", "remove"} => job[r].loaded \in Row
<1>1. job[r] \in Job
  BY DEF IInv, TypeOK, JobsFit, Process
<1>2. job[r].manga \in Manga /\ job[r].loaded \in Row \cup {NoRow}
  BY <1>1 DEF Job
<1> QED
  BY <1>1, <1>2, InputAssumption DEF IInv, JobsFit

LEMMA AddEntryStep ==
    ASSUME IInv, NEW r \in Requests, AddEntry(r)
    PROVE  IInv' /\ [LedgerNext]_ledgerVars
<1> DEFINE m == job[r].manga
           row == [id |-> r, val |-> job[r].input]
           A == AddActivities(m, job[r].input)
<1>1. /\ pc[r] = "loaded"
      /\ job[r].op = "add"
      /\ r \in Process
  BY DEF AddEntry, Process
<1>2. m \in Manga /\ job[r].input \in Columns
  BY <1>1, LoadedJob
<1>3. CASE library[m] # NoRow
  <2>1. Answer(r, "refused") /\ UNCHANGED <<library, log>>
    BY <1>3 DEF AddEntry
  <2>2. JobsFit' /\ TypeOK'
    BY <2>1, AnswerFits DEF IInv, TypeOK
  <2>3. ExclusiveRows' /\ PendingAccounted'
    BY <2>1, PendingKept DEF Answer, own
  <2> QED
    BY <2>1, <2>2, <2>3 DEF IInv, ledgerVars
<1>4. CASE library[m] = NoRow
  <2>1. /\ ~EntryLocked(m, r)
        /\ library' = [library EXCEPT ![m] = row]
        /\ CommitActivities(r, A)
        /\ Answer(r, "answered")
    BY <1>4 DEF AddEntry
  <2>2. Faithful(A, m, job[r].input) /\ Opens(A, m)
    BY <1>2, AddAccounts
  <2>3. row \in Row
    BY <1>1, <1>2, ProcessAssumption DEF Row
  <2>4. /\ Truthful([at |-> at[r], acts |-> A], m, row)
        /\ Complete([at |-> at[r], acts |-> A], m, library[m], row)
    BY <2>2 DEF Truthful, Complete, Faithful
  <2>5. A # {}
    BY <2>2 DEF Opens
  <2>6. A \subseteq Activity /\ \A a \in A : a.manga = m
    BY <2>2 DEF Faithful
  <2>7. /\ LedgerNext
        /\ log' \in Seq(Batch)
        /\ library' \in [Manga -> Row \cup {NoRow}]
    <3> HIDE DEF A, m, row
    <3> QED
      BY <1>1, <1>2, <2>1, <2>3, <2>4, <2>5, <2>6, OneRowLogged
  <2>8. JobsFit' /\ TypeOK'
    BY <2>1, <2>7, AnswerFits
  <2>9. \A s \in Syncs, n \in Manga : wip[s][n] # NoRow => library'[n] = library[n]
    <3>1. \A s \in Syncs : wip[s][m] = NoRow
      BY <2>1, ProcessAssumption DEF EntryLocked
    <3> QED
      BY <2>1, <3>1 DEF IInv, TypeOK
  <2>10. ExclusiveRows' /\ PendingAccounted'
    BY <2>1, <2>9, PendingKept DEF Answer, own
  <2> QED
    BY <2>7, <2>8, <2>10 DEF IInv
<1> QED
  BY <1>3, <1>4

LEMMA PatchedColumns ==
    ASSUME IInv, NEW r \in Requests, pc[r] = "loaded", job[r].op = "patch", ~PatchRaises(r)
    PROVE  Patched(r) \in Columns
<1> DEFINE old == job[r].loaded.val
           input == job[r].input
<1>1. /\ input \in Patches
      /\ job[r].loaded \in Row
  BY LoadedJob
<1>2. old \in Columns
  BY <1>1 DEF Row
<1>3. /\ input["status"] \in Statuses \cup {NULL, Absent}
      /\ input["score"] \in Scores \cup {NULL, Absent}
      /\ input["progress_chapter"] \in Chapters \cup {NULL, Absent}
  BY <1>1, InputAssumption
<1>4. /\ old["status"] \in Statuses
      /\ old["score"] \in Scores \cup {NULL}
      /\ old["progress_chapter"] \in Chapters
  BY <1>2 DEF Columns
<1>5. \A f \in Tracked : Patched(r)[f] = IF input[f] = Absent THEN old[f] ELSE input[f]
  BY DEF Patched
<1>6. /\ Patched(r)["status"] # old["status"] => Patched(r)["status"] # NULL
      /\ Patched(r)["progress_chapter"] # old["progress_chapter"]
            => Patched(r)["progress_chapter"] # NULL
  BY DEF PatchRaises, Dirty, Tracked
<1>7. "status" \in Tracked /\ "score" \in Tracked /\ "progress_chapter" \in Tracked
  BY DEF Tracked
<1> HIDE DEF old, input
<1>8. /\ Patched(r)["status"] \in Statuses
      /\ Patched(r)["score"] \in Scores \cup {NULL}
      /\ Patched(r)["progress_chapter"] \in Chapters
  <2>1. NULL \notin Statuses /\ NULL \notin Chapters
    BY NullAssumption
  <2> QED
    BY <1>3, <1>4, <1>5, <1>6, <1>7, <2>1
<1>9. \A f \in Tracked : Patched(r)[f] \in Value
  BY <1>8, TrackedFields DEF Value
<1>10. Patched(r) = [f \in Tracked |-> Patched(r)[f]]
  BY DEF Patched
<1>11. Patched(r) \in [Tracked -> Value]
  BY <1>9, <1>10
<1> QED
  BY <1>8, <1>11 DEF Columns

LEMMA PatchEntryStep ==
    ASSUME IInv, NEW r \in Requests, PatchEntry(r)
    PROVE  IInv' /\ [LedgerNext]_ledgerVars
<1> DEFINE m == job[r].manga
           loaded == job[r].loaded
           new == Patched(r)
           A == ChangeActivities(m, loaded.val, new)
           row == Updated(library[m], loaded, new)
<1>1. /\ pc[r] = "loaded" /\ job[r].op = "patch" /\ ~PatchRaises(r)
      /\ PatchWrites(r) => RowFree(r) /\ SameRow(m, loaded)
      /\ library' = IF PatchWrites(r) THEN [library EXCEPT ![m] = row] ELSE library
      /\ CommitActivities(r, A)
      /\ Answer(r, "answered")
      /\ r \in Process
  BY DEF PatchEntry, Process
<1>2. m \in Manga /\ loaded \in Row /\ loaded.val \in Columns /\ new \in Columns
  BY <1>1, LoadedJob, PatchedColumns DEF Row
<1>3. /\ Faithful(A, m, new)
      /\ \A f \in Tracked : Reports(A, m, f) # {} <=> new[f] # loaded.val[f]
  BY <1>2, ChangeAccounts
<1>4. A \subseteq Activity /\ \A a \in A : a.manga = m
  BY <1>3 DEF Faithful
<1>5. \A s \in Syncs, n \in Manga : wip[s][n] # NoRow => library'[n] = library[n]
  <2>1. CASE PatchWrites(r)
    <3>1. \A s \in Syncs : wip[s][m] = NoRow
      BY <1>1, <2>1, ProcessAssumption DEF RowFree, EntryLocked
    <3> QED
      BY <1>1, <1>2, <2>1, <3>1 DEF IInv, TypeOK
  <2>2. CASE ~PatchWrites(r)
    BY <1>1, <2>2
  <2> QED
    BY <2>1, <2>2
<1>6. ExclusiveRows' /\ PendingAccounted'
  BY <1>1, <1>5, PendingKept DEF Answer, own
<1>7. /\ [LedgerNext]_ledgerVars
      /\ log' \in Seq(Batch)
      /\ library' \in [Manga -> Row \cup {NoRow}]
  <2>1. CASE ~PatchWrites(r)
    <3>1. \A f \in Tracked : new[f] = loaded.val[f]
      BY <2>1 DEF PatchWrites, Dirty
    <3>2. loaded.val["status"] = new["status"]
            /\ loaded.val["score"] = new["score"]
            /\ loaded.val["progress_chapter"] = new["progress_chapter"]
      BY <3>1 DEF Tracked
    <3>3. A = {}
      BY <3>2 DEF ChangeActivities, FieldReport
    <3> QED
      BY <1>1, <2>1, <3>3 DEF CommitActivities, ledgerVars, IInv, TypeOK
  <2>2. CASE PatchWrites(r)
    <3> HIDE DEF A, new
    <3>1. library[m] \in Row /\ library[m] # NoRow
      BY <1>1, <1>2, <2>2 DEF SameRow, IInv, TypeOK
    <3>2. row \in Row
      BY <1>2, <3>1, UpdatedType
    <3>3. /\ Truthful([at |-> at[r], acts |-> A], m, row)
          /\ Complete([at |-> at[r], acts |-> A], m, library[m], row)
      BY <1>2, <1>3, <3>1, StaleWriteAccounts DEF Faithful
    <3>4. CASE A # {}
      <4> HIDE DEF m, row, loaded
      <4> QED
        BY <1>1, <1>2, <1>4, <2>2, <3>2, <3>3, <3>4, OneRowLogged
    <3>5. CASE A = {}
      <4>1. \A f \in Tracked : new[f] = loaded.val[f]
        BY <1>3, <3>5 DEF Reports
      <4>2. Dirty(loaded, new) = {}
        BY <4>1 DEF Dirty
      <4>3. library[m].val \in Columns
        BY <3>1 DEF Row
      <4>4. row = library[m]
        <5>1. [f \in Tracked |-> IF f \in Dirty(loaded, new)
                                THEN new[f] ELSE library[m].val[f]] = library[m].val
          BY <4>2, <4>3 DEF Columns
        <5>2. row = [library[m] EXCEPT !.val = library[m].val]
          BY <5>1 DEF Updated
        <5> QED
          BY <3>1, <5>2 DEF Row
      <4>5. library' = library /\ log' = log
        BY <1>1, <1>2, <2>2, <3>5, <4>4 DEF CommitActivities, IInv, TypeOK
      <4> QED
        BY <4>5 DEF ledgerVars, IInv, TypeOK
    <3> QED
      BY <3>4, <3>5
  <2> QED
    BY <2>1, <2>2
<1>8. JobsFit' /\ TypeOK'
  BY <1>1, <1>7, AnswerFits
<1> QED
  BY <1>6, <1>7, <1>8 DEF IInv

LEMMA RemoveEntryStep ==
    ASSUME IInv, NEW r \in Requests, RemoveEntry(r)
    PROVE  IInv' /\ [LedgerNext]_ledgerVars
<1> DEFINE m == job[r].manga
<1>1. /\ pc[r] = "loaded" /\ job[r].op = "remove"
      /\ RowFree(r)
      /\ library' = IF SameRow(m, job[r].loaded)
                    THEN [library EXCEPT ![m] = NoRow] ELSE library
      /\ Answer(r, "answered")
      /\ log' = log
  BY DEF RemoveEntry
<1>2. m \in Manga
  BY <1>1, LoadedJob
<1>3. library' \in [Manga -> Row \cup {NoRow}]
        /\ \A n \in Manga : library'[n] # NoRow => library'[n] = library[n]
  BY <1>1, <1>2 DEF IInv, TypeOK
<1>4. \A s \in Syncs, n \in Manga : wip[s][n] # NoRow => library'[n] = library[n]
  <2>1. CASE SameRow(m, job[r].loaded)
    <3>1. \A s \in Syncs : wip[s][m] = NoRow
      BY <1>1, <2>1, ProcessAssumption DEF RowFree, EntryLocked
    <3> QED
      BY <1>1, <1>2, <2>1, <3>1 DEF IInv, TypeOK
  <2>2. CASE ~SameRow(m, job[r].loaded)
    BY <1>1, <2>2
  <2> QED
    BY <2>1, <2>2
<1>5. ExclusiveRows' /\ PendingAccounted'
  BY <1>1, <1>4, PendingKept DEF Answer, own
<1>6. JobsFit' /\ TypeOK'
  BY <1>1, <1>3, AnswerFits DEF IInv, TypeOK
<1>7. LedgerNext
  BY <1>1, <1>3 DEF LedgerNext, Unlogged
<1> QED
  BY <1>5, <1>6, <1>7 DEF IInv

\* The request steps that commit nothing.
LEMMA QuietRequestStep ==
    ASSUME IInv, NEW r \in Requests, Load(r) \/ PatchAborts(r) \/ CrashRequest(r)
    PROVE  IInv' /\ UNCHANGED ledgerVars
<1>1. CASE Load(r)
  <2>1. UNCHANGED <<library, log, catalog, own, account>>
    BY <1>1 DEF Load
  <2>2. ExclusiveRows' /\ PendingAccounted'
    BY <2>1, PendingKept DEF own
  <2>3. /\ clock' = clock + 1
        /\ at' = [at EXCEPT ![r] = clock + 1]
    BY <1>1 DEF Load, BeginTransaction
  <2>4. PICK op \in {"add", "patch", "remove"}, m \in Manga :
            \E input \in CASE op = "add"   -> NewEntries
                           [] op = "patch" -> Patches
                           [] OTHER        -> {Nothing},
               touch \in IF op = "patch" THEN Touches ELSE {{}} :
               IF (op = "add" /\ m \in catalog) \/ (op # "add" /\ library[m] # NoRow)
               THEN /\ Goto(r, "loaded")
                    /\ job' = [job EXCEPT ![r] =
                          [op |-> op, manga |-> m, input |-> input, touch |-> touch,
                           loaded |-> library[m], seen |-> TRUE]]
               ELSE Goto(r, "refused") /\ UNCHANGED job
    BY <1>1 DEF Load
  <2>5. PICK input \in CASE op = "add"   -> NewEntries
                         [] op = "patch" -> Patches
                         [] OTHER        -> {Nothing},
             touch \in IF op = "patch" THEN Touches ELSE {{}} :
               IF (op = "add" /\ m \in catalog) \/ (op # "add" /\ library[m] # NoRow)
               THEN /\ Goto(r, "loaded")
                    /\ job' = [job EXCEPT ![r] =
                          [op |-> op, manga |-> m, input |-> input, touch |-> touch,
                           loaded |-> library[m], seen |-> TRUE]]
               ELSE Goto(r, "refused") /\ UNCHANGED job
    BY <2>4
  <2> DEFINE j == [op |-> op, manga |-> m, input |-> input, touch |-> touch,
                   loaded |-> library[m], seen |-> TRUE]
  <2>6. /\ op = "add" => input \in NewEntries
        /\ op = "patch" => input \in Patches
        /\ input \in Input
    <3>1. NewEntries \subseteq Input
      BY InputAssumption, ColumnsInput
    <3> QED
      BY <2>5, <3>1, InputAssumption, NothingInput
  <2>7. touch \in SUBSET {"manga", "entry"}
    BY <2>5, InputAssumption
  <2>9. library[m] \in Row \cup {NoRow}
    BY DEF IInv, TypeOK
  <2>10. j \in Job
    BY <2>6, <2>7, <2>9 DEF Job
  <2>11. IInv'
    <3>1. \/ /\ op # "add" => library[m] # NoRow
             /\ Goto(r, "loaded")
             /\ job' = [job EXCEPT ![r] = j]
          \/ Goto(r, "refused") /\ job' = job
      BY <2>5
    <3> HIDE DEF j
    <3>2. TypeOK'
      <4>1. pc' \in [Process -> RequestPc \cup SyncOpen \cup SyncEnded]
        BY <3>1 DEF IInv, TypeOK, Goto, RequestPc
      <4>2. job' \in [Process -> Job \cup {NULL}]
        BY <2>10, <3>1 DEF IInv, TypeOK
      <4>3. clock' \in Nat /\ at' \in [Process -> Nat]
        <5>1. clock \in Nat /\ at \in [Process -> Nat]
          BY DEF IInv, TypeOK
        <5>2. clock + 1 \in Nat
          BY <5>1
        <5> QED
          BY <2>3, <5>1, <5>2
      <4>4. /\ library' = library /\ log' = log /\ catalog' = catalog
            /\ wip' = wip /\ fresh' = fresh /\ acts' = acts /\ done' = done
            /\ account' = account
        BY <2>1 DEF own
      <4> QED
        BY <4>1, <4>2, <4>3, <4>4 DEF IInv, TypeOK
    <3>3. /\ \A p \in Process \ {r} : pc'[p] = pc[p] /\ job'[p] = job[p]
          /\ \/ /\ op # "add" => library[m] # NoRow
                /\ job'[r] = j
             \/ pc'[r] = "refused"
          /\ pc'[r] \in {"loaded", "refused"}
      BY <3>1 DEF IInv, TypeOK, Goto, Process
    <3>4. \A s \in Syncs : s \in Process \ {r}
      BY ProcessAssumption DEF Process
    <3>5. JobsFit'
      <4>1. /\ j.op = op
            /\ j.input = input
            /\ j.loaded = library[m]
        BY DEF j
      <4>2. j \in Job
        BY <2>10
      <4>3. done' = done
        BY <2>1 DEF own
      <4>4. ASSUME NEW q \in Requests, pc'[q] = "loaded"
            PROVE  /\ job'[q] \in Job
                   /\ job'[q].op = "add" => job'[q].input \in NewEntries
                   /\ job'[q].op = "patch" => job'[q].input \in Patches
                   /\ job'[q].op \in {"patch", "remove"} => job'[q].loaded # NoRow
        <5>1. CASE q # r
          BY <3>3, <4>4, <5>1 DEF IInv, JobsFit, Process
        <5>2. CASE q = r
          BY <2>6, <3>3, <4>1, <4>2, <4>4, <5>2
        <5> QED
          BY <5>1, <5>2
      <4>5. ASSUME NEW s \in Syncs, pc'[s] \in {"manga", "entry"}
            PROVE  /\ job'[s] \in Job
                   /\ job'[s].input \in Items
                   /\ job'[s].manga \notin done'[s]
        BY <3>3, <3>4, <4>3, <4>5 DEF IInv, JobsFit
      <4> QED
        BY <4>4, <4>5 DEF JobsFit
    <3> QED
      BY <2>2, <3>2, <3>5 DEF IInv
  <2> QED
    BY <2>1, <2>11 DEF ledgerVars
<1>2. CASE PatchAborts(r) \/ CrashRequest(r)
  <2>1. Answer(r, "aborted") /\ UNCHANGED <<library, log>>
    BY <1>2 DEF PatchAborts, CrashRequest
  <2>2. JobsFit' /\ TypeOK'
    BY <2>1, AnswerFits DEF IInv, TypeOK
  <2>3. ExclusiveRows' /\ PendingAccounted'
    BY <2>1, PendingKept DEF Answer, own
  <2> QED
    BY <2>1, <2>2, <2>3 DEF IInv, ledgerVars
<1> QED
  BY <1>1, <1>2

-----------------------------------------------------------------------------
(***************************************************************************)
(* The runs of the sync.                                                   *)
(***************************************************************************)
\* The work of a run that has an item in hand.
LEMMA ItemJob ==
    ASSUME IInv, NEW s \in Syncs, pc[s] \in {"manga", "entry"}
    PROVE  /\ job[s] \in Job
           /\ job[s].manga \in Manga
           /\ job[s].input \in Items
           /\ job[s].loaded \in Row \cup {NoRow}
           /\ job[s].manga \notin done[s]
           /\ Before(s) \in Columns
           /\ After(s) \in Columns
<1>1. job[s] \in Job /\ job[s].input \in Items /\ job[s].manga \notin done[s]
  BY DEF IInv, JobsFit
<1>2. job[s].manga \in Manga /\ job[s].loaded \in Row \cup {NoRow}
  BY <1>1 DEF Job
<1>3. Before(s) \in Columns
  BY <1>2, DefaultsColumns DEF Before, Row
<1>4. After(s) \in Columns
  BY <1>1, <1>3, MappedColumns DEF After
<1> QED
  BY <1>1, <1>2, <1>3, <1>4

\* A step of run s that flushes no entry and commits nothing.
LEMMA QuietSyncStep ==
    ASSUME IInv, NEW s \in Syncs, NEW label \in SyncOpen,
           Goto(s, label),
           UNCHANGED <<library, log, catalog, wip, acts>>,
           clock' \in Nat,
           at' \in [Process -> Nat],
           fresh' \in [Syncs -> SUBSET Manga],
           account' \in Syncs \cup {NULL},
           job' \in [Process -> Job \cup {NULL}],
           done' \in [Syncs -> SUBSET Manga],
           \A t \in Syncs : done[t] \subseteq done'[t],
           \A p \in Process \ {s} : job'[p] = job[p],
           \A t \in Syncs \ {s} : done'[t] = done[t],
           label \in {"manga", "entry"} =>
                /\ job'[s] \in Job
                /\ job'[s].input \in Items
                /\ job'[s].manga \notin done'[s]
    PROVE  IInv'
<1>1. pc' \in [Process -> RequestPc \cup SyncOpen \cup SyncEnded]
  BY DEF Goto, IInv, TypeOK
<1>2. TypeOK'
  BY <1>1 DEF IInv, TypeOK
<1>3. ExclusiveRows' /\ PendingAccounted'
  BY PendingKept
<1>4. /\ \A p \in Process \ {s} : pc'[p] = pc[p]
      /\ pc'[s] = label
      /\ \A r \in Requests : r \in Process \ {s}
      /\ \A t \in Syncs \ {s} : t \in Process \ {s}
  BY ProcessAssumption DEF Goto, IInv, TypeOK, Process
<1>5. JobsFit'
  <2>1. ASSUME NEW q \in Requests, pc'[q] = "loaded"
        PROVE  /\ job'[q] \in Job
               /\ job'[q].op = "add" => job'[q].input \in NewEntries
               /\ job'[q].op = "patch" => job'[q].input \in Patches
               /\ job'[q].op \in {"patch", "remove"} => job'[q].loaded # NoRow
    BY <1>4, <2>1 DEF IInv, JobsFit
  <2>2. ASSUME NEW t \in Syncs, pc'[t] \in {"manga", "entry"}
        PROVE  /\ job'[t] \in Job
               /\ job'[t].input \in Items
               /\ job'[t].manga \notin done'[t]
    <3>1. CASE t = s
      BY <1>4, <2>2, <3>1
    <3>2. CASE t # s
      BY <1>4, <2>2, <3>2 DEF IInv, JobsFit
    <3> QED
      BY <3>1, <3>2
  <2> QED
    BY <2>1, <2>2 DEF JobsFit
<1> QED
  BY <1>2, <1>3, <1>5 DEF IInv

LEMMA TokenAndListSteps ==
    ASSUME IInv, NEW s \in Syncs,
           \/ BeginSync(s) \/ CheckToken(s) \/ RefreshToken(s)
           \/ EndOfList(s) \/ ListError(s) \/ EntryError(s)
    PROVE  IInv' /\ UNCHANGED ledgerVars
<1>1. /\ UNCHANGED <<library, log, catalog, wip, acts, fresh, done, job>>
      /\ \E label \in SyncOpen \ {"manga", "entry"} : Goto(s, label)
  BY DEF BeginSync, CheckToken, RefreshToken, EndOfList, ListError, EntryError,
         SyncOpen, own
<1>2. /\ account' \in Syncs \cup {NULL}
      /\ clock' \in Nat
      /\ at' \in [Process -> Nat]
  BY DEF BeginSync, CheckToken, RefreshToken, EndOfList, ListError, EntryError,
         IInv, TypeOK, BeginTransaction
<1>3. IInv'
  <2>1. PICK label \in SyncOpen \ {"manga", "entry"} : Goto(s, label)
    BY <1>1
  <2>2. /\ fresh' \in [Syncs -> SUBSET Manga]
        /\ job' \in [Process -> Job \cup {NULL}]
        /\ done' \in [Syncs -> SUBSET Manga]
    BY <1>1 DEF IInv, TypeOK
  <2> QED
    BY <1>1, <1>2, <2>1, <2>2, QuietSyncStep
<1> QED
  BY <1>1, <1>3 DEF ledgerVars

LEMMA FetchItemStep ==
    ASSUME IInv, NEW s \in Syncs, FetchItem(s)
    PROVE  IInv' /\ UNCHANGED ledgerVars
<1>1. PICK m \in Manga \ done[s], item \in Items, touch \in Touches :
        job' = [job EXCEPT ![s] =
                  [op |-> "item", manga |-> m, input |-> item, touch |-> touch,
                   loaded |-> NoRow, seen |-> m \in catalog]]
  BY DEF FetchItem
<1> DEFINE j == [op |-> "item", manga |-> m, input |-> item, touch |-> touch,
                 loaded |-> NoRow, seen |-> m \in catalog]
<1>2. /\ Goto(s, "manga")
      /\ UNCHANGED <<library, log, catalog, clock, at, own, account>>
  BY DEF FetchItem
<1>3. j \in Job /\ j.input = item /\ j.manga = m
  <2>1. item \in Input /\ touch \in SUBSET {"manga", "entry"}
    BY InputAssumption
  <2>2. (m \in catalog) \in BOOLEAN
    OBVIOUS
  <2> QED
    BY <2>1, <2>2 DEF Job
<1>4. job' = [job EXCEPT ![s] = j]
  BY <1>1
<1> HIDE DEF j
<1>5. /\ job' \in [Process -> Job \cup {NULL}]
      /\ job'[s] = j
      /\ \A p \in Process \ {s} : job'[p] = job[p]
  BY <1>3, <1>4 DEF IInv, TypeOK, Process
<1>6. /\ clock' \in Nat
      /\ at' \in [Process -> Nat]
      /\ fresh' \in [Syncs -> SUBSET Manga]
      /\ account' \in Syncs \cup {NULL}
      /\ done' \in [Syncs -> SUBSET Manga]
      /\ done' = done
      /\ UNCHANGED <<library, log, catalog, wip, acts>>
  BY <1>2 DEF IInv, TypeOK, own
<1>7. "manga" \in SyncOpen
  BY DEF SyncOpen
<1>8. IInv'
  BY <1>2, <1>3, <1>5, <1>6, <1>7, QuietSyncStep
<1> QED
  BY <1>2, <1>8 DEF ledgerVars

LEMMA UpsertMangaStep ==
    ASSUME IInv, NEW s \in Syncs, UpsertManga(s)
    PROVE  IInv' /\ UNCHANGED ledgerVars
<1> DEFINE m == job[s].manga
<1>1. /\ pc[s] = "manga"
      /\ fresh' = IF MangaWrites(s) THEN [fresh EXCEPT ![s] = @ \cup {m}] ELSE fresh
      /\ job' = [job EXCEPT ![s].loaded = library[m]]
      /\ Goto(s, "entry")
      /\ UNCHANGED <<library, log, catalog, clock, at, wip, acts, done, account>>
  BY DEF UpsertManga
<1>2. job[s] \in Job /\ m \in Manga /\ job[s].input \in Items /\ m \notin done[s]
  BY <1>1, ItemJob
<1>3. library[m] \in Row \cup {NoRow}
  BY <1>2 DEF IInv, TypeOK
<1> DEFINE j == [job[s] EXCEPT !.loaded = library[m]]
<1>4. j \in Job /\ j.manga = m /\ j.input = job[s].input
  BY <1>2, <1>3 DEF Job
<1>5. job' = [job EXCEPT ![s] = j]
  BY <1>1
<1> HIDE DEF j
<1>6. /\ job' \in [Process -> Job \cup {NULL}]
      /\ job'[s] = j
      /\ \A p \in Process \ {s} : job'[p] = job[p]
  BY <1>4, <1>5 DEF IInv, TypeOK, Process
<1>7. fresh' \in [Syncs -> SUBSET Manga]
  BY <1>1, <1>2 DEF IInv, TypeOK
<1>8. /\ clock' \in Nat
      /\ at' \in [Process -> Nat]
      /\ account' \in Syncs \cup {NULL}
      /\ done' \in [Syncs -> SUBSET Manga]
  BY <1>1 DEF IInv, TypeOK
<1>9. "entry" \in SyncOpen
  BY DEF SyncOpen
<1>10. IInv'
  BY <1>1, <1>2, <1>4, <1>6, <1>7, <1>8, <1>9, QuietSyncStep
<1> QED
  BY <1>1, <1>10 DEF ledgerVars

\* The sync is back at its list, with one more item done.
LEMMA ItemDoneFits ==
    ASSUME IInv, NEW s \in Syncs, pc[s] = "entry", ItemDone(s)
    PROVE  /\ \A t \in Syncs : done[t] \subseteq done'[t]
           /\ job[s].manga \in done'[s]
           /\ job' \in [Process -> Job \cup {NULL}]
           /\ done' \in [Syncs -> SUBSET Manga]
           /\ \A p \in Process \ {s} : job'[p] = job[p]
           /\ \A t \in Syncs \ {s} : done'[t] = done[t]
<1>1. job[s].manga \in Manga
  BY ItemJob
<1> QED
  BY <1>1 DEF ItemDone, IInv, TypeOK

LEMMA KeepEntryStep ==
    ASSUME IInv, NEW s \in Syncs, KeepEntry(s)
    PROVE  IInv' /\ UNCHANGED ledgerVars
<1>1. /\ pc[s] = "entry" /\ ItemDone(s) /\ Goto(s, "list")
      /\ UNCHANGED <<wip, acts, library, log, catalog, clock, at, fresh, account>>
  BY DEF KeepEntry, ItemDone
<1>2. "list" \in SyncOpen /\ "list" \notin {"manga", "entry"}
  BY DEF SyncOpen
<1>3. /\ clock' \in Nat
      /\ at' \in [Process -> Nat]
      /\ fresh' \in [Syncs -> SUBSET Manga]
      /\ account' \in Syncs \cup {NULL}
  BY <1>1 DEF IInv, TypeOK
<1>4. IInv'
  BY <1>1, <1>2, <1>3, ItemDoneFits, QuietSyncStep
<1> QED
  BY <1>1, <1>4 DEF ledgerVars

\* The flush of an entry with its activities: what is pending of the other
\* entries stays as it was, and what is pending of this one is accounted for.
LEMMA WriteEntryStep ==
    ASSUME IInv, NEW s \in Syncs, WriteEntry(s)
    PROVE  IInv' /\ UNCHANGED ledgerVars
<1> DEFINE m == job[s].manga
           loaded == job[s].loaded
           created == loaded = NoRow
           A == DetectActivities(m, created, Before(s), After(s))
           row == NextRow(s)
<1>1. /\ pc[s] = "entry"
      /\ ~EntryLocked(m, s)
      /\ IF loaded = NoRow THEN library[m] = NoRow ELSE SameRow(m, loaded)
      /\ wip' = [wip EXCEPT ![s][m] = row]
      /\ acts' = [acts EXCEPT ![s] = @ \cup A]
      /\ ItemDone(s)
      /\ Goto(s, "list")
      /\ UNCHANGED <<library, log, catalog, clock, at, fresh, account>>
  BY DEF WriteEntry, ItemDone
<1>2. /\ m \in Manga
      /\ loaded \in Row \cup {NoRow}
      /\ m \notin done[s]
      /\ Before(s) \in Columns
      /\ After(s) \in Columns
  BY <1>1, ItemJob
<1>3. /\ Faithful(A, m, After(s))
      /\ created => Opens(A, m)
      /\ ~created => \A f \in Tracked : Reports(A, m, f) # {} <=> After(s)[f] # Before(s)[f]
  <2>1. created \in BOOLEAN
    OBVIOUS
  <2> HIDE DEF created
  <2> QED
    BY <1>2, <2>1, DetectAccounts
<1>4. A \subseteq Activity /\ \A a \in A : a.manga = m
  BY <1>3 DEF Faithful
<1>5. wip[s][m] = NoRow
  BY <1>2 DEF IInv, PendingAccounted
<1>6. \A a \in acts[s] : a.manga # m
  BY <1>2, <1>5 DEF IInv, PendingAccounted
<1>7. /\ row \in Row
      /\ \A b : b.acts = A => /\ Truthful(b, m, row)
                              /\ Complete(b, m, library[m], row)
  <2>1. CASE loaded = NoRow
    <3>1. row = [id |-> s, val |-> After(s)]
      BY <2>1 DEF NextRow
    <3>2. row \in Row /\ row.val = After(s)
      BY <1>2, <3>1, ProcessAssumption DEF Row
    <3> HIDE DEF A, row
    <3> QED
      BY <1>3, <2>1, <3>2 DEF Truthful, Complete, Faithful
  <2>2. CASE loaded # NoRow
    <3>1. loaded \in Row /\ library[m] \in Row /\ library[m] # NoRow
      BY <1>1, <1>2, <2>2 DEF SameRow, IInv, TypeOK
    <3>2. row = Updated(library[m], loaded, After(s))
      BY <2>2 DEF NextRow
    <3>3. Before(s) = loaded.val
      BY <2>2 DEF Before
    <3>4. row \in Row
      BY <1>2, <3>1, <3>2, UpdatedType
    <3> HIDE DEF A, row, loaded, m
    <3>5. \A f \in Tracked : /\ Reports(A, m, f) \subseteq {After(s)[f]}
                             /\ Reports(A, m, f) # {} <=> After(s)[f] # loaded.val[f]
      BY <1>3, <2>2, <3>3 DEF Faithful
    <3>6. ASSUME NEW b, b.acts = A
          PROVE  Truthful(b, m, row) /\ Complete(b, m, library[m], row)
      BY <1>2, <3>1, <3>2, <3>5, <3>6, StaleWriteAccounts
    <3> QED
      BY <3>4, <3>6
  <2> QED
    BY <2>1, <2>2
<1> HIDE DEF A, row, m, loaded
<1>8. /\ wip' \in [Syncs -> [Manga -> Row \cup {NoRow}]]
      /\ wip'[s][m] = row
      /\ \A n \in Manga \ {m} : wip'[s][n] = wip[s][n]
      /\ \A t \in Syncs \ {s} : wip'[t] = wip[t]
  BY <1>1, <1>2, <1>7 DEF IInv, TypeOK
<1>9. /\ acts' \in [Syncs -> SUBSET Activity]
      /\ acts'[s] = acts[s] \cup A
      /\ \A t \in Syncs \ {s} : acts'[t] = acts[t]
  BY <1>1, <1>4 DEF IInv, TypeOK
<1>10. /\ \A t \in Syncs : done[t] \subseteq done'[t]
       /\ m \in done'[s]
       /\ job' \in [Process -> Job \cup {NULL}]
       /\ done' \in [Syncs -> SUBSET Manga]
       /\ \A p \in Process \ {s} : job'[p] = job[p]
       /\ \A t \in Syncs \ {s} : done'[t] = done[t]
  BY <1>1, ItemDoneFits DEF m
<1>11. TypeOK'
  <2>1. pc' \in [Process -> RequestPc \cup SyncOpen \cup SyncEnded]
    BY <1>1 DEF IInv, TypeOK, Goto, SyncOpen
  <2> QED
    BY <1>1, <1>8, <1>9, <1>10, <2>1 DEF IInv, TypeOK
<1>12. ExclusiveRows'
  <2>1. \A t \in Syncs \ {s} : wip[t][m] = NoRow
    BY <1>1 DEF EntryLocked
  <2> SUFFICES ASSUME NEW t \in Syncs, NEW u \in Syncs, NEW n \in Manga,
                      wip'[t][n] # NoRow, wip'[u][n] # NoRow
               PROVE  t = u
    BY DEF ExclusiveRows
  <2>2. CASE n = m
    BY <1>8, <2>1, <2>2
  <2>3. CASE n # m
    BY <1>8, <2>3 DEF IInv, ExclusiveRows
  <2> QED
    BY <2>2, <2>3
<1>13. PendingAccounted'
  <2>1. ASSUME NEW f \in Tracked
        PROVE  Reports(acts'[s], m, f) = Reports(A, m, f)
    <3>1. Reports(acts[s] \cup A, m, f) = Reports(acts[s], m, f) \cup Reports(A, m, f)
      BY ReportsUnion
    <3>2. Reports(acts[s], m, f) = {}
      BY <1>6, ReportsOther
    <3> QED
      BY <1>9, <3>1, <3>2
  <2>2. Opens(A, m) => Opens(acts'[s], m)
    BY <1>9, ReportsUnion
  <2>3. ASSUME NEW n \in Manga \ {m}
        PROVE  /\ \A f \in Tracked : Reports(acts'[s], n, f) = Reports(acts[s], n, f)
               /\ Opens(acts'[s], n) <=> Opens(acts[s], n)
    <3>1. \A a \in A : a.manga # n
      BY <1>4
    <3>2. ASSUME NEW f \in Tracked
          PROVE  Reports(acts'[s], n, f) = Reports(acts[s], n, f)
      <4>1. Reports(acts[s] \cup A, n, f) = Reports(acts[s], n, f) \cup Reports(A, n, f)
        BY ReportsUnion
      <4>2. Reports(A, n, f) = {}
        BY <3>1, ReportsOther
      <4> QED
        BY <1>9, <4>1, <4>2
    <3>3. Opens(acts'[s], n) <=> Opens(acts[s], n)
      <4>1. Opens(acts[s] \cup A, n) <=> Opens(acts[s], n) \/ Opens(A, n)
        BY ReportsUnion
      <4>2. ~Opens(A, n)
        BY <3>1 DEF Opens
      <4> QED
        BY <1>9, <4>1, <4>2
    <3> QED
      BY <3>2, <3>3
  <2>4. ASSUME NEW t \in Syncs, NEW n \in Manga, wip'[t][n] # NoRow
        PROVE  /\ n \in done'[t]
               /\ Truthful(Pending(t)', n, wip'[t][n])
               /\ Complete(Pending(t)', n, library'[n], wip'[t][n])
    <3>1. Pending(t)'.acts = acts'[t] /\ library' = library
      BY <1>1 DEF Pending
    <3>2. CASE t = s /\ n = m
      <4> DEFINE b == [at |-> at[s], acts |-> A]
      <4>1. Truthful(b, m, row) /\ Complete(b, m, library[m], row) /\ b.acts = A
        BY <1>7
      <4> HIDE DEF b
      <4> QED
        BY <1>8, <1>10, <2>1, <2>2, <3>1, <3>2, <4>1 DEF Truthful, Complete
    <3>3. CASE t = s /\ n # m
      <4>1. wip[s][n] # NoRow /\ wip'[s][n] = wip[s][n]
        BY <1>8, <2>4, <3>3
      <4>2. /\ n \in done[s]
            /\ Truthful(Pending(s), n, wip[s][n])
            /\ Complete(Pending(s), n, library[n], wip[s][n])
        BY <4>1 DEF IInv, PendingAccounted
      <4>3. Pending(s).acts = acts[s]
        BY DEF Pending
      <4> QED
        BY <1>10, <2>3, <3>1, <3>3, <4>1, <4>2, <4>3 DEF Truthful, Complete
    <3>4. CASE t # s
      <4>1. wip[t][n] # NoRow /\ wip'[t][n] = wip[t][n] /\ acts'[t] = acts[t]
        BY <1>8, <1>9, <2>4, <3>4
      <4>2. /\ n \in done[t]
            /\ Truthful(Pending(t), n, wip[t][n])
            /\ Complete(Pending(t), n, library[n], wip[t][n])
        BY <4>1 DEF IInv, PendingAccounted
      <4>3. Pending(t).acts = acts[t]
        BY DEF Pending
      <4> QED
        BY <1>10, <3>1, <3>4, <4>1, <4>2, <4>3 DEF Truthful, Complete
    <3> QED
      BY <3>2, <3>3, <3>4
  <2>5. ASSUME NEW t \in Syncs, NEW a \in acts'[t]
        PROVE  wip'[t][a.manga] # NoRow
    <3>1. a \in Activity /\ a.manga \in Manga
      BY <1>9, <2>5 DEF Activity
    <3>2. CASE t # s
      BY <1>8, <1>9, <2>5, <3>1, <3>2 DEF IInv, PendingAccounted
    <3>3. CASE t = s /\ a \in acts[s]
      BY <1>6, <1>8, <3>1, <3>3 DEF IInv, PendingAccounted
    <3>4. CASE t = s /\ a \in A
      BY <1>4, <1>7, <1>8, <3>4, RowNotNoRow
    <3> QED
      BY <1>9, <2>5, <3>2, <3>3, <3>4
  <2> QED
    BY <2>4, <2>5 DEF PendingAccounted
<1>14. JobsFit'
  <2>1. /\ \A p \in Process \ {s} : pc'[p] = pc[p]
        /\ pc'[s] = "list"
        /\ \A r \in Requests : r \in Process \ {s}
        /\ \A t \in Syncs \ {s} : t \in Process \ {s}
    BY <1>1, ProcessAssumption DEF Goto, IInv, TypeOK, Process
  <2>2. ASSUME NEW t \in Syncs, pc'[t] \in {"manga", "entry"}
        PROVE  /\ job'[t] \in Job
               /\ job'[t].input \in Items
               /\ job'[t].manga \notin done'[t]
    BY <1>10, <2>1, <2>2 DEF IInv, JobsFit
  <2>3. ASSUME NEW q \in Requests, pc'[q] = "loaded"
        PROVE  /\ job'[q] \in Job
               /\ job'[q].op = "add" => job'[q].input \in NewEntries
               /\ job'[q].op = "patch" => job'[q].input \in Patches
               /\ job'[q].op \in {"patch", "remove"} => job'[q].loaded # NoRow
    BY <1>10, <2>1, <2>3 DEF IInv, JobsFit
  <2> QED
    BY <2>2, <2>3 DEF JobsFit
<1> QED
  BY <1>1, <1>11, <1>12, <1>13, <1>14 DEF IInv, ledgerVars

\* The commit of a run publishes all of its rows with one batch that accounts for
\* them, and leaves the rows the other runs hold alone.
LEMMA CommitSyncStep ==
    ASSUME IInv, NEW s \in Syncs, CommitSync(s)
    PROVE  IInv' /\ [LedgerNext]_ledgerVars
<1> DEFINE b == Pending(s)
<1>1. /\ library' = [m \in Manga |-> IF wip[s][m] = NoRow THEN library[m] ELSE wip[s][m]]
      /\ catalog' = catalog \cup fresh[s]
      /\ CommitActivities(s, acts[s])
      /\ \E label \in {"synced", "failed"} : Goto(s, label)
      /\ job' = [job EXCEPT ![s] = NULL]
      /\ wip' = [wip EXCEPT ![s] = Clean]
      /\ fresh' = [fresh EXCEPT ![s] = {}]
      /\ acts' = [acts EXCEPT ![s] = {}]
      /\ done' = [done EXCEPT ![s] = {}]
      /\ account' \in {account, NULL}
      /\ UNCHANGED <<clock, at>>
  BY DEF CommitSync, CloseSync, Goto
<1>2. /\ b.acts = acts[s]
      /\ b = [at |-> at[s], acts |-> acts[s]]
      /\ b \in Batch
      /\ s \in Process
  BY DEF Pending, Batch, IInv, TypeOK, Process
<1> HIDE DEF b
<1>3. library' \in [Manga -> Row \cup {NoRow}]
  BY <1>1 DEF IInv, TypeOK
<1>4. \A m \in Manga : wip[s][m] = NoRow =>
         /\ \A f \in Tracked : Reports(acts[s], m, f) = {}
         /\ library'[m] = library[m]
  <2> SUFFICES ASSUME NEW m \in Manga, wip[s][m] = NoRow
               PROVE  /\ \A f \in Tracked : Reports(acts[s], m, f) = {}
                      /\ library'[m] = library[m]
    OBVIOUS
  <2>1. \A a \in acts[s] : a.manga # m
    BY DEF IInv, PendingAccounted
  <2> QED
    BY <1>1, <2>1, ReportsOther
<1>5. Accounts(b, library, library')
  <2> SUFFICES ASSUME NEW m \in Manga
               PROVE  Truthful(b, m, library'[m]) /\ Complete(b, m, library[m], library'[m])
    BY DEF Accounts
  <2>1. CASE wip[s][m] = NoRow
    BY <1>2, <1>4, <2>1 DEF Truthful, Complete
  <2>2. CASE wip[s][m] # NoRow
    BY <1>1, <2>2 DEF b, IInv, PendingAccounted
  <2> QED
    BY <2>1, <2>2
<1>6. [LedgerNext]_ledgerVars /\ log' \in Seq(Batch)
  <2>1. log \in Seq(Batch)
    BY DEF IInv, TypeOK
  <2>2. CASE acts[s] = {}
    <3>1. \A m \in Manga, f \in Tracked : Reports(b.acts, m, f) = {}
      BY <1>2, <2>2 DEF Reports
    <3>2. \A m \in Manga : wip[s][m] # NoRow =>
             /\ library[m] # NoRow
             /\ \A f \in Tracked : wip[s][m].val[f] = library[m].val[f]
      <4> SUFFICES ASSUME NEW m \in Manga, wip[s][m] # NoRow
                   PROVE  /\ library[m] # NoRow
                          /\ \A f \in Tracked : wip[s][m].val[f] = library[m].val[f]
        OBVIOUS
      <4>1. Complete(b, m, library[m], wip[s][m])
        BY DEF b, IInv, PendingAccounted
      <4>2. ~Opens(b.acts, m)
        BY <1>2, <2>2 DEF Opens
      <4> QED
        BY <3>1, <4>1, <4>2 DEF Complete
    <3>3. log' = log
      BY <1>1, <2>2 DEF CommitActivities
    <3>4. ASSUME NEW m \in Manga, library'[m] # NoRow
          PROVE  /\ library[m] # NoRow
                 /\ \A f \in Tracked : library'[m].val[f] = library[m].val[f]
      BY <1>1, <3>2, <3>4
    <3> QED
      BY <1>3, <2>1, <3>3, <3>4 DEF LedgerNext, Unlogged
  <2>3. CASE acts[s] # {}
    <3>1. log' = Append(log, b)
      BY <1>1, <1>2, <2>3 DEF CommitActivities
    <3>2. Len(log') = Len(log) + 1 /\ log'[Len(log')] = b /\ log' \in Seq(Batch)
      BY <1>2, <2>1, <3>1
    <3> QED
      BY <1>2, <1>3, <1>5, <3>1, <3>2 DEF LedgerNext, Record
  <2> QED
    BY <2>2, <2>3
<1>7. /\ wip' \in [Syncs -> [Manga -> Row \cup {NoRow}]]
      /\ \A m \in Manga : wip'[s][m] = NoRow
      /\ \A t \in Syncs \ {s} : wip'[t] = wip[t] /\ acts'[t] = acts[t] /\ done'[t] = done[t]
      /\ acts'[s] = {}
  BY <1>1 DEF IInv, TypeOK, Clean
<1>8. TypeOK'
  <2>1. pc' \in [Process -> RequestPc \cup SyncOpen \cup SyncEnded]
    BY <1>1 DEF IInv, TypeOK, Goto, SyncEnded
  <2>2. job' \in [Process -> Job \cup {NULL}]
    BY <1>1 DEF IInv, TypeOK
  <2>3. fresh' \in [Syncs -> SUBSET Manga] /\ catalog' \subseteq Manga
    BY <1>1 DEF IInv, TypeOK
  <2>4. acts' \in [Syncs -> SUBSET Activity] /\ done' \in [Syncs -> SUBSET Manga]
    BY <1>1 DEF IInv, TypeOK
  <2> QED
    BY <1>1, <1>3, <1>6, <1>7, <2>1, <2>2, <2>3, <2>4 DEF IInv, TypeOK
<1>9. ExclusiveRows'
  BY <1>7 DEF IInv, ExclusiveRows
<1>10. PendingAccounted'
  <2>1. ASSUME NEW t \in Syncs, NEW n \in Manga, wip'[t][n] # NoRow
        PROVE  /\ n \in done'[t]
               /\ Truthful(Pending(t)', n, wip'[t][n])
               /\ Complete(Pending(t)', n, library'[n], wip'[t][n])
    <3>1. /\ t # s /\ wip[t][n] # NoRow /\ wip'[t][n] = wip[t][n]
          /\ acts'[t] = acts[t] /\ done'[t] = done[t]
      BY <1>7, <2>1
    <3>2. wip[s][n] = NoRow
      BY <3>1 DEF IInv, ExclusiveRows
    <3>3. library'[n] = library[n]
      BY <1>4, <3>2
    <3>4. /\ n \in done[t]
          /\ Truthful(Pending(t), n, wip[t][n])
          /\ Complete(Pending(t), n, library[n], wip[t][n])
      BY <3>1 DEF IInv, PendingAccounted
    <3>5. Pending(t)'.acts = Pending(t).acts
      BY <3>1 DEF Pending
    <3> QED
      BY <3>1, <3>3, <3>4, <3>5 DEF Truthful, Complete
  <2>2. ASSUME NEW t \in Syncs, NEW a \in acts'[t]
        PROVE  wip'[t][a.manga] # NoRow
    <3>1. t # s /\ a \in acts[t] /\ a \in Activity
      BY <1>7, <2>2 DEF IInv, TypeOK
    <3>2. a.manga \in Manga
      BY <3>1 DEF Activity
    <3> QED
      BY <1>7, <3>1, <3>2 DEF IInv, PendingAccounted
  <2> QED
    BY <2>1, <2>2 DEF PendingAccounted
<1>11. JobsFit'
  <2>1. /\ \A p \in Process \ {s} : pc'[p] = pc[p] /\ job'[p] = job[p]
        /\ pc'[s] \in {"synced", "failed"}
        /\ \A r \in Requests : r \in Process \ {s}
        /\ \A t \in Syncs \ {s} : t \in Process \ {s}
    BY <1>1, ProcessAssumption DEF Goto, IInv, TypeOK, Process
  <2> QED
    BY <1>7, <2>1 DEF IInv, JobsFit
<1> QED
  BY <1>6, <1>8, <1>9, <1>10, <1>11 DEF IInv

-----------------------------------------------------------------------------
(***************************************************************************)
(* The theorems.                                                           *)
(***************************************************************************)
LEMMA InitInv == Init => IInv /\ LedgerInit
<1> SUFFICES ASSUME Init
             PROVE  IInv /\ LedgerInit
  OBVIOUS
<1>1. library \in [Manga -> Row \cup {NoRow}]
  <2>1. \A i \in RowId \ Process, v \in NewEntries : [id |-> i, val |-> v] \in Row
    BY InputAssumption DEF Row
  <2> QED
    BY <2>1 DEF Init
<1>2. TypeOK
  BY <1>1 DEF Init, TypeOK, RequestPc, Clean
<1>3. ExclusiveRows /\ PendingAccounted /\ JobsFit
  BY ProcessAssumption DEF Init, ExclusiveRows, PendingAccounted, JobsFit, Clean, Process
<1> QED
  BY <1>1, <1>2, <1>3 DEF IInv, Init, LedgerInit

\* Every step keeps the invariant, and is a step of the ledger or none of its
\* business.
LEMMA StepInv == IInv /\ [Next]_vars => IInv' /\ [LedgerNext]_ledgerVars
<1> SUFFICES ASSUME IInv, [Next]_vars
             PROVE  IInv' /\ [LedgerNext]_ledgerVars
  OBVIOUS
<1>1. ASSUME NEW r \in Requests, RequestStep(r) \/ CrashRequest(r)
      PROVE  IInv' /\ [LedgerNext]_ledgerVars
  BY <1>1, QuietRequestStep, AddEntryStep, PatchEntryStep, RemoveEntryStep DEF RequestStep
<1>2. ASSUME NEW s \in Syncs, BeginSync(s) \/ SyncStep(s) \/ CrashSync(s)
      PROVE  IInv' /\ [LedgerNext]_ledgerVars
  <2>1. CASE \/ TokenRefused(s) \/ DuplicateManga(s) \/ EntryGone(s)
             \/ AbortDeadlock(s) \/ CrashSync(s)
    <3>1. Rollback(s)
      BY <2>1 DEF TokenRefused, DuplicateManga, EntryGone, AbortDeadlock, CrashSync
    <3>2. UNCHANGED ledgerVars
      BY <3>1 DEF Rollback, ledgerVars
    <3> QED
      BY <3>1, <3>2, RollbackKeeps
  <2>2. CASE \/ BeginSync(s) \/ CheckToken(s) \/ RefreshToken(s)
             \/ EndOfList(s) \/ ListError(s) \/ EntryError(s)
    BY <2>2, TokenAndListSteps
  <2>3. CASE FetchItem(s) \/ UpsertManga(s) \/ WriteEntry(s) \/ KeepEntry(s)
    BY <2>3, FetchItemStep, UpsertMangaStep, WriteEntryStep, KeepEntryStep
  <2>4. CASE CommitSync(s)
    BY <2>4, CommitSyncStep
  <2> QED
    BY <1>2, <2>1, <2>2, <2>3, <2>4 DEF SyncStep
<1>3. CASE UNCHANGED vars
  <2>1. UNCHANGED <<library, log, catalog, clock, pc, at, job, wip, fresh, acts, done, account>>
    BY <1>3 DEF vars, own
  <2>2. TypeOK'
    BY <2>1 DEF IInv, TypeOK
  <2>3. ExclusiveRows' /\ PendingAccounted'
    BY <2>1, PendingKept
  <2>4. JobsFit'
    BY <2>1 DEF IInv, JobsFit
  <2> QED
    BY <2>1, <2>2, <2>3, <2>4 DEF IInv, ledgerVars
<1> QED
  BY <1>1, <1>2, <1>3 DEF Next, Terminated

\* The invariant of the writers: rows written by two runs are exclusive, and what
\* is flushed is always accounted for by what is going to be logged.
THEOREM Invariance == Spec => []IInv
<1>1. Init => IInv
  BY InitInv
<1>2. IInv /\ [Next]_vars => IInv'
  BY StepInv
<1> QED
  BY <1>1, <1>2, PTL DEF Spec

\* Every variable keeps its type.
THEOREM TypeCorrect == Spec => []TypeOK
<1>1. IInv => TypeOK
  BY DEF IInv
<1> QED
  BY <1>1, Invariance, PTL

\* The requests and the syncs together implement the ledger: each step commits
\* a batch that accounts for what it changes, removes entries, or does neither.
THEOREM Refinement == Spec => LedgerSpec
<1>1. Init => IInv /\ LedgerInit
  BY InitInv
<1>2. IInv /\ [Next]_vars => IInv' /\ [LedgerNext]_ledgerVars
  BY StepInv
<1> QED
  BY <1>1, <1>2, PTL DEF Spec, LedgerSpec

\* README.md:318: the activity log never tells of another value than the one the
\* library has, however requests and syncs are interleaved.
THEOREM Agreement == Spec => []LogAgrees
BY Refinement, LedgerAgrees, PTL

-----------------------------------------------------------------------------
(***************************************************************************)
(* What a write may do to the edits of others.                             *)
(***************************************************************************)
\* What the next step may be of a run that is about to write an entry.
LEMMA EntrySteps ==
    ASSUME IInv, [Next]_vars, NEW s \in Syncs, pc[s] = "entry"
    PROVE  \/ pc'[s] = "entry" /\ wip'[s] = wip[s]
           \/ WriteEntry(s) \/ KeepEntry(s)
           \/ EntryError(s) /\ wip'[s] = wip[s]
           \/ pc'[s] = "broken" /\ wip'[s] = Clean
<1>1. s \in Process /\ s \notin Requests
  BY ProcessAssumption DEF Process
<1>2. ASSUME NEW r \in Requests, RequestStep(r) \/ CrashRequest(r)
      PROVE  pc'[s] = "entry" /\ wip'[s] = wip[s]
  <2>1. wip' = wip
    BY <1>2 DEF RequestStep, CrashRequest, Load, AddEntry, PatchEntry, PatchAborts,
                RemoveEntry, Answer, own
  <2>2. pc'[s] = pc[s]
    BY <1>1, <1>2 DEF RequestStep, CrashRequest, Load, AddEntry, PatchEntry, PatchAborts,
                      RemoveEntry, Answer, Goto, IInv, TypeOK
  <2> QED BY <2>1, <2>2
<1>3. ASSUME NEW t \in Syncs, Rollback(t) \/ CommitSync(t)
      PROVE  /\ t # s => pc'[s] = pc[s] /\ wip'[s] = wip[s]
             /\ t = s /\ Rollback(t) => pc'[s] = "broken" /\ wip'[s] = Clean
  BY <1>1, <1>3 DEF Rollback, CommitSync, CloseSync, Goto, IInv, TypeOK
<1>4. ASSUME NEW t \in Syncs, t # s,
             \/ BeginSync(t) \/ CheckToken(t) \/ RefreshToken(t) \/ FetchItem(t)
             \/ EndOfList(t) \/ ListError(t) \/ UpsertManga(t) \/ WriteEntry(t)
             \/ KeepEntry(t) \/ EntryError(t)
      PROVE  pc'[s] = pc[s] /\ wip'[s] = wip[s]
  <2>1. pc'[s] = pc[s]
    BY <1>1, <1>4 DEF BeginSync, CheckToken, RefreshToken, FetchItem, EndOfList, ListError,
        UpsertManga, WriteEntry, KeepEntry, EntryError, ItemDone, Goto, IInv, TypeOK
  <2>2. wip'[s] = wip[s]
    BY <1>4 DEF BeginSync, CheckToken, RefreshToken, FetchItem, EndOfList, ListError,
        UpsertManga, WriteEntry, KeepEntry, EntryError, own, IInv, TypeOK
  <2> QED BY <2>1, <2>2
<1>5. ASSUME NEW t \in Syncs, BeginSync(t) \/ SyncStep(t) \/ CrashSync(t)
      PROVE  \/ pc'[s] = "entry" /\ wip'[s] = wip[s]
             \/ WriteEntry(s) \/ KeepEntry(s)
             \/ EntryError(s) /\ wip'[s] = wip[s]
             \/ pc'[s] = "broken" /\ wip'[s] = Clean
  <2>1. CASE \/ TokenRefused(t) \/ DuplicateManga(t) \/ EntryGone(t)
             \/ AbortDeadlock(t) \/ CrashSync(t)
    <3>1. Rollback(t)
      BY <2>1 DEF TokenRefused, DuplicateManga, EntryGone, AbortDeadlock, CrashSync
    <3> QED BY <1>3, <3>1
  <2>2. CASE CommitSync(t)
    <3>1. t # s
      BY <2>2 DEF CommitSync
    <3> QED BY <1>3, <2>2, <3>1
  <2>3. CASE ~(TokenRefused(t) \/ DuplicateManga(t) \/ EntryGone(t)
               \/ AbortDeadlock(t) \/ CrashSync(t) \/ CommitSync(t))
    <3>1. CASE t # s
      BY <1>4, <1>5, <2>3, <3>1 DEF SyncStep
    <3>2. CASE t = s
      <4>1. WriteEntry(s) \/ KeepEntry(s) \/ EntryError(s)
        BY <1>5, <2>3, <3>2 DEF SyncStep, BeginSync, CheckToken, RefreshToken, FetchItem,
                                EndOfList, ListError, UpsertManga
      <4>2. EntryError(s) => wip' = wip
        BY DEF EntryError, own
      <4> QED BY <4>1, <4>2
    <3> QED BY <3>1, <3>2
  <2> QED BY <2>1, <2>2, <2>3
<1>6. CASE UNCHANGED vars
  BY <1>6 DEF vars, own
<1> QED BY <1>2, <1>5, <1>6 DEF Next, Terminated

\* What an item changes of an entry, it changes to the same whatever the entry
\* was before.
LEMMA MappedDirty ==
    ASSUME NEW item, NEW old, NEW now, NEW f \in Tracked, Mapped(item, old)[f] # old[f]
    PROVE  Mapped(item, now)[f] = Mapped(item, old)[f]
BY TrackedFields DEF Mapped

LEMMA PatchKeepsEdits ==
    ASSUME IInv, [Next]_vars, NEW r \in Requests
    PROVE  PatchWritesOwn(r)
<1> DEFINE m == job[r].manga
<1> SUFFICES ASSUME pc[r] = "loaded", pc'[r] = "answered", job[r].op = "patch",
                    library'[m] # NoRow, NEW f \in Tracked
             PROVE  library'[m].val[f] \in {library[m].val[f], job[r].input[f]}
  BY DEF PatchWritesOwn
<1>1. r \in Process /\ r \notin Syncs
  BY ProcessAssumption DEF Process
<1>2. PatchEntry(r)
  <2>1. ASSUME NEW s \in Syncs, BeginSync(s) \/ SyncStep(s) \/ CrashSync(s)
        PROVE  pc'[r] = pc[r]
    <3>1. CASE \/ TokenRefused(s) \/ DuplicateManga(s) \/ EntryGone(s)
               \/ AbortDeadlock(s) \/ CrashSync(s) \/ CommitSync(s)
      <4>1. Rollback(s) \/ CommitSync(s)
        BY <3>1 DEF TokenRefused, DuplicateManga, EntryGone, AbortDeadlock, CrashSync
      <4> QED BY <1>1, <4>1 DEF Rollback, CommitSync, CloseSync, Goto, IInv, TypeOK
    <3>2. CASE \/ BeginSync(s) \/ CheckToken(s) \/ RefreshToken(s) \/ FetchItem(s)
               \/ EndOfList(s) \/ ListError(s) \/ UpsertManga(s) \/ WriteEntry(s)
               \/ KeepEntry(s) \/ EntryError(s)
      BY <1>1, <3>2 DEF BeginSync, CheckToken, RefreshToken, FetchItem, EndOfList, ListError,
          UpsertManga, WriteEntry, KeepEntry, EntryError, ItemDone, Goto, IInv, TypeOK
    <3> QED BY <2>1, <3>1, <3>2 DEF SyncStep
  <2>2. ASSUME NEW q \in Requests, RequestStep(q) \/ CrashRequest(q), q # r
        PROVE  pc'[r] = pc[r]
    BY <1>1, <2>2 DEF RequestStep, CrashRequest, Load, AddEntry, PatchEntry, PatchAborts,
                      RemoveEntry, Answer, Goto, IInv, TypeOK
  <2>3. RequestStep(r) \/ CrashRequest(r)
    BY <2>1, <2>2 DEF Next, Terminated, vars
  <2>4. ~Load(r) /\ ~AddEntry(r) /\ ~RemoveEntry(r)
    BY DEF Load, AddEntry, RemoveEntry
  <2>5. ~PatchAborts(r) /\ ~CrashRequest(r)
    BY <1>1 DEF PatchAborts, CrashRequest, Answer, Goto, IInv, TypeOK
  <2> QED BY <2>3, <2>4, <2>5 DEF RequestStep
<1>3. m \in Manga
  BY LoadedJob
<1>4. CASE ~PatchWrites(r)
  BY <1>2, <1>4 DEF PatchEntry
<1>5. CASE PatchWrites(r)
  <2>1. library'[m] = Updated(library[m], job[r].loaded, Patched(r)) /\ library[m] \in Row
    BY <1>2, <1>3, <1>5 DEF PatchEntry, SameRow, IInv, TypeOK
  <2>2. library'[m].val = [g \in Tracked |-> IF g \in Dirty(job[r].loaded, Patched(r))
                                            THEN Patched(r)[g] ELSE library[m].val[g]]
    BY <2>1 DEF Updated, Row
  <2>3. f \in Dirty(job[r].loaded, Patched(r)) => Patched(r)[f] = job[r].input[f]
    BY DEF Dirty, Patched
  <2> QED BY <2>2, <2>3
<1> QED BY <1>4, <1>5

LEMMA ItemKeepsEdits ==
    ASSUME IInv, [Next]_vars, NEW s \in Syncs
    PROVE  ItemWritesOwn(s)
<1> DEFINE m == job[s].manga
<1> SUFFICES ASSUME pc[s] = "entry", wip'[s][m] # NoRow, library[m] # NoRow, NEW f \in Tracked
             PROVE  wip'[s][m].val[f] \in
                        {library[m].val[f], Mapped(job[s].input, library[m].val)[f]}
  BY DEF ItemWritesOwn
<1>1. m \in Manga /\ m \notin done[s] /\ job[s].loaded \in Row \cup {NoRow}
  BY ItemJob
<1>2. wip[s][m] = NoRow /\ Clean[m] = NoRow
  BY <1>1 DEF IInv, PendingAccounted, Clean
<1>3. WriteEntry(s)
  <2>1. ~(KeepEntry(s) \/ wip'[s] = wip[s] \/ wip'[s] = Clean)
    BY <1>2 DEF KeepEntry
  <2> QED BY <2>1, EntrySteps
<1>4. job[s].loaded # NoRow /\ SameRow(m, job[s].loaded)
  BY <1>3 DEF WriteEntry
<1>5. wip'[s][m] = Updated(library[m], job[s].loaded, After(s)) /\ library[m] \in Row
  BY <1>1, <1>3, <1>4 DEF WriteEntry, NextRow, IInv, TypeOK
<1>6. wip'[s][m].val = [g \in Tracked |-> IF g \in Dirty(job[s].loaded, After(s))
                                         THEN After(s)[g] ELSE library[m].val[g]]
  BY <1>5 DEF Updated, Row
<1>7. f \in Dirty(job[s].loaded, After(s)) =>
        After(s)[f] = Mapped(job[s].input, library[m].val)[f]
  BY <1>4, MappedDirty DEF Dirty, After, Before
<1> QED BY <1>6, <1>7

\* A PATCH and an item of the list write, into an entry that others have edited
\* since they read it, nothing but what they say themselves.
THEOREM EditsAreKept == Spec => EditsSurvive
<1>1. IInv /\ [Next]_vars =>
        [/\ \A r \in Requests : PatchWritesOwn(r)
         /\ \A s \in Syncs : ItemWritesOwn(s)]_vars
  BY PatchKeepsEdits, ItemKeepsEdits
<1> QED BY Invariance, <1>1, PTL DEF Spec, EditsSurvive

=============================================================================
