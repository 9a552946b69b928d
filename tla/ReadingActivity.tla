-------------------------- MODULE ReadingActivity --------------------------
(***************************************************************************)
(* The reading activities a write to a library entry gives rise to:        *)
(* app/services/mal/sync.py for a list item that MyAnimeList sends,        *)
(* app/api/routes/library.py for an entry added or edited by hand.  The    *)
(* module has no variables: LibrarySync says when the activities are made  *)
(* and when they are committed.                                            *)
(*                                                                         *)
(* Only the fields of an entry that are reported in the log are kept       *)
(* (Tracked); volumes, rereads, dates, notes and the favourite flag are    *)
(* "untracked" columns.  An activity says which manga it is about, whether *)
(* it opens the history of an entry, and the new value it reports for each *)
(* tracked field, Absent when it reports none.  The "from" values of a     *)
(* payload and the "chapter" of STARTED and COMPLETED are left out.        *)
(***************************************************************************)
EXTENDS FiniteSets

CONSTANTS Manga,        \* the manga of the catalog
          Statuses,     \* the values of ReadingStatus
          Scores,       \* the personal ratings, 1-10 in the code
          Chapters,     \* the values of progress_chapter
          PlanToRead, Reading, Completed,    \* the statuses the code singles out
          Unread,       \* chapter 0, the column's default
          NULL,         \* SQL NULL, Python None
          Absent        \* a key that a request body or a list item does not have

ASSUME StatusAssumption == {PlanToRead, Reading, Completed} \subseteq Statuses
ASSUME UnreadAssumption == Unread \in Chapters
ASSUME AbsentAssumption == Absent \notin Statuses \cup Scores \cup Chapters \cup {NULL}
ASSUME NullAssumption   == NULL \notin Statuses \cup Scores \cup Chapters

Tracked == {"status", "score", "progress_chapter"}

Value == Statuses \cup Scores \cup Chapters \cup {NULL}

\* The tracked columns of a library entry: status and progress_chapter are
\* NOT NULL, score is nullable.
Columns == {v \in [Tracked -> Value] : /\ v["status"] \in Statuses
                                       /\ v["score"] \in Scores \cup {NULL}
                                       /\ v["progress_chapter"] \in Chapters}

\* What a request body or a list item may say of the tracked fields.
Input == [Tracked -> Value \cup {Absent}]

ActivityType == {"synced_from_mal", "status_change", "score_change",
                 "progress_update", "started", "completed"}

Activity == [manga : Manga, type : ActivityType, opens : BOOLEAN, to : Input]

Nothing == [f \in Tracked |-> Absent]

\* The activity that reports value v of field f.
Report(m, type, f, v) ==
    [manga |-> m, type |-> type, opens |-> FALSE,
     to |-> [Nothing EXCEPT ![f] = v]]

\* STARTED and COMPLETED mark a moment and report no new value.
Marker(m, type) == [manga |-> m, type |-> type, opens |-> FALSE, to |-> Nothing]

\* The activity that opens the history of an entry, with what it reports.
Opening(m, type, to) == [manga |-> m, type |-> type, opens |-> TRUE, to |-> to]

-----------------------------------------------------------------------------
(***************************************************************************)
(* A MAL list item applied to the entry values old: an unknown or missing  *)
(* status keeps the old one, a missing chapter count keeps the old one, a  *)
(* missing or zero score clears the score.                                 *)
(***************************************************************************)
Mapped(item, old) ==
    [f \in Tracked |->
        CASE f = "status" -> IF item[f] \in Statuses THEN item[f] ELSE old[f]
          [] f = "score"  -> IF item[f] \in Scores   THEN item[f] ELSE NULL
          [] OTHER        -> IF item[f] = Absent     THEN old[f]  ELSE item[f]]

\* The values an entry is inserted with before the list item is applied to it.
Defaults == [f \in Tracked |->
                CASE f = "status" -> PlanToRead
                  [] f = "score"  -> NULL
                  [] OTHER        -> Unread]

StartedOrCompleted(m, new, started) ==
    (IF started THEN {Marker(m, "started")} ELSE {})
        \cup (IF new = Completed THEN {Marker(m, "completed")} ELSE {})

FieldReport(m, old, new, f, type) ==
    IF old[f] = new[f] THEN {} ELSE {Report(m, type, f, new[f])}

\* Mutant of ChangeActivities: a changed score is written and not reported.
SilentScore(m, old, new) ==
    FieldReport(m, old, new, "status", "status_change")
        \cup FieldReport(m, old, new, "progress_chapter", "progress_update")

\* What a change of an existing entry from old to new is logged as, by the sync
\* and by PATCH alike.
ChangeActivities(m, old, new) ==
    FieldReport(m, old, new, "status", "status_change")
        \cup (IF old["status"] = new["status"] THEN {}
              ELSE StartedOrCompleted(m, new["status"],
                        new["status"] = Reading /\ old["status"] = PlanToRead))
        \cup FieldReport(m, old, new, "score", "score_change")
        \cup FieldReport(m, old, new, "progress_chapter", "progress_update")

\* Mutant of DetectActivities: "elif" in the place of "if", so that an entry
\* that is started is logged as started and not as changed.
StartedInstead(m, created, old, new) ==
    IF created
    THEN {Opening(m, "synced_from_mal", new)}
    ELSE IF old["status"] = PlanToRead /\ new["status"] = Reading
         THEN {Marker(m, "started")}
         ELSE ChangeActivities(m, old, new)

\* Mutant of DetectActivities: a new entry is logged as a change of the defaults.
NeverOpens(m, created, old, new) == ChangeActivities(m, old, new)

\* sync.py _detect_activities
DetectActivities(m, created, old, new) ==
    IF created
    THEN {Opening(m, "synced_from_mal", new)}
            \cup StartedOrCompleted(m, new["status"], new["status"] = Reading)
    ELSE ChangeActivities(m, old, new)

\* library.py add_to_library: only the status is reported.
AddActivities(m, new) ==
    {Opening(m, "status_change", [Nothing EXCEPT !["status"] = new["status"]])}

-----------------------------------------------------------------------------
(***************************************************************************)
(* Reading the log back.                                                   *)
(***************************************************************************)
Reports(acts, m, f) ==
    {a.to[f] : a \in {b \in acts : b.manga = m /\ b.to[f] # Absent}}

Opens(acts, m) == \E a \in acts : a.manga = m /\ a.opens

=============================================================================
