---------------------------- MODULE TasteProfiles ----------------------------
(***************************************************************************)
(* The versioned taste profiles of one user                                *)
(* (app/services/ai/taste_profile.py).  A generation is one run of         *)
(* TasteProfileService.generate_new_version, in a session of its own; any  *)
(* number of them run at once, as POST /ai/taste-profile takes no lock.    *)
(*                                                                         *)
(* A step ends where the code awaits a statement or the provider, which    *)
(* may take minutes.  The library is read first and the current profile    *)
(* after it, in two statements, and each statement of a READ COMMITTED     *)
(* transaction sees what is committed when it starts.  The reviews and     *)
(* activities, and what the analysis says, are left out.                   *)
(*                                                                         *)
(* Bounds: a generation runs once; the library changes MaxRevision times.  *)
(***************************************************************************)
EXTENDS Naturals

CONSTANTS Generations,
          MinEntries,       \* _MIN_ENTRIES_FOR_ANALYSIS
          MaxRevision,
          StatusIsEnum,     \* a loaded status is a ReadingStatus: see LibrarySync
          NoProfile

Row == [version : Nat \ {0}, is_current : BOOLEAN, basis : Nat, since : Nat]

ASSUME LimitAssumption == MinEntries \in Nat /\ MaxRevision \in Nat
ASSUME EnumAssumption  == StatusIsEnum \in BOOLEAN
ASSUME NoProfileAssumption == NoProfile \notin Row /\ NoProfile \notin Generations

VARIABLES revision,     \* how often the library has changed
          entries,      \* how many entries it has
          profiles,     \* the committed row each generation has inserted
          pc,
          snapshot,     \* the revision of the library each generation read
          previous      \* the row each generation found current, by its id

libraryVars == <<revision, entries>>
tasteVars   == <<revision, entries, profiles, pc, snapshot, previous>>

Running == {"snapshot", "previous", "analyzed", "retired"}
Ended   == {"published", "refused", "failed"}

TypeOK == /\ revision \in Nat
          /\ entries \in Nat
          /\ profiles \in [Generations -> Row \cup {NoProfile}]
          /\ pc \in [Generations -> {"idle"} \cup Running \cup Ended]
          /\ snapshot \in [Generations -> Nat]
          /\ previous \in [Generations -> Generations \cup {NoProfile}]

Init == /\ revision = 0
        /\ entries \in {MinEntries, 0}
        /\ profiles = [g \in Generations |-> NoProfile]
        /\ pc = [g \in Generations |-> "idle"]
        /\ snapshot = [g \in Generations |-> 0]
        /\ previous = [g \in Generations |-> NoProfile]

Goto(g, label) == pc' = [pc EXCEPT ![g] = label]

Exists(g) == profiles[g] # NoProfile

\* The rows get_current selects; it raises when there is more than one.
Current == {g \in Generations : Exists(g) /\ profiles[g].is_current}

\* The version a profile is compared with and that its own version follows.
Since(p) == IF p = NoProfile THEN 0 ELSE profiles[p].version

-----------------------------------------------------------------------------
\* An entry is added, removed or edited, by a request or by a sync.
ChangeLibrary == /\ revision < MaxRevision
                 /\ revision' = revision + 1
                 /\ entries' \in {entries - 1, entries, entries + 1} \cap Nat
                 /\ UNCHANGED <<profiles, pc, snapshot, previous>>

\* build_library_snapshot calls .value on the status of each entry, before the
\* entries are counted.
SnapshotRaises == ~StatusIsEnum /\ entries > 0

ReadSnapshot(g) ==
    /\ pc[g] = "idle"
    /\ CASE SnapshotRaises -> Goto(g, "failed") /\ UNCHANGED snapshot
         [] ~SnapshotRaises /\ entries < MinEntries -> Goto(g, "refused") /\ UNCHANGED snapshot
         [] OTHER -> /\ Goto(g, "snapshot")
                    /\ snapshot' = [snapshot EXCEPT ![g] = revision]
    /\ UNCHANGED <<libraryVars, profiles, previous>>

ReadPrevious(g) ==
    /\ pc[g] = "snapshot"
    /\ \A p, q \in Current : p = q
    /\ previous' = [previous EXCEPT ![g] = IF Current = {} THEN NoProfile
                                           ELSE CHOOSE p \in Current : TRUE]
    /\ Goto(g, "previous")
    /\ UNCHANGED <<libraryVars, profiles, snapshot>>

\* generate_structured, then embed_documents: nothing is locked meanwhile.
Analyze(g) == /\ pc[g] = "previous"
              /\ Goto(g, "analyzed")
              /\ UNCHANGED <<libraryVars, profiles, snapshot, previous>>

\* The UPDATE of the previous row waits for another one that has not committed.
RowLocked(p, g) == \E h \in Generations \ {g} : pc[h] = "retired" /\ previous[h] = p

\* is_current = False is flushed; there is no UPDATE for a first profile.
Retire(g) == /\ pc[g] = "analyzed"
             /\ previous[g] # NoProfile => ~RowLocked(previous[g], g)
             /\ Goto(g, "retired")
             /\ UNCHANGED <<libraryVars, profiles, snapshot, previous>>

\* Mutant of VersionTaken: there is no uq_taste_profile_user_version.
NeverTaken(v) == FALSE

VersionTaken(v) == \E h \in Generations : Exists(h) /\ profiles[h].version = v

\* Mutant of Retired: the INSERT alone is committed.
NotRetired(g) == profiles

\* The table with g's UPDATE.
Retired(g) == [h \in Generations |-> IF Exists(h) /\ h = previous[g]
                                     THEN [profiles[h] EXCEPT !.is_current = FALSE]
                                     ELSE profiles[h]]

\* The INSERT and the commit, which publishes the UPDATE with it.
PublishVersion(g) ==
    LET since == Since(previous[g]) IN
    /\ pc[g] = "retired"
    /\ ~VersionTaken(since + 1)
    /\ profiles' = [Retired(g) EXCEPT ![g] =
                       [version |-> since + 1, is_current |-> TRUE,
                        basis |-> snapshot[g], since |-> since]]
    /\ Goto(g, "published")
    /\ UNCHANGED <<libraryVars, snapshot, previous>>

\* IntegrityError: another generation was faster.  The UPDATE is rolled back.
LoseRace(g) == /\ pc[g] = "retired"
               /\ VersionTaken(Since(previous[g]) + 1)
               /\ Goto(g, "failed")
               /\ UNCHANGED <<libraryVars, profiles, snapshot, previous>>

\* An LLMError of the analysis, or the request, the connection or the process
\* dies: the transaction is rolled back.
Fail(g) == /\ pc[g] \in Running
           /\ Goto(g, "failed")
           /\ UNCHANGED <<libraryVars, profiles, snapshot, previous>>

\* Every generation is over and the library rests.
Rest == /\ \A g \in Generations : pc[g] \in Ended
        /\ UNCHANGED tasteVars

GenerationStep(g) == \/ ReadSnapshot(g)
                     \/ ReadPrevious(g)
                     \/ Analyze(g)
                     \/ Retire(g)
                     \/ PublishVersion(g)
                     \/ LoseRace(g)
                     \/ Fail(g)

Next == \/ ChangeLibrary
        \/ \E g \in Generations : GenerationStep(g)
        \/ Rest

Spec == Init /\ [][Next]_tasteVars

-----------------------------------------------------------------------------
(***************************************************************************)
(* Properties.                                                             *)
(***************************************************************************)
\* No version twice, and none missing below one that exists.
VersionsDense ==
    /\ \A g, h \in Generations :
          Exists(g) /\ Exists(h) /\ profiles[g].version = profiles[h].version => g = h
    /\ \A g \in Generations : Exists(g) =>
          \A v \in 1 .. profiles[g].version : VersionTaken(v)

\* Exactly the newest profile is current, however the generations interleave
\* and fail: get_current never raises and never loses the profile.
NewestIsCurrent ==
    /\ \A g \in Generations : Exists(g) =>
          (profiles[g].is_current <=>
              \A h \in Generations : Exists(h) => profiles[h].version <= profiles[g].version)
    /\ Current = {} => \A g \in Generations : ~Exists(g)

\* What a generation that has not ended relies on.
PreviousExists ==
    \A g \in Generations :
        /\ previous[g] # NoProfile => Exists(previous[g])
        /\ Exists(g) => pc[g] = "published"

\* The inductive invariant.
IInv == TypeOK /\ VersionsDense /\ NewestIsCurrent /\ PreviousExists

(***************************************************************************)
(* TasteProfiles implements ProfileHistory: its history is the committed   *)
(* rows without their flag and whose they are, and its latest version the  *)
(* one of the row that has the flag.                                       *)
(***************************************************************************)
history == {[version |-> profiles[g].version, basis |-> profiles[g].basis,
             since |-> profiles[g].since] : g \in {h \in Generations : Exists(h)}}
latest == IF Current = {} THEN 0 ELSE profiles[CHOOSE g \in Current : TRUE].version

PH == INSTANCE ProfileHistory WITH history <- history, latest <- latest

\* Whatever generations do at once and wherever they fail, a step of theirs
\* publishes the next version of an append-only history, or changes nothing of it.
HistorySpec == PH!HistorySpec

=============================================================================
