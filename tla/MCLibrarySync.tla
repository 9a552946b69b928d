--------------------------- MODULE MCLibrarySync ---------------------------
(***************************************************************************)
(* Small instances of LibrarySync.                                         *)
(***************************************************************************)
EXTENDS LibrarySync

CONSTANTS planned, reading, one, ten, seed

Of(status, score, chapter) ==
    [f \in Tracked |-> CASE f = "status" -> status
                         [] f = "score"  -> score
                         [] OTHER        -> chapter]

MCRowId == Requests \cup Syncs \cup {seed}

MCNewEntries == {Of(planned, NULL, Unread)}

\* Requests that change each tracked column, alone or not, and ones that fail.
MCPatches == {Of(reading, Absent, one), Of(Absent, ten, Absent), Of(NULL, Absent, Absent)}

\* The list as it was, and as it is after a change on MyAnimeList.
MCItems == {Of(planned, Absent, Absent), Of(reading, ten, Unread)}

MCTouches == {{}, {"manga", "entry"}}
OneTouch  == {{"manga"}}

\* Where two runs meet, one patch and one item are enough.
NewStatus  == {Of(reading, Absent, Absent)}
FewPatches == {Of(Absent, ten, one)}
FewItems   == NewStatus \cup {Of(Absent, ten, Absent)}

=============================================================================
