CONSTANTS
    Manga = {m1}
    Statuses = {planned, reading, completed}
    Scores = {ten}
    Chapters = {zero, one}
    PlanToRead = planned
    Reading = reading
    Completed = completed
    Unread = zero
    planned = planned
    reading = reading
    one = one
    ten = ten
    seed = seed
    NULL = NULL
    Absent = Absent
    NoRow = NoRow
    RowId <- MCRowId
    Requests = {r1}
    Syncs = {s1, s2}
    NewEntries <- MCNewEntries
    Patches <- FewPatches
    Items <- FewItems
    Touches <- MCTouches
    StatusIsEnum = FALSE
SPECIFICATION FairSpec
INVARIANTS IInv LogAgrees
PROPERTIES EveryRunEnds
