CONSTANTS
    Manga = {m1, m2}
    Statuses = {planned, reading, completed}
    Scores = {ten}
    Chapters = {zero, one}
    PlanToRead = planned
    Reading = reading
    Completed = completed
    Unread = zero
    planned = planned
    reading = reading
    one = one
    ten = ten
    seed = seed
    NULL = NULL
    Absent = Absent
    NoRow = NoRow
    RowId <- MCRowId
    Requests = {r1, r2}
    Syncs = {s1}
    NewEntries <- MCNewEntries
    Patches <- MCPatches
    Items <- MCItems
    Touches <- OneTouch
    StatusIsEnum = TRUE
SPECIFICATION Spec
INVARIANTS IInv LogAgrees
PROPERTIES LedgerSpec EditsSurvive
