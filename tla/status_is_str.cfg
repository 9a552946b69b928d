CONSTANTS
    Manga = {m1}
    Statuses = {planned, reading, completed}
    Scores = {ten}
    Chapters = {zero, one}
    PlanToRead = planned
    Reading = reading
    Completed = completed
    Unread = zero
    planned = planned
    reading = reading
    one = one
    ten = ten
    seed = seed
    NULL = NULL
    Absent = Absent
    NoRow = NoRow
    RowId <- MCRowId
    Requests = {}
    Syncs = {s1}
    NewEntries <- MCNewEntries
    Patches <- FewPatches
    Items <- NewStatus
    Touches <- OneTouch
    StatusIsEnum = FALSE
SPECIFICATION Spec
PROPERTIES StatusChangeIsLogged
