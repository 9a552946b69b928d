CONSTANTS
    Generations = {g1, g2}
    MinEntries = 1
    MaxRevision = 1
    StatusIsEnum = TRUE
    NoProfile = NoProfile
    Readers = {q1, q2}
    Kinds = {"recommendations", "habits", "search", "roast"}
    MaxReviews = 2
    NoValue = NoValue
SPECIFICATION ReadsSpec
SYMMETRY Symmetry
INVARIANTS IInv ReadsInv
PROPERTIES HistorySpec
