CONSTANTS
    Generations = {g1}
    MinEntries = 1
    MaxRevision = 1
    StatusIsEnum = TRUE
    NoProfile = NoProfile
    Readers = {q1}
    Kinds = {"roast"}
    MaxReviews = 2
    NoValue = NoValue
SPECIFICATION ReadsSpec
PROPERTIES RoastGetsMade
