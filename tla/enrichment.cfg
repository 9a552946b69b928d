CONSTANTS
    Manga = {m1, m2, m3}
    Pipelines = {p1, p2}
    Background = {p1}
    Refused = {m3}
    BatchSize = 2
    DigestLimit = 2
    Models = {v1, v2}
    NULL = NULL
SPECIFICATION Spec
INVARIANTS EnrichmentInv
PROPERTIES DigestsKept BacklogDrains NewTitlesSearchable
