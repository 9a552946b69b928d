CONSTANTS
    Manga = {m1, m2, m3}
    Pipelines = {p1}
    Background = {p1}
    Refused = {m2, m3}
    BatchSize = 2
    DigestLimit = 2
    Models = {v1}
    NULL = NULL
SPECIFICATION Spec
PROPERTIES BacklogDrains
