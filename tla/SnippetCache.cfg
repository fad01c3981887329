\* Every safety property, under faults: three requests on one snippet.
SPECIFICATION Spec
CONSTANTS
    Handler = {h1, h2, h3}
    SnippetId = {s1}
    User = {u1, u2}
    CacheTTL = 2
    MaxRev = 2
    Faults = TRUE
SYMMETRY Symmetry
INVARIANTS TypeOK ServedWasPublic StaleHasCause
PROPERTIES RemovedByCreator ReadsPromise
