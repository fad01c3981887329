\* No call fails: the race of a read with a deletion alone.
SPECIFICATION SpecHistory
CONSTANTS
    Handler = {h1, h2}
    SnippetId = {s1}
    User = {u1}
    CacheTTL = 1
    MaxRev = 1
    Faults = FALSE
INVARIANT GoneAfterDelete
