\* Liveness of the cache: one snippet, two handlers, faults.
SPECIFICATION FairSpec
CONSTANTS
    Handler = {h1, h2}
    SnippetId = {s1}
    User = {u1, u2}
    CacheTTL = 2
    MaxRev = 2
    Faults = TRUE
PROPERTY EventuallyFresh
