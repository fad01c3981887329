\* Two requests on one snippet of two users, with a tag, a page and a private list, faults.
SPECIFICATION FairSpec
CONSTANTS
    Handler = {h1, h2}
    SnippetId = {s1}
    User = {u1, u2}
    Facet <- OneTag
    Born = {1}
    Input <- Inputs
    DefaultLimit = 1
    MaxLimit = 2
    ListCacheTTL = 2
    Faults = TRUE
INVARIANTS TypeOK ListedToTheRightReader
PROPERTIES ListPromise EventuallyFresh
