\* Two sessions of two users, two requests at once, over a session's whole life, faults.
SPECIFICATION Spec
CONSTANTS
    Handler = {h1, h2}
    SessionId = {i1, i2}
    User = {u1, u2}
    TTL = 2
    MaxAge = 2
    RefreshBefore = 1
    MaxClock = 3
    Faults = TRUE
SYMMETRY Symmetry
INVARIANTS TypeOK SameLogin HardClose
PROPERTIES EndsForCause LifetimePromise
