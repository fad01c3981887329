\* No call fails: the race of a refresh with a logout alone.
SPECIFICATION SpecHistory
CONSTANTS
    Handler = {h1, h2}
    SessionId = {i1}
    User = {u1}
    TTL = 2
    MaxAge = 3
    RefreshBefore = 1
    MaxClock = 2
    Faults = FALSE
INVARIANT LoggedOutStaysOut
