\* One address, one email, two logins at once, one client that waits as it is told, faults.
SPECIFICATION SpecRetry
CONSTANTS
    Handler = {h1, h2}
    Ip = {a1}
    Email = {e1}
    Limit = 2
    Window = 3
    Second = 2
    Watched = h1
    Faults = TRUE
INVARIANTS TypeOK AtMostTwice TwiceRefused
PROPERTIES WaitOnlyShrinks Released
