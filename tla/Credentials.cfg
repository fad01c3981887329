\* Logins, one after another, among sign-ups, PUTs and deletions of two accounts, faults.
SPECIFICATION Spec
CONSTANTS
    Handler = {h1}
    UserId = {u1, u2}
    Email = {e1, e2}
    short = short
    other = other
    long = long
    Word <- Words
    Long <- LongWords
    Cut <- FirstBytes
    Faults = TRUE
SYMMETRY Symmetry
INVARIANTS TypeOK OneAccountPerEmail LoginMeansPassword OwnerGetsIn
