\* One admin from the start, one user more, one key, two requests at once, faults.
SPECIFICATION Spec
CONSTANTS
    Handler = {h1, h2}
    UserId = {root, u1}
    Email = {e1, e2}
    KeyId = {k1}
    KeyScope = {"read", "write"}
    Root = {root}
    Faults = TRUE
SYMMETRY Symmetry
INVARIANTS TypeOK ClosedStaysOut
PROPERTY AdminsAreMade
