\* Nothing fails: the last value the metrics reader exports.
SPECIFICATION Spec
CONSTANTS
    Handler = {h1}
    Reader = r
    Conn = {k1, k2}
    Timeout = 1
    Grace = 1
    Patience = 1
    Faults = FALSE
INVARIANT LastGaugeIsTotal
CHECK_DEADLOCK FALSE
