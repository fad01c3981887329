\* Two requests and the metrics reader on one connection.
SPECIFICATION FairSpec
CONSTANTS
    Handler = {h1, h2}
    Reader = r
    Conn = {k1}
    Timeout = 1
    Grace = 1
    Patience = 1
    Faults = TRUE
INVARIANTS TypeOK ClosedAfterRequests NoStatementCutOff
PROPERTIES Exits EveryCallEnds
CHECK_DEADLOCK FALSE
