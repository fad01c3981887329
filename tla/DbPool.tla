-------------------------------- MODULE DbPool --------------------------------
(***************************************************************************)
(* The connection pool of db.New and the calls of db.Base: each call waits  *)
(* for a connection, runs its statement on it and gives it back, all within *)
(* one deadline.  The pool itself is pgx's: what it does is modelled from   *)
(* how the repositories use it.                                             *)
(***************************************************************************)
EXTENDS Naturals

CONSTANTS
    Client,     \* goroutines that call the database
    Conn,       \* connection slots (MaxConns = 10)
    Timeout     \* ticks a call may take, waiting included (3 s, or 2 s)

VARIABLES
    free,       \* slots not in use
    call,       \* each goroutine's call
    gone,       \* goroutines whose context was cancelled
    closed      \* has Pool.Close been called?

vars == <<free, call, gone, closed>>

\* rows: Query has returned and the connection is held until Rows.Close.
Pc == {"idle", "wait", "run", "rows"}
Call == [pc : Pc, conn : SUBSET Conn, left : 0..Timeout, ok : BOOLEAN]
NoCall == [pc |-> "idle", conn |-> {}, left |-> 0, ok |-> TRUE]

Init ==
    /\ free = Conn
    /\ call = [c \in Client |-> NoCall]
    /\ gone = {}
    /\ closed = FALSE

Busy(c) == call[c].pc # "idle"

\* The deadline begins before a connection is asked for; a closed pool refuses.
Begin(c) ==
    /\ ~ Busy(c)
    /\ call' = [call EXCEPT ![c] =
                  IF closed THEN [NoCall EXCEPT !.ok = FALSE]
                  ELSE [NoCall EXCEPT !.pc = "wait", !.left = Timeout]]
    /\ UNCHANGED <<free, gone, closed>>

Acquire(c) ==
    /\ call[c].pc = "wait"
    /\ ~ closed
    /\ \E k \in free :
         /\ free' = free \ {k}
         /\ call' = [call EXCEPT ![c] = [@ EXCEPT !.pc = "run", !.conn = {k}]]
    /\ UNCHANGED <<gone, closed>>

\* List reads its rows one by one.
Stream(c) ==
    /\ call[c].pc = "run"
    /\ call' = [call EXCEPT ![c] = [@ EXCEPT !.pc = "rows"]]
    /\ UNCHANGED <<free, gone, closed>>

\* Mutant: rows are not closed when reading them has failed.
BugEnd(c, ok) ==
    /\ call' = [call EXCEPT ![c] = [NoCall EXCEPT !.ok = ok]]
    /\ free' = IF ok \/ call[c].pc # "rows" THEN free \cup call[c].conn ELSE free

\* Exec and Scan give the connection back, and so does the deferred Rows.Close,
\* whatever the result.
End(c, ok) ==
    /\ call' = [call EXCEPT ![c] = [NoCall EXCEPT !.ok = ok]]
    /\ free' = free \cup call[c].conn

Done(c) ==
    /\ call[c].pc \in {"run", "rows"}
    /\ \E ok \in BOOLEAN : End(c, ok)
    /\ UNCHANGED <<gone, closed>>

\* The deadline has passed, the request's context was cancelled, or the pool was
\* closed while the call waited.
Fail(c) ==
    /\ Busy(c)
    /\ call[c].left = 0 \/ c \in gone \/ (closed /\ call[c].pc = "wait")
    /\ End(c, FALSE)
    /\ UNCHANGED <<gone, closed>>

\* The client hangs up, or the server closes its connection.
HangUp(cs) ==
    /\ gone' = gone \cup cs
    /\ UNCHANGED <<free, call, closed>>

\* The goroutine's next request has a context of its own.
Renew(c) ==
    /\ ~ Busy(c)
    /\ gone' = gone \ {c}
    /\ UNCHANGED <<free, call, closed>>

\* Mutant: Close does not wait.
BugClosed == closed

\* Pool.Close; it returns once every connection was given back.
Close == closed' = TRUE /\ UNCHANGED <<free, call, gone>>
Closed == closed /\ free = Conn

\* Mutant: the deadline counts the statement alone, not the wait for a connection.
BugAged(c) ==
    IF call[c].pc \in {"run", "rows"} THEN [call[c] EXCEPT !.left = @ - 1] ELSE call[c]

Aged(c) == IF Busy(c) THEN [call[c] EXCEPT !.left = @ - 1] ELSE call[c]

\* A deadline is acted upon before the clock goes on.
InTime == \A c \in Client : Busy(c) => call[c].left > 0
Tick ==
    /\ InTime
    /\ call' = [c \in Client |-> Aged(c)]
    /\ UNCHANGED <<free, gone, closed>>

Next ==
    \/ \E c \in Client :
         Begin(c) \/ Acquire(c) \/ Stream(c) \/ Done(c) \/ Fail(c) \/ Renew(c)
    \/ \E cs \in SUBSET Client : HangUp(cs)
    \/ Close
    \/ Tick

Spec == Init /\ [][Next]_vars

-----------------------------------------------------------------------------
\* Every variable has its type; each connection is free or held by one call, so none
\* is ever lost (repository.go:145-149 of snippets, telemetry.go:101-127 of db).
Whole ==
    /\ free \cup UNION {call[c].conn : c \in Client} = Conn
    /\ \A c \in Client : call[c].conn \cap free = {}
    /\ \A c, d \in Client : c # d => call[c].conn \cap call[d].conn = {}

TypeOK ==
    /\ free \subseteq Conn
    /\ call \in [Client -> Call]
    /\ gone \subseteq Client
    /\ closed \in BOOLEAN
    /\ \A c \in Client : call[c].pc \in {"idle", "wait"} => call[c].conn = {}
    /\ Whole
=============================================================================
