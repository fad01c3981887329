-------------------------------- MODULE Server --------------------------------
(***************************************************************************)
(* The life of the process: main connects, serves, is told to stop, drains  *)
(* the server and closes what it opened, in the reverse order.  Handlers    *)
(* and the metrics reader are goroutines that call the database through     *)
(* DbPool.  http.Server is modelled from how main uses it: Shutdown closes  *)
(* the listener, lets no request begin and waits for those at work; Close   *)
(* cuts their connections.                                                  *)
(***************************************************************************)
EXTENDS Naturals

CONSTANTS
    Handler,    \* goroutines of requests
    Reader,     \* the goroutine that collects metrics
    Conn,       \* connections of the pool
    Timeout,    \* ticks a database call may take
    Grace,      \* ticks Shutdown waits (15 s)
    Patience,   \* ticks main then waits for the listener (5 s)
    Faults      \* may the start, the listener and the database fail?

Client == Handler \cup {Reader}

ASSUME ServerAssumption ==
    /\ Reader \notin Handler
    /\ Timeout \in Nat /\ Grace \in Nat /\ Patience \in Nat
    /\ Faults \in BOOLEAN

VARIABLES
    free, call, gone, closed,   \* the pool
    main,       \* where main is
    timer,      \* ticks left of the wait main is in
    signalled,  \* was SIGINT or SIGTERM received?
    listener,   \* the goroutine of ListenAndServe
    work,       \* what each goroutine is doing
    redis,      \* is the Redis client open?
    forced,     \* did Shutdown give up?
    gauge       \* the number of users last exported: the table's, or 0

pool == <<free, call, gone, closed>>
process == <<main, timer, signalled, listener, redis, forced>>
vars == <<pool, process, work, gauge>>

Pool == INSTANCE DbPool

\* fatal: log.Fatalf, which runs no deferred call.
Main == {"connect", "serve", "drain", "await", "redis", "pool", "flush",
         "last", "exited", "fatal"}

\* stopping, stopped: Shutdown was called, and ListenAndServe has returned; unbound,
\* failed: it has returned an error of Listen or of Accept.
Listener == {"off", "up", "unbound", "failed", "stopping", "stopped"}
Work == {"none", "body", "busy"}

Init ==
    /\ Pool!Init
    /\ main = "connect"
    /\ timer = 0
    /\ signalled = FALSE
    /\ listener = "off"
    /\ work = [c \in Client |-> "none"]
    /\ redis = TRUE
    /\ forced = FALSE
    /\ gauge = "none"

Alive == main \notin {"exited", "fatal"}
Serving == main = "serve"
AtWork == {h \in Handler : work[h] # "none"}

-----------------------------------------------------------------------------
\* main.

Signal ==
    /\ Alive
    /\ signalled' = TRUE
    /\ UNCHANGED <<pool, main, timer, listener, redis, forced, work, gauge>>

\* db.New pings with the context that the signal cancels; the URL of Redis may be
\* wrong.
Connect ==
    /\ main = "connect"
    /\ \/ main' = "serve" /\ listener' = "up"
       \/ main' = "serve" /\ listener' = "unbound" /\ Faults
       \/ main' = "fatal" /\ (Faults \/ signalled) /\ UNCHANGED listener
    /\ UNCHANGED <<pool, timer, signalled, redis, forced, work, gauge>>

ListenerFails ==
    /\ Faults
    /\ Serving /\ listener = "up"
    /\ listener' = "failed"
    /\ UNCHANGED <<pool, main, timer, signalled, redis, forced, work, gauge>>

ListenerReturns ==
    /\ Alive
    /\ listener = "stopping"
    /\ listener' = "stopped"
    /\ UNCHANGED <<pool, main, timer, signalled, redis, forced, work, gauge>>

\* Mutant: the drain has no limit.
BugGraceOver == FALSE

GraceOver == timer = 0

\* The select: a listener that failed, or a signal, which starts Shutdown.
Select ==
    /\ Serving
    /\ \/ listener # "up" /\ main' = "redis" /\ UNCHANGED <<timer, listener>>
       \/ /\ signalled
          /\ main' = "drain"
          /\ timer' = Grace
          /\ listener' = IF listener = "up" THEN "stopping" ELSE "stopped"
    /\ UNCHANGED <<pool, signalled, redis, forced, work, gauge>>

\* Mutant: main goes on once ListenAndServe has returned.
BugDrained == listener = "stopped"

Drained == AtWork = {}

\* Shutdown returns in time, or gives up: then Close cuts every connection.
Drain ==
    /\ main = "drain"
    /\ \/ Drained /\ UNCHANGED <<pool, forced>>
       \/ /\ GraceOver
          /\ forced' = TRUE
          /\ Pool!HangUp(AtWork)
    /\ main' = "await"
    /\ timer' = Patience
    /\ UNCHANGED <<signalled, listener, redis, work, gauge>>

\* The result of ListenAndServe, or the end of patience.
Await ==
    /\ main = "await"
    /\ listener = "stopped" \/ timer = 0
    /\ main' = "redis"
    /\ UNCHANGED <<pool, timer, signalled, listener, redis, forced, work, gauge>>

\* The deferred calls, last one first.
CloseRedis ==
    /\ main = "redis"
    /\ redis' = FALSE
    /\ main' = "pool"
    /\ Pool!Close
    /\ UNCHANGED <<timer, signalled, listener, forced, work, gauge>>

PoolClosed ==
    /\ main = "pool"
    /\ Pool!Closed
    /\ main' = "flush"
    /\ UNCHANGED <<pool, timer, signalled, listener, redis, forced, work, gauge>>

-----------------------------------------------------------------------------
\* The metrics reader: periodically, and once more when main shuts it down.  A count
\* that fails is exported as 0.
Collect ==
    /\ Alive /\ main # "connect"
    /\ work[Reader] = "none"
    /\ work' = [work EXCEPT ![Reader] = "busy"]
    /\ main' = IF main = "flush" THEN "last" ELSE main
    /\ Pool!Begin(Reader)
    /\ UNCHANGED <<timer, signalled, listener, redis, forced, gauge>>

Export ==
    /\ Alive
    /\ work[Reader] = "busy" /\ ~ Pool!Busy(Reader)
    /\ work' = [work EXCEPT ![Reader] = "none"]
    /\ gauge' = IF call[Reader].ok THEN "total" ELSE "zero"
    /\ main' = IF main = "last" THEN "exited" ELSE main
    /\ UNCHANGED <<pool, timer, signalled, listener, redis, forced>>

-----------------------------------------------------------------------------
\* A request: its body is read, it calls the database any number of times, and is
\* answered.  No deadline is set for the body (ReadHeaderTimeout ends with the headers).

\* Connections kept alive outlast a listener that fails, but not Shutdown.
Arrive(h) ==
    /\ Alive
    /\ listener \in {"up", "failed"}
    /\ work[h] = "none"
    /\ work' = [work EXCEPT ![h] = "body"]
    /\ Pool!Renew(h)
    /\ UNCHANGED <<process, gauge>>

Body(h) ==
    /\ Alive
    /\ work[h] = "body"
    /\ work' = [work EXCEPT ![h] = "busy"]
    /\ UNCHANGED <<pool, process, gauge>>

UseDb(h) ==
    /\ Alive
    /\ work[h] = "busy"
    /\ Pool!Begin(h)
    /\ UNCHANGED <<process, work, gauge>>

Answer(h) ==
    /\ Alive
    /\ work[h] = "busy" /\ ~ Pool!Busy(h)
    /\ work' = [work EXCEPT ![h] = "none"]
    /\ UNCHANGED <<pool, process, gauge>>

Leave(h) ==
    /\ Alive
    /\ work[h] # "none"
    /\ Pool!HangUp({h})
    /\ UNCHANGED <<process, work, gauge>>

\* The calls under way, of requests and of the reader.
PoolStep(c) ==
    /\ Alive
    /\ \/ Pool!Acquire(c) \/ Pool!Stream(c) \/ Pool!Fail(c)
       \/ Pool!Done(c) /\ (Faults \/ call'[c].ok)
    /\ UNCHANGED <<process, work, gauge>>

\* The clock: every deadline is acted upon before it goes on.
Waiting == main \in {"drain", "await"}
Tick ==
    /\ Alive
    /\ Waiting => timer > 0
    /\ timer' = IF Waiting THEN timer - 1 ELSE timer
    /\ Pool!Tick
    /\ UNCHANGED <<main, signalled, listener, redis, forced, work, gauge>>

MainStep == Connect \/ Select \/ Drain \/ Await \/ CloseRedis \/ PoolClosed
Request(h) == Arrive(h) \/ Body(h) \/ UseDb(h) \/ Answer(h) \/ Leave(h)

Next ==
    \/ Signal
    \/ MainStep
    \/ ListenerFails \/ ListenerReturns
    \/ Collect \/ Export
    \/ \E h \in Handler : Request(h)
    \/ \E c \in Client : PoolStep(c)
    \/ Tick

Spec == Init /\ [][Next]_vars

\* main and the reader go on, calls end at their deadlines, time passes.  Nothing is
\* asked of handlers: a client may keep one waiting for its body for ever.
FairSpec ==
    /\ Spec
    /\ WF_vars(MainStep)
    /\ WF_vars(Collect /\ main = "flush") /\ WF_vars(Export)
    /\ WF_vars(Tick)
    /\ \A c \in Client : WF_vars(Pool!Fail(c) /\ PoolStep(c))

-----------------------------------------------------------------------------
\* Every variable has its type, and the pool's connections are accounted for.
TypeOK ==
    /\ Pool!TypeOK
    /\ main \in Main
    /\ timer \in Nat
    /\ signalled \in BOOLEAN
    /\ listener \in Listener
    /\ work \in [Client -> Work]
    /\ redis \in BOOLEAN
    /\ forced \in BOOLEAN
    /\ gauge \in {"none", "total", "zero"}
    /\ \A c \in Client : Pool!Busy(c) => work[c] = "busy"

\* Redis and the pool are closed under a request's feet only when it has outstayed the
\* 15 s of Shutdown, or when the listener has failed (main.go:146-165).
ClosedAfterRequests ==
    main \in {"redis", "pool", "flush", "last", "exited"} /\ AtWork # {} => forced \/ listener = "failed"

\* No statement is cut off by the end of the process: once the deferred Close has
\* returned none is under way and none begins, though Shutdown may have given up on
\* requests that are still served and go on calling the database (main.go:45).
NoStatementCutOff ==
    main \in {"flush", "last", "exited"} => \A c \in Client : call[c].pc \in {"idle", "wait"}

\* The process ends after a signal, though a client may hold a handler for ever
\* (main.go:151-164).
Exits == signalled ~> ~ Alive

\* Every call of the database ends, though the connections may be taken by others for
\* ever and no statement ever ends by itself (base.go:37-39 of db).
EveryCallEnds == \A c \in Client : Pool!Busy(c) ~> ~ Pool!Busy(c) \/ ~ Alive

\* The gauge is called the total of the users (appmetrics.go:25): so should be the value
\* it is left at when the process has stopped.
LastGaugeIsTotal == main = "exited" => gauge = "total"
=============================================================================
