----------------------------- MODULE ServerProofs -----------------------------
(***************************************************************************)
(* Proofs about Server and the pool it uses.  First the pool alone: each of *)
(* its actions keeps every connection accounted for.  Then Server: it does  *)
(* to the pool only what DbPool allows, it loses no connection although     *)
(* main closes the pool and cuts requests off, and it closes things in the  *)
(* right order.                                                             *)
(***************************************************************************)
EXTENDS Server, TLAPS

\* Whole, connection by connection.
LEMMA WholeByConn ==
    ASSUME free \subseteq Conn, \A c \in Client : call[c].conn \subseteq Conn
    PROVE  Pool!Whole <=>
             /\ \A k \in Conn : k \in free \/ \E c \in Client : k \in call[c].conn
             /\ \A c \in Client : \A k \in call[c].conn : k \notin free
             /\ \A c, d \in Client : c # d =>
                   \A k \in call[c].conn : k \notin call[d].conn
BY DEF Pool!Whole

\* What a goroutine's call has become is a call, and holds what it held.
LEMMA SameConns ==
    ASSUME Pool!TypeOK, free' = free, call' \in [Client -> Pool!Call],
           \A c \in Client : call'[c].conn = call[c].conn
    PROVE  Pool!Whole'
BY DEF Pool!TypeOK, Pool!Whole

LEMMA BeginType ==
    ASSUME Pool!TypeOK, NEW c \in Client, Pool!Begin(c)
    PROVE  Pool!TypeOK'
<1>1. call \in [Client -> Pool!Call] /\ call[c].conn = {}
  BY DEF Pool!TypeOK, Pool!Begin, Pool!Busy
<1>2. Pool!NoCall \in Pool!Call /\ Pool!NoCall.conn = {}
  BY ServerAssumption DEF ServerAssumption, Pool!NoCall, Pool!Call, Pool!Pc
<1>3. /\ [Pool!NoCall EXCEPT !.ok = FALSE] \in Pool!Call
      /\ [Pool!NoCall EXCEPT !.ok = FALSE].conn = {}
  BY <1>2 DEF Pool!Call, Pool!NoCall
<1>4. /\ [Pool!NoCall EXCEPT !.pc = "wait", !.left = Timeout] \in Pool!Call
      /\ [Pool!NoCall EXCEPT !.pc = "wait", !.left = Timeout].conn = {}
  <2>1. Timeout \in 0..Timeout
    BY ServerAssumption DEF ServerAssumption
  <2>2. QED BY <2>1 DEF Pool!Call, Pool!NoCall, Pool!Pc
<1>5. call' \in [Client -> Pool!Call] /\ call'[c].conn = {}
  BY <1>1, <1>3, <1>4 DEF Pool!Begin
<1>6. \A d \in Client : d # c => call'[d] = call[d]
  BY <1>1 DEF Pool!Begin
<1>7. Pool!Whole'
  BY <1>1, <1>5, <1>6, SameConns DEF Pool!Begin
<1>8. QED BY <1>5, <1>6, <1>7 DEF Pool!TypeOK, Pool!Begin

LEMMA AcquireType ==
    ASSUME Pool!TypeOK, NEW c \in Client, Pool!Acquire(c)
    PROVE  Pool!TypeOK'
<1>1. /\ call \in [Client -> Pool!Call] /\ call[c] \in Pool!Call /\ call[c].conn = {}
      /\ free \subseteq Conn
  BY DEF Pool!TypeOK, Pool!Acquire
<1>2. PICK k \in free :
        /\ free' = free \ {k}
        /\ call' = [call EXCEPT ![c] = [@ EXCEPT !.pc = "run", !.conn = {k}]]
  BY DEF Pool!Acquire
<1>3. [call[c] EXCEPT !.pc = "run", !.conn = {k}] \in Pool!Call
  BY <1>1 DEF Pool!Call, Pool!Pc
<1>4. call' \in [Client -> Pool!Call] /\ call'[c].conn = {k} /\ call'[c].pc = "run"
  BY <1>1, <1>2, <1>3 DEF Pool!Call
<1>5. \A d \in Client : d # c => call'[d] = call[d]
  BY <1>1, <1>2
<1>6. Pool!Whole'
  <2>1. \A d \in Client : call[d].conn \subseteq Conn
    BY DEF Pool!TypeOK, Pool!Call
  <2>2. free' \subseteq Conn /\ \A d \in Client : call'[d].conn \subseteq Conn
    BY <1>1, <1>2, <1>4, <1>5, <2>1
  <2>3. /\ \A j \in Conn : j \in free \/ \E d \in Client : j \in call[d].conn
        /\ \A d \in Client : \A j \in call[d].conn : j \notin free
        /\ \A d, e \in Client : d # e => \A j \in call[d].conn : j \notin call[e].conn
    BY <1>1, <2>1, WholeByConn DEF Pool!TypeOK
  <2>4. \A j \in Conn : j \in free' \/ \E d \in Client : j \in call'[d].conn
    BY <1>1, <1>2, <1>4, <1>5, <2>3
  <2>5. \A d \in Client : \A j \in call'[d].conn : j \notin free'
    BY <1>2, <1>4, <1>5, <2>3
  <2>6. \A d, e \in Client : d # e => \A j \in call'[d].conn : j \notin call'[e].conn
    BY <1>2, <1>4, <1>5, <2>3
  <2>7. QED BY <2>2, <2>4, <2>5, <2>6 DEF Pool!Whole
<1>7. QED BY <1>1, <1>2, <1>4, <1>5, <1>6 DEF Pool!TypeOK, Pool!Acquire

LEMMA StreamType ==
    ASSUME Pool!TypeOK, NEW c \in Client, Pool!Stream(c)
    PROVE  Pool!TypeOK'
<1>1. call \in [Client -> Pool!Call] /\ call[c] \in Pool!Call
  BY DEF Pool!TypeOK
<1>2. [call[c] EXCEPT !.pc = "rows"] \in Pool!Call
  BY <1>1 DEF Pool!Call, Pool!Pc
<1>3. call' \in [Client -> Pool!Call] /\ call'[c].conn = call[c].conn /\ call'[c].pc = "rows"
  BY <1>1, <1>2 DEF Pool!Stream, Pool!Call
<1>4. \A d \in Client : d # c => call'[d] = call[d]
  BY <1>1 DEF Pool!Stream
<1>5. Pool!Whole'
  BY <1>3, <1>4, SameConns DEF Pool!Stream
<1>6. QED BY <1>3, <1>4, <1>5 DEF Pool!TypeOK, Pool!Stream

\* The end of a call gives back all that it held.
LEMMA EndType ==
    ASSUME Pool!TypeOK, NEW c \in Client, NEW ok \in BOOLEAN, Pool!End(c, ok),
           UNCHANGED <<gone, closed>>
    PROVE  Pool!TypeOK'
<1>1. call \in [Client -> Pool!Call] /\ call[c] \in Pool!Call /\ free \subseteq Conn
  BY DEF Pool!TypeOK
<1>2. [Pool!NoCall EXCEPT !.ok = ok] \in Pool!Call /\ [Pool!NoCall EXCEPT !.ok = ok].conn = {}
  BY ServerAssumption DEF ServerAssumption, Pool!NoCall, Pool!Call, Pool!Pc
<1>3. call' \in [Client -> Pool!Call] /\ call'[c].conn = {}
  BY <1>1, <1>2 DEF Pool!End
<1>4. \A d \in Client : d # c => call'[d] = call[d]
  BY <1>1 DEF Pool!End
<1>5. free' = free \cup call[c].conn
  BY DEF Pool!End
<1>6. Pool!Whole' /\ free' \subseteq Conn
  <2>1. \A d \in Client : call[d].conn \subseteq Conn
    BY DEF Pool!TypeOK, Pool!Call
  <2>2. free' \subseteq Conn /\ \A d \in Client : call'[d].conn \subseteq Conn
    BY <1>1, <1>3, <1>4, <1>5, <2>1
  <2>3. /\ \A j \in Conn : j \in free \/ \E d \in Client : j \in call[d].conn
        /\ \A d \in Client : \A j \in call[d].conn : j \notin free
        /\ \A d, e \in Client : d # e => \A j \in call[d].conn : j \notin call[e].conn
    BY <1>1, <2>1, WholeByConn DEF Pool!TypeOK
  <2>4. \A j \in Conn : j \in free' \/ \E d \in Client : j \in call'[d].conn
    BY <1>4, <1>5, <2>3
  <2>5. \A d \in Client : \A j \in call'[d].conn : j \notin free'
    BY <1>3, <1>4, <1>5, <2>3
  <2>6. \A d, e \in Client : d # e => \A j \in call'[d].conn : j \notin call'[e].conn
    BY <1>3, <1>4, <2>3
  <2>7. QED BY <2>2, <2>4, <2>5, <2>6 DEF Pool!Whole
<1>7. QED BY <1>3, <1>4, <1>6 DEF Pool!TypeOK

LEMMA DoneType ==
    ASSUME Pool!TypeOK, NEW c \in Client, Pool!Done(c) \/ Pool!Fail(c)
    PROVE  Pool!TypeOK'
<1>1. (\E ok \in BOOLEAN : Pool!End(c, ok)) /\ UNCHANGED <<gone, closed>>
  BY DEF Pool!Done, Pool!Fail
<1>2. QED BY <1>1, EndType

\* Contexts and Close leave the connections alone.
LEMMA ContextType ==
    ASSUME Pool!TypeOK,
           \/ \E cs \in SUBSET Client : Pool!HangUp(cs)
           \/ \E c \in Client : Pool!Renew(c)
           \/ Pool!Close
    PROVE  Pool!TypeOK'
BY DEF Pool!TypeOK, Pool!HangUp, Pool!Renew, Pool!Close, Pool!Whole

LEMMA TickType ==
    ASSUME Pool!TypeOK, Pool!Tick
    PROVE  Pool!TypeOK'
<1>1. call \in [Client -> Pool!Call] /\ call' = [c \in Client |-> Pool!Aged(c)]
  BY DEF Pool!TypeOK, Pool!Tick
<1>2. ASSUME NEW c \in Client
      PROVE  /\ Pool!Aged(c) \in Pool!Call
             /\ Pool!Aged(c).conn = call[c].conn /\ Pool!Aged(c).pc = call[c].pc
  <2>1. call[c] \in Pool!Call
    BY <1>1
  <2>2. CASE Pool!Busy(c)
    <3>1. call[c].left \in 1..Timeout
      BY <2>1, <2>2, ServerAssumption DEF ServerAssumption, Pool!Tick, Pool!InTime, Pool!Call
    <3>2. call[c].left - 1 \in 0..Timeout
      BY <3>1, ServerAssumption DEF ServerAssumption
    <3>3. QED BY <2>1, <2>2, <3>2 DEF Pool!Aged, Pool!Call
  <2>3. QED BY <2>1, <2>2 DEF Pool!Aged
<1>3. call' \in [Client -> Pool!Call] /\ \A c \in Client : call'[c].conn = call[c].conn
  BY <1>1, <1>2
<1>4. Pool!Whole'
  BY <1>3, SameConns DEF Pool!Tick
<1>5. QED BY <1>1, <1>2, <1>3, <1>4 DEF Pool!TypeOK, Pool!Tick

-----------------------------------------------------------------------------
LEMMA PoolInit ==
    ASSUME Pool!Init
    PROVE  Pool!TypeOK
<1>1. Pool!NoCall \in Pool!Call /\ Pool!NoCall.conn = {}
  BY ServerAssumption DEF ServerAssumption, Pool!NoCall, Pool!Call, Pool!Pc
<1>2. call \in [Client -> Pool!Call] /\ \A c \in Client : call[c].conn = {}
  BY <1>1 DEF Pool!Init
<1>3. Pool!Whole
  BY <1>2 DEF Pool!Init, Pool!Whole
<1>4. QED BY <1>2, <1>3 DEF Pool!Init, Pool!TypeOK

\* Whatever the pool allows keeps its types.
LEMMA PoolType ==
    ASSUME Pool!TypeOK, [Pool!Next]_pool
    PROVE  Pool!TypeOK'
<1>1. ASSUME NEW c \in Client,
             \/ Pool!Begin(c) \/ Pool!Acquire(c) \/ Pool!Stream(c) \/ Pool!Done(c)
             \/ Pool!Fail(c) \/ Pool!Renew(c)
      PROVE  Pool!TypeOK'
  BY <1>1, BeginType, AcquireType, StreamType, DoneType, ContextType
<1>2. CASE Pool!Close \/ \E cs \in SUBSET Client : Pool!HangUp(cs)
  BY <1>2, ContextType
<1>3. CASE Pool!Tick
  BY <1>3, TickType
<1>4. CASE UNCHANGED pool
  BY <1>4 DEF pool, Pool!TypeOK, Pool!Whole
<1>5. QED BY <1>1, <1>2, <1>3, <1>4 DEF Pool!Next

\* Every connection is free or held by exactly one call, whatever calls fail, are given
\* up or read their rows to the end (telemetry.go:101-127 of db): the pool loses none,
\* whoever uses it.
THEOREM PoolTypeCorrect == Pool!Spec => []Pool!TypeOK
<1>1. Pool!Init => Pool!TypeOK
  BY PoolInit
<1>2. Pool!TypeOK /\ [Pool!Next]_(Pool!vars) => Pool!TypeOK'
  BY PoolType DEF pool, Pool!vars
<1>3. QED BY <1>1, <1>2, PTL DEF Pool!Spec

-----------------------------------------------------------------------------
\* What a step of Server does to the pool is a step of DbPool or none: main cuts the
\* connections of requests and closes the pool, goroutines begin calls, calls go on, and
\* the clock of both is one.
LEMMA PoolNext ==
    ASSUME [Next]_vars
    PROVE  [Pool!Next]_pool
<1>1. Reader \in Client /\ Handler \subseteq Client /\ AtWork \in SUBSET Client
  BY DEF Client, AtWork
<1>2. CASE \/ Signal \/ Connect \/ Select \/ Await \/ PoolClosed
           \/ ListenerFails \/ ListenerReturns \/ Export
  BY <1>2 DEF Signal, Connect, Select, Await, PoolClosed, ListenerFails, ListenerReturns, Export
<1>3. CASE Drain
  BY <1>1, <1>3 DEF Drain, Pool!Next
<1>4. CASE CloseRedis \/ Tick
  BY <1>4 DEF CloseRedis, Tick, Pool!Next
<1>5. CASE Collect
  BY <1>1, <1>5 DEF Collect, Pool!Next
<1>6. ASSUME NEW h \in Handler, Request(h) PROVE [Pool!Next]_pool
  <2>1. h \in Client /\ {h} \in SUBSET Client
    BY <1>1
  <2>2. CASE Arrive(h) \/ UseDb(h) \/ Leave(h)
    BY <2>1, <2>2 DEF Arrive, UseDb, Leave, Pool!Next
  <2>3. CASE Body(h) \/ Answer(h)
    BY <2>3 DEF Body, Answer
  <2>4. QED BY <1>6, <2>2, <2>3 DEF Request
<1>7. ASSUME NEW c \in Client, PoolStep(c) PROVE [Pool!Next]_pool
  BY <1>7 DEF PoolStep, Pool!Next
<1>8. CASE UNCHANGED vars
  BY <1>8 DEF vars
<1>9. QED
  BY <1>2, <1>3, <1>4, <1>5, <1>6, <1>7, <1>8 DEF Next, MainStep

\* The process keeps to the pool: whatever main, the requests and the metrics reader do,
\* in any number and any order, the pool sees only what DbPool allows, so all that holds
\* of DbPool holds of it here (main.go:41-45, base.go:37-39 of db).
THEOREM ImplementsPool == Spec => Pool!Spec
<1>1. Init => Pool!Init
  BY DEF Init
<1>2. [Next]_vars => [Pool!Next]_(Pool!vars)
  BY PoolNext DEF pool, Pool!vars
<1>3. QED BY <1>1, <1>2, PTL DEF Spec, Pool!Spec

\* No connection is lost or held twice while the process lives and stops.
LEMMA PoolSafe == Spec => []Pool!TypeOK
BY ImplementsPool, PoolTypeCorrect, PTL

\* Which goroutines are in a call: Begin adds its own, the others add none.
LEMMA BusyAfter ==
    ASSUME Pool!TypeOK
    PROVE  /\ \A c \in Client : Pool!Begin(c) =>
                 \A d \in Client : d # c /\ Pool!Busy(d)' => Pool!Busy(d)
           /\ \/ \E c \in Client : \/ Pool!Acquire(c) \/ Pool!Stream(c) \/ Pool!Done(c)
                                   \/ Pool!Fail(c) \/ Pool!Renew(c)
              \/ \E cs \in SUBSET Client : Pool!HangUp(cs)
              \/ Pool!Close \/ Pool!Tick
              \/ UNCHANGED pool
              => \A d \in Client : Pool!Busy(d)' => Pool!Busy(d)
<1>1. call \in [Client -> Pool!Call]
  BY DEF Pool!TypeOK
<1>2. ASSUME NEW c \in Client, Pool!Begin(c), NEW d \in Client, d # c
      PROVE  Pool!Busy(d)' => Pool!Busy(d)
  BY <1>1, <1>2 DEF Pool!Begin, Pool!Busy
<1>3. ASSUME NEW c \in Client, NEW d \in Client,
             Pool!Acquire(c) \/ Pool!Stream(c) \/ Pool!Done(c) \/ Pool!Fail(c)
      PROVE  Pool!Busy(d)' => Pool!Busy(d)
  <2>1. Pool!Busy(c)
    BY <1>3 DEF Pool!Acquire, Pool!Stream, Pool!Done, Pool!Fail, Pool!Busy
  <2>2. d # c => call'[d] = call[d]
    BY <1>1, <1>3 DEF Pool!Acquire, Pool!Stream, Pool!Done, Pool!Fail, Pool!End
  <2>3. QED BY <2>1, <2>2 DEF Pool!Busy
<1>4. ASSUME \/ \E c \in Client : Pool!Renew(c)
             \/ \E cs \in SUBSET Client : Pool!HangUp(cs)
             \/ Pool!Close
             \/ UNCHANGED pool,
             NEW d \in Client
      PROVE  Pool!Busy(d)' => Pool!Busy(d)
  BY <1>4 DEF Pool!Renew, Pool!HangUp, Pool!Close, pool, Pool!Busy
<1>5. ASSUME Pool!Tick, NEW d \in Client
      PROVE  Pool!Busy(d)' => Pool!Busy(d)
  BY <1>1, <1>5 DEF Pool!Tick, Pool!Aged, Pool!Busy, Pool!Call
<1>6. QED BY <1>2, <1>3, <1>4, <1>5

-----------------------------------------------------------------------------
\* main and the listener keep the types.
LEMMA ProcessType ==
    ASSUME TypeOK, Pool!TypeOK', Signal \/ MainStep \/ ListenerFails \/ ListenerReturns
    PROVE  TypeOK'
<1>1. /\ work' = work
      /\ \/ UNCHANGED pool
         \/ \E cs \in SUBSET Client : Pool!HangUp(cs)
         \/ Pool!Close
  <2>1. AtWork \in SUBSET Client
    BY DEF AtWork, Client
  <2>2. QED
    BY <2>1 DEF Signal, MainStep, ListenerFails, ListenerReturns, Connect, Select, Drain,
                Await, CloseRedis, PoolClosed, pool
<1>2. \A d \in Client : Pool!Busy(d)' => Pool!Busy(d)
  BY <1>1, BusyAfter DEF TypeOK
<1>3. /\ main' \in Main /\ timer' \in Nat /\ signalled' \in BOOLEAN
      /\ listener' \in Listener /\ redis' \in BOOLEAN /\ forced' \in BOOLEAN
      /\ gauge' = gauge
  BY ServerAssumption
     DEF ServerAssumption, TypeOK, Signal, MainStep, ListenerFails, ListenerReturns, Connect,
         Select, Drain, Await, CloseRedis, PoolClosed, Main, Listener
<1>4. QED BY <1>1, <1>2, <1>3 DEF TypeOK

\* So do requests, the reader, the calls under way and the clock.
LEMMA WorkType ==
    ASSUME TypeOK, Pool!TypeOK',
           \/ Collect \/ Export \/ Tick
           \/ \E h \in Handler : Request(h)
           \/ \E c \in Client : PoolStep(c)
    PROVE  TypeOK'
<1>1. Reader \in Client /\ Handler \subseteq Client
  BY DEF Client
<1>2. CASE Collect
  <2>1. \A d \in Client : d # Reader /\ Pool!Busy(d)' => Pool!Busy(d)
    BY <1>1, <1>2, BusyAfter DEF Collect, TypeOK
  <2>2. work' \in [Client -> Work] /\ work'[Reader] = "busy"
        /\ \A d \in Client : d # Reader => work'[d] = work[d]
    BY <1>1, <1>2 DEF Collect, TypeOK, Work
  <2>3. QED BY <1>2, <2>1, <2>2 DEF Collect, TypeOK, Main
<1>3. CASE Export
  <2>1. \A d \in Client : Pool!Busy(d)' => Pool!Busy(d) /\ d # Reader
    <3>1. UNCHANGED pool /\ ~ Pool!Busy(Reader)
      BY <1>3 DEF Export
    <3>2. QED BY <1>1, <3>1, BusyAfter DEF TypeOK
  <2>2. work' \in [Client -> Work] /\ \A d \in Client : d # Reader => work'[d] = work[d]
    BY <1>1, <1>3 DEF Export, TypeOK, Work
  <2>3. QED BY <1>3, <2>1, <2>2 DEF Export, TypeOK, Main
<1>4. CASE Tick
  <2>1. \A d \in Client : Pool!Busy(d)' => Pool!Busy(d)
    BY <1>4, BusyAfter DEF Tick, TypeOK
  <2>2. timer' \in Nat
    BY <1>4 DEF Tick, TypeOK
  <2>3. QED BY <1>4, <2>1, <2>2 DEF Tick, TypeOK
<1>5. ASSUME NEW h \in Handler, Request(h) PROVE TypeOK'
  <2>1. h \in Client
    BY <1>1
  <2>2. UNCHANGED <<process, gauge>>
    BY <1>5 DEF Request, Arrive, Body, UseDb, Answer, Leave, process
  <2>3. CASE UseDb(h)
    <3>1. \A d \in Client : d # h /\ Pool!Busy(d)' => Pool!Busy(d)
      BY <2>1, <2>3, BusyAfter DEF UseDb, TypeOK
    <3>2. QED BY <2>2, <2>3, <3>1 DEF UseDb, TypeOK, process
  <2>4. CASE Arrive(h) \/ Body(h) \/ Answer(h) \/ Leave(h)
    <3>1. \/ UNCHANGED pool
          \/ \E c \in Client : Pool!Renew(c)
          \/ \E cs \in SUBSET Client : Pool!HangUp(cs)
      <4>1. {h} \in SUBSET Client
        BY <2>1
      <4>2. QED BY <2>1, <2>4, <4>1 DEF Arrive, Body, Answer, Leave
    <3>2. \A d \in Client : Pool!Busy(d)' => Pool!Busy(d)
      BY <3>1, BusyAfter DEF TypeOK
    <3>3. /\ work' \in [Client -> Work]
          /\ \A d \in Client : d # h => work'[d] = work[d]
          /\ Pool!Busy(h) => work'[h] = "busy"
      BY <2>1, <2>4 DEF Arrive, Body, Answer, Leave, TypeOK, Work
    <3>4. QED BY <2>2, <3>2, <3>3 DEF TypeOK, process
  <2>5. QED BY <1>5, <2>3, <2>4 DEF Request
<1>6. ASSUME NEW c \in Client, PoolStep(c) PROVE TypeOK'
  <2>1. Pool!Acquire(c) \/ Pool!Stream(c) \/ Pool!Fail(c) \/ Pool!Done(c)
    BY <1>6 DEF PoolStep
  <2>2. \A d \in Client : Pool!Busy(d)' => Pool!Busy(d)
    BY <2>1, BusyAfter DEF TypeOK
  <2>3. QED BY <1>6, <2>2 DEF PoolStep, TypeOK, process
<1>7. QED BY <1>2, <1>3, <1>4, <1>5, <1>6

\* Every variable keeps its type and the pool all its connections, through a shutdown
\* that cuts requests off (main.go:126-166, db/base.go:80-82).
THEOREM TypeCorrect == Spec => []TypeOK
<1>1. Pool!TypeOK /\ Init => TypeOK
  <2>1. SUFFICES ASSUME Pool!TypeOK, Init PROVE TypeOK
    OBVIOUS
  <2>2. \A c \in Client : ~ Pool!Busy(c)
    BY <2>1 DEF Init, Pool!Init, Pool!NoCall, Pool!Busy
  <2>3. QED BY <2>1, <2>2 DEF Init, TypeOK, Main, Listener, Work
<1>2. TypeOK /\ Pool!TypeOK' /\ [Next]_vars => TypeOK'
  <2>1. SUFFICES ASSUME TypeOK, Pool!TypeOK', [Next]_vars PROVE TypeOK'
    OBVIOUS
  <2>2. CASE UNCHANGED vars
    <3>1. UNCHANGED pool /\ UNCHANGED <<process, work, gauge>>
      BY <2>2 DEF vars
    <3>2. \A d \in Client : Pool!Busy(d)' => Pool!Busy(d)
      BY <2>1, <3>1, BusyAfter DEF TypeOK
    <3>3. QED BY <2>1, <3>1, <3>2 DEF TypeOK, process
  <2>3. CASE Next
    BY <2>1, <2>3, ProcessType, WorkType DEF Next
  <2>4. QED BY <2>1, <2>2, <2>3
<1>3. QED BY <1>1, <1>2, PoolSafe, PTL DEF Spec

-----------------------------------------------------------------------------
\* Where main is and what the listener does go together, and so do both and the
\* requests: none begins once the listener is being stopped, and main passes Drain with
\* requests at work only when it gave up.
InStep ==
    /\ main = "connect" => listener = "off"
    /\ main = "serve" => listener \in {"up", "unbound", "failed"}
    /\ main \in {"drain", "await"} => listener \in {"stopping", "stopped", "unbound", "failed"}
    /\ main \in {"redis", "pool", "flush", "last", "exited"} => listener \notin {"up", "off"}
Quiet == listener \in {"off", "unbound"} => AtWork = {}
Behind == {"await", "redis", "pool", "flush", "last", "exited"}
Outstayed == main \in Behind /\ AtWork # {} => forced \/ listener = "failed"
ShutInv == InStep /\ Quiet /\ Outstayed

\* What the reader, the calls and the clock do is nothing to the requests.
LEMMA SameWork ==
    ASSUME TypeOK, Collect \/ Export \/ Tick \/ \E c \in Client : PoolStep(c)
    PROVE  AtWork' = AtWork
<1>1. Reader \notin Handler /\ Handler \subseteq Client
  BY ServerAssumption DEF ServerAssumption, Client
<1>2. \A h \in Handler : work'[h] = work[h]
  BY <1>1 DEF TypeOK, Collect, Export, Tick, PoolStep
<1>3. QED BY <1>2 DEF AtWork

LEMMA ShutStep ==
    ASSUME TypeOK, ShutInv, [Next]_vars
    PROVE  ShutInv'
<1>1. CASE Signal \/ ListenerReturns
  BY <1>1 DEF Signal, ListenerReturns, ShutInv, InStep, Quiet, Outstayed, AtWork
<1>2. CASE ListenerFails
  BY <1>2 DEF ListenerFails, Serving, ShutInv, InStep, Quiet, Outstayed, AtWork, Behind
<1>3. CASE Connect
  BY <1>3 DEF Connect, ShutInv, InStep, Quiet, Outstayed, AtWork, Behind
<1>4. CASE Select
  BY <1>4 DEF Select, Serving, ShutInv, InStep, Quiet, Outstayed, AtWork, Behind
<1>5. CASE Drain
  BY <1>5 DEF Drain, Drained, ShutInv, InStep, Quiet, Outstayed, AtWork, Behind
<1>6. CASE Await
  BY <1>6 DEF Await, ShutInv, InStep, Quiet, Outstayed, AtWork, Behind
<1>7. CASE CloseRedis \/ PoolClosed
  BY <1>7 DEF CloseRedis, PoolClosed, ShutInv, InStep, Quiet, Outstayed, AtWork, Behind
<1>8. CASE Collect \/ Export \/ Tick \/ \E c \in Client : PoolStep(c)
  <2>1. AtWork' = AtWork /\ UNCHANGED <<listener, forced>>
    BY <1>8, SameWork DEF Collect, Export, Tick, PoolStep, process
  <2>2. \/ main' = main
        \/ main = "flush" /\ main' = "last"
        \/ main = "last" /\ main' = "exited"
    BY <1>8 DEF Collect, Export, Tick, PoolStep, process
  <2>3. QED BY <2>1, <2>2 DEF ShutInv, InStep, Quiet, Outstayed, Behind
<1>9. ASSUME NEW h \in Handler, Request(h) PROVE ShutInv'
  <2>1. UNCHANGED <<main, listener, forced>>
    BY <1>9 DEF Request, Arrive, Body, UseDb, Answer, Leave, process
  <2>2. work \in [Client -> Work] /\ Handler \subseteq Client
    BY DEF TypeOK, Client
  <2>3. CASE Arrive(h)
    <3>1. Alive /\ listener \in {"up", "failed"}
      BY <2>3 DEF Arrive
    <3>2. QED BY <2>1, <3>1 DEF ShutInv, InStep, Quiet, Outstayed, Behind
  <2>4. CASE Body(h) \/ UseDb(h) \/ Answer(h) \/ Leave(h)
    <3>1. AtWork' \subseteq AtWork
      BY <2>2, <2>4 DEF Body, UseDb, Answer, Leave, AtWork
    <3>2. QED BY <2>1, <3>1 DEF ShutInv, InStep, Quiet, Outstayed
  <2>5. QED BY <1>9, <2>3, <2>4 DEF Request
<1>10. CASE UNCHANGED vars
  BY <1>10 DEF vars, process, ShutInv, InStep, Quiet, Outstayed, AtWork
<1>11. QED
  BY <1>1, <1>2, <1>3, <1>4, <1>5, <1>6, <1>7, <1>8, <1>9, <1>10 DEF Next, MainStep

\* Redis and the pool are closed under a request's feet only when Shutdown gave up on it
\* or the listener had failed, for any number of requests and any grace
\* (main.go:146-165).
THEOREM ClosedLast == Spec => []ClosedAfterRequests
<1>1. Init => ShutInv
  BY DEF Init, ShutInv, InStep, Quiet, Outstayed, AtWork, Behind, Client
<1>2. ShutInv /\ TypeOK /\ [Next]_vars => ShutInv'
  BY ShutStep
<1>3. ShutInv => ClosedAfterRequests
  BY DEF ShutInv, Outstayed, Behind, ClosedAfterRequests
<1>4. QED BY <1>1, <1>2, <1>3, TypeCorrect, PTL DEF Spec

-----------------------------------------------------------------------------
\* A statement runs on a connection; so when all are free none runs.
Holding == \A c \in Client : call[c].pc \in {"run", "rows"} => call[c].conn # {}
Resting == \A c \in Client : call[c].pc \in {"idle", "wait"}

LEMMA HoldingStep ==
    ASSUME Pool!TypeOK, Holding, [Pool!Next]_pool
    PROVE  Holding'
<1>1. call \in [Client -> Pool!Call]
  BY DEF Pool!TypeOK
<1>2. ASSUME NEW c \in Client, Pool!Begin(c) PROVE Holding'
  BY <1>1, <1>2 DEF Pool!Begin, Pool!NoCall, Holding
<1>3. ASSUME NEW c \in Client, Pool!Acquire(c) PROVE Holding'
  <2>1. PICK k \in free :
          call' = [call EXCEPT ![c] = [@ EXCEPT !.pc = "run", !.conn = {k}]]
    BY <1>3 DEF Pool!Acquire
  <2>2. call'[c].conn = {k}
    BY <1>1, <2>1 DEF Pool!Call
  <2>3. \A d \in Client : d # c => call'[d] = call[d]
    BY <1>1, <2>1
  <2>4. QED BY <2>2, <2>3 DEF Holding
<1>4. ASSUME NEW c \in Client, Pool!Stream(c) PROVE Holding'
  <2>1. call'[c].conn = call[c].conn /\ call[c].pc = "run"
    BY <1>1, <1>4 DEF Pool!Stream, Pool!Call
  <2>2. \A d \in Client : d # c => call'[d] = call[d]
    BY <1>1, <1>4 DEF Pool!Stream
  <2>3. QED BY <2>1, <2>2 DEF Holding
<1>5. ASSUME NEW c \in Client, Pool!Done(c) \/ Pool!Fail(c) PROVE Holding'
  BY <1>1, <1>5 DEF Pool!Done, Pool!Fail, Pool!End, Pool!NoCall, Holding
<1>6. CASE \/ \E c \in Client : Pool!Renew(c)
           \/ \E cs \in SUBSET Client : Pool!HangUp(cs)
           \/ Pool!Close
           \/ UNCHANGED pool
  BY <1>6 DEF Pool!Renew, Pool!HangUp, Pool!Close, pool, Holding
<1>7. CASE Pool!Tick
  BY <1>1, <1>7 DEF Pool!Tick, Pool!Aged, Pool!Call, Holding
<1>8. QED BY <1>2, <1>3, <1>4, <1>5, <1>6, <1>7 DEF Pool!Next

LEMMA AllFreeNoneRuns ==
    ASSUME Pool!TypeOK, Holding, free = Conn
    PROVE  Resting
<1>1. \A c \in Client : call[c] \in Pool!Call /\ call[c].conn \cap free = {}
  BY DEF Pool!TypeOK, Pool!Whole
<1>2. \A c \in Client : call[c].conn = {}
  BY <1>1 DEF Pool!Call
<1>3. QED BY <1>1, <1>2 DEF Holding, Resting, Pool!Call, Pool!Pc

\* A pool that is closed and at rest stays so: no call is given a connection.
LEMMA RestingStep ==
    ASSUME Pool!TypeOK, closed, Resting, [Pool!Next]_pool
    PROVE  closed' /\ Resting'
<1>1. call \in [Client -> Pool!Call]
  BY DEF Pool!TypeOK
<1>2. ASSUME NEW c \in Client, Pool!Begin(c) PROVE closed' /\ Resting'
  BY <1>1, <1>2 DEF Pool!Begin, Pool!NoCall, Resting
<1>3. ASSUME NEW c \in Client PROVE ~ Pool!Acquire(c) /\ ~ Pool!Stream(c) /\ ~ Pool!Done(c)
  BY <1>3 DEF Pool!Acquire, Pool!Stream, Pool!Done, Resting
<1>4. ASSUME NEW c \in Client, Pool!Fail(c) PROVE closed' /\ Resting'
  BY <1>1, <1>4 DEF Pool!Fail, Pool!End, Pool!NoCall, Resting
<1>5. CASE \/ \E c \in Client : Pool!Renew(c)
           \/ \E cs \in SUBSET Client : Pool!HangUp(cs)
           \/ Pool!Close
           \/ UNCHANGED pool
  BY <1>5 DEF Pool!Renew, Pool!HangUp, Pool!Close, pool, Resting
<1>6. CASE Pool!Tick
  BY <1>1, <1>6 DEF Pool!Tick, Pool!Aged, Pool!Call, Resting
<1>7. QED BY <1>2, <1>3, <1>4, <1>5, <1>6 DEF Pool!Next

LEMMA PoolHolding == Pool!Spec => []Holding
<1>1. Pool!Init => Holding
  BY DEF Pool!Init, Pool!NoCall, Holding
<1>2. Pool!TypeOK /\ Holding /\ [Pool!Next]_(Pool!vars) => Holding'
  BY HoldingStep DEF pool, Pool!vars
<1>3. QED BY <1>1, <1>2, PoolTypeCorrect, PTL DEF Pool!Spec

\* A closed pool that has all its connections back never runs another statement, for
\* any number of callers (Pool.Close as main uses it, main.go:45).
THEOREM PoolStaysAtRest ==
    Pool!Spec => [](Pool!Closed => Resting) /\ [][Pool!Closed => closed' /\ Resting']_(Pool!vars)
<1>1. Pool!TypeOK /\ Holding => (Pool!Closed => Resting)
  BY AllFreeNoneRuns DEF Pool!Closed
<1>2. Pool!TypeOK /\ Holding /\ [Pool!Next]_(Pool!vars) =>
        [Pool!Closed => closed' /\ Resting']_(Pool!vars)
  BY AllFreeNoneRuns, RestingStep DEF Pool!Closed, pool, Pool!vars
<1>3. QED BY <1>1, <1>2, PoolTypeCorrect, PoolHolding, PTL DEF Pool!Spec

\* main closes the pool, and goes on once it is at rest.
Rested ==
    /\ main \in {"pool", "flush", "last", "exited"} => closed
    /\ NoStatementCutOff

\* Once main has passed the deferred Close no statement is under way and none begins:
\* the end of the process cuts none off, however many requests Shutdown has given up on
\* (main.go:45).
THEOREM NothingCutOff == Spec => []NoStatementCutOff
<1>1. Init => Rested
  BY DEF Init, Rested, NoStatementCutOff
<1>2. TypeOK /\ Holding /\ Rested /\ [Next]_vars => Rested'
  <2>1. SUFFICES ASSUME TypeOK, Holding, Rested, [Next]_vars PROVE Rested'
    OBVIOUS
  <2>2. Pool!TypeOK /\ [Pool!Next]_pool
    BY <2>1, PoolNext DEF TypeOK
  <2>3. CASE CloseRedis
    BY <2>3 DEF CloseRedis, Pool!Close, Rested, NoStatementCutOff
  <2>4. CASE PoolClosed
    <3>1. closed /\ Resting /\ UNCHANGED pool
      BY <2>1, <2>2, <2>4, AllFreeNoneRuns DEF PoolClosed, Pool!Closed
    <3>2. QED BY <3>1 DEF Rested, NoStatementCutOff, Resting, pool
  <2>5. CASE ~ CloseRedis /\ ~ PoolClosed
    <3>1. /\ main' \in {"pool", "flush", "last", "exited"} => main \in {"pool", "flush", "last", "exited"}
          /\ main' \in {"flush", "last", "exited"} => main \in {"flush", "last", "exited"}
      <4>1. ASSUME NEW h \in Handler, Request(h) PROVE main' = main
        BY <4>1 DEF Request, Arrive, Body, UseDb, Answer, Leave, process
      <4>2. ASSUME NEW c \in Client, PoolStep(c) PROVE main' = main
        BY <4>2 DEF PoolStep, process
      <4>3. CASE Signal \/ ListenerFails \/ ListenerReturns \/ Tick \/ UNCHANGED vars
        BY <4>3 DEF Signal, ListenerFails, ListenerReturns, Tick, vars, process
      <4>4. CASE Connect \/ Select \/ Drain \/ Await \/ Collect \/ Export
        BY <4>4 DEF Connect, Select, Drain, Await, Collect, Export
      <4>5. QED BY <2>1, <2>5, <4>1, <4>2, <4>3, <4>4 DEF Next, MainStep
    <3>2. closed => closed'
      <4>1. \A c \in Client :
              \/ Pool!Begin(c) \/ Pool!Acquire(c) \/ Pool!Stream(c) \/ Pool!Done(c)
              \/ Pool!Fail(c) \/ Pool!Renew(c)
              => closed' = closed
        BY DEF Pool!Begin, Pool!Acquire, Pool!Stream, Pool!Done, Pool!Fail, Pool!Renew
      <4>2. \/ \E cs \in SUBSET Client : Pool!HangUp(cs)
            \/ Pool!Close \/ Pool!Tick \/ UNCHANGED pool
            => (closed => closed')
        BY DEF Pool!HangUp, Pool!Close, Pool!Tick, pool
      <4>3. QED BY <2>2, <4>1, <4>2 DEF Pool!Next
    <3>3. main \in {"flush", "last", "exited"} => Resting'
      BY <2>1, <2>2, RestingStep DEF Rested, NoStatementCutOff, Resting
    <3>4. QED BY <2>1, <3>1, <3>2, <3>3 DEF Rested, NoStatementCutOff, Resting
  <2>6. QED BY <2>3, <2>4, <2>5
<1>3. Rested => NoStatementCutOff
  BY DEF Rested
<1>4. QED
  BY <1>1, <1>2, <1>3, TypeCorrect, ImplementsPool, PoolHolding, PTL DEF Spec
=============================================================================
