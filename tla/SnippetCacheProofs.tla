------------------------- MODULE SnippetCacheProofs -------------------------
(***************************************************************************)
(* Proofs about SnippetCache.  IInv says what a request in each phase       *)
(* carries; the safety properties follow from it and from the steps.        *)
(***************************************************************************)
EXTENDS SnippetCache, TLAPS

\* Table, cache and history.
StoreInv ==
    /\ db \subseteq written
    /\ \A x, y \in db : x.id = y.id => x = y
    /\ \A x \in written : x.id \in taken /\ x.rev \leq rev
    /\ CachedRows \subseteq Public(written)

\* The one row a handler holds, and its id.
Holds(h, x) == req[h].held = {x} /\ req[h].id = {x.id}

\* A handler in mid-request.
PhaseInv(h) ==
    /\ req[h].pc # "idle" => req[h].code = "none"
    /\ req[h].pc \in {"lookup", "load", "fill"} => req[h].op = "get"
    /\ req[h].pc \in {"lookup", "load"} => \E i \in SnippetId : req[h].id = {i}
    /\ At(h, "fill") => \E x \in Public(written) : Holds(h, x)
    /\ Answered(h) => req[h].held \subseteq Public(written)

\* A draft is a row nobody has committed yet.
DraftInv(h) ==
    /\ At(h, "insert") \/ At(h, "update") =>
          \E x \in req[h].held :
                         /\ Holds(h, x)
                         /\ x.rev \leq rev
                         /\ \A y \in written : y.rev # x.rev
    /\ At(h, "insert") => \A y \in written : y.id \notin req[h].id
    /\ At(h, "insert") => req[h].id \subseteq taken

\* A DELETE that has passed its check found a row of the requester, and whatever
\* row has the id now is the requester's.
RemoveInv(h) ==
    /\ At(h, "check") \/ At(h, "remove") =>
          /\ \E u \in User : req[h].by = {u}
          /\ \E i \in SnippetId : req[h].id = {i}
    /\ At(h, "remove") =>
          /\ \E y \in written : y.id \in req[h].id
          /\ \A x \in Rows(req[h].id) : x.creator \in req[h].by

\* Two drafts are two writes; two inserts have two ids.
Drafting(h) == At(h, "insert") \/ At(h, "update")
PairInv ==
    \A g, h \in Handler : g # h =>
        /\ Drafting(g) /\ Drafting(h) =>
              \A x \in req[g].held, y \in req[h].held : x.rev # y.rev
        /\ At(g, "insert") /\ At(h, "insert") => req[g].id \cap req[h].id = {}

IInv ==
    /\ StoreInv
    /\ \A h \in Handler : PhaseInv(h) /\ DraftInv(h)
    /\ \A h \in Handler : RemoveInv(h)
    /\ PairInv
-----------------------------------------------------------------------------
\* What the three ways of changing a request do to its type.
LEMMA GotoType ==
    ASSUME TypeOK, NEW h \in Handler, NEW pc \in Pc, Goto(h, pc)
    PROVE  req' \in [Handler -> Request]
<1>1. req[h] \in Request /\ req \in [Handler -> Request]
  BY DEF TypeOK
<1>2. [req[h] EXCEPT !.pc = pc] \in Request
  BY <1>1 DEF Request
<1>3. QED BY <1>1, <1>2 DEF Goto

\* Holding a row keeps the type of the requests.
LEMMA HoldType ==
    ASSUME TypeOK, NEW h \in Handler, NEW rows \in SUBSET Row, Hold(h, rows)
    PROVE  req' \in [Handler -> Request]
<1>1. req[h] \in Request /\ req \in [Handler -> Request]
  BY DEF TypeOK
<1>2. [req[h] EXCEPT !.pc = "fill", !.held = rows] \in Request
  BY <1>1 DEF Request, Pc
<1>3. QED BY <1>1, <1>2 DEF Hold

\* So does answering, with or without a row,
LEMMA ReplyType ==
    ASSUME TypeOK, NEW h \in Handler, NEW code \in Code, NEW body \in SUBSET Row,
           Reply(h, code, body)
    PROVE  req' \in [Handler -> Request]
<1>1. req[h] \in Request /\ req \in [Handler -> Request]
  BY DEF TypeOK
<1>2. [req[h] EXCEPT !.pc = "idle", !.id = {}, !.by = {}, !.code = code,
                     !.held = body] \in Request
  BY <1>1 DEF Request, Pc
<1>3. QED BY <1>1, <1>2 DEF Reply

\* and so does a new request.
LEMMA BeginType ==
    ASSUME TypeOK, NEW h \in Handler, NEW op \in Op, NEW pc \in Pc,
           NEW id \in SnippetId, NEW by \in SUBSET User, NEW held \in SUBSET Row,
           Begin(h, op, pc, id, by, held)
    PROVE  req' \in [Handler -> Request]
<1>1. [op |-> op, pc |-> pc, id |-> {id}, by |-> by, held |-> held,
       code |-> "none"] \in Request
  BY DEF Request, Code
<1>2. QED BY <1>1 DEF Begin, TypeOK

\* A request that arrives changes nothing but its handler and, for POST, the ids taken.
LEMMA ArriveType ==
    ASSUME TypeOK, NEW h \in Handler, Arrive(h)
    PROVE  TypeOK'
<1>1. CASE GetSnippet(h)
  <2>1. PICK id \in taken : Begin(h, "get", "lookup", id, {}, {})
    BY <1>1 DEF GetSnippet
  <2>2. req' \in [Handler -> Request]
    BY <2>1, BeginType DEF TypeOK, Op, Pc
  <2>3. QED BY <1>1, <2>1, <2>2 DEF GetSnippet, Begin, TypeOK
<1>2. CASE DeleteSnippet(h)
  <2>1. PICK id \in taken, u \in User : Begin(h, "delete", "check", id, {u}, {})
    BY <1>2 DEF DeleteSnippet
  <2>2. id \in SnippetId /\ {u} \in SUBSET User /\ {} \in SUBSET Row
    BY DEF TypeOK
  <2>3. req' \in [Handler -> Request]
    BY <2>1, <2>2, BeginType DEF Op, Pc
  <2>4. QED BY <1>2, <2>1, <2>3 DEF DeleteSnippet, Begin, TypeOK
<1>3. CASE PostSnippet(h)
  <2>1. PICK id \in SnippetId \ taken, v \in Visibility, u \in User :
           /\ Begin(h, "post", "insert", id, {}, {Draft(id, v, u)})
           /\ taken' = taken \cup {id}
    BY <1>3 DEF PostSnippet
  <2>2. {Draft(id, v, u)} \in SUBSET Row
    BY DEF Draft, Row, TypeOK
  <2>3. req' \in [Handler -> Request]
    BY <2>1, <2>2, BeginType DEF TypeOK, Op, Pc
  <2>4. rev' \in 0..MaxRev
    BY <1>3, CacheAssumption DEF PostSnippet, TypeOK
  <2>5. QED BY <2>1, <2>3, <2>4 DEF Begin, TypeOK
<1>4. CASE PutSnippet(h)
  <2>1. PICK id \in taken, v \in Visibility, u \in User :
           Begin(h, "put", "update", id, {}, {Draft(id, v, u)})
    BY <1>4 DEF PutSnippet
  <2>2. {Draft(id, v, u)} \in SUBSET Row
    BY DEF Draft, Row, TypeOK
  <2>3. req' \in [Handler -> Request]
    BY <2>1, <2>2, BeginType DEF TypeOK, Op, Pc
  <2>4. rev' \in 0..MaxRev
    BY <1>4, CacheAssumption DEF PutSnippet, TypeOK
  <2>5. QED BY <1>4, <2>1, <2>3, <2>4 DEF PutSnippet, Begin, TypeOK
<1>5. QED BY <1>1, <1>2, <1>3, <1>4 DEF Arrive

\* The steps of GetByID keep the types.
LEMMA ReadType ==
    ASSUME TypeOK, NEW h \in Handler,
           LookupHit(h) \/ LookupMiss(h) \/ Load(h) \/ Fill(h)
    PROVE  TypeOK'
<1> USE CacheAssumption
<1>1. CASE LookupHit(h)
  <2>1. PICK e \in Cached(req[h].id) : Reply(h, "ok", {e.row})
    BY <1>1 DEF LookupHit
  <2>2. {e.row} \in SUBSET Row
    BY DEF Cached, TypeOK, Entry
  <2>3. req' \in [Handler -> Request]
    BY <2>1, <2>2, ReplyType DEF Code
  <2>4. QED BY <1>1, <2>3 DEF LookupHit, TypeOK
<1>2. CASE LookupMiss(h)
  BY <1>2, GotoType DEF LookupMiss, TypeOK, Pc
<1>3. CASE Load(h)
  <2>1. Visible(req[h].id) \in SUBSET Row
    BY DEF Visible, Public, Rows, TypeOK
  <2>2. CASE Reply(h, "notfound", {}) \/ Reply(h, "internal", {})
    BY <1>3, <2>2, ReplyType DEF Load, TypeOK, Code
  <2>3. CASE Hold(h, Visible(req[h].id))
    BY <1>3, <2>1, <2>3, HoldType DEF Load, TypeOK
  <2>4. QED BY <1>3, <2>2, <2>3 DEF Load
<1>4. CASE Fill(h)
  <2>1. req[h].held \in SUBSET Row /\ req[h].id \in SUBSET SnippetId
    BY DEF TypeOK, Request
  <2>2. req' \in [Handler -> Request]
    BY <1>4, <2>1, ReplyType DEF Fill, Code
  <2>3. cache' \subseteq Entry /\ excused' \subseteq SnippetId
    BY <1>4, <2>1 DEF Fill, Store, CacheSet, TypeOK, Entry
  <2>4. \A e \in cache' : e.ttl \in 1..CacheTTL
    BY <1>4, <2>1 DEF Fill, Store, CacheSet, TypeOK, Entry
  <2>5. QED BY <1>4, <2>2, <2>3, <2>4 DEF Fill, TypeOK
<1>5. QED BY <1>1, <1>2, <1>3, <1>4

\* The steps of Create, Update and Delete keep the types.
LEMMA WriteType ==
    ASSUME TypeOK, NEW h \in Handler,
           Insert(h) \/ Update(h) \/ Check(h) \/ Remove(h) \/ Invalidate(h)
    PROVE  TypeOK'
<1>1. req[h].held \in SUBSET Row /\ req[h].id \in SUBSET SnippetId
  BY DEF TypeOK, Request
<1>2. \A code \in Code : Reply(h, code, {}) => req' \in [Handler -> Request]
  BY ReplyType
<1>3. \A pc \in Pc : Goto(h, pc) => req' \in [Handler -> Request]
  BY GotoType
<1>4. CASE Insert(h)
  <2>1. req' \in [Handler -> Request]
    BY <1>2, <1>4 DEF Insert, Code
  <2>2. db' \subseteq Row /\ written' \subseteq Row
    BY <1>1, <1>4 DEF Insert, Commit, TypeOK
  <2>3. QED BY <1>4, <2>1, <2>2 DEF Insert, TypeOK
<1>5. CASE Update(h)
  <2>1. req' \in [Handler -> Request]
    BY <1>2, <1>3, <1>5 DEF Update, Code, Pc
  <2>2. \A old \in Rows(req[h].id), draft \in req[h].held : Overwrite(old, draft) \in Row
    BY <1>1 DEF Overwrite, Rows, TypeOK, Row
  <2>3. db' \subseteq Row /\ written' \subseteq Row
    BY <1>5, <2>2 DEF Update, Commit, TypeOK
  <2>4. excused' \subseteq SnippetId
    BY <1>1, <1>5 DEF Update, TypeOK
  <2>5. QED BY <1>5, <2>1, <2>3, <2>4 DEF Update, TypeOK
<1>6. CASE Check(h)
  <2>1. req' \in [Handler -> Request]
    BY <1>2, <1>3, <1>6 DEF Check, Code, Pc
  <2>2. QED BY <1>6, <2>1 DEF Check, TypeOK
<1>7. CASE Remove(h)
  <2>1. req' \in [Handler -> Request]
    BY <1>2, <1>3, <1>7 DEF Remove, Code, Pc
  <2>2. db' \subseteq Row /\ written' \subseteq Row
    BY <1>7 DEF Remove, Commit, TypeOK
  <2>3. excused' \subseteq SnippetId
    BY <1>1, <1>7 DEF Remove, TypeOK
  <2>4. QED BY <1>7, <2>1, <2>2, <2>3 DEF Remove, TypeOK
<1>8. CASE Invalidate(h)
  <2>1. req' \in [Handler -> Request]
    BY <1>2, <1>8 DEF Invalidate, Code
  <2>2. cache' \subseteq cache
    BY <1>8 DEF Invalidate, Drop, CacheDel
  <2>3. excused' \subseteq SnippetId
    BY <1>1, <1>8 DEF Invalidate, Drop, TypeOK
  <2>4. QED BY <1>8, <2>1, <2>2, <2>3 DEF Invalidate, TypeOK
<1>9. QED BY <1>4, <1>5, <1>6, <1>7, <1>8

\* A SET or a DEL that is sent again keeps the types.
LEMMA ResendType ==
    ASSUME TypeOK, NEW h \in Handler, Resend(h)
    PROVE  TypeOK'
<1>1. req[h].held \in SUBSET Row /\ req[h].id \in SUBSET SnippetId
  BY DEF TypeOK, Request
<1>2. CASE Store(h)
  <2>1. cache' \subseteq Entry /\ excused' \subseteq SnippetId
    BY <1>1, <1>2, CacheAssumption DEF Store, CacheSet, TypeOK, Entry
  <2>2. \A e \in cache' : e.ttl \in 1..CacheTTL
    BY <1>1, <1>2, CacheAssumption DEF Store, CacheSet, TypeOK, Entry
  <2>3. QED BY <2>1, <2>2 DEF Resend, TypeOK
<1>3. CASE Drop(h)
  BY <1>1, <1>3 DEF Resend, Drop, CacheDel, TypeOK
<1>4. QED BY <1>2, <1>3 DEF Resend

\* The end of a cached entry and the deletion of a user keep the types.
LEMMA EnvironmentType ==
    ASSUME TypeOK, Tick \/ \E u \in User : DeleteUser(u)
    PROVE  TypeOK'
<1>1. CASE Tick
  <2>1. \A e \in cache' : e \in Entry /\ e.ttl \in 1..CacheTTL
    BY <1>1, CacheAssumption DEF Tick, Aged, TypeOK, Entry
  <2>2. QED BY <1>1, <2>1 DEF Tick, TypeOK
<1>2. ASSUME NEW u \in User, DeleteUser(u)
      PROVE  TypeOK'
  BY <1>2 DEF DeleteUser, Commit, TypeOK, Row
<1>3. QED BY <1>1, <1>2

\* Every variable keeps its type; in particular every key in Redis has a time
\* to live, whichever handler stored it and when.
THEOREM TypeCorrect == Spec => []TypeOK
<1>1. Init => TypeOK
  BY CacheAssumption DEF Init, TypeOK, NoRequest, Request, Op, Pc, Code
<1>2. TypeOK /\ [Next]_vars => TypeOK'
  <2> SUFFICES ASSUME TypeOK, [Next]_vars PROVE TypeOK'
    OBVIOUS
  <2>1. ASSUME NEW h \in Handler, Arrive(h) PROVE TypeOK'
    BY <2>1, ArriveType
  <2>2. ASSUME NEW h \in Handler, Step(h) PROVE TypeOK'
    BY <2>2, ReadType, WriteType DEF Step
  <2>3. CASE Tick \/ \E u \in User : DeleteUser(u)
    BY <2>3, EnvironmentType
  <2>4. CASE UNCHANGED vars
    BY <2>4 DEF vars, TypeOK
  <2>5. ASSUME NEW h \in Handler, Resend(h) PROVE TypeOK'
    BY <2>5, ResendType
  <2>6. QED BY <2>1, <2>2, <2>3, <2>4, <2>5 DEF Next
<1>3. QED BY <1>1, <1>2, PTL DEF Spec

-----------------------------------------------------------------------------
\* What a step of h does to the requests.
Only(h) == \A g \in Handler : g # h => req'[g] = req[g]
Same(h) == /\ req'[h].op = req[h].op
           /\ req'[h].id = req[h].id
           /\ req'[h].by = req[h].by
           /\ req'[h].code = req[h].code

\* A handler that goes on leaves the others alone and keeps what it carries,
LEMMA GotoEffect ==
    ASSUME TypeOK, NEW h \in Handler, NEW pc, Goto(h, pc)
    PROVE  Only(h) /\ Same(h) /\ req'[h].pc = pc /\ req'[h].held = req[h].held
  BY DEF TypeOK, Request, Goto, Only, Same

\* one that takes a row carries just that row,
LEMMA HoldEffect ==
    ASSUME TypeOK, NEW h \in Handler, NEW rows, Hold(h, rows)
    PROVE  Only(h) /\ Same(h) /\ req'[h].pc = "fill" /\ req'[h].held = rows
  BY DEF TypeOK, Request, Hold, Only, Same

\* one that answers ends its request with that code and row,
LEMMA ReplyEffect ==
    ASSUME TypeOK, NEW h \in Handler, NEW code, NEW body, Reply(h, code, body)
    PROVE  /\ Only(h)
           /\ req'[h].op = req[h].op
           /\ req'[h].pc = "idle"
           /\ req'[h].id = {}
           /\ req'[h].code = code
           /\ req'[h].held = body
  BY DEF TypeOK, Request, Reply, Only

\* and one that begins carries what its operation gives it.
LEMMA BeginEffect ==
    ASSUME TypeOK, NEW h \in Handler, NEW op, NEW pc, NEW id, NEW by, NEW held,
           Begin(h, op, pc, id, by, held)
    PROVE  /\ Only(h)
           /\ req[h].pc = "idle"
           /\ req'[h] = [op |-> op, pc |-> pc, id |-> {id}, by |-> by,
                         held |-> held, code |-> "none"]
           /\ UNCHANGED <<users, db, cache, written, excused>>
  BY DEF TypeOK, Request, Begin, Only, At

\* A reply that touches neither table nor history keeps the invariant when its
\* body has been public.
LEMMA ReplyKeeps ==
    ASSUME TypeOK, IInv, NEW h \in Handler, NEW code, NEW body,
           body \subseteq Public(written), Reply(h, code, body),
           CachedRows' \subseteq Public(written),
           UNCHANGED <<db, taken, rev, written>>
    PROVE  IInv'
<1>1. /\ Only(h)
      /\ req'[h].pc = "idle"
      /\ req'[h].held = body
  BY ReplyEffect
<1>2. StoreInv'
  BY DEF IInv, StoreInv, Public
<1>3. ASSUME NEW g \in Handler PROVE (PhaseInv(g) /\ DraftInv(g) /\ RemoveInv(g))'
  <2>1. CASE g = h
    BY <1>1, <2>1 DEF PhaseInv, DraftInv, RemoveInv, At, Answered, Public
  <2>2. CASE g # h
    BY <1>1, <2>2 DEF IInv, PhaseInv, DraftInv, RemoveInv, At, Answered, Public, Only,
                      Holds, Rows
  <2>3. QED BY <2>1, <2>2
<1>4. PairInv'
  BY <1>1 DEF IInv, PairInv, Only, At, Drafting
<1>5. QED BY <1>2, <1>3, <1>4 DEF IInv

\* A request that arrives keeps the invariant: an id or a revision it draws is new.
LEMMA ArriveKeeps ==
    ASSUME TypeOK, IInv, NEW h \in Handler, Arrive(h)
    PROVE  IInv'
<1>1. CASE GetSnippet(h)
  <2>1. PICK id \in taken : Begin(h, "get", "lookup", id, {}, {})
    BY <1>1 DEF GetSnippet
  <2>2. /\ Only(h) /\ UNCHANGED <<db, cache, taken, rev, written>>
        /\ req'[h] = [op |-> "get", pc |-> "lookup", id |-> {id}, by |-> {},
                      held |-> {}, code |-> "none"]
    BY <1>1, <2>1, BeginEffect DEF GetSnippet
  <2>3. id \in SnippetId
    BY DEF TypeOK
  <2>4. StoreInv'
    BY <2>2 DEF IInv, StoreInv, CachedRows
  <2>5. ASSUME NEW g \in Handler PROVE (PhaseInv(g) /\ DraftInv(g) /\ RemoveInv(g))'
    BY <2>2, <2>3 DEF IInv, PhaseInv, DraftInv, RemoveInv, At, Answered, Only, Holds, Rows
  <2>6. PairInv'
    BY <2>2 DEF IInv, PairInv, Only, At, Drafting
  <2>7. QED BY <2>4, <2>5, <2>6 DEF IInv
<1>2. CASE DeleteSnippet(h)
  <2>1. PICK id \in taken, u \in User : Begin(h, "delete", "check", id, {u}, {})
    BY <1>2 DEF DeleteSnippet
  <2>2. /\ Only(h) /\ UNCHANGED <<db, cache, taken, rev, written>>
        /\ req'[h] = [op |-> "delete", pc |-> "check", id |-> {id}, by |-> {u},
                      held |-> {}, code |-> "none"]
    BY <1>2, <2>1, BeginEffect DEF DeleteSnippet
  <2>3. StoreInv'
    BY <2>2 DEF IInv, StoreInv, CachedRows
  <2>4. ASSUME NEW g \in Handler PROVE (PhaseInv(g) /\ DraftInv(g) /\ RemoveInv(g))'
    BY <2>2 DEF TypeOK, IInv, PhaseInv, DraftInv, RemoveInv, At, Answered, Only, Holds, Rows
  <2>5. PairInv'
    BY <2>2 DEF IInv, PairInv, Only, At, Drafting
  <2>6. QED BY <2>3, <2>4, <2>5 DEF IInv
<1>3. CASE PostSnippet(h)
  <2>1. PICK id \in SnippetId \ taken, v \in Visibility, u \in User :
           /\ Begin(h, "post", "insert", id, {}, {Draft(id, v, u)})
           /\ taken' = taken \cup {id}
    BY <1>3 DEF PostSnippet
  <2>2. /\ Only(h) /\ rev' = rev + 1 /\ UNCHANGED <<db, cache, written>>
        /\ req'[h] = [op |-> "post", pc |-> "insert", id |-> {id}, by |-> {},
                      held |-> {Draft(id, v, u)}, code |-> "none"]
    <3>1. Begin(h, "post", "insert", id, {}, {Draft(id, v, u)})
      BY <2>1
    <3>2. rev' = rev + 1
      BY <1>3 DEF PostSnippet
    <3>3. QED BY <3>1, <3>2, BeginEffect
  <2>3. Draft(id, v, u).id = id /\ Draft(id, v, u).rev = rev + 1
    BY DEF Draft
  <2>4. rev \in Nat /\ \A y \in written : y.rev \in Nat /\ y.rev \leq rev
    BY DEF TypeOK, Row, IInv, StoreInv
  <2>5. StoreInv'
    BY <2>1, <2>2, <2>4 DEF IInv, StoreInv, CachedRows
  <2>6. ASSUME NEW g \in Handler PROVE (PhaseInv(g) /\ DraftInv(g) /\ RemoveInv(g))'
    <3>1. CASE g = h
      <4>1. \A y \in written : y.rev # rev + 1
        BY <2>4
      <4>2. \A y \in written : y.id # id
        BY <2>1 DEF IInv, StoreInv
      <4>3. QED
        BY <2>1, <2>2, <2>3, <2>4, <3>1, <4>1, <4>2
           DEF PhaseInv, DraftInv, RemoveInv, At, Answered, Holds
    <3>2. CASE g # h
      <4>1. \A x \in req[g].held : x.rev \in Nat
        BY DEF TypeOK, Request, Row
      <4>2. PhaseInv(g)' /\ RemoveInv(g)'
        BY <2>2, <3>2 DEF IInv, PhaseInv, RemoveInv, At, Answered, Only, Holds, Rows
      <4>3. DraftInv(g)'
        BY <2>1, <2>2, <2>4, <3>2, <4>1 DEF IInv, DraftInv, At, Only, Holds
      <4>4. QED BY <4>2, <4>3
    <3>3. QED BY <3>1, <3>2
  <2>7. PairInv'
    <3>1. \A g \in Handler : Drafting(g) => \A x \in req[g].held : x.rev # rev + 1
      <4> SUFFICES ASSUME NEW g \in Handler, Drafting(g), NEW x \in req[g].held
                   PROVE  x.rev # rev + 1
        OBVIOUS
      <4>1. x.rev \in Nat /\ x.rev \leq rev
        BY DEF TypeOK, Request, Row, IInv, DraftInv, Drafting, Holds
      <4>2. QED BY <2>4, <4>1
    <3>2. \A g \in Handler : At(g, "insert") => id \notin req[g].id
      BY <2>1 DEF IInv, DraftInv
    <3>3. QED BY <2>2, <2>3, <3>1, <3>2 DEF IInv, PairInv, Only, At, Drafting
  <2>8. QED BY <2>5, <2>6, <2>7 DEF IInv
<1>4. CASE PutSnippet(h)
  <2>1. PICK id \in taken, v \in Visibility, u \in User :
           Begin(h, "put", "update", id, {}, {Draft(id, v, u)})
    BY <1>4 DEF PutSnippet
  <2>2. /\ Only(h) /\ rev' = rev + 1 /\ UNCHANGED <<db, cache, written, taken>>
        /\ req'[h] = [op |-> "put", pc |-> "update", id |-> {id}, by |-> {},
                      held |-> {Draft(id, v, u)}, code |-> "none"]
    BY <1>4, <2>1, BeginEffect DEF PutSnippet
  <2>3. Draft(id, v, u).id = id /\ Draft(id, v, u).rev = rev + 1
    BY DEF Draft
  <2>4. rev \in Nat /\ \A y \in written : y.rev \in Nat /\ y.rev \leq rev
    BY DEF TypeOK, Row, IInv, StoreInv
  <2>5. StoreInv'
    BY <2>1, <2>2, <2>4 DEF IInv, StoreInv, CachedRows
  <2>6. ASSUME NEW g \in Handler PROVE (PhaseInv(g) /\ DraftInv(g) /\ RemoveInv(g))'
    <3>1. CASE g = h
      BY <2>1, <2>2, <2>3, <2>4, <3>1
         DEF PhaseInv, DraftInv, RemoveInv, At, Answered, Holds
    <3>2. CASE g # h
      <4>1. \A x \in req[g].held : x.rev \in Nat
        BY DEF TypeOK, Request, Row
      <4>2. PhaseInv(g)' /\ RemoveInv(g)'
        BY <2>2, <3>2 DEF IInv, PhaseInv, RemoveInv, At, Answered, Only, Holds, Rows
      <4>3. DraftInv(g)'
        BY <2>1, <2>2, <2>4, <3>2, <4>1 DEF IInv, DraftInv, At, Only, Holds
      <4>4. QED BY <4>2, <4>3
    <3>3. QED BY <3>1, <3>2
  <2>7. PairInv'
    <3>1. \A g \in Handler : Drafting(g) => \A x \in req[g].held : x.rev # rev + 1
      <4> SUFFICES ASSUME NEW g \in Handler, Drafting(g), NEW x \in req[g].held
                   PROVE  x.rev # rev + 1
        OBVIOUS
      <4>1. x.rev \in Nat /\ x.rev \leq rev
        BY DEF TypeOK, Request, Row, IInv, DraftInv, Drafting, Holds
      <4>2. QED BY <2>4, <4>1
    <3>2. QED BY <2>2, <2>3, <3>1 DEF IInv, PairInv, Only, At, Drafting
  <2>8. QED BY <2>5, <2>6, <2>7 DEF IInv
<1>5. QED BY <1>1, <1>2, <1>3, <1>4 DEF Arrive

\* GetByID keeps it: a row it takes is public and was committed once.
LEMMA ReadKeeps ==
    ASSUME TypeOK, IInv, NEW h \in Handler,
           LookupHit(h) \/ LookupMiss(h) \/ Load(h) \/ Fill(h)
    PROVE  IInv'
<1>1. CASE LookupHit(h)
  <2>1. PICK e \in Cached(req[h].id) : Reply(h, "ok", {e.row})
    BY <1>1 DEF LookupHit
  <2>2. {e.row} \subseteq Public(written)
    BY DEF Cached, CachedRows, IInv, StoreInv
  <2>3. CachedRows' \subseteq Public(written)
    BY <1>1 DEF LookupHit, CachedRows, IInv, StoreInv
  <2>4. QED BY <1>1, <2>1, <2>2, <2>3, ReplyKeeps DEF LookupHit
<1>2. CASE LookupMiss(h)
  <2>1. /\ Only(h) /\ Same(h) /\ req'[h].pc = "load" /\ At(h, "lookup")
        /\ UNCHANGED <<db, cache, taken, rev, written>>
    BY <1>2, GotoEffect DEF LookupMiss
  <2>2. StoreInv'
    BY <2>1 DEF IInv, StoreInv, CachedRows
  <2>3. ASSUME NEW g \in Handler PROVE (PhaseInv(g) /\ DraftInv(g) /\ RemoveInv(g))'
    BY <2>1 DEF IInv, PhaseInv, DraftInv, RemoveInv, At, Answered, Only, Same, Holds, Rows
  <2>4. PairInv'
    BY <2>1 DEF IInv, PairInv, Only, At, Drafting
  <2>5. QED BY <2>2, <2>3, <2>4 DEF IInv
<1>3. CASE Load(h)
  <2>1. UNCHANGED <<db, cache, taken, rev, written>>
    BY <1>3 DEF Load
  <2>2. CASE Reply(h, "notfound", {}) \/ Reply(h, "internal", {})
    BY <2>1, <2>2, ReplyKeeps DEF CachedRows, IInv, StoreInv
  <2>3. CASE Visible(req[h].id) # {} /\ Hold(h, Visible(req[h].id))
    <3>1. /\ Only(h) /\ Same(h) /\ req'[h].pc = "fill" /\ At(h, "load")
          /\ req'[h].held = Visible(req[h].id)
      BY <1>3, <2>3, HoldEffect DEF Load
    <3>2. PICK x \in Visible(req[h].id) : TRUE
      BY <2>3
    <3>3. x \in Public(written) /\ Visible(req[h].id) = {x} /\ req[h].id = {x.id}
      BY <3>1, <3>2 DEF Visible, Public, Rows, IInv, StoreInv, PhaseInv, At
    <3>4. StoreInv'
      BY <2>1 DEF IInv, StoreInv, CachedRows
    <3>5. ASSUME NEW g \in Handler PROVE (PhaseInv(g) /\ DraftInv(g) /\ RemoveInv(g))'
      <4>1. CASE g = h
        BY <2>1, <3>1, <3>3, <4>1
           DEF IInv, PhaseInv, DraftInv, RemoveInv, At, Answered, Same, Holds, Public
      <4>2. CASE g # h
        BY <2>1, <3>1, <4>2
           DEF IInv, PhaseInv, DraftInv, RemoveInv, At, Answered, Only, Holds, Rows
      <4>3. QED BY <4>1, <4>2
    <3>6. PairInv'
      BY <3>1 DEF IInv, PairInv, Only, At, Drafting
    <3>7. QED BY <3>4, <3>5, <3>6 DEF IInv
  <2>4. QED BY <1>3, <2>2, <2>3 DEF Load
<1>4. CASE Fill(h)
  <2>1. PICK x \in Public(written) : Holds(h, x)
    BY <1>4 DEF Fill, IInv, PhaseInv
  <2>2. Reply(h, "ok", req[h].held) /\ UNCHANGED <<db, taken, rev, written>>
    BY <1>4 DEF Fill
  <2>3. CachedRows' \subseteq Public(written)
    BY <1>4, <2>1 DEF Fill, Store, CacheSet, CachedRows, Holds, IInv, StoreInv
  <2>4. req[h].held \subseteq Public(written)
    BY <2>1 DEF Holds
  <2>5. QED BY <2>2, <2>3, <2>4, ReplyKeeps
<1>5. QED BY <1>1, <1>2, <1>3, <1>4

\* INSERT keeps it: the committed draft has an id and a revision no row had.
LEMMA InsertKeeps ==
    ASSUME TypeOK, IInv, NEW h \in Handler, Insert(h)
    PROVE  IInv'
<1>1. UNCHANGED <<cache, taken, rev>>
  BY DEF Insert
<1>2. CASE Reply(h, "internal", {}) /\ UNCHANGED <<db, written>>
  BY <1>1, <1>2, ReplyKeeps DEF CachedRows, IInv, StoreInv
<1>3. CASE /\ Commit(db \cup req[h].held)
           /\ Reply(h, "ok", {}) \/ Reply(h, "internal", {})
  <2>1. PICK x \in req[h].held :
           /\ Holds(h, x)
           /\ x.rev \leq rev
           /\ \A y \in written : y.rev # x.rev /\ y.id # x.id
           /\ x.id \in taken
    BY DEF Insert, IInv, DraftInv, Holds
  <2>2. At(h, "insert") /\ db' = db \cup {x} /\ written' = written \cup db \cup {x}
    BY <1>3, <2>1 DEF Insert, Commit, Holds
  <2>3. Only(h) /\ req'[h].pc = "idle" /\ req'[h].held = {}
    BY <1>3, ReplyEffect
  <2>4. StoreInv'
    BY <1>1, <2>1, <2>2 DEF IInv, StoreInv, CachedRows, Public
  <2>5. ASSUME NEW g \in Handler PROVE (PhaseInv(g) /\ DraftInv(g) /\ RemoveInv(g))'
    <3>1. CASE g = h
      BY <2>3, <3>1 DEF PhaseInv, DraftInv, RemoveInv, At, Answered
    <3>2. CASE g # h
      <4>1. PhaseInv(g)'
        BY <2>2, <2>3, <3>2 DEF IInv, PhaseInv, At, Answered, Only, Holds, Public
      <4>2. DraftInv(g)'
        <5>1. db \subseteq written
          BY DEF IInv, StoreInv
        <5>2. Drafting(g) => \A y \in req[g].held : y.rev # x.rev
          BY <2>1, <2>2, <3>2 DEF IInv, PairInv, Drafting, Holds
        <5>3. At(g, "insert") => x.id \notin req[g].id
          BY <2>1, <2>2, <3>2 DEF IInv, PairInv, Holds
        <5>4. QED
          BY <1>1, <2>2, <2>3, <3>2, <5>1, <5>2, <5>3
             DEF IInv, DraftInv, Drafting, At, Only, Holds
      <4>3. RemoveInv(g)'
        <5>1. At(g, "remove") => x.id \notin req[g].id
          <6> SUFFICES ASSUME At(g, "remove"), x.id \in req[g].id PROVE FALSE
            OBVIOUS
          <6>1. PICK y \in written : y.id \in req[g].id
            BY DEF IInv, RemoveInv
          <6>2. \E i : req[g].id = {i}
            BY DEF IInv, RemoveInv
          <6>3. QED BY <2>1, <6>1, <6>2
        <5>2. QED BY <2>2, <2>3, <3>2, <5>1 DEF IInv, RemoveInv, At, Only, Rows
      <4>4. QED BY <4>1, <4>2, <4>3
    <3>3. QED BY <3>1, <3>2
  <2>6. PairInv'
    BY <2>3 DEF IInv, PairInv, Only, At, Drafting
  <2>7. QED BY <2>4, <2>5, <2>6 DEF IInv
<1>4. QED BY <1>2, <1>3 DEF Insert

\* UPDATE keeps it: the new row has the id and the creator of the old one.
LEMMA UpdateKeeps ==
    ASSUME TypeOK, IInv, NEW h \in Handler, Update(h)
    PROVE  IInv'
<1>1. UNCHANGED <<cache, taken, rev>>
  BY DEF Update
<1>2. CASE /\ Reply(h, "internal", {}) \/ Reply(h, "notfound", {})
           /\ UNCHANGED <<db, written>>
  BY <1>1, <1>2, ReplyKeeps DEF CachedRows, IInv, StoreInv
<1>3. ASSUME NEW old \in Rows(req[h].id), NEW draft \in req[h].held,
             Commit((db \ {old}) \cup {Overwrite(old, draft)}),
             Goto(h, "invalidate") \/ Reply(h, "internal", {})
      PROVE  IInv'
  <2> DEFINE x == Overwrite(old, draft)
  <2>1. /\ Holds(h, draft)
        /\ draft.rev \leq rev
        /\ \A y \in written : y.rev # draft.rev
    BY DEF Update, IInv, DraftInv, Holds
  <2>2. At(h, "update") /\ old \in db /\ old.id = draft.id
    BY <2>1 DEF Update, Rows, Holds
  <2>3. x.id = old.id /\ x.rev = draft.rev /\ x.creator = old.creator
    BY <2>2 DEF Overwrite, TypeOK, Row, Request
  <2>4. db' = (db \ {old}) \cup {x} /\ written' = written \cup {x}
    BY <1>3 DEF Commit, IInv, StoreInv
  <2>5. /\ Only(h)
        /\ req'[h].pc \in {"idle", "invalidate"}
        /\ req'[h].code # "ok"
        /\ req'[h].pc = "invalidate" => req'[h].code = "none"
    BY <1>3, <2>2, ReplyEffect, GotoEffect DEF Same, IInv, PhaseInv, At
  <2> HIDE DEF x
  <2>6. \A y \in written : y.rev # x.rev
    BY <2>1, <2>3
  <2>7. \E y \in written : y.id = x.id
    BY <2>2, <2>3 DEF IInv, StoreInv
  <2>8. StoreInv'
    BY <1>1, <2>1, <2>2, <2>3, <2>4 DEF IInv, StoreInv, CachedRows, Public
  <2>9. ASSUME NEW g \in Handler PROVE (PhaseInv(g) /\ DraftInv(g) /\ RemoveInv(g))'
    <3>1. CASE g = h
      BY <2>5, <3>1 DEF PhaseInv, DraftInv, RemoveInv, At, Answered
    <3>2. CASE g # h
      <4>1. PhaseInv(g)'
        BY <2>4, <2>5, <3>2 DEF IInv, PhaseInv, At, Answered, Only, Holds, Public
      <4>2. DraftInv(g)'
        <5>1. Drafting(g) => \A y \in req[g].held : y.rev # x.rev
          BY <2>1, <2>2, <2>3, <3>2 DEF IInv, PairInv, Drafting, Holds
        <5>2. At(g, "insert") => x.id \notin req[g].id
          BY <2>7 DEF IInv, DraftInv
        <5>3. QED
          BY <1>1, <2>4, <2>5, <3>2, <5>1, <5>2
             DEF IInv, DraftInv, Drafting, At, Only, Holds
      <4>3. RemoveInv(g)'
        BY <2>2, <2>3, <2>4, <2>5, <3>2 DEF IInv, RemoveInv, At, Only, Rows
      <4>4. QED BY <4>1, <4>2, <4>3
    <3>3. QED BY <3>1, <3>2
  <2>10. PairInv'
    BY <2>5 DEF IInv, PairInv, Only, At, Drafting
  <2>11. QED BY <2>8, <2>9, <2>10 DEF IInv
<1>4. QED BY <1>2, <1>3 DEF Update

\* Any step that takes rows out of the table, with or without a reply.
LEMMA ShrinkKeeps ==
    ASSUME TypeOK, IInv, NEW h \in Handler,
           Only(h), req'[h].pc \in {"idle", "invalidate"}, req'[h].code # "ok",
           req'[h].pc = "invalidate" => req'[h].code = "none",
           db' \subseteq db, written' = written, CachedRows' \subseteq CachedRows,
           UNCHANGED <<taken, rev>>
    PROVE  IInv'
<1>1. StoreInv'
  BY DEF IInv, StoreInv, Public
<1>2. ASSUME NEW g \in Handler PROVE (PhaseInv(g) /\ DraftInv(g) /\ RemoveInv(g))'
  <2>1. CASE g = h
    BY <2>1 DEF PhaseInv, DraftInv, RemoveInv, At, Answered
  <2>2. CASE g # h
    BY <2>2 DEF IInv, PhaseInv, DraftInv, RemoveInv, At, Answered, Only, Holds, Public, Rows
  <2>3. QED BY <2>1, <2>2
<1>3. PairInv'
  BY DEF IInv, PairInv, Only, At, Drafting
<1>4. QED BY <1>1, <1>2, <1>3 DEF IInv

\* The steps of Delete keep it: an id never changes its creator.
LEMMA DeleteKeeps ==
    ASSUME TypeOK, IInv, NEW h \in Handler, Check(h) \/ Remove(h) \/ Invalidate(h)
    PROVE  IInv'
<1>1. CASE Check(h)
  <2>1. UNCHANGED <<db, cache, taken, rev, written>>
    BY <1>1 DEF Check
  <2>2. CASE Reply(h, "notfound", {}) \/ Reply(h, "internal", {})
    BY <2>1, <2>2, ReplyKeeps DEF CachedRows, IInv, StoreInv
  <2>3. ASSUME {x \in Rows(req[h].id) : x.creator \in req[h].by} # {},
               Goto(h, "remove")
        PROVE  IInv'
    <3>1. PICK x \in Rows(req[h].id) : x.creator \in req[h].by
      BY <2>3
    <3>2. Only(h) /\ Same(h) /\ req'[h].pc = "remove" /\ At(h, "check")
      BY <1>1, <2>3, GotoEffect DEF Check
    <3>3. StoreInv'
      BY <2>1 DEF IInv, StoreInv, CachedRows
    <3>4. ASSUME NEW g \in Handler PROVE (PhaseInv(g) /\ DraftInv(g) /\ RemoveInv(g))'
      <4>1. CASE g = h
        <5>1. \A y \in Rows(req[h].id) : y = x
          BY <3>1, <3>2 DEF Rows, IInv, StoreInv, RemoveInv
        <5>2. x \in written /\ x.id \in req[h].id
          BY <3>1 DEF Rows, IInv, StoreInv
        <5>3. PhaseInv(h)' /\ DraftInv(h)'
          BY <3>2 DEF IInv, PhaseInv, DraftInv, At, Answered, Same
        <5>4. RemoveInv(h)'
          BY <2>1, <3>1, <3>2, <5>1, <5>2 DEF IInv, RemoveInv, At, Same, Rows
        <5>5. QED BY <4>1, <5>3, <5>4
      <4>2. CASE g # h
        BY <2>1, <3>2, <4>2
           DEF IInv, PhaseInv, DraftInv, RemoveInv, At, Answered, Only, Holds, Rows
      <4>3. QED BY <4>1, <4>2
    <3>5. PairInv'
      BY <3>2 DEF IInv, PairInv, Only, At, Drafting
    <3>6. QED BY <3>3, <3>4, <3>5 DEF IInv
  <2>4. QED BY <1>1, <2>2, <2>3 DEF Check
<1>2. CASE Remove(h)
  <2>1. UNCHANGED <<cache, taken, rev>> /\ At(h, "remove")
    BY <1>2 DEF Remove
  <2>2. db' \subseteq db /\ written' = written
    BY <1>2 DEF Remove, Commit, IInv, StoreInv
  <2>3. Goto(h, "invalidate") \/ Reply(h, "internal", {}) \/ Reply(h, "notfound", {})
    BY <1>2 DEF Remove
  <2>4. /\ Only(h)
        /\ req'[h].pc \in {"idle", "invalidate"}
        /\ req'[h].code # "ok"
        /\ req'[h].pc = "invalidate" => req'[h].code = "none"
    BY <2>1, <2>3, ReplyEffect, GotoEffect DEF Same, IInv, PhaseInv, At
  <2>5. QED BY <2>1, <2>2, <2>4, ShrinkKeeps DEF CachedRows
<1>3. CASE Invalidate(h)
  <2>1. Reply(h, "ok", {}) /\ UNCHANGED <<db, taken, rev, written>>
    BY <1>3 DEF Invalidate
  <2>2. CachedRows' \subseteq CachedRows
    BY <1>3 DEF Invalidate, Drop, CacheDel, CachedRows
  <2>3. CachedRows' \subseteq Public(written)
    BY <2>2 DEF IInv, StoreInv
  <2>4. QED BY <2>1, <2>3, ReplyKeeps
<1>4. QED BY <1>1, <1>2, <1>3

\* What a SET or a DEL that is sent again does to the cache: it adds nothing but the
\* row in the handler's hands.
LEMMA ResendCache ==
    ASSUME IInv, NEW h \in Handler, Resend(h)
    PROVE  CachedRows' \subseteq CachedRows \cup InFill
<1>1. CASE At(h, "fill") /\ Store(h)
  <2>1. req[h].held \subseteq InFill
    BY <1>1 DEF InFill
  <2>2. CachedRows' \subseteq CachedRows \cup req[h].held
    BY <1>1 DEF Store, CacheSet, CachedRows
  <2>3. QED BY <2>1, <2>2
<1>2. CASE Drop(h)
  BY <1>2 DEF Drop, CacheDel, CachedRows
<1>3. QED BY <1>1, <1>2 DEF Resend

\* They keep the invariant.
LEMMA ResendKeeps ==
    ASSUME IInv, NEW h \in Handler, Resend(h)
    PROVE  IInv'
<1>1. UNCHANGED <<db, taken, rev, written, req>>
  BY DEF Resend
<1>2. InFill \subseteq Public(written)
  BY DEF InFill, IInv, PhaseInv, Holds
<1>3. CachedRows' \subseteq Public(written)
  BY <1>2, ResendCache DEF IInv, StoreInv
<1>4. StoreInv'
  BY <1>1, <1>3 DEF IInv, StoreInv, Public
<1>5. ASSUME NEW g \in Handler PROVE (PhaseInv(g) /\ DraftInv(g) /\ RemoveInv(g))'
  BY <1>1
     DEF IInv, PhaseInv, DraftInv, RemoveInv, At, Answered, Holds, Public, Rows
<1>6. PairInv'
  BY <1>1 DEF IInv, PairInv, At, Drafting
<1>7. QED BY <1>4, <1>5, <1>6 DEF IInv

\* The end of a cached entry and the deletion of a user keep it: rows only go.
LEMMA EnvironmentKeeps ==
    ASSUME TypeOK, IInv, Tick \/ \E u \in User : DeleteUser(u)
    PROVE  IInv'
<1>1. UNCHANGED <<taken, rev, req>>
  BY DEF Tick, DeleteUser
<1>2. db' \subseteq db /\ written' = written
  BY DEF Tick, DeleteUser, Commit, IInv, StoreInv
<1>3. CachedRows' \subseteq CachedRows
  <2>1. CASE Tick
    BY <2>1 DEF Tick, Aged, CachedRows, TypeOK, Entry
  <2>2. CASE \E u \in User : DeleteUser(u)
    BY <2>2 DEF DeleteUser, CachedRows
  <2>3. QED BY <2>1, <2>2
<1>4. StoreInv'
  BY <1>1, <1>2, <1>3 DEF IInv, StoreInv, Public
<1>5. ASSUME NEW g \in Handler PROVE (PhaseInv(g) /\ DraftInv(g) /\ RemoveInv(g))'
  BY <1>1, <1>2
     DEF IInv, PhaseInv, DraftInv, RemoveInv, At, Answered, Holds, Public, Rows
<1>6. PairInv'
  BY <1>1 DEF IInv, PairInv, At, Drafting
<1>7. QED BY <1>4, <1>5, <1>6 DEF IInv

\* The invariant is inductive.
LEMMA InvInductive ==
    ASSUME TypeOK, IInv, [Next]_vars
    PROVE  IInv'
<1>1. ASSUME NEW h \in Handler, Arrive(h) PROVE IInv'
  BY <1>1, ArriveKeeps
<1>2. ASSUME NEW h \in Handler, Step(h) PROVE IInv'
  BY <1>2, ReadKeeps, InsertKeeps, UpdateKeeps, DeleteKeeps DEF Step
<1>3. CASE Tick \/ \E u \in User : DeleteUser(u)
  BY <1>3, EnvironmentKeeps
<1>4. CASE UNCHANGED vars
  BY <1>4 DEF vars, IInv, StoreInv, PhaseInv, DraftInv, RemoveInv, PairInv, At,
              Answered, Holds, Drafting, Rows, Public, CachedRows
<1>5. ASSUME NEW h \in Handler, Resend(h) PROVE IInv'
  BY <1>5, ResendKeeps
<1>6. QED BY <1>1, <1>2, <1>3, <1>4, <1>5 DEF Next

\* Every reachable state has its types and satisfies the invariant.
THEOREM Invariance == Spec => [](TypeOK /\ IInv)
<1>1. Init => IInv
  BY DEF Init, IInv, StoreInv, PhaseInv, DraftInv, RemoveInv, PairInv, At, Answered,
         Drafting, NoRequest, CachedRows, Rows
<1>2. TypeOK /\ IInv /\ [Next]_vars => IInv'
  BY InvInductive
<1>3. QED BY <1>1, <1>2, TypeCorrect, PTL DEF Spec

-----------------------------------------------------------------------------
\* Whatever a GET is answered with was committed and public at some time, for
\* any number of handlers, ids and users and with any calls failing.
THEOREM OnlyPublicIsServed == Spec => []ServedWasPublic
<1>1. IInv => ServedWasPublic
  BY DEF IInv, PhaseInv, ServedWasPublic
<1>2. QED BY <1>1, Invariance, PTL

\* The causes of a stale entry are complete: a cached row differs from the table
\* only while its invalidation is pending, or after one of the excused events.
THEOREM StalenessIsExplained == Spec => []StaleHasCause
<1>1. Init => StaleHasCause
  BY DEF Init, StaleHasCause
<1>2. TypeOK /\ IInv /\ StaleHasCause /\ [Next]_vars => StaleHasCause'
  <2> SUFFICES ASSUME TypeOK, IInv, StaleHasCause, [Next]_vars, NEW e \in cache'
               PROVE  e.row \in db' \/ e.row.id \in excused' \/ Pending(e.row.id)'
    BY DEF StaleHasCause
  <2>1. ASSUME UNCHANGED <<db, cache, excused>>, NEW h \in Handler, Only(h),
               req[h].pc # "invalidate"
        PROVE  e.row \in db' \/ e.row.id \in excused' \/ Pending(e.row.id)'
    BY <2>1 DEF StaleHasCause, Pending, At, Only
  <2>2. ASSUME NEW h \in Handler, Arrive(h)
        PROVE  e.row \in db' \/ e.row.id \in excused' \/ Pending(e.row.id)'
    <3>1. Only(h) /\ At(h, "idle") /\ UNCHANGED <<db, cache, excused>>
      BY <2>2, BeginEffect
         DEF Arrive, GetSnippet, PostSnippet, PutSnippet, DeleteSnippet, At
    <3>2. QED BY <2>1, <3>1 DEF At
  <2>3. ASSUME NEW h \in Handler, LookupHit(h) \/ LookupMiss(h) \/ Load(h) \/ Check(h)
        PROVE  e.row \in db' \/ e.row.id \in excused' \/ Pending(e.row.id)'
    <3>1. UNCHANGED <<db, cache, excused>> /\ req[h].pc # "invalidate"
      BY <2>3 DEF LookupHit, LookupMiss, Load, Check, At
    <3>2. Only(h)
      BY <2>3, GotoEffect, ReplyEffect, HoldEffect DEF LookupHit, LookupMiss, Load, Check
    <3>3. QED BY <2>1, <3>1, <3>2
  <2>4. ASSUME NEW h \in Handler, At(h, "fill"), Fill(h) \/ Resend(h)
        PROVE  e.row \in db' \/ e.row.id \in excused' \/ Pending(e.row.id)'
    <3>1. Only(h) /\ At(h, "fill") /\ db' = db
      BY <2>4, ReplyEffect DEF Fill, Resend, Only
    <3>2. PICK x \in Public(written) : Holds(h, x)
      BY <3>1 DEF IInv, PhaseInv
    <3>3. CASE UNCHANGED <<cache, excused>>
      BY <2>1, <3>1, <3>3 DEF At
    <3>4. CASE /\ CacheSet(req[h].held)
               /\ excused' = IF req[h].held \subseteq db THEN excused \ req[h].id
                                                         ELSE excused \cup req[h].id
      <4>1. excused' = IF x \in db THEN excused \ {x.id} ELSE excused \cup {x.id}
        BY <3>2, <3>4 DEF Holds
      <4>2. CASE e.row = x
        BY <3>1, <4>1, <4>2
      <4>3. CASE e \in cache /\ e.row.id # x.id
        BY <3>1, <4>1, <4>3 DEF StaleHasCause, Pending, At, Only
      <4>4. QED BY <3>2, <3>4, <4>2, <4>3 DEF CacheSet, Holds
    <3>5. QED BY <2>4, <3>3, <3>4 DEF Fill, Resend, Store, At
  <2>5. ASSUME NEW h \in Handler, Insert(h)
        PROVE  e.row \in db' \/ e.row.id \in excused' \/ Pending(e.row.id)'
    <3>1. Only(h) /\ At(h, "insert") /\ db \subseteq db' /\ UNCHANGED <<cache, excused>>
      BY <2>5, ReplyEffect DEF Insert, Commit
    <3>2. QED BY <3>1 DEF StaleHasCause, Pending, At, Only
  <2>6. ASSUME NEW h \in Handler, Update(h) \/ Remove(h)
        PROVE  e.row \in db' \/ e.row.id \in excused' \/ Pending(e.row.id)'
    <3>1. /\ e \in cache /\ excused \subseteq excused'
          /\ req[h].pc # "invalidate" /\ Only(h)
      BY <2>6, ReplyEffect, GotoEffect DEF Update, Remove, At
    <3>2. CASE db \subseteq db'
      BY <3>1, <3>2 DEF StaleHasCause, Pending, At, Only
    <3>3. CASE /\ \A x \in db : x.id \notin req[h].id => x \in db'
               /\ Goto(h, "invalidate") \/ excused' = excused \cup req[h].id
      <4>1. CASE e.row.id \in req[h].id
        <5>1. CASE Goto(h, "invalidate")
          <6>1. req'[h].pc = "invalidate" /\ req'[h].id = req[h].id
            BY <5>1, GotoEffect DEF Same
          <6>2. QED BY <4>1, <6>1 DEF Pending, At
        <5>2. QED BY <3>3, <4>1, <5>1
      <4>2. CASE e.row.id \notin req[h].id
        BY <3>1, <3>3, <4>2 DEF StaleHasCause, Pending, At, Only
      <4>3. QED BY <4>1, <4>2
    <3>4. QED BY <2>6, <3>2, <3>3 DEF Update, Remove, Commit, Rows
  <2>7. ASSUME NEW h \in Handler, At(h, "invalidate"), Invalidate(h) \/ Resend(h)
        PROVE  e.row \in db' \/ e.row.id \in excused' \/ Pending(e.row.id)'
    <3>1. Only(h) /\ db' = db
      BY <2>7, ReplyEffect DEF Invalidate, Resend, Only
    <3>2. e \in cache /\ (e.row.id \notin req[h].id \/ e.row.id \in excused')
      BY <2>7 DEF Invalidate, Resend, Drop, CacheDel, Cached, At
    <3>3. e.row.id \notin req[h].id => (e.row.id \in excused => e.row.id \in excused')
      BY <2>7 DEF Invalidate, Resend, Drop, At
    <3>4. QED BY <3>1, <3>2, <3>3 DEF StaleHasCause, Pending, At, Only
  <2>8. CASE Tick
    <3>1. PICK c \in cache : e.row = c.row
      BY <2>8 DEF Tick, Aged, TypeOK, Entry
    <3>2. QED BY <2>8, <3>1 DEF Tick, StaleHasCause, Pending, At
  <2>9. ASSUME NEW u \in User, DeleteUser(u)
        PROVE  e.row \in db' \/ e.row.id \in excused' \/ Pending(e.row.id)'
    <3>1. e \in cache /\ req' = req
      BY <2>9 DEF DeleteUser
    <3>2. e.row \in db => e.row \in db' \/ e.row.id \in excused'
      BY <2>9 DEF DeleteUser, Commit
    <3>3. excused \subseteq excused'
      BY <2>9 DEF DeleteUser
    <3>4. QED BY <3>1, <3>2, <3>3 DEF StaleHasCause, Pending, At
  <2>10. CASE UNCHANGED vars
    BY <2>10 DEF vars, StaleHasCause, Pending, At
  <2>11. QED
    BY <2>2, <2>3, <2>4, <2>5, <2>6, <2>7, <2>8, <2>9, <2>10
       DEF Next, Step, Fill, Invalidate, Resend
<1>3. QED BY <1>1, <1>2, Invariance, PTL DEF Spec

\* The check of Service.Delete stays valid until its statement runs: no row is
\* ever removed by a user who did not create it.
THEOREM OnlyCreatorRemoves == Spec => RemovedByCreator
<1> DEFINE Gone(x) == \A y \in db' : y.id # x.id
           Allowed(x) == \/ x.creator \notin users'
                         \/ \E h \in Handler :
                               /\ At(h, "remove") /\ ~At(h, "remove")'
                               /\ x.id \in req[h].id /\ req[h].by = {x.creator}
<1>1. TypeOK /\ IInv /\ [Next]_vars => [\A x \in db : Gone(x) => Allowed(x)]_vars
  <2> SUFFICES ASSUME TypeOK, IInv, Next, NEW x \in db, Gone(x)
               PROVE  Allowed(x)
    OBVIOUS
  <2>1. ASSUME db \subseteq db' PROVE FALSE
    BY <2>1
  <2>2. ASSUME NEW h \in Handler, Arrive(h) PROVE FALSE
    BY <2>1, <2>2 DEF Arrive, GetSnippet, PostSnippet, PutSnippet, DeleteSnippet, Begin
  <2>3. ASSUME NEW h \in Handler, LookupHit(h) \/ LookupMiss(h) \/ Load(h) \/ Fill(h)
                                  \/ Insert(h) \/ Check(h) \/ Invalidate(h) \/ Resend(h)
        PROVE  FALSE
    BY <2>1, <2>3
       DEF LookupHit, LookupMiss, Load, Fill, Insert, Commit, Check, Invalidate, Resend
  <2>4. ASSUME NEW h \in Handler, Update(h) PROVE FALSE
    <3>1. PICK old \in Rows(req[h].id), draft \in req[h].held :
             db' = (db \ {old}) \cup {Overwrite(old, draft)}
      BY <2>1, <2>4 DEF Update, Commit
    <3>2. Overwrite(old, draft).id = old.id
      <4>1. old.id = draft.id
        BY <2>4 DEF Update, IInv, DraftInv, Holds, Rows
      <4>2. draft \in Row
        BY DEF TypeOK, Request
      <4>3. QED BY <4>1, <4>2 DEF Overwrite, Row
    <3>3. QED BY <3>1, <3>2
  <2>5. ASSUME NEW h \in Handler, Remove(h) PROVE Allowed(x)
    <3>1. At(h, "remove") /\ x \in Rows(req[h].id)
      BY <2>1, <2>5 DEF Remove, Commit
    <3>2. x.creator \in req[h].by /\ \E u \in User : req[h].by = {u}
      BY <3>1 DEF IInv, RemoveInv
    <3>3. ~At(h, "remove")'
      BY <2>5, GotoEffect, ReplyEffect DEF Remove, At
    <3>4. QED BY <3>1, <3>2, <3>3 DEF Rows
  <2>6. CASE Tick
    BY <2>1, <2>6 DEF Tick
  <2>7. ASSUME NEW u \in User, DeleteUser(u) PROVE Allowed(x)
    BY <2>7 DEF DeleteUser, Commit
  <2>8. QED BY <2>2, <2>3, <2>4, <2>5, <2>6, <2>7 DEF Next, Step
<1>2. QED BY <1>1, Invariance, PTL DEF Spec, RemovedByCreator

-----------------------------------------------------------------------------
\* A step that changes neither table nor history, by which rows can only stop
\* being readable, and that serves nothing new, forgets or retires.
LEMMA QuietStep ==
    ASSUME NEW h \in Handler, UNCHANGED <<db, written>>, TypeOK, Only(h),
           CachedRows' \cup InFill' \subseteq Readable,
           Served'[h] = Served[h] \/ (Served'[h] = {} /\ UNCHANGED Readable)
    PROVE  [Reads!Next]_(Reads!vars)
<1>1. Readable' \subseteq Readable /\ Public(db) \subseteq Readable'
  BY DEF Readable, Public
<1>2. Served \in [Handler -> SUBSET Row] /\ \A g \in Handler : g # h => Served'[g] = Served[g]
  BY DEF Served, Answered, Only, TypeOK, Request
<1>3. CASE Served'[h] = Served[h]
  <2>1. Served' = Served
    BY <1>2, <1>3 DEF Served
  <2>2. QED BY <1>1, <2>1 DEF Reads!Next, Reads!Forget, Reads!Forgetting, Reads!Public, Public
<1>4. CASE Served'[h] = {} /\ UNCHANGED Readable
  <2>1. Served' = [Served EXCEPT ![h] = {}]
    BY <1>2, <1>4 DEF Served
  <2>2. QED BY <1>4, <2>1 DEF Reads!Next, Reads!Retire
<1>5. QED BY <1>3, <1>4

\* A step that commits new rows, serves nothing, and makes readable no more than
\* the public ones among them.
LEMMA CommitStep ==
    ASSUME NEW new \in SUBSET Row, TypeOK, TypeOK',
           db' \subseteq db \cup new, db' \ db \subseteq new,
           new \cap written = {}, db \subseteq written, new \subseteq db',
           written' = written \cup new,
           CachedRows' \cup InFill' \subseteq Readable,
           Served' = Served
    PROVE  [Reads!Next]_(Reads!vars)
<1>1. /\ db' \subseteq Row
      /\ (db' \ db) \cap written = {}
      /\ written' = written \cup db'
  BY DEF TypeOK
<1>2. /\ Readable' \subseteq Readable \cup Public(db' \ db)
      /\ Public(db') \subseteq Readable'
  BY DEF Readable, Public
<1>3. QED BY <1>1, <1>2 DEF Reads!Next, Reads!Commit, Reads!Public, Public

\* The same for a step that commits no new row.
LEMMA ShrinkStep ==
    ASSUME TypeOK, TypeOK', db' \subseteq db, db \subseteq written, written' = written,
           CachedRows' \cup InFill' \subseteq Readable,
           Served' = Served
    PROVE  [Reads!Next]_(Reads!vars)
<1>1. /\ {} \in SUBSET Row
      /\ db' \subseteq db \cup {} /\ db' \ db \subseteq {} /\ {} \subseteq db'
      /\ {} \cap written = {} /\ written' = written \cup {}
  OBVIOUS
<1>2. QED BY <1>1, CommitStep

\* What the rows in flight become when only h moves.
LEMMA InFillOnly ==
    ASSUME NEW h \in Handler, Only(h)
    PROVE  /\ InFill' \subseteq InFill \cup (IF At(h, "fill")' THEN req'[h].held ELSE {})
           /\ ~At(h, "fill") /\ ~At(h, "fill")' => InFill' = InFill
  BY DEF Only, InFill, At

\* Replying without a body, or going on, serves nothing.
LEMMA ServesNothing ==
    ASSUME TypeOK, IInv, NEW h \in Handler, Only(h), ~At(h, "idle"),
           req'[h].code # "ok" \/ req'[h].held = {}
    PROVE  Served' = Served /\ Served[h] = {} /\ Served'[h] = {}
<1>1. Served[h] = {} /\ Served'[h] = {}
  BY DEF Served, Answered, IInv, PhaseInv, At
<1>2. \A g \in Handler : Served'[g] = Served[g]
  BY <1>1 DEF Served, Answered, Only
<1>3. QED BY <1>1, <1>2 DEF Served

\* SnippetCache implements SnippetReads.  A row that no cache, no GET in flight
\* and no public row of the table shows any more is never shown again, so what a
\* lost race or a lost DEL leaves behind ends with the entry it left.
THEOREM KeepsReadsPromise == Spec => ReadsPromise
<1>1. Init => Reads!Init
  BY DEF Init, Reads!Init, Readable, CachedRows, InFill, Public, Served, Answered, At,
         NoRequest
<1>2. TypeOK /\ IInv /\ TypeOK' /\ [Next]_vars => [Reads!Next]_(Reads!vars)
  <2> SUFFICES ASSUME TypeOK, IInv, TypeOK', [Next]_vars
               PROVE  [Reads!Next]_(Reads!vars)
    OBVIOUS
  <2>1. ASSUME NEW h \in Handler, Arrive(h) PROVE [Reads!Next]_(Reads!vars)
    <3>1. /\ Only(h) /\ At(h, "idle") /\ UNCHANGED <<db, cache, written>>
          /\ req'[h].code = "none" /\ ~At(h, "fill")'
      <4>1. Only(h) /\ At(h, "idle") /\ UNCHANGED <<db, cache, written>>
        BY <2>1, BeginEffect
           DEF Arrive, GetSnippet, PostSnippet, PutSnippet, DeleteSnippet, At
      <4>2. req'[h].code = "none" /\ req'[h].pc # "fill"
        BY <2>1 DEF Arrive, GetSnippet, PostSnippet, PutSnippet, DeleteSnippet, Begin, TypeOK
      <4>3. QED BY <4>1, <4>2 DEF At
    <3>2. UNCHANGED <<CachedRows, InFill>>
      BY <3>1, InFillOnly DEF CachedRows, At
    <3>3. Served'[h] = {} /\ UNCHANGED Readable
      BY <3>1, <3>2 DEF Served, Answered, Readable
    <3>4. CachedRows' \cup InFill' \subseteq Readable
      BY <3>2 DEF Readable
    <3>5. QED BY <3>1, <3>3, <3>4, QuietStep
  <2>2. ASSUME NEW h \in Handler, LookupHit(h) PROVE [Reads!Next]_(Reads!vars)
    <3>1. PICK e \in Cached(req[h].id) : Reply(h, "ok", {e.row})
      BY <2>2 DEF LookupHit
    <3>2. /\ Only(h) /\ At(h, "lookup") /\ UNCHANGED <<db, cache, written>>
          /\ req'[h].op = "get" /\ req'[h].code = "ok" /\ req'[h].held = {e.row}
          /\ ~At(h, "fill")'
      BY <2>2, <3>1, ReplyEffect DEF LookupHit, IInv, PhaseInv, At
    <3>3. UNCHANGED Readable
      BY <3>2, InFillOnly DEF Readable, CachedRows, At
    <3>4. e.row \in Readable
      BY DEF Readable, Cached, CachedRows
    <3>5. Served' = [Served EXCEPT ![h] = {e.row}]
      BY <3>2 DEF Served, Answered, Only
    <3>6. QED
      BY <3>2, <3>3, <3>4, <3>5
         DEF Reads!Next, Reads!Serve, Reads!Forgetting, Reads!Public, Readable, Public
  <2>3. ASSUME NEW h \in Handler, LookupMiss(h) \/ Load(h) \/ Check(h) \/ Invalidate(h)
        PROVE  [Reads!Next]_(Reads!vars)
    <3>1. Only(h) /\ UNCHANGED <<db, written>>
      BY <2>3, GotoEffect, ReplyEffect, HoldEffect
         DEF LookupMiss, Load, Check, Invalidate
    <3>2. CachedRows' \subseteq CachedRows
      BY <2>3 DEF LookupMiss, Load, Check, Invalidate, Drop, CacheDel, CachedRows
    <3>3. At(h, "fill")' => req'[h].held \subseteq Public(db)
      BY <2>3, GotoEffect, ReplyEffect, HoldEffect
         DEF LookupMiss, Load, Check, Invalidate, Visible, Rows, Public, At
    <3>4. CachedRows' \cup InFill' \subseteq Readable
      BY <3>1, <3>2, <3>3, InFillOnly DEF Readable
    <3>5. ~At(h, "idle")
      BY <2>3 DEF LookupMiss, Load, Check, Invalidate, At
    <3>6. req'[h].code # "ok" \/ req'[h].held = {}
      BY <2>3, GotoEffect, ReplyEffect, HoldEffect
         DEF LookupMiss, Load, Check, Invalidate, Same, IInv, PhaseInv, At
    <3>7. QED BY <3>1, <3>4, <3>5, <3>6, QuietStep, ServesNothing
  <2>4. ASSUME NEW h \in Handler, Fill(h) PROVE [Reads!Next]_(Reads!vars)
    <3>1. PICK x \in Public(written) : Holds(h, x)
      BY <2>4 DEF Fill, IInv, PhaseInv
    <3>2. /\ Only(h) /\ At(h, "fill") /\ UNCHANGED <<db, written>>
          /\ req'[h].op = "get" /\ req'[h].code = "ok" /\ req'[h].held = {x}
          /\ ~At(h, "fill")'
      BY <2>4, <3>1, ReplyEffect DEF Fill, IInv, PhaseInv, At, Holds
    <3>3. x \in Readable
      BY <3>1, <3>2 DEF Readable, InFill, Holds
    <3>4. CachedRows' \subseteq CachedRows \cup {x}
      BY <2>4, <3>1 DEF Fill, Store, CacheSet, CachedRows, Holds
    <3>5. Readable' \subseteq Readable /\ Public(db) \subseteq Readable'
      BY <3>2, <3>3, <3>4, InFillOnly DEF Readable, Public
    <3>6. Served' = [Served EXCEPT ![h] = {x}]
      BY <3>2 DEF Served, Answered, Only
    <3>7. QED
      BY <3>2, <3>3, <3>5, <3>6
         DEF Reads!Next, Reads!Serve, Reads!Forgetting, Reads!Public, Public
  <2>5. ASSUME NEW h \in Handler, Insert(h) \/ Update(h) \/ Remove(h)
        PROVE  [Reads!Next]_(Reads!vars)
    <3>1. /\ Only(h) /\ ~At(h, "idle") /\ ~At(h, "fill") /\ ~At(h, "fill")'
          /\ req'[h].code # "ok" \/ req'[h].held = {}
      <4>1. /\ req[h].pc \in {"insert", "update", "remove"}
            /\ \/ Goto(h, "invalidate")
               \/ \E code \in {"ok", "internal", "notfound"} : Reply(h, code, {})
        BY <2>5 DEF Insert, Update, Remove, At
      <4>2. CASE Goto(h, "invalidate")
        BY <4>1, <4>2, GotoEffect DEF Same, IInv, PhaseInv, At
      <4>3. CASE \E code \in {"ok", "internal", "notfound"} : Reply(h, code, {})
        BY <4>1, <4>3, ReplyEffect DEF At
      <4>4. QED BY <4>1, <4>2, <4>3
    <3>2. Served' = Served
      BY <3>1, ServesNothing
    <3>3. cache' = cache
      BY <2>5 DEF Insert, Update, Remove
    <3>4. CachedRows' \cup InFill' \subseteq Readable
      BY <3>1, <3>3, InFillOnly DEF Readable, CachedRows
    <3>5. db \subseteq written
      BY DEF IInv, StoreInv
    <3>6. CASE db' \subseteq db /\ written' = written
      BY <3>2, <3>4, <3>5, <3>6, ShrinkStep
    <3>7. ASSUME At(h, "insert"), Commit(db \cup req[h].held)
          PROVE  [Reads!Next]_(Reads!vars)
      <4>1. req[h].held \in SUBSET Row
        BY DEF TypeOK, Request
      <4>2. req[h].held \cap written = {}
        BY <3>7 DEF IInv, DraftInv, Holds
      <4>3. db' = db \cup req[h].held /\ written' = written \cup req[h].held
        BY <3>5, <3>7 DEF Commit
      <4>4. QED BY <3>2, <3>4, <3>5, <4>1, <4>2, <4>3, CommitStep
    <3>8. ASSUME At(h, "update"), NEW old \in Rows(req[h].id), NEW draft \in req[h].held,
                 Commit((db \ {old}) \cup {Overwrite(old, draft)})
          PROVE  [Reads!Next]_(Reads!vars)
      <4> DEFINE x == Overwrite(old, draft)
      <4>1. draft \in Row /\ old \in Row /\ old \in db
        BY DEF TypeOK, Request, Rows
      <4>2. x \in Row /\ x.rev = draft.rev
        BY <4>1 DEF Overwrite, Row
      <4> HIDE DEF x
      <4>3. {x} \cap written = {}
        BY <3>8, <4>2 DEF IInv, DraftInv, Holds
      <4>4. db' = (db \ {old}) \cup {x} /\ written' = written \cup {x}
        BY <3>5, <3>8, <4>1 DEF Commit, x
      <4>5. {x} \in SUBSET Row
        BY <4>2
      <4>6. QED BY <3>2, <3>4, <3>5, <4>3, <4>4, <4>5, CommitStep
    <3>9. QED BY <2>5, <3>5, <3>6, <3>7, <3>8 DEF Insert, Update, Remove, Commit
  <2>6. ASSUME Tick \/ \E u \in User : DeleteUser(u) PROVE [Reads!Next]_(Reads!vars)
    <3>1. req' = req /\ db' \subseteq db /\ written' = written /\ db \subseteq written
      BY <2>6 DEF Tick, DeleteUser, Commit, IInv, StoreInv
    <3>2. CachedRows' \subseteq CachedRows
      BY <2>6 DEF Tick, Aged, DeleteUser, CachedRows, TypeOK, Entry
    <3>3. Served' = Served /\ InFill' = InFill
      BY <3>1 DEF Served, Answered, InFill, At
    <3>4. CachedRows' \cup InFill' \subseteq Readable
      BY <3>2, <3>3 DEF Readable
    <3>5. QED BY <3>1, <3>3, <3>4, ShrinkStep
  <2>7. CASE UNCHANGED vars
    BY <2>7 DEF vars, Reads!vars, Readable, Served, CachedRows, InFill, Public, Answered, At
  <2>8. ASSUME NEW h \in Handler, Resend(h) PROVE [Reads!Next]_(Reads!vars)
    <3>1. UNCHANGED <<db, written, req>>
      BY <2>8 DEF Resend
    <3>2. Only(h) /\ Served' = Served /\ InFill' = InFill
      BY <3>1 DEF Only, Served, Answered, InFill, At
    <3>3. CachedRows' \cup InFill' \subseteq Readable
      BY <2>8, <3>2, ResendCache DEF Readable
    <3>4. QED BY <3>1, <3>2, <3>3, QuietStep
  <2>9. QED BY <2>1, <2>2, <2>3, <2>4, <2>5, <2>6, <2>7, <2>8 DEF Next, Step
<1>3. QED BY <1>1, <1>2, Invariance, PTL DEF Spec, ReadsPromise, Reads!Spec

=============================================================================
