---------------------------- MODULE SnippetCache ----------------------------
(***************************************************************************)
(* snippets.Service over the snippets table and the Redis cache of single   *)
(* snippets: GetByID (read-through), Create, Update and Delete              *)
(* (write, then invalidate), and the cascade of a user's deletion.  Every   *)
(* handler is a goroutine of net/http; each call to Postgres or Redis is    *)
(* one step, so the calls of different handlers interleave as they do in    *)
(* the program.  A row's name, content, language, tags and times are the    *)
(* revision number of the write that gave them.                             *)
(***************************************************************************)
EXTENDS Naturals

CONSTANTS
    Handler,    \* concurrent request goroutines
    SnippetId,  \* ids that 12 random bytes may draw
    User,       \* users that exist at the start
    CacheTTL,   \* Service.CacheTTL in ticks; 0 turns filling off
    MaxRev,     \* bound: writes (POST and PUT) begun in a run
    Faults      \* do Postgres and Redis calls fail?

ASSUME CacheAssumption ==
    /\ CacheTTL \in Nat
    /\ MaxRev \in Nat
    /\ Faults \in BOOLEAN

VARIABLES
    users,      \* table users
    db,         \* table snippets: a set of rows
    cache,      \* live Redis keys sniply:cache:snippet:<id>, with time to live
    taken,      \* ids drawn so far
    rev,        \* writes begun so far
    req,        \* each handler's request, or its last one once it is idle
    written,    \* history: every row ever committed
    excused     \* history: ids whose cached row may lag, with a known cause

vars == <<users, db, cache, taken, rev, req, written, excused>>

Visibility == {"public", "private"}
Row == [id : SnippetId, rev : Nat, vis : Visibility, creator : User]
Entry == [row : Row, ttl : Nat]

Op == {"none", "get", "post", "put", "delete"}
Pc == {"idle", "lookup", "load", "fill", "insert", "update", "check", "remove",
       "invalidate"}
Code == {"none", "ok", "notfound", "internal"}

\* by: the requester of a DELETE; held: the row in the handler's hands, and then
\* the body a GET is answered with (nothing depends on the other bodies).
Request == [op : Op, pc : Pc, id : SUBSET SnippetId, by : SUBSET User,
            held : SUBSET Row, code : Code]

Public(rows) == {x \in rows : x.vis = "public"}
Rows(ids) == {x \in db : x.id \in ids}
CachedRows == {e.row : e \in cache}
Cached(ids) == {e \in cache : e.row.id \in ids}
At(h, pc) == req[h].pc = pc

NoRequest == [op |-> "none", pc |-> "idle", id |-> {}, by |-> {}, held |-> {},
              code |-> "none"]

Init ==
    /\ users = User
    /\ db = {}
    /\ cache = {}
    /\ taken = {}
    /\ rev = 0
    /\ req = [h \in Handler |-> NoRequest]
    /\ written = {}
    /\ excused = {}

Goto(h, pc) == req' = [req EXCEPT ![h] = [@ EXCEPT !.pc = pc]]

\* The row just loaded is answered and, before that, stored.
Hold(h, rows) ==
    req' = [req EXCEPT ![h] = [@ EXCEPT !.pc = "fill", !.held = rows]]

\* Only a GET's answer is kept in held.
Reply(h, code, body) ==
    req' = [req EXCEPT ![h] = [@ EXCEPT !.pc = "idle", !.id = {}, !.by = {},
                                        !.code = code, !.held = body]]

Begin(h, op, pc, id, by, held) ==
    /\ At(h, "idle")
    /\ req' = [req EXCEPT ![h] =
                 [op |-> op, pc |-> pc, id |-> {id}, by |-> by, held |-> held,
                  code |-> "none"]]
    /\ UNCHANGED <<users, db, cache, written, excused>>

-----------------------------------------------------------------------------
\* Requests arrive.  Only input that passes the validation of the handler and of
\* the service is enumerated; ids in a path are ids some POST has drawn.

GetSnippet(h) ==
    /\ \E id \in taken : Begin(h, "get", "lookup", id, {}, {})
    /\ UNCHANGED <<taken, rev>>

DeleteSnippet(h) ==
    /\ \E id \in taken, u \in User : Begin(h, "delete", "check", id, {u}, {})
    /\ UNCHANGED <<taken, rev>>

\* The row a write carries; the requester stands as its creator.
Draft(id, vis, requester) ==
    [id |-> id, rev |-> rev + 1, vis |-> vis, creator |-> requester]

\* Ids are random: one that was drawn is not drawn again.
PostSnippet(h) ==
    /\ rev < MaxRev
    /\ rev' = rev + 1
    /\ \E id \in SnippetId \ taken, v \in Visibility, u \in User :
         /\ Begin(h, "post", "insert", id, {}, {Draft(id, v, u)})
         /\ taken' = taken \cup {id}

\* Any signed-in user may PUT: Service.Update looks at no creator.
PutSnippet(h) ==
    /\ rev < MaxRev
    /\ rev' = rev + 1
    /\ \E id \in taken, v \in Visibility, u \in User :
         Begin(h, "put", "update", id, {}, {Draft(id, v, u)})
    /\ UNCHANGED taken

-----------------------------------------------------------------------------
\* Service.GetByID: Redis GET, then the table, then Redis SET.

\* Mutant: reading a key renews its time to live (GETEX for GET).
BugLookupHit(h) ==
    /\ At(h, "lookup")
    /\ \E e \in Cached(req[h].id) :
         /\ Reply(h, "ok", {e.row})
         /\ cache' = (cache \ {e}) \cup {[e EXCEPT !.ttl = CacheTTL]}
    /\ UNCHANGED <<users, db, taken, rev, written, excused>>

\* Redis holds the key: the cached row is the answer.
LookupHit(h) ==
    /\ At(h, "lookup")
    /\ \E e \in Cached(req[h].id) : Reply(h, "ok", {e.row})
    /\ UNCHANGED <<users, db, cache, taken, rev, written, excused>>

\* No key, or the GET failed: the error is dropped and the table is read.
LookupMiss(h) ==
    /\ At(h, "lookup")
    /\ Faults \/ Cached(req[h].id) = {}
    /\ Goto(h, "load")
    /\ UNCHANGED <<users, db, cache, taken, rev, written, excused>>

\* Mutant: the visibility test is forgotten.
BugVisible(id) == Rows(id)

\* What a reader may see of the table: private rows are not found, whoever asks.
Visible(id) == Public(Rows(id))

Load(h) ==
    /\ At(h, "load")
    /\ LET found == Visible(req[h].id)
       IN  \/ found = {} /\ Reply(h, "notfound", {})
           \/ found # {} /\ Hold(h, found)
           \/ Faults /\ Reply(h, "internal", {})
    /\ UNCHANGED <<users, db, cache, taken, rev, written, excused>>

\* Mutant: the key is stored for good (a time to live of 0).
BugCacheSet(rows) ==
    cache' = {e \in cache : \A x \in rows : e.row.id # x.id}
               \cup {[row |-> x, ttl |-> 0] : x \in rows}

\* SET replaces the key's value and its time to live.
CacheSet(rows) ==
    cache' = {e \in cache : \A x \in rows : e.row.id # x.id}
               \cup {[row |-> x, ttl |-> CacheTTL] : x \in rows}

\* What is stored may have been replaced in the table since it was loaded.
Store(h) ==
    /\ CacheTTL > 0
    /\ CacheSet(req[h].held)
    /\ excused' = IF req[h].held \subseteq db THEN excused \ req[h].id
                                              ELSE excused \cup req[h].id

\* The answer does not depend on the SET.
Fill(h) ==
    /\ At(h, "fill")
    /\ \/ Store(h)
       \/ (Faults \/ CacheTTL = 0) /\ UNCHANGED <<cache, excused>>
    /\ Reply(h, "ok", req[h].held)
    /\ UNCHANGED <<users, db, taken, rev, written>>

-----------------------------------------------------------------------------
\* Writes.  A statement that fails may have been applied all the same (the reply
\* is lost, or the 3 s deadline passes): then nothing is invalidated.

Commit(rows) == db' = rows /\ written' = written \cup rows

\* creator_id references users: an insert by a deleted user fails.
Insert(h) ==
    /\ At(h, "insert")
    /\ \/ /\ \A x \in req[h].held : x.creator \in users
          /\ Commit(db \cup req[h].held)
          /\ Reply(h, "ok", {}) \/ (Faults /\ Reply(h, "internal", {}))
       \/ /\ Faults \/ \E x \in req[h].held : x.creator \notin users
          /\ Reply(h, "internal", {})
          /\ UNCHANGED <<db, written>>
    /\ UNCHANGED <<users, cache, taken, rev, excused>>

\* Mutant: the statement writes every field of the draft, creator_id included.
BugOverwrite(old, draft) == draft

\* UPDATE ... SET leaves creator_id as it is.
Overwrite(old, draft) == [draft EXCEPT !.creator = old.creator]

Update(h) ==
    /\ At(h, "update")
    /\ \/ /\ Rows(req[h].id) = {}
          /\ Reply(h, "notfound", {})
          /\ UNCHANGED <<db, written, excused>>
       \/ \E old \in Rows(req[h].id), draft \in req[h].held :
             /\ Commit((db \ {old}) \cup {Overwrite(old, draft)})
             /\ \/ Goto(h, "invalidate") /\ UNCHANGED excused
                \/ /\ Faults
                   /\ Reply(h, "internal", {})
                   /\ excused' = excused \cup req[h].id
       \/ Faults /\ Reply(h, "internal", {}) /\ UNCHANGED <<db, written, excused>>
    /\ UNCHANGED <<users, cache, taken, rev>>

\* Service.Delete reads the row first: only its creator may go on.
Check(h) ==
    /\ At(h, "check")
    /\ LET own == {x \in Rows(req[h].id) : x.creator \in req[h].by}
       IN  \/ own # {} /\ Goto(h, "remove")
           \/ own = {} /\ Reply(h, "notfound", {})
           \/ Faults /\ Reply(h, "internal", {})
    /\ UNCHANGED <<users, db, cache, taken, rev, written, excused>>

Remove(h) ==
    /\ At(h, "remove")
    /\ \/ /\ Rows(req[h].id) = {}
          /\ Reply(h, "notfound", {})
          /\ UNCHANGED <<db, written, excused>>
       \/ /\ Rows(req[h].id) # {}
          /\ Commit(db \ Rows(req[h].id))
          /\ \/ Goto(h, "invalidate") /\ UNCHANGED excused
             \/ /\ Faults
                /\ Reply(h, "internal", {})
                /\ excused' = excused \cup req[h].id
       \/ Faults /\ Reply(h, "internal", {}) /\ UNCHANGED <<db, written, excused>>
    /\ UNCHANGED <<users, cache, taken, rev>>

\* Mutant: DEL names a key nobody reads.
BugCacheDel(ids) == cache' = cache

\* DEL after the statement of Update or Delete; its error is dropped.
CacheDel(ids) == cache' = cache \ Cached(ids)
Drop(h) == CacheDel(req[h].id) /\ excused' = excused \ req[h].id

Invalidate(h) ==
    /\ At(h, "invalidate")
    /\ \/ Drop(h)
       \/ Faults /\ UNCHANGED cache /\ excused' = excused \cup req[h].id
    /\ Reply(h, "ok", {})
    /\ UNCHANGED <<users, db, taken, rev, written>>

\* The Redis client sends a command again whose reply it has not got: SET and DEL then
\* take effect each time.
Resend(h) ==
    /\ Faults
    /\ \/ At(h, "fill") /\ Store(h)
       \/ At(h, "invalidate") /\ Drop(h)
    /\ UNCHANGED <<users, db, taken, rev, req, written>>

-----------------------------------------------------------------------------
\* DELETE of a user: the foreign key removes the user's rows, no cache is told.
DeleteUser(u) ==
    /\ u \in users
    /\ users' = users \ {u}
    /\ Commit({x \in db : x.creator # u})
    /\ excused' = excused \cup {x.id : x \in {y \in db : y.creator = u}}
    /\ UNCHANGED <<cache, taken, rev, req>>

\* Redis drops a key when its time to live is over.
Aged == {[e EXCEPT !.ttl = @ - 1] : e \in {c \in cache : c.ttl > 1}}

Tick ==
    /\ cache # {}
    /\ cache' = Aged
    /\ UNCHANGED <<users, db, taken, rev, req, written, excused>>

Arrive(h) == GetSnippet(h) \/ PostSnippet(h) \/ PutSnippet(h) \/ DeleteSnippet(h)

Step(h) ==
    \/ LookupHit(h) \/ LookupMiss(h) \/ Load(h) \/ Fill(h)
    \/ Insert(h) \/ Update(h) \/ Check(h) \/ Remove(h) \/ Invalidate(h)

Next ==
    \/ \E h \in Handler : Arrive(h) \/ Step(h) \/ Resend(h)
    \/ \E u \in User : DeleteUser(u)
    \/ Tick

Spec == Init /\ [][Next]_vars

\* Every call has a deadline, so a handler that has begun goes on; clients owe
\* nothing; time passes.
Fairness == WF_vars(Tick) /\ \A h \in Handler : WF_vars(Step(h))

FairSpec == Spec /\ Fairness

-----------------------------------------------------------------------------
\* Every variable has its type, and a cached entry always expires.
TypeOK ==
    /\ users \subseteq User
    /\ db \subseteq Row
    /\ cache \subseteq Entry
    /\ \A e \in cache : e.ttl \in 1..CacheTTL
    /\ taken \subseteq SnippetId
    /\ rev \in 0..MaxRev
    /\ req \in [Handler -> Request]
    /\ written \subseteq Row
    /\ excused \subseteq SnippetId

\* A GET that answers 200 shows a row that was once committed and public, whatever
\* the cache went through (service.go:111-132).
Answered(h) == req[h].op = "get" /\ req[h].code = "ok"

ServedWasPublic ==
    \A h \in Handler : Answered(h) => req[h].held \subseteq Public(written)

\* A cached row that is no longer the table's has one of five causes: the DEL of
\* a write is still to come; a DEL was lost; a write's reply was lost; a user's
\* rows were cascaded away; or a GET stored what it had loaded before a write
\* (service.go:117-130, 263-272, 301-310).
Pending(id) == \E h \in Handler : At(h, "invalidate") /\ id \in req[h].id

StaleHasCause ==
    \A e \in cache : e.row \in db \/ e.row.id \in excused \/ Pending(e.row.id)

\* A row leaves the table only with its creator, or by a DELETE of its creator,
\* although Service.Delete checks the creator in one statement and removes in
\* another with PUTs of other users in between (service.go:290-301).
RemovedByCreator ==
    [][\A x \in db : (\A y \in db' : y.id # x.id) =>
          \/ x.creator \notin users'
          \/ \E h \in Handler :
                /\ At(h, "remove") /\ ~At(h, "remove")'
                /\ x.id \in req[h].id /\ req[h].by = {x.creator}]_vars

\* The rows some GET may still answer with: cached, loaded and about to be stored,
\* or public in the table.
InFill == UNION {req[h].held : h \in {g \in Handler : At(g, "fill")}}
Readable == CachedRows \cup InFill \cup Public(db)
Served == [h \in Handler |-> IF Answered(h) THEN req[h].held ELSE {}]

\* The service keeps the promise of SnippetReads.
Reads == INSTANCE SnippetReads WITH readable <- Readable, served <- Served
ReadsPromise == Reads!Spec

\* Once nobody writes any more, readers come to see exactly the public rows.
EventuallyFresh == <>[][FALSE]_db => <>[](Readable = Public(db))
=============================================================================
