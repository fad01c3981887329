---------------------------- MODULE SnippetLists ----------------------------
(***************************************************************************)
(* GET /v1/snippets: snippets.Service.List over the snippets table and the  *)
(* Redis cache of public lists.  One step for each call of Postgres or      *)
(* Redis.  The writes of other requests, which SnippetCache models, are     *)
(* seen from here as changes of the table: none touches a cached list.      *)
(* A list is the set of its rows: their order is that of created_at.        *)
(***************************************************************************)
EXTENDS Naturals, FiniteSets

CONSTANTS
    Handler,        \* concurrent request goroutines
    SnippetId,      \* ids of snippets
    User,           \* users that exist at the start
    Facet,          \* pairs <<parameter, value>> of q, language and tag in use
    Born,           \* values of created_at, each taken once
    Input,          \* the query strings clients send, as the handler parses them
    DefaultLimit,   \* rows of a list when no limit is asked for (100)
    MaxLimit,       \* most rows of a list (1000)
    ListCacheTTL,   \* Service.ListCacheTTL in ticks; 0 stores no list
    Faults          \* do Postgres and Redis calls fail?

Visibility == {"public", "private"}
Parameter == {"q", "language", "tags"}
AtMostOne(S) == {T \in SUBSET S : \A x, y \in T : x = y}

\* At most one value of each text parameter.
Texts == {T \in SUBSET Facet : \A p, q \in T : p[1] = q[1] => p = q}

\* A visibility of any spelling, and 0 for a number that is absent or is none.
Query == [creator : AtMostOne(User), facets : Texts, vis : Visibility \cup {"other"},
          limit : Nat, offset : Nat]

ASSUME ListAssumption ==
    /\ \A p \in Facet : p = <<p[1], p[2]>> /\ p[1] \in Parameter
    /\ Born \subseteq Nat
    /\ Input \subseteq Query
    /\ DefaultLimit \in Nat \ {0}
    /\ MaxLimit \in Nat \ {0}
    /\ ListCacheTTL \in Nat
    /\ Faults \in BOOLEAN

VARIABLES
    users,      \* table users
    table,      \* table snippets: a set of rows
    lists,      \* live Redis keys sniply:cache:snippet:list:<key>
    req         \* each handler's request, or its last one once it is idle

vars == <<users, table, lists, req>>

\* A row matches its facets: its language, its tags, the texts that find it.
Row == [id : SnippetId, vis : Visibility, creator : User, facets : SUBSET Facet,
        born : Born]

Principal == [id : User, admin : BOOLEAN]
Pc == {"idle", "creator", "lookup", "load", "fill"}
Code == {"none", "ok", "invalid", "forbidden", "notfound", "internal"}

Filter == [creator : AtMostOne(User), facets : Texts, vis : Visibility,
           limit : Nat, offset : Nat]

\* by: who asks; want: the filter asked for; held: the rows loaded, or answered with.
Request == [pc : Pc, by : SUBSET Principal, want : SUBSET Filter, held : SUBSET Row,
            code : Code]
NoRequest == [pc |-> "idle", by |-> {}, want |-> {}, held |-> {}, code |-> "none"]

At(h, pc) == req[h].pc = pc
Goto(h, pc) == req' = [req EXCEPT ![h] = [@ EXCEPT !.pc = pc]]
Hold(h, rows) == req' = [req EXCEPT ![h] = [@ EXCEPT !.pc = "fill", !.held = rows]]

\* Of a refusal or a failure only the status is kept.
Refuse(h, code) == req' = [req EXCEPT ![h] = [NoRequest EXCEPT !.code = code]]
Reply(h, rows) ==
    req' = [req EXCEPT ![h] = [@ EXCEPT !.pc = "idle", !.code = "ok", !.held = rows]]

Init ==
    /\ users = User
    /\ table = {}
    /\ lists = {}
    /\ req = [h \in Handler |-> NoRequest]

-----------------------------------------------------------------------------
\* From the query string to the statement.

Limit(n) == IF n = 0 THEN DefaultLimit ELSE IF n < MaxLimit THEN n ELSE MaxLimit

\* What is not asked for as private is asked for as public.
Shown(vis) == IF vis = "private" THEN "private" ELSE "public"

FilterOf(i) == [i EXCEPT !.vis = Shown(@), !.limit = Limit(@)]

Filters == {FilterOf(i) : i \in Input}
PublicFilters == {f \in Filters : f.vis = "public"}

\* Mutant: the offset is left out of the key.
BugKey(f) ==
    f.facets \cup {<<"creator", u>> : u \in f.creator}
             \cup {<<"visibility", f.vis>>, <<"limit", f.limit>>}

\* The key names each parameter that has a value.
Key(f) ==
    f.facets \cup {<<"creator", u>> : u \in f.creator}
             \cup {<<"visibility", f.vis>>, <<"limit", f.limit>>}
             \cup {<<"offset", n>> : n \in {f.offset} \ {0}}

\* The WHERE clause.
Matching(f) ==
    {x \in table : /\ x.vis = f.vis
                   /\ f.creator \subseteq {x.creator}
                   /\ f.facets \subseteq x.facets}

\* ORDER BY created_at DESC LIMIT OFFSET.
Rank(x, rows) == Cardinality({y \in rows : y.born > x.born})
Page(f) == {x \in Matching(f) : Rank(x, Matching(f)) \in f.offset .. f.offset + f.limit - 1}

-----------------------------------------------------------------------------
\* Service.List.

ListSnippets(h) ==
    /\ At(h, "idle")
    /\ \E i \in Input, p \in Principal :
         req' = [req EXCEPT ![h] = [NoRequest EXCEPT !.pc = "creator", !.by = {p},
                                                     !.want = {FilterOf(i)}]]
    /\ UNCHANGED <<users, table, lists>>

\* Mutant: any signed-in user may ask for anybody's private rows.
BugMayList(p, f) == TRUE

\* Private rows are for their creator and for admins.
MayList(p, f) == f.vis = "private" => p.admin \/ f.creator = {p.id}

\* Public lists are looked up in Redis first.
Proceed(h, f) == Goto(h, IF f.vis = "public" THEN "lookup" ELSE "load")

\* The creator must exist, and private rows are listed of one creator only.
FindCreator(h) ==
    /\ At(h, "creator")
    /\ \E f \in req[h].want, p \in req[h].by :
         \/ f.creator \subseteq users
            /\ IF f.vis = "private" /\ f.creator = {} THEN Refuse(h, "invalid")
               ELSE IF MayList(p, f) THEN Proceed(h, f)
               ELSE Refuse(h, "forbidden")
         \/ ~ f.creator \subseteq users /\ Refuse(h, "invalid")
         \/ Faults /\ f.creator # {} /\ Refuse(h, "internal")
    /\ UNCHANGED <<users, table, lists>>

\* Mutant: a hit stores the list again, and its time to live begins anew.
BugLookupHit(h) ==
    /\ At(h, "lookup")
    /\ \E f \in req[h].want, e \in lists :
         /\ e.key = Key(f)
         /\ Reply(h, e.rows)
         /\ lists' = (lists \ {e}) \cup {[e EXCEPT !.ttl = ListCacheTTL]}
    /\ UNCHANGED <<users, table>>

LookupHit(h) ==
    /\ At(h, "lookup")
    /\ \E f \in req[h].want, e \in lists :
         e.key = Key(f) /\ Reply(h, e.rows)
    /\ UNCHANGED <<users, table, lists>>

\* No key, or the GET failed: the error is dropped.
LookupMiss(h) ==
    /\ At(h, "lookup")
    /\ Faults \/ \A f \in req[h].want, e \in lists : e.key # Key(f)
    /\ Goto(h, "load")
    /\ UNCHANGED <<users, table, lists>>

\* An empty list is answered 404; a private one is not stored.
Load(h) ==
    /\ At(h, "load")
    /\ \E f \in req[h].want :
         \/ Page(f) = {} /\ Refuse(h, "notfound")
         \/ /\ Page(f) # {}
            /\ IF f.vis = "public" THEN Hold(h, Page(f)) ELSE Reply(h, Page(f))
         \/ Faults /\ Refuse(h, "internal")
    /\ UNCHANGED <<users, table, lists>>

\* Mutant: SET leaves the key without an expiry.
BugSetList(f, rows) ==
    lists' = {e \in lists : e.key # Key(f)}
               \cup {[key |-> Key(f), rows |-> rows, ttl |-> 0]}

SetList(f, rows) ==
    lists' = {e \in lists : e.key # Key(f)}
               \cup {[key |-> Key(f), rows |-> rows, ttl |-> ListCacheTTL]}

Store(h) ==
    /\ ListCacheTTL > 0
    /\ \E f \in req[h].want : SetList(f, req[h].held)

\* The answer does not depend on the SET.
Fill(h) ==
    /\ At(h, "fill")
    /\ \/ Store(h)
       \/ (Faults \/ ListCacheTTL = 0) /\ UNCHANGED lists
    /\ Reply(h, req[h].held)
    /\ UNCHANGED <<users, table>>

\* The Redis client sends a SET again whose reply it has not got.
Resend(h) ==
    /\ Faults
    /\ At(h, "fill")
    /\ Store(h)
    /\ UNCHANGED <<users, table, req>>

-----------------------------------------------------------------------------
\* The rest of the program: other requests write the table.

\* POST.  created_at is the start of the statement, so rows need not be committed
\* in its order.
InsertRow ==
    /\ \E x \in Row :
         /\ x.creator \in users
         /\ \A y \in table : y.id # x.id /\ y.born # x.born
         /\ table' = table \cup {x}
    /\ UNCHANGED <<users, lists, req>>

\* PUT keeps the creator and created_at.
ChangeRow ==
    /\ \E x \in table, vis \in Visibility, facets \in SUBSET Facet :
         table' = (table \ {x}) \cup {[x EXCEPT !.vis = vis, !.facets = facets]}
    /\ UNCHANGED <<users, lists, req>>

DeleteRow ==
    /\ \E x \in table : table' = table \ {x}
    /\ UNCHANGED <<users, lists, req>>

\* A user's deletion cascades.
DeleteUser(u) ==
    /\ u \in users
    /\ users' = users \ {u}
    /\ table' = {x \in table : x.creator # u}
    /\ UNCHANGED <<lists, req>>

\* Redis drops a key when its time to live is over.
Tick ==
    /\ lists # {}
    /\ lists' = {[e EXCEPT !.ttl = @ - 1] : e \in {c \in lists : c.ttl > 1}}
    /\ UNCHANGED <<users, table, req>>

Step(h) == FindCreator(h) \/ LookupHit(h) \/ LookupMiss(h) \/ Load(h) \/ Fill(h)
Write == InsertRow \/ ChangeRow \/ DeleteRow \/ \E u \in User : DeleteUser(u)

Next ==
    \/ \E h \in Handler : ListSnippets(h) \/ Step(h) \/ Resend(h)
    \/ Write
    \/ Tick

Spec == Init /\ [][Next]_vars

\* A handler that has begun goes on, since its calls have deadlines; time passes.
Fairness == WF_vars(Tick) /\ \A h \in Handler : WF_vars(Step(h))
FairSpec == Spec /\ Fairness

-----------------------------------------------------------------------------
\* Every variable has its type, a key holds one list, and every list expires.
TypeOK ==
    /\ users \subseteq User
    /\ table \subseteq Row
    /\ lists \subseteq [key : {Key(f) : f \in PublicFilters}, rows : SUBSET Row,
                       ttl : 1..ListCacheTTL]
    /\ \A d, e \in lists : d.key = e.key => d = e
    /\ req \in [Handler -> Request]

\* A list answered 200 holds only rows of its filter, cached or not, and private rows
\* reach their creator and admins only, whatever PUTs did to the rows meanwhile
\* (service.go:162-178, 200-219).
Answered(h) == req[h].code = "ok"

Fits(x, f) ==
    /\ x.vis = f.vis
    /\ f.creator \subseteq {x.creator}
    /\ f.facets \subseteq x.facets

ListedToTheRightReader ==
    \A h \in Handler : Answered(h) =>
        \A f \in req[h].want, p \in req[h].by, x \in req[h].held :
            /\ Fits(x, f)
            /\ x.vis = "private" => p.admin \/ p.id = x.creator

\* What a request of each filter may be answered with, as pairs: by the table, by a
\* cached list, or by a list loaded and not yet stored.
Current == {a \in {<<f, Page(f)>> : f \in Filters} : a[2] # {}}
InCache == UNION {{<<f, e.rows>> : f \in {g \in PublicFilters : Key(g) = e.key}} : e \in lists}
InFill == UNION {{<<f, req[h].held>> : f \in req[h].want} : h \in {g \in Handler : At(g, "fill")}}
Answerable == Current \cup InCache \cup InFill

\* The answers given.
Served ==
    [h \in Handler |->
        IF Answered(h) THEN {<<f, req[h].held>> : f \in req[h].want} ELSE {}]

\* With its cache the service keeps the promise of ListReads: a list becomes answerable
\* only by being the table's own answer to that filter, for no request's list reaches the
\* key of another filter and none that is no longer answerable is brought back; and every
\* list answered is answerable then (service.go:154-219, 316-341).
Reads == INSTANCE ListReads
           WITH current <- Current, answerable <- Answerable, served <- Served
ListPromise == Reads!Spec

\* Once nobody writes any more, every filter is answered from the table as it is:
\* no cached list outlives ListCacheTTL (service.go:214-217).
EventuallyFresh == <>[][FALSE]_table => <>[](Answerable = Current)

=============================================================================
