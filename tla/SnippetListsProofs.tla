-------------------------- MODULE SnippetListsProofs --------------------------
(***************************************************************************)
(* Proofs about SnippetLists: the key of a filter is its own, so a cached   *)
(* list is an answer to its filter; nobody is shown private rows but their  *)
(* creator and admins; lists become answerable from the table only.         *)
(***************************************************************************)
EXTENDS SnippetLists, TLAPS

\* What a client asks for is a filter.
LEMMA FilterOfType ==
    ASSUME NEW i \in Input
    PROVE  FilterOf(i) \in Filter
<1>1. i \in Query
  BY ListAssumption DEF ListAssumption
<1>2. Limit(i.limit) \in Nat
  BY <1>1, ListAssumption DEF ListAssumption, Query, Limit
<1>3. Shown(i.vis) \in Visibility
  BY DEF Shown, Visibility
<1>4. QED BY <1>1, <1>2, <1>3 DEF FilterOf, Query, Filter

LEMMA FiltersType == Filters \subseteq Filter /\ PublicFilters \subseteq Filters
BY FilterOfType DEF Filters, PublicFilters

\* What the key of a filter tells of it.
LEMMA KeyMembers ==
    ASSUME NEW f \in Filter
    PROVE  /\ \A u : <<"creator", u>> \in Key(f) <=> u \in f.creator
           /\ \A v : <<"visibility", v>> \in Key(f) <=> v = f.vis
           /\ \A n : <<"limit", n>> \in Key(f) <=> n = f.limit
           /\ \A n : <<"offset", n>> \in Key(f) <=> n = f.offset /\ n # 0
           /\ \A p \in Facet : p \in Key(f) <=> p \in f.facets
<1>1. f.facets \subseteq Facet
  BY DEF Filter, Texts
<1>2. \A p \in Facet : p = <<p[1], p[2]>> /\ p[1] \in {"q", "language", "tags"}
  BY ListAssumption DEF ListAssumption, Parameter
<1>3. \A p \in Facet : \A x : /\ p # <<"creator", x>> /\ p # <<"visibility", x>>
                              /\ p # <<"limit", x>> /\ p # <<"offset", x>>
  BY <1>2
<1>4. \A x : /\ <<"creator", x>> \notin f.facets /\ <<"visibility", x>> \notin f.facets
             /\ <<"limit", x>> \notin f.facets /\ <<"offset", x>> \notin f.facets
  BY <1>1, <1>3
<1>5. \A u : <<"creator", u>> \in Key(f) <=> u \in f.creator
  BY <1>4 DEF Key
<1>6. \A v : <<"visibility", v>> \in Key(f) <=> v = f.vis
  BY <1>4 DEF Key
<1>7. \A n : <<"limit", n>> \in Key(f) <=> n = f.limit
  BY <1>4 DEF Key
<1>8. \A n : <<"offset", n>> \in Key(f) <=> n = f.offset /\ n # 0
  BY <1>4 DEF Key
<1>9. \A p \in Facet : p \in Key(f) <=> p \in f.facets
  BY <1>3 DEF Key
<1>10. QED BY <1>5, <1>6, <1>7, <1>8, <1>9

\* Two filters never share a key (service.go:316-341).
THEOREM KeyInjective ==
    \A f, g \in Filter : Key(f) = Key(g) => f = g
<1>1. SUFFICES ASSUME NEW f \in Filter, NEW g \in Filter, Key(f) = Key(g) PROVE f = g
  OBVIOUS
<1>2. \A u : u \in f.creator <=> u \in g.creator
  BY <1>1, KeyMembers
<1>3. f.vis = g.vis /\ f.limit = g.limit
  BY <1>1, KeyMembers
<1>4. f.offset = g.offset
  <2>1. f.offset \in Nat /\ g.offset \in Nat
    BY DEF Filter
  <2>2. \A n : n = f.offset /\ n # 0 <=> n = g.offset /\ n # 0
    BY <1>1, KeyMembers
  <2>3. QED BY <2>1, <2>2
<1>5. \A p \in Facet : p \in f.facets <=> p \in g.facets
  BY <1>1, KeyMembers
<1>6. f.facets \subseteq Facet /\ g.facets \subseteq Facet
  BY DEF Filter, Texts
<1>7. f.creator = g.creator /\ f.facets = g.facets
  BY <1>2, <1>5, <1>6
<1>8. \A h \in Filter : h = [creator |-> h.creator, facets |-> h.facets, vis |-> h.vis,
                           limit |-> h.limit, offset |-> h.offset]
  BY DEF Filter
<1>9. QED BY <1>3, <1>4, <1>7, <1>8

-----------------------------------------------------------------------------
\* What a request carries: one filter of one principal; a public filter where the cache
\* is asked or filled; a reader who was vetted, once the table is read; rows that fit
\* the filter, once there are any; and an answer for its reader.
ReqOK(r) ==
    /\ \A f, g \in r.want : f = g
    /\ \A p, q \in r.by : p = q
    /\ r.want \subseteq Filters
    /\ r.pc \in {"lookup", "fill"} => r.want \subseteq PublicFilters
    /\ r.pc # "idle" => r.code = "none" /\ r.want # {}
    /\ r.pc = "load" => \A f \in r.want, p \in r.by : MayList(p, f)
    /\ r.pc = "fill" => \A f \in r.want, x \in r.held : Fits(x, f)
    /\ r.code = "ok" => \A f \in r.want, p \in r.by, x \in r.held :
                           /\ Fits(x, f)
                           /\ x.vis = "private" => p.admin \/ p.id = x.creator

\* A cached list is that of the filter with its key.
ListOK(e) ==
    /\ e \in [key : {Key(f) : f \in PublicFilters}, rows : SUBSET Row, ttl : 1..ListCacheTTL]
    /\ \A f \in PublicFilters : e.key = Key(f) => \A x \in e.rows : Fits(x, f)

Requests == req \in [Handler -> Request] /\ \A h \in Handler : ReqOK(req[h])
Lists == (\A e \in lists : ListOK(e)) /\ (\A d, e \in lists : d.key = e.key => d = e)
IInv == users \subseteq User /\ table \subseteq Row /\ Lists /\ Requests

\* A handler's step changes its own request.
LEMMA OneRequest ==
    ASSUME Requests, NEW h \in Handler, NEW r \in Request, ReqOK(r),
           req' = [req EXCEPT ![h] = r]
    PROVE  Requests'
<1>1. req' \in [Handler -> Request]
  BY DEF Requests
<1>2. \A g \in Handler : ReqOK(req'[g])
  <2>1. SUFFICES ASSUME NEW g \in Handler PROVE ReqOK(req'[g])
    OBVIOUS
  <2>2. CASE g = h
    BY <2>2 DEF Requests
  <2>3. CASE g # h
    BY <2>3 DEF Requests
  <2>4. QED BY <2>2, <2>3
<1>3. QED BY <1>1, <1>2 DEF Requests, ReqOK, MayList, Fits, Filters, PublicFilters

\* The helpers on requests, with what they must be given.
LEMMA GotoOK ==
    ASSUME Requests, NEW h \in Handler, NEW pc \in {"lookup", "load"}, Goto(h, pc),
           req[h].pc # "idle",
           pc = "lookup" => req[h].want \subseteq PublicFilters,
           pc = "load" => \A f \in req[h].want, p \in req[h].by : MayList(p, f)
    PROVE  Requests'
<1> DEFINE r == [req[h] EXCEPT !.pc = pc]
<1>1. req[h] \in Request /\ ReqOK(req[h])
  BY DEF Requests
<1>2. r \in Request
  BY <1>1 DEF Request, Pc
<1>3. /\ r.pc = pc /\ r.by = req[h].by /\ r.want = req[h].want /\ r.held = req[h].held
      /\ r.code = req[h].code
  BY <1>1 DEF Request
<1>4. ReqOK(r)
  BY <1>1, <1>3 DEF ReqOK
<1>5. QED BY <1>2, <1>4, OneRequest DEF Goto

LEMMA HoldOK ==
    ASSUME Requests, NEW h \in Handler, NEW rows \in SUBSET Row, Hold(h, rows),
           req[h].pc # "idle", req[h].want \subseteq PublicFilters,
           \A f \in req[h].want, x \in rows : Fits(x, f)
    PROVE  Requests'
<1> DEFINE r == [req[h] EXCEPT !.pc = "fill", !.held = rows]
<1>1. req[h] \in Request /\ ReqOK(req[h])
  BY DEF Requests
<1>2. r \in Request
  BY <1>1 DEF Request, Pc
<1>3. /\ r.pc = "fill" /\ r.by = req[h].by /\ r.want = req[h].want /\ r.held = rows
      /\ r.code = req[h].code
  BY <1>1 DEF Request
<1>4. ReqOK(r)
  BY <1>1, <1>3 DEF ReqOK
<1>5. QED BY <1>2, <1>4, OneRequest DEF Hold

LEMMA ReplyOK ==
    ASSUME Requests, NEW h \in Handler, NEW rows \in SUBSET Row, Reply(h, rows),
           \A f \in req[h].want, p \in req[h].by, x \in rows :
              /\ Fits(x, f)
              /\ x.vis = "private" => p.admin \/ p.id = x.creator
    PROVE  Requests'
<1> DEFINE r == [req[h] EXCEPT !.pc = "idle", !.code = "ok", !.held = rows]
<1>1. req[h] \in Request /\ ReqOK(req[h])
  BY DEF Requests
<1>2. r \in Request
  BY <1>1 DEF Request, Pc, Code
<1>3. /\ r.pc = "idle" /\ r.by = req[h].by /\ r.want = req[h].want /\ r.held = rows
      /\ r.code = "ok"
  BY <1>1 DEF Request
<1>4. ReqOK(r)
  BY <1>1, <1>3 DEF ReqOK
<1>5. QED BY <1>2, <1>4, OneRequest DEF Reply

LEMMA RefuseOK ==
    ASSUME Requests, NEW h \in Handler, NEW code \in Code \ {"ok"}, Refuse(h, code)
    PROVE  Requests'
<1>1. [NoRequest EXCEPT !.code = code] \in Request
  BY DEF NoRequest, Request, Pc
<1>2. ReqOK([NoRequest EXCEPT !.code = code])
  BY DEF NoRequest, ReqOK
<1>3. QED BY <1>1, <1>2, OneRequest DEF Refuse

\* A page of the table fits its filter.
LEMMA PageFits ==
    \A f : Page(f) \subseteq table /\ \A x \in Page(f) : Fits(x, f)
BY DEF Page, Matching, Fits

\* A public row is for everybody.
LEMMA PublicFits ==
    ASSUME NEW f \in PublicFilters, NEW x, Fits(x, f)
    PROVE  x.vis = "public"
BY DEF PublicFilters, Fits

\* A list that fits its filter may be stored under its key, for no other filter has it.
LEMMA SetListOK ==
    ASSUME Lists, NEW f \in PublicFilters, NEW rows \in SUBSET Row,
           \A x \in rows : Fits(x, f), ListCacheTTL > 0, SetList(f, rows)
    PROVE  Lists'
<1> DEFINE e == [key |-> Key(f), rows |-> rows, ttl |-> ListCacheTTL]
<1>1. lists' = {d \in lists : d.key # Key(f)} \cup {e}
  BY DEF SetList
<1>2. ListOK(e)
  <2>1. ListCacheTTL \in 1..ListCacheTTL
    BY ListAssumption DEF ListAssumption
  <2>2. \A g \in PublicFilters : e.key = Key(g) => g = f
    BY KeyInjective, FiltersType
  <2>3. QED BY <2>1, <2>2 DEF ListOK
<1>3. \A d \in lists' : ListOK(d)
  BY <1>1, <1>2 DEF Lists
<1>4. \A c, d \in lists' : c.key = d.key => c = d
  BY <1>1 DEF Lists
<1>5. QED BY <1>3, <1>4 DEF Lists, ListOK, Fits, PublicFilters, Filters

-----------------------------------------------------------------------------
\* Service.List keeps the invariant.
LEMMA RequestInv ==
    ASSUME IInv, NEW h \in Handler, ListSnippets(h) \/ Step(h) \/ Resend(h)
    PROVE  IInv'
<1>1. Requests /\ Lists /\ req[h] \in Request /\ ReqOK(req[h])
  BY DEF IInv, Requests
<1>2. users' = users /\ table' = table
  BY DEF ListSnippets, Step, FindCreator, LookupHit, LookupMiss, Load, Fill, Resend
<1>3. SUFFICES Lists' /\ Requests'
  BY <1>2 DEF IInv
<1>4. lists' = lists => Lists'
  BY <1>1 DEF Lists, ListOK, Fits, PublicFilters, Filters
<1>5. CASE ListSnippets(h)
  <2>1. PICK i \in Input, p \in Principal :
          req' = [req EXCEPT ![h] = [NoRequest EXCEPT !.pc = "creator", !.by = {p},
                                                      !.want = {FilterOf(i)}]]
    BY <1>5 DEF ListSnippets
  <2> DEFINE r == [NoRequest EXCEPT !.pc = "creator", !.by = {p}, !.want = {FilterOf(i)}]
  <2>2. FilterOf(i) \in Filter /\ FilterOf(i) \in Filters
    BY FilterOfType DEF Filters
  <2>3. r \in Request /\ ReqOK(r)
    BY <2>2 DEF NoRequest, Request, Pc, Code, ReqOK
  <2>4. Requests'
    BY <1>1, <2>1, <2>3, OneRequest
  <2>5. QED BY <1>4, <1>5, <2>4 DEF ListSnippets
<1>6. CASE FindCreator(h)
  <2>1. lists' = lists /\ req[h].pc = "creator"
    BY <1>6 DEF FindCreator, At
  <2>2. PICK f \in req[h].want, p \in req[h].by :
          \/ Refuse(h, "invalid") \/ Refuse(h, "forbidden") \/ Refuse(h, "internal")
          \/ MayList(p, f) /\ Proceed(h, f)
    BY <1>6 DEF FindCreator
  <2>3. CASE MayList(p, f) /\ Proceed(h, f)
    <3>1. \A g \in req[h].want, q \in req[h].by : MayList(q, g)
      BY <1>1, <2>3 DEF ReqOK
    <3>2. CASE f.vis = "public"
      <4>1. req[h].want \subseteq PublicFilters
        BY <1>1, <3>2 DEF ReqOK, PublicFilters
      <4>2. Goto(h, "lookup")
        BY <2>3, <3>2 DEF Proceed
      <4>3. QED BY <1>1, <1>4, <2>1, <4>1, <4>2, GotoOK
    <3>3. CASE f.vis # "public"
      <4>1. Goto(h, "load")
        BY <2>3, <3>3 DEF Proceed
      <4>2. QED BY <1>1, <1>4, <2>1, <3>1, <4>1, GotoOK
    <3>4. QED BY <3>2, <3>3
  <2>4. CASE \E code \in {"invalid", "forbidden", "internal"} : Refuse(h, code)
    BY <1>1, <1>4, <2>1, <2>4, RefuseOK DEF Code
  <2>5. QED BY <2>2, <2>3, <2>4
<1>7. CASE LookupHit(h)
  <2>1. PICK f \in req[h].want, e \in lists : e.key = Key(f) /\ Reply(h, e.rows)
    BY <1>7 DEF LookupHit
  <2>2. f \in PublicFilters /\ \A g \in req[h].want : g = f
    BY <1>1, <1>7 DEF LookupHit, At, ReqOK
  <2>3. e.rows \in SUBSET Row /\ \A x \in e.rows : Fits(x, f)
    BY <1>1, <2>1, <2>2 DEF Lists, ListOK
  <2>4. \A x \in e.rows : x.vis # "private"
    BY <2>2, <2>3, PublicFits
  <2>5. Requests'
    BY <1>1, <2>1, <2>2, <2>3, <2>4, ReplyOK
  <2>6. QED BY <1>4, <1>7, <2>5 DEF LookupHit
<1>8. CASE LookupMiss(h)
  <2>1. req[h].pc = "lookup" /\ Goto(h, "load") /\ lists' = lists
    BY <1>8 DEF LookupMiss, At
  <2>2. \A f \in req[h].want, p \in req[h].by : MayList(p, f)
    BY <1>1, <2>1 DEF ReqOK, PublicFilters, MayList
  <2>3. QED BY <1>1, <1>4, <2>1, <2>2, GotoOK
<1>9. CASE Load(h)
  <2>1. req[h].pc = "load" /\ lists' = lists
    BY <1>9 DEF Load, At
  <2>2. PICK f \in req[h].want :
          \/ Refuse(h, "notfound") \/ Refuse(h, "internal")
          \/ f.vis = "public" /\ Hold(h, Page(f))
          \/ f.vis # "public" /\ Reply(h, Page(f))
    BY <1>9 DEF Load
  <2>3. f \in Filters /\ \A g \in req[h].want : g = f
    BY <1>1 DEF ReqOK
  <2>4. Page(f) \in SUBSET Row /\ \A x \in Page(f) : Fits(x, f)
    BY PageFits DEF IInv
  <2>5. CASE Refuse(h, "notfound") \/ Refuse(h, "internal")
    BY <1>1, <1>4, <2>1, <2>5, RefuseOK DEF Code
  <2>6. CASE f.vis = "public" /\ Hold(h, Page(f))
    <3>1. req[h].want \subseteq PublicFilters
      BY <2>3, <2>6 DEF PublicFilters
    <3>2. QED BY <1>1, <1>4, <2>1, <2>3, <2>4, <2>6, <3>1, HoldOK
  <2>7. CASE f.vis # "public" /\ Reply(h, Page(f))
    <3>1. f.vis = "private"
      BY <2>3, <2>7, FiltersType DEF Filter, Visibility
    <3>2. \A p \in req[h].by, x \in Page(f) : p.admin \/ p.id = x.creator
      BY <1>1, <2>1, <2>3, <2>4, <3>1 DEF ReqOK, MayList, Fits
    <3>3. QED BY <1>1, <1>4, <2>1, <2>3, <2>4, <2>7, <3>2, ReplyOK
  <2>8. QED BY <2>2, <2>5, <2>6, <2>7
<1>10. CASE Fill(h) \/ Resend(h)
  <2>1. req[h].pc = "fill" /\ req[h].want \subseteq PublicFilters
    BY <1>1, <1>10 DEF Fill, Resend, At, ReqOK
  <2>2. req[h].held \in SUBSET Row /\ \A f \in req[h].want, x \in req[h].held : Fits(x, f)
    BY <1>1, <2>1 DEF Request, ReqOK
  <2>3. Store(h) => Lists'
    BY <1>1, <2>1, <2>2, SetListOK DEF Store
  <2>4. CASE Fill(h)
    <3>1. \A f \in req[h].want, x \in req[h].held : x.vis # "private"
      BY <2>1, <2>2, PublicFits
    <3>2. Requests'
      BY <1>1, <2>2, <2>4, <3>1, ReplyOK DEF Fill
    <3>3. QED BY <1>4, <2>3, <2>4, <3>2 DEF Fill
  <2>5. CASE Resend(h)
    <3>1. req' = req
      BY <2>5 DEF Resend
    <3>2. Requests'
      BY <1>1, <3>1 DEF Requests, ReqOK, MayList, Fits, Filters, PublicFilters
    <3>3. QED BY <2>3, <2>5, <3>2 DEF Resend
  <2>6. QED BY <1>10, <2>4, <2>5
<1>11. QED
  BY <1>5, <1>6, <1>7, <1>8, <1>9, <1>10 DEF Step

\* So do the writes of other requests and the clock of Redis.
LEMMA EnvironmentInv ==
    ASSUME IInv, Write \/ Tick \/ UNCHANGED vars
    PROVE  IInv'
<1>1. req' = req
  BY DEF Write, InsertRow, ChangeRow, DeleteRow, DeleteUser, Tick, vars
<1>2. Requests'
  BY <1>1 DEF IInv, Requests, ReqOK, MayList, Fits, Filters, PublicFilters
<1>3. lists' = lists => Lists'
  BY DEF IInv, Lists, ListOK, Fits, PublicFilters, Filters
<1>4. CASE InsertRow
  BY <1>2, <1>3, <1>4 DEF IInv, InsertRow
<1>5. CASE ChangeRow
  <2>1. \A x \in Row, vis \in Visibility, facets \in SUBSET Facet :
          [x EXCEPT !.vis = vis, !.facets = facets] \in Row
    BY DEF Row
  <2>2. QED BY <1>2, <1>3, <1>5, <2>1 DEF IInv, ChangeRow
<1>6. CASE DeleteRow \/ \E u \in User : DeleteUser(u)
  BY <1>2, <1>3, <1>6 DEF IInv, DeleteRow, DeleteUser
<1>7. CASE Tick
  <2>1. lists' = {[e EXCEPT !.ttl = @ - 1] : e \in {c \in lists : c.ttl > 1}}
    BY <1>7 DEF Tick
  <2>2. ASSUME NEW e \in lists, e.ttl > 1,
               NEW d, d = [e EXCEPT !.ttl = @ - 1]
        PROVE  ListOK(d)
    BY <2>2, ListAssumption DEF IInv, Lists, ListOK, ListAssumption
  <2>3. \A c, d \in lists' : c.key = d.key => c = d
    <3>1. SUFFICES ASSUME NEW c \in lists', NEW d \in lists', c.key = d.key PROVE c = d
      OBVIOUS
    <3>2. PICK b \in lists : c = [b EXCEPT !.ttl = @ - 1]
      BY <2>1
    <3>3. PICK e \in lists : d = [e EXCEPT !.ttl = @ - 1]
      BY <2>1
    <3>4. c.key = b.key /\ d.key = e.key
      BY <3>2, <3>3
    <3>5. QED BY <3>1, <3>2, <3>3, <3>4 DEF IInv, Lists
  <2>4. Lists'
    BY <2>1, <2>2, <2>3 DEF Lists, ListOK, Fits, PublicFilters, Filters
  <2>5. QED BY <1>2, <1>7, <2>4 DEF IInv, Tick
<1>8. CASE UNCHANGED vars
  BY <1>2, <1>3, <1>8 DEF IInv, vars
<1>9. QED BY <1>4, <1>5, <1>6, <1>7, <1>8 DEF Write

LEMMA Invariance == Spec => []IInv
<1>1. Init => IInv
  BY DEF Init, IInv, Lists, Requests, NoRequest, Request, Pc, Code, ReqOK
<1>2. IInv /\ [Next]_vars => IInv'
  BY RequestInv, EnvironmentInv DEF Next
<1>3. QED BY <1>1, <1>2, PTL DEF Spec

\* Every variable has its type, a key holds one list, and every list expires
\* (service.go:214-217).
THEOREM TypeCorrect == Spec => []TypeOK
<1>1. IInv => TypeOK
  BY DEF IInv, TypeOK, Lists, ListOK, Requests
<1>2. QED BY <1>1, Invariance, PTL

\* A list answered 200 fits its filter, and private rows reach their creator and admins
\* only, for any table, any filters and any number of requests (service.go:162-219).
THEOREM OnlyOwnListsArePrivate == Spec => []ListedToTheRightReader
<1>1. IInv => ListedToTheRightReader
  BY DEF IInv, Requests, ReqOK, ListedToTheRightReader, Answered
<1>2. QED BY <1>1, Invariance, PTL

-----------------------------------------------------------------------------
\* What is answerable changes with the lists that are loaded and stored.

LEMMA SameCurrent ==
    ASSUME table' = table
    PROVE  Current' = Current
BY DEF Current, Page, Matching, Rank, Filters

\* The lists about to be stored, after a step of one handler.
LEMMA LessInFill ==
    ASSUME Requests, NEW h \in Handler, req'[h].pc # "fill",
           \A g \in Handler \ {h} : req'[g] = req[g]
    PROVE  InFill' \subseteq InFill
BY DEF InFill, At

LEMMA SameInCache ==
    ASSUME lists' = lists
    PROVE  InCache' = InCache
BY DEF InCache, PublicFilters, Filters

\* A list stored under its key is answerable to its filter alone.
LEMMA StoredWasHeld ==
    ASSUME IInv, NEW h \in Handler, req[h].pc = "fill", Store(h)
    PROVE  InCache' \subseteq InCache \cup InFill
<1>1. req[h].want \subseteq PublicFilters
  BY DEF IInv, Requests, ReqOK
<1>2. PICK f \in req[h].want : SetList(f, req[h].held)
  BY DEF Store
<1>3. \A g \in PublicFilters : Key(g) = Key(f) => g = f
  BY <1>1, KeyInjective, FiltersType
<1>4. ASSUME NEW e \in lists', NEW g \in PublicFilters, Key(g) = e.key
      PROVE  <<g, e.rows>> \in InCache \cup InFill
  <2>1. CASE e \in lists
    BY <1>4, <2>1 DEF InCache
  <2>2. CASE e = [key |-> Key(f), rows |-> req[h].held, ttl |-> ListCacheTTL]
    <3>1. g = f /\ e.rows = req[h].held
      BY <1>3, <1>4, <2>2
    <3>2. QED BY <3>1 DEF InFill, At
  <2>3. QED BY <1>2, <1>4, <2>1, <2>2 DEF SetList
<1>5. PublicFilters' = PublicFilters
  BY DEF PublicFilters, Filters
<1>6. QED BY <1>4, <1>5 DEF InCache

\* A list becomes answerable only by being the table's own answer to that filter.
LEMMA AnswerableStep ==
    ASSUME IInv, [Next]_vars
    PROVE  Answerable' \subseteq Answerable \cup Current'
<1> DEFINE Left(h) == req'[h].pc # "fill" /\ \A g \in Handler \ {h} : req'[g] = req[g]
<1> DEFINE Next0 == Answerable' \subseteq Answerable \cup Current'
<1>1. Next0
  <2>1. Requests /\ \A h \in Handler : req[h] \in Request /\ ReqOK(req[h])
    BY DEF IInv, Requests
  <2>2. /\ \A h \in Handler, pc \in {"lookup", "load"} : Goto(h, pc) => Left(h)
        /\ \A h \in Handler : \A rows : Reply(h, rows) => Left(h)
        /\ \A h \in Handler : \A code : Refuse(h, code) => Left(h)
    <3>1. ASSUME NEW h \in Handler, NEW pc \in {"lookup", "load"}, Goto(h, pc) PROVE Left(h)
      BY <2>1, <3>1 DEF Goto, Requests, Request
    <3>2. ASSUME NEW h \in Handler, NEW rows, Reply(h, rows) PROVE Left(h)
      BY <2>1, <3>2 DEF Reply, Requests, Request
    <3>3. ASSUME NEW h \in Handler, NEW code, Refuse(h, code) PROVE Left(h)
      BY <2>1, <3>3 DEF Refuse, NoRequest, Requests, Request
    <3>4. QED BY <3>1, <3>2, <3>3
  <2>3. ASSUME NEW h \in Handler,
               ListSnippets(h) \/ FindCreator(h) \/ LookupHit(h) \/ LookupMiss(h)
        PROVE  Next0
    <3>1. lists' = lists /\ Left(h)
      <4>1. CASE ListSnippets(h)
        BY <2>1, <4>1 DEF ListSnippets, NoRequest, Requests
      <4>2. CASE FindCreator(h)
        BY <2>2, <4>2 DEF FindCreator, Proceed
      <4>3. CASE LookupHit(h)
        BY <2>2, <4>3 DEF LookupHit
      <4>4. CASE LookupMiss(h)
        BY <2>2, <4>4 DEF LookupMiss
      <4>5. QED BY <2>3, <4>1, <4>2, <4>3, <4>4
    <3>2. QED BY <2>1, <3>1, SameInCache, LessInFill DEF Answerable
  <2>4. ASSUME NEW h \in Handler, Load(h) PROVE Next0
    <3>1. lists' = lists /\ table' = table /\ \A g \in Handler \ {h} : req'[g] = req[g]
      BY <2>1, <2>4 DEF Load, Hold, Reply, Refuse, Requests
    <3>2. PICK f \in req[h].want :
            \/ Refuse(h, "notfound") \/ Refuse(h, "internal") \/ Reply(h, Page(f))
            \/ Page(f) # {} /\ Hold(h, Page(f))
      BY <2>4 DEF Load
    <3>3. CASE Page(f) # {} /\ Hold(h, Page(f))
      <4>1. req'[h].want = req[h].want /\ req'[h].held = Page(f)
        BY <2>1, <3>3 DEF Hold, Requests, Request
      <4>2. f \in Filters /\ \A g \in req[h].want : g = f
        BY <2>1 DEF ReqOK
      <4>3. <<f, Page(f)>> \in Current
        BY <3>3, <4>2 DEF Current
      <4>4. InFill' \subseteq InFill \cup Current
        BY <3>1, <4>1, <4>2, <4>3 DEF InFill, At
      <4>5. QED BY <3>1, <4>4, SameInCache DEF Answerable
    <3>4. CASE ~ (Page(f) # {} /\ Hold(h, Page(f)))
      <4>1. req'[h].pc = "idle"
        BY <2>1, <3>2, <3>4 DEF Reply, Refuse, NoRequest, Requests, Request
      <4>2. QED BY <2>1, <3>1, <4>1, SameInCache, LessInFill DEF Answerable
    <3>5. QED BY <3>3, <3>4
  <2>5. ASSUME NEW h \in Handler, Fill(h) \/ Resend(h) PROVE Next0
    <3>1. req[h].pc = "fill"
      BY <2>5 DEF Fill, Resend, At
    <3>2. InCache' \subseteq InCache \cup InFill
      BY <2>5, <3>1, StoredWasHeld, SameInCache DEF Fill, Resend
    <3>3. InFill' \subseteq InFill
      <4>1. CASE Fill(h)
        <5>1. req'[h].pc = "idle" /\ \A g \in Handler \ {h} : req'[g] = req[g]
          BY <2>1, <4>1 DEF Fill, Reply, Requests, Request
        <5>2. QED BY <2>1, <5>1, LessInFill
      <4>2. CASE Resend(h)
        BY <4>2 DEF Resend, InFill, At
      <4>3. QED BY <2>5, <4>1, <4>2
    <3>4. QED BY <3>2, <3>3 DEF Answerable
  <2>6. CASE Write \/ UNCHANGED vars
    <3>1. lists' = lists /\ req' = req
      BY <2>6 DEF Write, InsertRow, ChangeRow, DeleteRow, DeleteUser, vars
    <3>2. InFill' = InFill
      BY <3>1 DEF InFill, At
    <3>3. QED BY <3>1, <3>2, SameInCache DEF Answerable
  <2>7. CASE Tick
    <3>1. req' = req /\ \A e \in lists' : \E d \in lists : e.key = d.key /\ e.rows = d.rows
      BY <2>7 DEF Tick, IInv, Lists, ListOK
    <3>2. InFill' = InFill
      BY <3>1 DEF InFill, At
    <3>3. InCache' \subseteq InCache
      BY <3>1 DEF InCache, PublicFilters, Filters
    <3>4. QED BY <3>2, <3>3 DEF Answerable
  <2>8. QED
    BY <2>3, <2>4, <2>5, <2>6, <2>7 DEF Next, Step
<1>2. QED BY <1>1

-----------------------------------------------------------------------------
\* The answers given, after a step of one handler.

LEMMA ServedOnly ==
    ASSUME NEW h \in Handler, \A g \in Handler \ {h} : req'[g] = req[g]
    PROVE  Served' = [Served EXCEPT ![h] = Served'[h]]
BY DEF Served, Answered

\* A step that answers nobody is a change of the table, or makes answers forgotten.
LEMMA NoAnswer ==
    ASSUME IInv, [Next]_vars, Served' = Served
    PROVE  Reads!Next
<1>1. Answerable' \subseteq Answerable \cup Current' /\ Current' \subseteq Answerable'
  BY AnswerableStep DEF Answerable
<1>2. QED BY <1>1 DEF Reads!Next, Reads!Change

\* A reply with rows that are answerable to its filter.
LEMMA AnswerIs ==
    ASSUME IInv, [Next]_vars, NEW h \in Handler, NEW rows, NEW f \in req[h].want,
           Reply(h, rows), <<f, rows>> \in Answerable, table' = table
    PROVE  Reads!Next
<1>1. req \in [Handler -> Request] /\ req[h] \in Request /\ req[h].want = {f}
  BY DEF IInv, Requests, ReqOK
<1>2. /\ req'[h].code = "ok" /\ req'[h].held = rows /\ req'[h].want = {f}
      /\ \A g \in Handler \ {h} : req'[g] = req[g]
  BY <1>1 DEF Reply, Request
<1>3. Served'[h] = {<<f, rows>>}
  BY <1>2 DEF Served, Answered
<1>4. Served' = [Served EXCEPT ![h] = {<<f, rows>>}]
  BY <1>2, <1>3, ServedOnly
<1>5. Current' = Current /\ Answerable' \subseteq Answerable /\ Current \subseteq Answerable'
  BY SameCurrent, AnswerableStep DEF Answerable
<1>6. QED BY <1>4, <1>5 DEF Reads!Next, Reads!Serve

\* A step in the middle of a request, or its refusal, answers nothing.
LEMMA SilentIs ==
    ASSUME IInv, NEW h \in Handler, req[h].pc # "idle",
           \/ \E pc \in {"lookup", "load"} : Goto(h, pc)
           \/ \E rows : Hold(h, rows)
           \/ \E code : code # "ok" /\ Refuse(h, code)
    PROVE  Served' = Served
<1>1. req \in [Handler -> Request] /\ req[h] \in Request /\ req[h].code = "none"
  BY DEF IInv, Requests, ReqOK
<1>2. \A g \in Handler \ {h} : req'[g] = req[g]
  BY <1>1 DEF Goto, Hold, Refuse
<1>3. req'[h].code # "ok"
  <2>1. CASE \E pc \in {"lookup", "load"} : Goto(h, pc)
    BY <1>1, <2>1 DEF Goto, Request
  <2>2. CASE \E rows : Hold(h, rows)
    BY <1>1, <2>2 DEF Hold, Request
  <2>3. CASE \E code : code # "ok" /\ Refuse(h, code)
    BY <1>1, <2>3 DEF Refuse, NoRequest
  <2>4. QED BY <2>1, <2>2, <2>3
<1>4. Served[h] = {} /\ Served'[h] = {}
  BY <1>1, <1>3 DEF Served, Answered
<1>5. QED BY <1>2, <1>4, ServedOnly DEF Served

\* Every list answered is, when it is answered, what the table says or has said of that
\* very filter and was never given up in between, for any filters, tables and
\* interleavings of requests, writes and expiries (service.go:154-219, 316-341).
THEOREM KeepsListPromise == Spec => ListPromise
<1>1. Init => Reads!Init
  <2>1. SUFFICES ASSUME Init PROVE Reads!Init
    OBVIOUS
  <2>2. \A f : Page(f) = {}
    BY <2>1 DEF Init, Page, Matching
  <2>3. Current = {} /\ InCache = {}
    BY <2>1, <2>2 DEF Init, Current, InCache
  <2>4. \A h \in Handler : req[h].pc = "idle" /\ req[h].code = "none"
    BY <2>1 DEF Init, NoRequest
  <2>5. InFill = {} /\ Served = [h \in Handler |-> {}]
    BY <2>4 DEF InFill, At, Served, Answered
  <2>6. QED BY <2>3, <2>5 DEF Reads!Init, Answerable
<1>2. IInv /\ [Next]_vars => [Reads!Next]_(Reads!vars)
  <2>1. SUFFICES ASSUME IInv, [Next]_vars PROVE Reads!Next
    OBVIOUS
  <2>2. \A h \in Handler : /\ req[h] \in Request /\ ReqOK(req[h])
                           /\ req \in [Handler -> Request]
    BY <2>1 DEF IInv, Requests
  <2>3. ASSUME NEW h \in Handler, ListSnippets(h) PROVE Reads!Next
    <3>1. PICK i \in Input, p \in Principal :
            req' = [req EXCEPT ![h] = [NoRequest EXCEPT !.pc = "creator", !.by = {p},
                                                        !.want = {FilterOf(i)}]]
      BY <2>3 DEF ListSnippets
    <3>2. /\ req'[h].pc = "creator" /\ req'[h].code = "none"
          /\ \A g \in Handler \ {h} : req'[g] = req[g]
      BY <2>2, <3>1 DEF NoRequest
    <3>3. Served' = [Served EXCEPT ![h] = {}]
      <4>1. Served'[h] = {}
        BY <3>2 DEF Served, Answered
      <4>2. QED BY <3>2, <4>1, ServedOnly
    <3>4. req[h].pc = "idle" /\ UNCHANGED <<table, lists>>
      BY <2>3 DEF ListSnippets, At
    <3>5. InFill' = InFill
      BY <3>2, <3>4 DEF InFill, At
    <3>6. Current' = Current /\ Answerable' = Answerable
      BY <3>4, <3>5, SameCurrent, SameInCache DEF Answerable
    <3>7. QED BY <3>3, <3>6 DEF Reads!Next, Reads!Retire
  <2>4. ASSUME NEW h \in Handler, FindCreator(h) PROVE Reads!Next
    <3>1. /\ req[h].pc # "idle"
          /\ \/ \E pc \in {"lookup", "load"} : Goto(h, pc)
             \/ \E code : code # "ok" /\ Refuse(h, code)
      BY <2>4 DEF FindCreator, Proceed, At
    <3>2. QED BY <2>1, <3>1, SilentIs, NoAnswer
  <2>5. ASSUME NEW h \in Handler, LookupHit(h) PROVE Reads!Next
    <3>1. PICK f \in req[h].want, e \in lists : e.key = Key(f) /\ Reply(h, e.rows)
      BY <2>5 DEF LookupHit
    <3>2. f \in PublicFilters /\ table' = table
      BY <2>2, <2>5 DEF LookupHit, At, ReqOK
    <3>3. <<f, e.rows>> \in Answerable
      BY <3>1, <3>2 DEF InCache, Answerable
    <3>4. QED BY <2>1, <3>1, <3>2, <3>3, AnswerIs
  <2>6. ASSUME NEW h \in Handler, LookupMiss(h) PROVE Reads!Next
    <3>1. req[h].pc # "idle" /\ Goto(h, "load")
      BY <2>6 DEF LookupMiss, At
    <3>2. QED BY <2>1, <3>1, SilentIs, NoAnswer
  <2>7. ASSUME NEW h \in Handler, Load(h) PROVE Reads!Next
    <3>1. req[h].pc # "idle" /\ table' = table
      BY <2>7 DEF Load, At
    <3>2. PICK f \in req[h].want :
            \/ Refuse(h, "notfound") \/ Refuse(h, "internal") \/ Hold(h, Page(f))
            \/ Page(f) # {} /\ Reply(h, Page(f))
      BY <2>7 DEF Load
    <3>3. CASE Page(f) # {} /\ Reply(h, Page(f))
      <4>1. f \in Filters
        BY <2>2 DEF ReqOK
      <4>2. <<f, Page(f)>> \in Answerable
        BY <3>3, <4>1 DEF Current, Answerable
      <4>3. QED BY <2>1, <3>1, <3>3, <4>2, AnswerIs
    <3>4. CASE Refuse(h, "notfound") \/ Refuse(h, "internal") \/ Hold(h, Page(f))
      <4>1. Served' = Served
        BY <2>1, <3>1, <3>4, SilentIs
      <4>2. QED BY <2>1, <4>1, NoAnswer
    <3>5. QED BY <3>2, <3>3, <3>4
  <2>8. ASSUME NEW h \in Handler, Fill(h) PROVE Reads!Next
    <3>1. At(h, "fill") /\ Reply(h, req[h].held) /\ table' = table
      BY <2>8 DEF Fill
    <3>2. PICK f \in req[h].want : TRUE
      BY <2>2, <3>1 DEF ReqOK, At
    <3>3. <<f, req[h].held>> \in Answerable
      BY <3>1 DEF InFill, Answerable
    <3>4. QED BY <2>1, <3>1, <3>3, AnswerIs
  <2>9. CASE Write \/ Tick \/ UNCHANGED vars \/ \E h \in Handler : Resend(h)
    <3>1. req' = req
      BY <2>9 DEF Write, InsertRow, ChangeRow, DeleteRow, DeleteUser, Tick, vars, Resend
    <3>2. Served' = Served
      BY <3>1 DEF Served, Answered
    <3>3. QED BY <2>1, <3>2, NoAnswer
  <2>10. QED
    BY <2>1, <2>3, <2>4, <2>5, <2>6, <2>7, <2>8, <2>9 DEF Next, Step
<1>3. QED BY <1>1, <1>2, Invariance, PTL DEF Spec, ListPromise, Reads!Spec
=============================================================================
