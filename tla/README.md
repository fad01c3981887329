# A specification of the Sniply API

Sniply is an HTTP service, written in Go, that stores code snippets: users sign up, log in, make API
keys, and write and read snippets. This directory holds TLA+ modules of the parts in which steps of
several requests can meet, TLC configurations that check them on small instances, and proofs, checked
by TLAPS, that the safety properties hold for every value of the constants. Paths such as
`snippets/service.go` are below `src/src/internal/`; `PROJECT.json` maps each definition to its lines.

## 1. The system

One process. `net/http` runs every request in its own goroutine. A request goes through the router and
the authentication middleware to a service, which calls Postgres (a pool of ten connections, 3 s for
each call) and Redis. Besides the pool and the server itself the process keeps no mutable state of its
own: all that requests share is in the two stores, and none of the services opens a transaction over more than one statement
(`db.Base.WithTx` has no caller). So the unit of interleaving is one statement or one Redis command,
and everything that takes two of them can be cut in the middle by another request, a lost reply or the
end of the client's connection.

| Component | State it keeps | Operations | Talks to |
|---|---|---|---|
| Snippet service (`snippets/service.go`, `repository.go`, `cache_redis.go`) | table `snippets`; Redis keys `sniply:cache:snippet:<id>` with a TTL (2 min) | GetByID (cache, table, cache), Create, Update and Delete (statement, then DEL) | Postgres, Redis; principal from the middleware |
| Snippet lists (same files) | Redis keys `sniply:cache:snippet:list:<filter>` with a TTL (30 s) | List | Postgres, Redis, users |
| Sessions (`session/session.go`, `store_redis.go`) | Redis keys `sniply:session:<id>`, TTL 7 days | Create, Get, Refresh, Delete | Redis |
| Auth service (`auth/service.go`) | none | Login, Logout, AuthenticateSession, AuthenticateAPIKey | limiter, users, sessions, API keys |
| Login limiter (`ratelimit/limiter.go`) | Redis counters `sniply:ratelimit:login:{ip,email}:<..>`, window 1 min, limit 5 | Allow: one Lua script | Redis |
| Users (`users/`) | table `users` | Create, Me, List, UpdateSelf/ByID, DeleteSelf/ByID | Postgres; a delete cascades to snippets and keys |
| API keys (`apikeys/`) | table `api_keys` | Create, List, Revoke, GetByTokenHash | Postgres (joins `users`) |
| HTTP (`httpapi/`) | none | routes, middleware, decoding, validation | all services |
| Cookies (`session/cookie.go`, `middleware_auth.go`) | the browser's session and CSRF cookies | written at login and refresh, cleared at logout | the client |
| Start and shutdown (`cmd/api/main.go`) | server, pool and Redis client | signal, Shutdown (15 s), Close, 5 s wait, deferred closes | everything |
| Database access (`db/`) | ten connections | calls with a deadline, closing the pool | Postgres |
| Telemetry (`telemetry/`) | the metrics exported last | counts of users and snippets, through the pool | Postgres, Redis |
| Health, environment, docs | none that a request depends on | | |

### What is hard here

* A read-through cache that is invalidated after the write: the fill of a slow reader, a DEL that
  fails, a reply that is lost, and a cascade that no cache hears of, all leave an old row cached.
* A session is read, vetted and written back whole; a logout is a DEL that can fall in between.
* A session carries a copy of its user's role; an API key is read anew on every request.
* Check and act in two statements: the DELETE of a snippet, the revocation of a key, the login.
* Counters, keys, cached rows and lists that only time removes: what must happen in the end, and how soon.
* Answers of concurrent requests reach a browser in any order, and each may set one cookie or two.
* Three places bring emails and passwords into one form, each on its own.
* A shutdown meets requests that wait for a client, for a connection, or for Postgres.
* Any call may fail before or after it took effect.

### What makes each component correct

* Snippets: private rows are never served; what is stale is so for a known cause and not for ever; only
  the creator deletes.
* Sessions: whoever is let through is the user who logged in; nothing stretches a session over the
  hard limit; a session that is gone for good stays gone.
* Limiter: a bound on the attempts in any stretch of time; nobody is locked out for ever.
* Users and keys: emails and ids are unique, a key has an owner, a closed key is refused, and only an
  admin makes an admin.
* Lists: two filters never share a cached answer, and a cached list does not outlive its time to live.
* Credentials: an email is one account's, and its owner, who alone gets in, gets in.
* Cookies: two that fit are not parted by late answers, and two that do not are mended by the next read.
* Shutdown: it ends, and what requests use is closed after them. The pool loses no connection.

The hazards, each with its line in the code and the properties that would notice it going wrong, are in
`PROJECT.json` under `hazards`.

## 2. The modules

| Module | Models | Kind |
|---|---|---|
| `SnippetReads` | what GET of a snippet promises its readers | abstract |
| `SnippetCache` | the snippet service, its table and its cache | detailed; implements `SnippetReads` |
| `SnippetDeletion` | `SnippetCache` with a client's history of DELETEs | history only |
| `SessionLifetime` | what a session promises | abstract |
| `Sessions` | session manager and store, as the auth service drives them | detailed; implements `SessionLifetime` |
| `SessionLogout` | `Sessions` with a client's history of logouts | history only |
| `LoginLimiter` | the limiter and the two calls a login makes of it | detailed |
| `LoginRetry` | `LoginLimiter` with clients that keep to Retry-After | extends `LoginLimiter` |
| `Accounts` | users, API keys, and the principal of a request | detailed |
| `Credentials` | emails and passwords from sign-up and PUT to the login | detailed |
| `ListReads` | what GET of a list promises its readers | abstract |
| `SnippetLists` | the list of snippets, its cache and its keys | detailed; implements `ListReads` |
| `CookieJar` | a browser's two cookies and the page's token | detailed; sessions as in `SessionLifetime` |
| `DbPool` | the connection pool and the calls of the repositories | detailed |
| `Server` | start, serving, shutdown, with `DbPool` as its pool | composition; implements `DbPool` |
| `MC*` | the symmetry sets and inputs of the instances TLC checks | |
| `*Proofs` | theorems about the module of that name; those of `LoginRetry` are in `LoginLimiterProofs`, those of `DbPool` in `ServerProofs` | |

In every module of requests `Handler` is the set of goroutines and `req[h]` is what handler `h` knows: the
phase `pc` it is in, its input and the copies it holds. One action is one call of Postgres or Redis with
the tests the code makes on its result, up to the next call. With `Faults` a call may fail, before or
after it took effect, and a Redis command whose reply is lost may be sent again (`Resend`: `main.go:51`
leaves the retries of the Redis client at their default of three; the models set no limit). An idle
handler may keep the outcome of its last request, which is what the properties look at. Definitions whose
names begin with `Bug` are plausible slips of the code (a forgotten test, a DEL of the wrong key); no
specification uses them, they are there to show that each property notices one.

**SnippetCache.** `GetByID` is `LookupHit`/`LookupMiss`, `Load`, `Fill`; `Create` is `Insert`; `Update`
is `Update`, `Invalidate`; `Delete` is `Check`, `Remove`, `Invalidate`; the deletion of a user is
`DeleteUser` with its cascade; `Tick` ages the cache and `Resend` repeats a SET or a DEL. A row's content
is the number of the write that gave it, so two versions are never confused. Two histories are kept:
`written`, the rows ever committed, and `excused`, the ids for which something has happened that allows
the cache to lag.

**Sessions.** `Login` and `Set` are Create; `Present`, `Get`, `Vet`, `Discard`, `Refresh` and `Set` are the
path of a request through middleware, AuthenticateSession, Manager.Get and Manager.Refresh; `Logout` is
one DEL, for which the route asks no authentication (`router.go:43`). `clock` is the clock of the process
and of Redis alike. The age of a session is tested twice, at two readings of the clock, as in the code.
The role is part of the user here; that it is a copy is the business of `Accounts`.

**LoginLimiter.** `Run` is the Lua script. `PassIp` and `PassEmail` are the two calls, `Resend` a run
that the client repeats; a login whose address is not known skips the first. Counts above `Limit + 1` are
one value, as the script tells none of them apart. The observer (`Look`, `left`, `seen`) counts what
passes in a stretch of one window's length that begins at any time; no other action depends on it.

**Accounts.** A request gets its principal from a session (`BySession`; the principal is what `Login`
read from the table) or from a key (`ByKey`, `Authenticate`; the role is the owner's of now) and then acts:
`UpdateUser`, `DeleteUser`, `CreateKey`, `FindKey` and `RevokeKey`, `Read`. Only a session may make or
revoke keys, as in the router. Status codes are not kept. `closed` is a history: the keys whose
revocation, or whose owner's deletion, was answered with success.

**Credentials.** A text is what was typed: the word, and whether it was typed bare, without capitals or
space around it. `Signup`, `UpdateUser` and `DeleteUser` are whole requests, for each is one statement;
`PostLogin`, `Verify` and `OpenSession` are a login, past the limiter. `Long` are the passwords with more
than bcrypt's 72 bytes and `Cut` gives the one it reads in place of them. `granted` is a history: what the
clients of sign-ups and PUTs believe their credentials to be. `ever` and `always` say of a login whether
its pair was among them at some time, or all the time, since it came.

**SnippetLists.** A list without rows is answered 404 and stored nowhere, as in the code (`service.go:209-211`).
`ListSnippets` parses the query string into a filter (`FilterOf`); `FindCreator` looks the
creator up and vets the reader; `LookupHit`/`LookupMiss`, `Load` and `Fill` are the cache and the table.
`Key` is the key of a filter as the set of its parameters: `url.Values` escapes and sorts, so the string
tells them apart. A list is the set of its rows, a `Page` of the rows in the order of `created_at`. Texts,
languages and tags are facets: a row has the facets that find it. The handler takes one tag, so the tags
joined by commas are one value. Other requests change the table as they like, within what
`SnippetCache` lets them: POST, PUT, DELETE and a user's deletion touch no cached list.

**CookieJar.** A token is named by the session it was drawn for. `Send` takes the cookies of now, `Arrive`
applies an answer's, and what lies between is the server's step: `Login`, `Logout`, `CSRFToken`, `Read`,
`Write`, or `Refuse`, which stands for every answer that touches no cookie. A session that is gone may
come back only through a request that was under way (`Logout`), as in `SessionLogout`. `Lose` and
`DropCookie` are the network's and the browser's. The cookies are `Calm` when they fit and all that is under
way is of the jar's session; `StaysSettled` says that only a login, a logout or an expired cookie ends that. A read is
`Mending` that was sent with cookies that do not fit, in such a state; `OneReadMends` follows it and its answer. That a
write is let through with its own login's token only is `SameLogin` of `Sessions`.

**DbPool** and **Server.** A call waits for a connection, runs, may read rows, and ends; the deadline covers
the wait. `Server` takes the pool's actions in steps of its own: handlers and the metrics reader are its
clients, `HangUp` is what Close does to requests, and `Close`/`Closed` are the deferred `Pool.Close`, which
waits for every connection. All that `Server` does to the pool is a step of `DbPool` or none
(`ImplementsPool`), so what holds of the pool alone holds of it in the process. `main` is a program counter. A handler waits for its body without a deadline
(`main.go:137` sets one for headers only), then calls the database any number of times.

**LoginRetry.** A refused client waits for as many seconds as the header says; a second has `Second` ticks, a
counter lives for any number of them. One client is watched, among others that keep to nothing; `refused`
counts how often in a row a key has refused it although it waited, and nobody else has used the key since.

The modules share no variables, but for `Server` and its `DbPool`: sessions appear in `Accounts` as a set of principals that any step may
shrink (`CloseSession`), and the snippets that a deleted user owned appear in `SnippetCache` as
`DeleteUser`; in `CookieJar` sessions are a set that logins extend and any step may shrink; the table of
`SnippetLists` may change in every way that `SnippetCache`'s does; a call that `DbPool` ends with an error
is a fault in all the others. Each of these is all that the other component can do.

## 3. The runs

| Run | Question | Instance | Result |
|---|---|---|---|
| `snippet_cache` | `TypeOK`, `ServedWasPublic`, `StaleHasCause`, `RemovedByCreator`, `ReadsPromise` (refinement) | 3 handlers, 1 snippet, 2 users, 2 writes, TTL 2, faults | holds |
| `snippet_fresh` | `EventuallyFresh` (liveness) | 2 handlers, 1 snippet, 2 users, 2 writes, TTL 2, faults | holds |
| `snippet_deletion` | `GoneAfterDelete` | 2 handlers, 1 snippet, no faults | **violated** |
| `sessions` | `TypeOK`, `SameLogin`, `HardClose`, `EndsForCause`, `LifetimePromise` (refinement) | 2 handlers, 2 sessions, 2 users, 3 ticks, TTL 2, MaxAge 2, faults | holds |
| `session_logout` | `LoggedOutStaysOut` | 2 handlers, 1 session, no faults | **violated** |
| `login_limiter` | `TypeOK`, `AtMostTwice`, `WaitOnlyShrinks`, `TwiceRefused`, `Released` (liveness) | 2 handlers, one of them watched, 1 address, 1 email, limit 2, window 3, second 2, faults | holds |
| `snippet_lists` | `TypeOK`, `ListedToTheRightReader`, `ListPromise` (refinement), `EventuallyFresh` of the lists (liveness) | 2 handlers, 1 snippet, 2 users, 1 tag, 3 queries, TTL 2, faults | holds |
| `credentials` | `TypeOK`, `OneAccountPerEmail`, `LoginMeansPassword`, `OwnerGetsIn` | 1 handler, 2 ids, 2 emails, 3 passwords, faults | holds |
| `cookie_jar` | `TypeOK`, `StaysSettled`, `OneReadMends`, `CookiesSettle` (liveness) | 2 connections, 2 logins | holds |
| `server` | `TypeOK`, `ClosedAfterRequests`, `NoStatementCutOff`, `Exits`, `EveryCallEnds` (both liveness) | 2 handlers and the reader, 1 connection, timeout 1, grace 1, faults | holds |
| `server_gauge` | `LastGaugeIsTotal` | 1 handler and the reader, 2 connections, no faults | **violated** |
| `accounts` | `TypeOK`, `ClosedStaysOut`, `AdminsAreMade` | 2 handlers, 2 users (one an admin), 2 emails, 1 key, faults | holds |

Why these bounds. A stale fill needs a reader and a writer; the third handler of `snippet_cache` lets a
second writer or a DELETE join in. One snippet is enough, for all keys of the model are independent. Two
writes give a row that is replaced, or made private, once (`MaxRev`); a snippet that is deleted is never
written again, since ids are not drawn twice. A TTL of 2 lets a key outlive one tick and expire at the next.
In `sessions` a session is due for a refresh after one tick, so it outlives its first `TTL`, and with it
`MaxAge`, by the last tick of a run, when its key is still there and only the test of its age ends it; the other request may refresh or log out meanwhile. In
`login_limiter` a limit of 2 tells the limit from the first attempt, a window of 3 lets an observed stretch
straddle two windows, and a second of 2 does not divide it, so the header leaves a fraction out; the other
handler, the clock and the observer meet the watched client in every order. In `accounts` two emails,
one key and one admin who can be demoted suffice for the races between two requests. `snippet_lists` has two
requests whose lists could reach each other's key, by tag and offset, and a private list that only its
creator and admins may have; a page beyond the first is empty there, and that pages of any tables are the
table's own is proved. In `credentials` logins write nothing, so one at a time is enough; one password is too
long for bcrypt and begins with another. Two logins and two requests under way give every mix of two sessions'
cookies. A pool smaller than its clients is always at its limit, and in `server` its one connection may be held
by a request or by the reader when the pool is closed; a call that waits for it until the deadline shows
that the wait counts. The proofs of section 5 do not depend on any of these values.

Deadlock is checked in every run but those of `Server`, where the process ends.

### The three violations

* **A deleted snippet is served** (`snippet_deletion`). GET loads the public row; DELETE removes it,
  invalidates the (empty) key and is answered 204; GET stores the row. The next GET is answered 200 from
  the cache for up to `SNIPPETS_CACHE_TTL`. `integration/api_test.go:591-595` requires 404. The same
  order with a PUT serves the replaced row, also if the PUT made it private.
* **A logout is undone** (`session_logout`). A request reads the session; a logout deletes it and is
  answered 204; the request, whose session is due for a refresh, stores its copy again. The next request
  with that cookie is let through. `integration/api_test.go:310-316` requires 401.
* **The last number of users is 0** (`server_gauge`). The deferred calls of `main` close Redis and the pool
  before the metrics are shut down (`main.go:36, 45, 52`), and the shutdown collects once more; `queryCount`
  answers a closed pool's error with 0, and the gauge "Total users" (`appmetrics.go:25`) is left at it.

What still holds in the first two cases is checked and proved: `ServedWasPublic`, `StaleHasCause` and
`ReadsPromise` for the first, `HardClose` and `LifetimePromise` for the second (only a request that had
read the session before can bring it back, and never beyond the hard limit).

## 4. Fairness

Safety properties assume none. `EventuallyFresh` assumes weak fairness of `Tick`, for time passes, and of
each handler's `Step`: a goroutine is scheduled, and each of its calls ends, by Postgres's 3 s deadline
or by the timeouts of the Redis client, with a result or an error, both of which are outcomes of the step
(`Resend` is none, so retries do not go on for ever). `Released` assumes weak fairness of `Tick` only: no
login has to be made, and none has to stop. `EventuallyFresh` of `SnippetLists` assumes the same as that of
`SnippetCache`; here the lists are left to their time to live alone. `EveryCallEnds` assumes that time
passes and that a call whose context is done returns (`Fail`): no statement has to end, and no connection has to be
handed over. `Exits` assumes that main and the metrics reader go on, besides that; no handler has to
go on, for a client may keep it waiting for its body. `CookiesSettle` assumes no fairness: what has to go on is said
in the property itself (answers to reads arrive again and again). No client is assumed to do anything
in the others.

## 5. What is proved

For all values of the constants that satisfy the assumptions stated beside them (numbers are naturals,
the limiter's limit and window and the ticks of a second are positive, `Faults` is a Boolean, the scopes that keys are asked for
are scopes). Liveness is left to TLC.

* **`SnippetCacheProofs`**: `TypeCorrect`, `OnlyPublicIsServed`, `StalenessIsExplained`,
  `OnlyCreatorRemoves`, `KeepsReadsPromise`. The invariant `IInv` says what a request in each phase
  carries: a GET about to fill holds a row that was committed and public; the draft of a write has a
  revision that no row and no other draft has; a DELETE past its check has an id whose row, if there
  is one, is the requester's. The last part is what makes the check of one statement good for
  the next one, and it needs that PUT keeps the creator and that ids are not drawn twice.
  `StaleHasCause` is proved with `TypeOK` and `IInv` by following each cause from step to step. For the refinement, a
  step either commits (and only its new public rows become readable), or forgets, or serves.
* **`SessionsProofs`**: `TypeCorrect`, `AgeIsLimited`, `AdmittedAsLoggedIn`, `EndedForCause`, `KeepsLifetimePromise`. The
  invariant relates every copy of a session, in the store or in a handler, to the session as it was
  issued: same user, same token, same login time, only the expiry may differ. `EndedForCause` needs one part more: a request
  about to send the DEL of a discarded session holds a copy that had expired or was too old when it was vetted, and
  is so still, for the clock only goes on. The copy need not be the store's: the DEL goes by id, so a
  session refreshed meanwhile is lost with it, which the property allows and nothing documented forbids. The refinement
  assumes `TTL > 0`: with a TTL of 0 the code returns from a refresh before it looks at the age, and
  the promise is not made.
* **`LoginLimiterProofs`**: `TypeCorrect`, `TwiceTheLimit`, `NoLongerWait`, `RetryImplements`, `TwiceRefusedAtMost`. The invariant relates the
  observer to the counter: what he has seen of a key is at most what the key's present window let through,
  and one limit more if that window began after he did, for then the end of one other window was seen. For
  `LoginRetry`, a key that has refused the watched client once lives for less than a second beyond the client's
  wait, and one that has refused it twice not beyond it: then its counter is gone when the client comes again.
* **`AccountsProofs`**: `TypeCorrect`, `ClosedKeysStayOut`, `OnlyAdminsMakeAdmins`. The invariant says that
  a closed key is revoked or gone, and that every principal with the role of an admin, in a session
  or in a request, is one of the users who are or once were admins.

* **`SnippetListsProofs`**: `KeyInjective`, `TypeCorrect`, `OnlyOwnListsArePrivate`, `KeepsListPromise`. From
  the key every field of a filter can be read back, absent ones included, so no two filters share one. The
  invariant says what a request carries: one filter, a public one where the cache is used, a
  vetted reader where the table is read, rows that fit; and that a cached list fits every filter with its key,
  which is one. For the refinement a step writes the table or the cache (and only answers that are the table's become
  answerable, for what a request stores goes to the key of its own filter), or answers a list that was
  answerable, or takes up another request.
* **`CredentialsProofs`**: `TypeCorrect`, `EmailsAreUnique`, `OnlyOwnersGetIn`, `OwnersGetIn`. The invariant says
  that the history `granted` is a function of the table, row by row, because all that is stored
  is in one form and no stored password is too long; and that a login at work has noticed whether its pair is, or
  was, one of them.
* **`CookieJarProofs`**: `TypeCorrect`, `CookiesStay`, `OneReadIsEnough`. Both of the latter rest on one lemma
  (`QuietStep`): while all requests and answers under way are of the jar's session (`Quiet`), and until the next login,
  logout or expired cookie, they stay so, the session cookie stays, and a CSRF cookie that fits stays. For
  `OneReadIsEnough` one read is followed from its sending with cookies that do not fit to the arrival of its answer:
  it is the safe part of `CookiesSettle`, and says that one answer is enough.
* **`ServerProofs`**, first of `DbPool` alone (an instance has the same definitions): `PoolTypeCorrect`, each connection is free
  or held by one call, action by action; `PoolStaysAtRest`, for which it is invariant that a statement runs on a
  connection (`Holding`): when the pool is closed and all are free none runs, and none gets one again. Then of the
  process: `ImplementsPool` maps each of its steps to a step of the pool or to none, which brings the facts about the pool
  over; `TypeCorrect`; `ClosedLast`, whose invariant relates where main is, what the listener does and whether
  requests are at work (none begins once the listener is being stopped, and main passes the drain
  with requests at work only when it gave up); `NothingCutOff`, which puts both together: main passes the
  deferred Close when the pool is at rest, and no handler or reader can wake it.

Each theorem follows the same pattern: lemmas say what the helpers on `req` do, one lemma for each group
of actions says that it preserves the types and the invariant, `Invariance` puts them together, and
the property follows from the invariant or, for an action property, from one step made from it.

Model-checked only: the liveness properties (`EventuallyFresh` of both modules, `Released`, `EveryCallEnds`,
`Exits`, `CookiesSettle`), which are out of the prover's reach, and the three properties that the code violates. Every safety
property of a passing run is proved.

## 6. What is left out of the modelled parts

* Drawing an id twice. A snippet's or session's id is 12 or 32 random bytes; the models draw each once,
  so the branch that answers a clash of snippet ids with 409 does not occur.
* Contents: names and texts; in `Accounts` passwords and hashes. Validation (`requests.go`) other than the
  form and the length of credentials: only input that passes it is enumerated. In `Credentials` the cost
  and the salt of bcrypt, and that two words may have one hash.
* Times of day: `created_at` is an order, and two rows of one instant do not occur.
* A crash of Redis that loses its latest writes, and what a restart of the process does to requests in
  flight. The process keeps no state, so a crash between two steps looks like a request that stays in its
  phase for ever, which safety allows.
* Sessions stored without timestamps (`ensureSessionTimestamps`): this code stores none.
* A missing store or cache (`nil` fields), which `main.go` never leaves.
* A command that Redis executes only after its client has given up and the handler has gone on: a call
  takes effect, once or several times, between its start and its end or not at all.
* In `Accounts`, reply codes, and the step between the read of a password's row and its comparison.

## 7. Plan

Done, in this order: `SnippetCache` with `SnippetReads`, `Sessions` with `SessionLifetime`,
`LoginLimiter`, `Accounts`; then `SnippetLists`, `CookieJar`, `DbPool`, `Server`, `Credentials` and
`LoginRetry`; then `ListReads`, the refinement of `DbPool` by `Server`, and the proofs about `CookieJar`. What is left:

1. `NoStatementCutOff` and `ClosedAfterRequests` speak of where main is; an abstract module of what a process promises to
   those it serves (up, draining, down) could state both at once, with `Server` as its implementation.
2. `SnippetDeletion` and `SessionLogout` extend their modules by a client only, which could be proved as
   `RetryImplements` is.
3. A composition of `Sessions` and `Accounts` over the session's copy of the role would add nothing that
   `HardClose` (for how long) and `AdminsAreMade` (to what effect) do not say together, since sessions and
   accounts meet at the login only. It is not planned.

Not modelled, and not planned: traces and logs, which hold no state that anything depends on; the parsing
of environment variables, at the start and pure; the generated documentation; the session store of the
tests, with which the program never runs; `db.Base.WithTx`, which nothing calls.
