------------------------------ MODULE Sessions ------------------------------
(***************************************************************************)
(* session.Manager over session.RedisStore, as auth.Service drives it:      *)
(* Login creates a session, Logout deletes it, AuthenticateSession reads,   *)
(* vets and refreshes it.  Handlers run concurrently and may present the    *)
(* same session; each Redis call is one step, and the clock may advance     *)
(* between any two.  A session's role is part of its user; its CSRF token   *)
(* is named by the session it was drawn for.                                *)
(***************************************************************************)
EXTENDS Naturals

CONSTANTS
    Handler,        \* concurrent request goroutines
    SessionId,      \* ids that 32 random bytes may draw
    User,           \* users who may log in
    TTL,            \* Manager.TTL (SESSION_TTL), in ticks
    MaxAge,         \* Manager.MaxAge (SESSION_MAX_AGE); 0 for none
    RefreshBefore,  \* Manager.RefreshBefore (SESSION_REFRESH_BEFORE)
    MaxClock,       \* bound: last tick of a run
    Faults          \* do Redis calls fail?

ASSUME SessionAssumption ==
    /\ TTL \in Nat /\ MaxAge \in Nat /\ RefreshBefore \in Nat /\ MaxClock \in Nat
    /\ Faults \in BOOLEAN

VARIABLES
    clock,      \* time.Now(), and the clock of Redis
    store,      \* Redis keys sniply:session:<id>, each with its deadline
    issued,     \* history: every session as Manager.Create drew it
    given,      \* ids of the sessions that a login has answered with
    req         \* each handler's request, or its last one once it is idle

vars == <<clock, store, issued, given, req>>

Session == [id : SessionId, user : User, csrf : SessionId, created : Nat, expires : Nat]
Key == [sess : Session, until : Nat]

Op == {"none", "login", "auth", "logout"}
Pc == {"idle", "get", "vet", "discard", "refresh", "set"}
Code == {"none", "ok", "unauthorized", "forbidden", "internal"}

\* id: what the client's cookie says; csrf: the token of a request that changes data,
\* {} for one that does not; held: the handler's copy of the session; at: when its age
\* was last found good.
Request == [op : Op, pc : Pc, id : SUBSET SessionId, csrf : SUBSET SessionId,
            held : SUBSET Session, code : Code, at : Nat]

NoRequest == [op |-> "none", pc |-> "idle", id |-> {}, csrf |-> {}, held |-> {},
              code |-> "none", at |-> 0]

Init ==
    /\ clock = 0
    /\ store = {}
    /\ issued = {}
    /\ given = {}
    /\ req = [h \in Handler |-> NoRequest]

At(h, pc) == req[h].pc = pc
Ids(sessions) == {s.id : s \in sessions}

Goto(h, pc) == req' = [req EXCEPT ![h] = [@ EXCEPT !.pc = pc]]
Carry(h, pc, s, at) ==
    req' = [req EXCEPT ![h] = [@ EXCEPT !.pc = pc, !.held = {s}, !.at = at]]

\* Of a refusal or a failure only the status is kept.
Refuse(h, code) == req' = [req EXCEPT ![h] = [NoRequest EXCEPT !.code = code]]
Accept(h, s, at) ==
    req' = [req EXCEPT ![h] =
              [@ EXCEPT !.pc = "idle", !.code = "ok", !.held = {s}, !.at = at]]

\* What Redis holds for ids.
Live(ids) == {k \in store : k.sess.id \in ids}

-----------------------------------------------------------------------------
\* auth.Service.Login, once the credentials are verified, and Manager.Create.

NewSession(id, user) ==
    [id |-> id, user |-> user, csrf |-> id, created |-> clock, expires |-> clock + TTL]

Login(h) ==
    /\ At(h, "idle")
    /\ \E id \in SessionId \ Ids(issued), u \in User :
         LET s == NewSession(id, u)
         IN  /\ issued' = issued \cup {s}
             /\ req' = [req EXCEPT ![h] = [NoRequest EXCEPT !.op = "login", !.pc = "set",
                                                            !.id = {id}, !.held = {s}]]
    /\ UNCHANGED <<clock, store, given>>

\* Logout asks for nothing but the cookie; its DEL may fail before or after it
\* was applied.
Logout(h) ==
    /\ At(h, "idle")
    /\ \E id \in given, code \in {"ok", "internal"} :
         /\ code = "internal" => Faults
         /\ \/ store' = {k \in store : k.sess.id # id}
            \/ code = "internal" /\ UNCHANGED store
         /\ req' = [req EXCEPT ![h] = [NoRequest EXCEPT !.op = "logout", !.id = {id},
                                                        !.code = code]]
    /\ UNCHANGED <<clock, issued, given>>

-----------------------------------------------------------------------------
\* auth.Service.AuthenticateSession.

\* The middleware sends a request that changes data away at once unless its header and
\* its cookie carry one token; the others present a session id that was given out.
Present(h) ==
    /\ At(h, "idle")
    /\ \/ Refuse(h, "forbidden")
       \/ \E id \in given, csrf \in {{}} \cup {{t} : t \in given} :
             req' = [req EXCEPT ![h] = [NoRequest EXCEPT !.op = "auth", !.pc = "get",
                                                         !.id = {id}, !.csrf = csrf]]
    /\ UNCHANGED <<clock, store, issued, given>>

\* Redis GET.  A missing key and an error are both answered 401.
Get(h) ==
    /\ At(h, "get")
    /\ \/ \E k \in Live(req[h].id) : Carry(h, "vet", k.sess, 0)
       \/ (Faults \/ Live(req[h].id) = {}) /\ Refuse(h, "unauthorized")
    /\ UNCHANGED <<clock, store, issued, given>>

\* Mutant: the limit counts from the last refresh.
BugTooOld(s) == MaxAge > 0 /\ clock > s.expires + MaxAge

\* Mutant: a session is too old one tick before its time.
BugTooOldEarly(s) == MaxAge > 0 /\ clock >= s.created + MaxAge

TooOld(s) == MaxAge > 0 /\ clock > s.created + MaxAge

\* Mutant: that header and cookie agree is taken for enough.
BugForged(h, s) == FALSE

\* A request that changes data shows a token that is not the session's.
Forged(h, s) == req[h].csrf \notin {{}, {s.csrf}}

\* RedisStore.Get's look at the payload, Manager.Get's look at the age, and the CSRF
\* token, on the copy just read.
Vet(h) ==
    /\ At(h, "vet")
    /\ \E s \in req[h].held :
         LET spent == clock > s.expires \/ TooOld(s)
             forged == Forged(h, s)
         IN  \/ spent /\ Goto(h, "discard")
             \/ ~spent /\ forged /\ Refuse(h, "forbidden")
             \/ ~spent /\ ~forged /\ Carry(h, "refresh", s, clock)
    /\ UNCHANGED <<clock, store, issued, given>>

\* The DEL of a spent session removes whatever the key holds by now; its error is
\* dropped.
Discard(h) ==
    /\ At(h, "discard")
    /\ \/ store' = {k \in store : k.sess.id \notin req[h].id}
       \/ Faults /\ UNCHANGED store
    /\ Refuse(h, "unauthorized")
    /\ UNCHANGED <<clock, issued, given>>

Due(s) == TTL > 0 /\ (RefreshBefore > 0 => s.expires <= clock + RefreshBefore)

\* Mutant: a refresh makes a new session of it.
BugRenewed(s) == [s EXCEPT !.created = clock, !.expires = clock + TTL]

Renewed(s) == [s EXCEPT !.expires = clock + TTL]

\* Manager.Refresh up to its SET: with TTL 0 it returns before it looks at the age.
Refresh(h) ==
    /\ At(h, "refresh")
    /\ \E s \in req[h].held :
         LET old == TTL > 0 /\ TooOld(s)
         IN  \/ old /\ Goto(h, "discard")
             \/ ~old /\ ~Due(s) /\ Accept(h, s, IF TTL > 0 THEN clock ELSE req[h].at)
             \/ ~old /\ Due(s) /\ Carry(h, "set", Renewed(s), clock)
    /\ UNCHANGED <<clock, store, issued, given>>

\* Mutant: the key's deadline is the one the session was given before the call.
BugPut(s) ==
    store' = {k \in store : k.sess.id # s.id} \cup {[sess |-> s, until |-> s.expires]}

\* RedisStore.Set, of Create and of Refresh: unconditional, whatever has become of
\* the key since it was read.
Put(s) ==
    store' = {k \in store : k.sess.id # s.id} \cup {[sess |-> s, until |-> clock + TTL]}

Set(h) ==
    /\ At(h, "set")
    /\ \E s \in req[h].held :
         \/ /\ Put(s)
            /\ Accept(h, s, req[h].at)
            /\ given' = given \cup {s.id}
         \/ /\ Faults
            /\ Put(s) \/ UNCHANGED store
            /\ Refuse(h, "internal")
            /\ UNCHANGED given
    /\ UNCHANGED <<clock, issued>>

\* The Redis client sends a SET again whose reply it has not got: it takes effect each
\* time.  (A DEL that was sent twice is a logout that failed and one that follows.)
Resend(h) ==
    /\ Faults
    /\ At(h, "set")
    /\ \E s \in req[h].held : Put(s)
    /\ UNCHANGED <<clock, issued, given, req>>

-----------------------------------------------------------------------------
\* Time passes; Redis drops the keys whose deadline comes (SET with a TTL of 0 gives
\* a key none).
Tick ==
    /\ clock < MaxClock
    /\ clock' = clock + 1
    /\ store' = {k \in store : TTL = 0 \/ clock' < k.until}
    /\ UNCHANGED <<issued, given, req>>

Step(h) == Get(h) \/ Vet(h) \/ Discard(h) \/ Refresh(h) \/ Set(h)

Next ==
    \/ Tick
    \/ \E h \in Handler : Login(h) \/ Logout(h) \/ Present(h) \/ Step(h) \/ Resend(h)

Spec == Init /\ [][Next]_vars

-----------------------------------------------------------------------------
\* Every variable has its type, and with a TTL no key outlives it.
TypeOK ==
    /\ clock \in 0..MaxClock
    /\ store \subseteq Key
    /\ TTL > 0 => \A k \in store : k.until \in (clock + 1)..(clock + TTL)
    /\ issued \subseteq Session
    /\ given \subseteq Ids(issued)
    /\ req \in [Handler -> Request]

\* The handler has let its request through, or is about to once its SET is done.
Admitted(h) == req[h].op = "auth" /\ (req[h].code = "ok" \/ At(h, "set"))

\* README.md:246 calls SESSION_MAX_AGE a hard limit since login: no request is let
\* through by a session older than that, however often and by however many
\* handlers it was refreshed (session.go:76, 104, 115-119).
HardClose ==
    MaxAge > 0 =>
        \A h \in Handler, s \in issued :
            Admitted(h) /\ s.id \in req[h].id => req[h].at <= s.created + MaxAge

\* Whoever is let through is the user who logged in with this session, and a
\* request that changes data showed the token drawn at that login
\* (service.go:185-212 of package auth).
SameLogin ==
    \A h \in Handler : Admitted(h) =>
        \E s \in issued, c \in req[h].held :
            /\ req[h].id = {s.id}
            /\ c.user = s.user
            /\ req[h].csrf \in {{}, {s.csrf}}

\* A session that has expired, or is older than the limit.
Outlived(s) == clock > s.expires \/ (MaxAge > 0 /\ clock > s.created + MaxAge)

\* Redis loses a session when its time has come, by a logout of that very session, or by
\* a request that has read a copy of it which is outlived.  (That copy may be older than
\* the key: the DEL goes by id alone and is sent later, so the key of a refresh made
\* meanwhile goes with it.)  No other request, user's logout or fault takes a session
\* away (store_redis.go:40-62, session.go:72-83, 104-121).
EndsForCause ==
    [][\A k \in store :
         \/ k.sess.id \in Ids({j.sess : j \in store'})
         \/ TTL > 0 /\ clock' >= k.until
         \/ \E h \in Handler :
              \/ Logout(h) /\ req'[h].id = {k.sess.id}
              \/ At(h, "discard") /\ \E s \in req[h].held : s.id = k.sess.id /\ Outlived(s)]_vars

\* Ids that Redis holds or that a request past its GET may write back.
Working(h) == req[h].pc \in {"vet", "refresh", "set"}
Alive == Ids({k.sess : k \in store})
           \cup UNION {Ids(req[h].held) : h \in {g \in Handler : Working(g)}}
Admission ==
    [h \in Handler |->
        IF Admitted(h) THEN {[id |-> c.id, user |-> c.user] : c \in req[h].held} ELSE {}]

\* The manager keeps the promise of SessionLifetime: in particular a session comes
\* back after its key is gone only through a request that had read it before.
Lifetime == INSTANCE SessionLifetime WITH alive <- Alive, admitted <- Admission
LifetimePromise == Lifetime!Spec
=============================================================================
