------------------------------ MODULE Accounts ------------------------------
(***************************************************************************)
(* users.Service and apikeys.Service over the tables users and api_keys,    *)
(* with the two ways a request gets its principal: a session, which keeps   *)
(* the role its user had at the login, and an API key, whose row and whose  *)
(* owner's role are read anew (auth.Service).  Each statement and each read *)
(* of a credential is one step; what a session goes through between login   *)
(* and logout is the module Sessions.                                       *)
(***************************************************************************)
EXTENDS Naturals

CONSTANTS
    Handler,    \* concurrent request goroutines
    UserId,     \* ids that 12 random bytes may draw
    Email,      \* normalised emails
    KeyId,      \* ids (and tokens) of API keys
    KeyScope,   \* scopes that keys are asked for
    Root,       \* ids of the users that are there, as admins, from the start
    Faults      \* do Postgres and Redis calls fail?

Scope == {"read", "write", "read_write"}

ASSUME AccountAssumption ==
    Root \subseteq UserId /\ KeyScope \subseteq Scope /\ Faults \in BOOLEAN

VARIABLES
    users,      \* table users (password_hash and created_at left out)
    keys,       \* table api_keys
    sess,       \* principals that have a live session
    drawnUsers, \* ids of users ever inserted
    drawnKeys,  \* ids of keys ever inserted
    req,        \* each handler's request
    everAdmin,  \* history: ids of users that are or once were admins
    closed      \* history: keys whose end was answered: revoked, or owner deleted

tables == <<users, keys, drawnUsers, drawnKeys, everAdmin>>
vars == <<tables, sess, req, closed>>

Role == {"user", "admin"}
User == [id : UserId, email : Email, role : Role]
ApiKey == [id : KeyId, owner : UserId, scope : Scope, revoked : BOOLEAN]
Principal == [user : UserId, role : Role]

\* What a request may want; only a session may make or revoke keys (router.go:46-57).
ByKeyOp == {"read", "update", "delete"}
BySessionOp == {"update", "delete", "newkey", "find"}
Pc == {"idle", "session", "auth", "revoke"} \cup ByKeyOp \cup BySessionOp

\* op: what the holder of a key wants, until it is authenticated; key: the key it
\* presents, or the key to revoke; late (history): that key, if closed by then; who: the
\* principal, once there is one.
Request == [pc : Pc, op : ByKeyOp \cup {"none"}, key : SUBSET KeyId, late : SUBSET KeyId,
            who : SUBSET Principal]

NoRequest == [pc |-> "idle", op |-> "none", key |-> {}, late |-> {}, who |-> {}]

\* An email is one user's.
Distinct(rows) == \A u, v \in rows : u.id = v.id \/ u.email = v.email => u = v
Account(id) == {u \in users : u.id = id}
Named(ids) == {k \in keys : k.id \in ids}
Admins(rows) == {u.id : u \in {v \in rows : v.role = "admin"}}

Init ==
    /\ users \in SUBSET [id : Root, email : Email, role : {"admin"}]
    /\ Distinct(users) /\ {u.id : u \in users} = Root
    /\ keys = {} /\ sess = {}
    /\ drawnUsers = Root /\ drawnKeys = {}
    /\ req = [h \in Handler |-> NoRequest]
    /\ everAdmin = Root
    /\ closed = {}

At(h, pc) == req[h].pc = pc
Start(h, request) == At(h, "idle") /\ req' = [req EXCEPT ![h] = request]
Goto(h, pc, key, who) ==
    req' = [req EXCEPT ![h] = [@ EXCEPT !.pc = pc, !.op = "none", !.key = key, !.who = who]]

\* A request ends.  Which status it is answered follows from its guard and no property
\* looks at it, so it is not kept; a statement that is done may be answered 500, when
\* the reply of Postgres is lost.
Reply(h) == req' = [req EXCEPT ![h] = NoRequest]

Commit(rows) == users' = rows /\ everAdmin' = everAdmin \cup Admins(rows)

-----------------------------------------------------------------------------
\* POST /users and POST /auth/login.

\* An id is drawn once: drawing it again is answered as the clash of primary keys.
Signup(h) ==
    /\ At(h, "idle")
    /\ \E id \in UserId, e \in Email :
         \/ /\ id \notin drawnUsers /\ \A u \in users : u.email # e
            /\ Commit(users \cup {[id |-> id, email |-> e, role |-> "user"]})
            /\ drawnUsers' = drawnUsers \cup {id}
            \* 409, 500
         \/ /\ (\E u \in users : u.email = e) \/ Faults \/ id \in drawnUsers
            /\ UNCHANGED <<users, everAdmin, drawnUsers>>
    /\ Reply(h)
    /\ UNCHANGED <<keys, sess, drawnKeys, closed>>

\* The credentials are those of a row read now; the session opens later.
Login(h) ==
    /\ \E u \in users :
         Start(h, [NoRequest EXCEPT !.pc = "session",
                                    !.who = {[user |-> u.id, role |-> u.role]}])
    /\ UNCHANGED <<tables, sess, closed>>

OpenSession(h) ==
    /\ At(h, "session")
    /\ \/ sess' = sess \cup req[h].who
       \/ Faults /\ UNCHANGED sess
    /\ Reply(h)
    /\ UNCHANGED <<tables, closed>>

\* Logout or expiry, and nothing else: neither the end of a user nor a new role.
CloseSession ==
    /\ \E p \in sess : sess' = sess \ {p}
    /\ UNCHANGED <<tables, req, closed>>

-----------------------------------------------------------------------------
\* The middleware: who is asking.

\* A request refused here leaves nothing behind, nor does a GET.
BySession(h) ==
    /\ \E p \in sess, op \in BySessionOp :
         Start(h, [NoRequest EXCEPT !.pc = op, !.who = {p}])
    /\ UNCHANGED <<tables, sess, closed>>

ByKey(h) ==
    /\ \E k \in drawnKeys, op \in ByKeyOp :
         Start(h, [NoRequest EXCEPT !.pc = "auth", !.op = op, !.key = {k},
                                    !.late = {k} \cap closed])
    /\ UNCHANGED <<tables, sess, closed>>

Allows(k, op) == k.scope = "read_write" \/ k.scope = IF op = "read" THEN "read" ELSE "write"

\* Mutant: revoked_at is not looked at.
BugValid(ids) == Named(ids)

\* The key's row, joined with its owner's, when it may still be used.
Valid(ids) == {k \in Named(ids) : ~k.revoked}

Authenticate(h) ==
    /\ At(h, "auth")
    /\ \/ /\ Valid(req[h].key) = {} \/ Faults
          /\ Reply(h)
       \/ \E k \in Valid(req[h].key), u \in users :
            /\ u.id = k.owner
            /\ \/ ~Allows(k, req[h].op) /\ Reply(h)
               \/ /\ Allows(k, req[h].op)
                  /\ Goto(h, req[h].op, {}, {[user |-> u.id, role |-> u.role]})
    /\ UNCHANGED <<tables, sess, closed>>

-----------------------------------------------------------------------------
\* users.Service.

\* GET: nothing changes.
Read(h) ==
    /\ At(h, "read")
    /\ Reply(h)
    /\ UNCHANGED <<tables, sess, closed>>

\* Mutant: whoever may change a row may change its role.
BugMay(p, id, set) == p.user = id \/ p.role = "admin"

\* An admin may do everything, others may change their own row but not its role.
May(p, id, set) == p.role = "admin" \/ (p.user = id /\ "role" \notin set)

\* The table after an UPDATE of the row id that sets the columns of set.
Updated(u, set, e, r) == [u EXCEPT !.email = IF "email" \in set THEN e ELSE @,
                                   !.role = IF "role" \in set THEN r ELSE @]
After(id, set, e, r) ==
    (users \ Account(id)) \cup {Updated(u, set, e, r) : u \in Account(id)}

\* updateWithTarget; set: the columns the body gives.  A body that gives none is
\* answered 204 without a look at the table; one that gives only the password
\* changes no column modelled here.
UpdateUser(h) ==
    /\ At(h, "update")
    /\ \E p \in req[h].who, id \in drawnUsers, set \in SUBSET {"email", "role"} :
         \/ \E e \in Email, r \in Role :
               /\ May(p, id, set) /\ Account(id) # {} /\ Distinct(After(id, set, e, r))
               /\ Commit(After(id, set, e, r))
            \* 403, 204, 404, 500
         \/ /\ ~(/\ May(p, id, set) /\ set # {} /\ Account(id) # {} /\ ~Faults
                 /\ \A e \in Email, r \in Role : Distinct(After(id, set, e, r)))
            /\ UNCHANGED <<users, everAdmin>>
    /\ Reply(h)
    /\ UNCHANGED <<keys, sess, drawnUsers, drawnKeys, closed>>

\* Mutant: the keys of a deleted user stay.
BugCascade(id) == keys' = keys

\* ON DELETE CASCADE
Cascade(id) == keys' = {k \in keys : k.owner # id}

\* deleteWithTarget.  Once it is answered 204 the user's keys are closed.
DeleteUser(h) ==
    /\ At(h, "delete")
    /\ \E p \in req[h].who, id \in drawnUsers :
         \/ /\ May(p, id, {}) /\ Account(id) # {}
            /\ Commit(users \ Account(id))
            /\ Cascade(id)
            /\ \/ closed' = closed \cup {k.id : k \in {x \in keys : x.owner = id}}
               \/ Faults /\ UNCHANGED closed
            \* 403, 404, 500
         \/ /\ ~May(p, id, {}) \/ Account(id) = {} \/ Faults
            /\ UNCHANGED <<users, keys, everAdmin, closed>>
    /\ Reply(h)
    /\ UNCHANGED <<sess, drawnUsers, drawnKeys>>

-----------------------------------------------------------------------------
\* apikeys.Service.

\* user_id references users: a principal whose row is gone makes no key.
CreateKey(h) ==
    /\ At(h, "newkey")
    /\ \E p \in req[h].who, id \in KeyId, scope \in KeyScope :
         \/ /\ id \notin drawnKeys /\ Account(p.user) # {}
            /\ keys' = keys \cup
                 {[id |-> id, owner |-> p.user, scope |-> scope, revoked |-> FALSE]}
            /\ drawnKeys' = drawnKeys \cup {id}
         \/ /\ Faults \/ id \in drawnKeys \/ Account(p.user) = {}
            /\ UNCHANGED <<keys, drawnKeys>>
    /\ Reply(h)
    /\ UNCHANGED <<users, everAdmin, sess, drawnUsers, closed>>

\* Revoke reads the key first: it must be the requester's and not revoked yet.
FindKey(h) ==
    /\ At(h, "find")
    /\ \E p \in req[h].who, id \in KeyId :
         LET own == {k \in Valid({id}) : k.owner = p.user}
         IN  \/ own # {} /\ Goto(h, "revoke", {id}, {p})
             \/ (own = {} \/ Faults) /\ Reply(h)
    /\ UNCHANGED <<tables, sess, closed>>

Revoked(ids) == {IF k.id \in ids THEN [k EXCEPT !.revoked = TRUE] ELSE k : k \in keys}

\* UPDATE by id alone: a key that another request has revoked meanwhile is revoked
\* again, and answered 204 again.
RevokeKey(h) ==
    /\ At(h, "revoke")
    /\ \/ /\ Named(req[h].key) # {}
          /\ keys' = Revoked(req[h].key)
          /\ \/ closed' = closed \cup req[h].key
             \/ Faults /\ UNCHANGED closed
       \/ /\ Named(req[h].key) = {} \/ Faults
          /\ UNCHANGED <<keys, closed>>
    /\ Reply(h)
    /\ UNCHANGED <<users, everAdmin, sess, drawnUsers, drawnKeys>>

-----------------------------------------------------------------------------
Arrive(h) == Signup(h) \/ Login(h) \/ BySession(h) \/ ByKey(h)

Step(h) ==
    \/ OpenSession(h) \/ Authenticate(h) \/ Read(h) \/ UpdateUser(h) \/ DeleteUser(h)
    \/ CreateKey(h) \/ FindKey(h) \/ RevokeKey(h)

Next == CloseSession \/ \E h \in Handler : Arrive(h) \/ Step(h)

Spec == Init /\ [][Next]_vars

-----------------------------------------------------------------------------
\* Every variable has its type, ids and emails are unique, and a key has an owner
\* although keys are made and users deleted by different requests.
TypeOK ==
    /\ users \subseteq User /\ Distinct(users)
    /\ keys \subseteq ApiKey
    /\ \A k \in keys : Account(k.owner) # {}
    /\ \A k, l \in keys : k.id = l.id => k = l
    /\ sess \subseteq Principal
    /\ {u.id : u \in users} \subseteq drawnUsers /\ drawnUsers \subseteq UserId
    /\ {k.id : k \in keys} \subseteq drawnKeys /\ drawnKeys \subseteq KeyId
    /\ req \in [Handler -> Request]
    /\ everAdmin \subseteq UserId /\ closed \subseteq KeyId

\* src/src/integration/api_test.go:663-666: a key whose revocation was answered 204
\* lets no later request in; nor does a key whose owner's deletion was answered,
\* whatever other requests of the owner or about the key were under way
\* (apikeys/service.go:115-132, auth/service.go:159-168).
ClosedStaysOut == \A h \in Handler : req[h].late # {} => req[h].who = {}

\* src/src/internal/users/model.go:22 says that only an admin may set a role: nobody
\* becomes an admin but by the request of someone who is or was one.  (A session
\* keeps the role of its login, so "or was" cannot be left out.)
AdminsAreMade ==
    [][\A id \in everAdmin' \ everAdmin :
          \E h \in Handler :
             /\ At(h, "update") /\ ~At(h, "update")'
             /\ \E p \in req[h].who : p.user \in everAdmin /\ p.role = "admin"]_vars
=============================================================================
