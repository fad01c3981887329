--------------------------- MODULE AccountsProofs ---------------------------
(***************************************************************************)
(* Proofs about Accounts.  IInv says that a closed key can never be used    *)
(* again, and that whoever acts as an admin, with a session kept from long  *)
(* ago or in a request under way, is or was one.                            *)
(***************************************************************************)
EXTENDS Accounts, TLAPS

\* A closed key is gone or revoked, and its id is not drawn again.
KeyInv == closed \subseteq drawnKeys /\ \A k \in keys : k.id \in closed => k.revoked

\* Principals are genuine: an admin's user is or was an admin.
Genuine(p) == p.role = "admin" => p.user \in everAdmin
AdminInv ==
    /\ Admins(users) \subseteq everAdmin
    /\ \A p \in sess : Genuine(p)

\* A request that came too late never gets past Authenticate.
RequestInv(h) ==
    /\ \A p \in req[h].who : Genuine(p)
    /\ At(h, "auth") => req[h].op \in ByKeyOp
    /\ At(h, "auth") \/ At(h, "revoke") => req[h].key \subseteq drawnKeys
    /\ req[h].late # {} => At(h, "auth") /\ req[h].who = {} /\ req[h].key \subseteq closed

IInv == KeyInv /\ AdminInv /\ \A h \in Handler : RequestInv(h)

-----------------------------------------------------------------------------
\* Beginning, going on and ending keep the type of the requests.
LEMMA RequestType ==
    ASSUME TypeOK, NEW h \in Handler
    PROVE  /\ \A r \in Request : Start(h, r) => req' \in [Handler -> Request]
           /\ \A pc \in Pc, key \in SUBSET KeyId, who \in SUBSET Principal :
                 Goto(h, pc, key, who) => req' \in [Handler -> Request]
           /\ Reply(h) => req' \in [Handler -> Request]
<1>1. req \in [Handler -> Request] /\ req[h] \in Request
  BY DEF TypeOK
<1>2. NoRequest \in Request
  BY DEF NoRequest, Request, Pc
<1>3. ASSUME NEW pc \in Pc, NEW key \in SUBSET KeyId, NEW who \in SUBSET Principal,
             Goto(h, pc, key, who)
      PROVE  req' \in [Handler -> Request]
  <2>1. [req[h] EXCEPT !.pc = pc, !.op = "none", !.key = key, !.who = who] \in Request
    BY <1>1 DEF Request
  <2>2. QED BY <1>1, <1>3, <2>1 DEF Goto
<1>4. QED BY <1>1, <1>2, <1>3 DEF Start, Reply

\* What the three do to the requests.
Only(h) == \A g \in Handler : g # h => req'[g] = req[g]

LEMMA RequestEffect ==
    ASSUME TypeOK, NEW h \in Handler
    PROVE  /\ \A r : Start(h, r) => Only(h) /\ req[h].pc = "idle" /\ req'[h] = r
           /\ \A pc, key, who : Goto(h, pc, key, who) =>
                 /\ Only(h)
                 /\ req'[h].pc = pc /\ req'[h].key = key /\ req'[h].who = who
                 /\ req'[h].late = req[h].late
           /\ Reply(h) => Only(h) /\ req'[h] = NoRequest
<1>1. req \in [Handler -> Request] /\ req[h] \in Request
  BY DEF TypeOK
<1>2. ASSUME NEW r, Start(h, r) PROVE Only(h) /\ req[h].pc = "idle" /\ req'[h] = r
  BY <1>1, <1>2 DEF Start, Only, At
<1>3. ASSUME NEW pc, NEW key, NEW who, Goto(h, pc, key, who)
      PROVE  /\ Only(h)
             /\ req'[h].pc = pc /\ req'[h].key = key /\ req'[h].who = who
             /\ req'[h].late = req[h].late
  BY <1>1, <1>3 DEF Goto, Only, Request
<1>4. Reply(h) => Only(h) /\ req'[h] = NoRequest
  BY <1>1 DEF Reply, Only
<1>5. QED BY <1>2, <1>3, <1>4

-----------------------------------------------------------------------------
\* Signup and login keep the types: a new user's id and email are nobody's.
LEMMA ArriveType ==
    ASSUME TypeOK, NEW h \in Handler, Signup(h) \/ Login(h) \/ OpenSession(h)
    PROVE  TypeOK'
<1>1. CASE Signup(h)
  <2>1. req' \in [Handler -> Request]
    BY <1>1, RequestType DEF Signup
  <2>2. PICK id \in UserId, e \in Email :
          \/ /\ id \notin drawnUsers /\ \A u \in users : u.email # e
             /\ Commit(users \cup {[id |-> id, email |-> e, role |-> "user"]})
             /\ drawnUsers' = drawnUsers \cup {id}
          \/ UNCHANGED <<users, everAdmin, drawnUsers>>
    BY <1>1 DEF Signup
  <2>3. CASE UNCHANGED <<users, everAdmin, drawnUsers>>
    BY <1>1, <2>1, <2>3 DEF Signup, TypeOK, Account
  <2>4. CASE /\ id \notin drawnUsers /\ \A u \in users : u.email # e
             /\ Commit(users \cup {[id |-> id, email |-> e, role |-> "user"]})
             /\ drawnUsers' = drawnUsers \cup {id}
    <3> DEFINE new == [id |-> id, email |-> e, role |-> "user"]
    <3>1. new \in User /\ users' = users \cup {new}
      BY <2>4 DEF User, Role, Commit
    <3>2. \A u \in users : u.id # new.id /\ u.email # new.email
      BY <2>4 DEF TypeOK
    <3>3. users' \subseteq User /\ Distinct(users')
      BY <3>1, <3>2 DEF TypeOK, Distinct
    <3>4. {u.id : u \in users'} \subseteq drawnUsers' /\ drawnUsers' \subseteq UserId
      BY <2>4, <3>1 DEF TypeOK
    <3>5. \A k \in keys' : Account(k.owner)' # {}
      BY <1>1, <3>1 DEF TypeOK, Account, Signup
    <3>6. everAdmin' \subseteq UserId
      BY <2>4, <3>3 DEF TypeOK, Commit, Admins, User
    <3>7. QED
      BY <1>1, <2>1, <3>3, <3>4, <3>5, <3>6 DEF Signup, TypeOK
  <2>5. QED BY <2>2, <2>3, <2>4
<1>2. CASE Login(h)
  <2>1. PICK u \in users :
          Start(h, [NoRequest EXCEPT !.pc = "session",
                                     !.who = {[user |-> u.id, role |-> u.role]}])
    BY <1>2 DEF Login
  <2>2. [user |-> u.id, role |-> u.role] \in Principal
    BY DEF TypeOK, User, Principal
  <2>3. [NoRequest EXCEPT !.pc = "session", !.who = {[user |-> u.id, role |-> u.role]}]
           \in Request
    BY <2>2 DEF NoRequest, Request, Pc
  <2>4. req' \in [Handler -> Request]
    BY <2>1, <2>3, RequestType
  <2>5. QED BY <1>2, <2>4 DEF Login, TypeOK, tables, Account
<1>3. CASE OpenSession(h)
  <2>1. req' \in [Handler -> Request] /\ sess' \subseteq Principal
    BY <1>3, RequestType DEF OpenSession, TypeOK, Request
  <2>2. QED BY <1>3, <2>1 DEF OpenSession, TypeOK, tables, Account
<1>4. QED BY <1>1, <1>2, <1>3

\* Who is asking: finding out keeps the types.
LEMMA AuthType ==
    ASSUME TypeOK, IInv, NEW h \in Handler, BySession(h) \/ ByKey(h) \/ Authenticate(h)
    PROVE  TypeOK'
<1>1. CASE BySession(h)
  <2>1. PICK p \in sess, op \in BySessionOp :
          Start(h, [NoRequest EXCEPT !.pc = op, !.who = {p}])
    BY <1>1 DEF BySession
  <2>2. [NoRequest EXCEPT !.pc = op, !.who = {p}] \in Request
    BY DEF NoRequest, Request, Pc, TypeOK
  <2>3. req' \in [Handler -> Request]
    BY <2>1, <2>2, RequestType
  <2>4. QED BY <1>1, <2>3 DEF BySession, TypeOK, tables, Account
<1>2. CASE ByKey(h)
  <2>1. PICK k \in drawnKeys, op \in ByKeyOp :
          Start(h, [NoRequest EXCEPT !.pc = "auth", !.op = op, !.key = {k},
                                     !.late = {k} \cap closed])
    BY <1>2 DEF ByKey
  <2>2. [NoRequest EXCEPT !.pc = "auth", !.op = op, !.key = {k}, !.late = {k} \cap closed]
           \in Request
    BY DEF NoRequest, Request, Pc, TypeOK
  <2>3. req' \in [Handler -> Request]
    BY <2>1, <2>2, RequestType
  <2>4. QED BY <1>2, <2>3 DEF ByKey, TypeOK, tables, Account
<1>3. CASE Authenticate(h)
  <2>1. req[h].op \in Pc
    BY <1>3 DEF Authenticate, IInv, RequestInv, Pc
  <2>2. \A u \in users : {[user |-> u.id, role |-> u.role]} \in SUBSET Principal
    BY DEF TypeOK, User, Principal
  <2>3. req' \in [Handler -> Request]
    BY <1>3, <2>1, <2>2, RequestType DEF Authenticate
  <2>4. QED BY <1>3, <2>3 DEF Authenticate, TypeOK, tables, Account
<1>4. QED BY <1>1, <1>2, <1>3

\* An UPDATE changes no id.
LEMMA AfterType ==
    ASSUME TypeOK, NEW id, NEW set \in SUBSET {"email", "role"}, NEW e \in Email, NEW r \in Role
    PROVE  /\ After(id, set, e, r) \subseteq User
           /\ \A v \in After(id, set, e, r) : \E u \in users : v.id = u.id
           /\ \A u \in users : \E v \in After(id, set, e, r) : v.id = u.id
<1>1. \A u \in users : /\ Updated(u, set, e, r) \in User
                       /\ Updated(u, set, e, r).id = u.id
  BY DEF TypeOK, User, Updated
<1>2. QED BY <1>1 DEF After, Account, TypeOK

\* users.Service keeps the types: an updated row keeps its id, and a deleted user's
\* keys go with it.
LEMMA UserType ==
    ASSUME TypeOK, NEW h \in Handler, Read(h) \/ UpdateUser(h) \/ DeleteUser(h)
    PROVE  TypeOK'
<1>1. req' \in [Handler -> Request]
  BY RequestType DEF Read, UpdateUser, DeleteUser
<1>2. CASE Read(h)
  BY <1>1, <1>2 DEF Read, TypeOK, tables, Account
<1>3. CASE UpdateUser(h)
  <2>1. CASE UNCHANGED <<users, everAdmin>>
    BY <1>1, <1>3, <2>1 DEF UpdateUser, TypeOK, Account
  <2>2. ASSUME NEW id \in drawnUsers, NEW set \in SUBSET {"email", "role"},
               NEW e \in Email, NEW r \in Role,
               Commit(After(id, set, e, r)), Distinct(After(id, set, e, r))
        PROVE  TypeOK'
    <3>1. users' = After(id, set, e, r) /\ everAdmin' = everAdmin \cup Admins(users')
      BY <2>2 DEF Commit
    <3>2. Distinct(users')
      BY <2>2, <3>1
    <3>3. /\ users' \subseteq User
          /\ \A v \in users' : \E u \in users : v.id = u.id
          /\ \A u \in users : \E v \in users' : v.id = u.id
      BY <3>1, AfterType
    <3>4. \A k \in keys' : Account(k.owner)' # {}
      BY <1>3, <3>3 DEF UpdateUser, TypeOK, Account
    <3>5. everAdmin' \subseteq UserId
      BY <3>1, <3>3 DEF TypeOK, Admins, User
    <3>6. {u.id : u \in users'} \subseteq drawnUsers'
      BY <1>3, <3>3 DEF UpdateUser, TypeOK
    <3>7. QED
      BY <1>1, <1>3, <3>2, <3>3, <3>4, <3>5, <3>6 DEF UpdateUser, TypeOK
  <2>3. QED BY <1>3, <2>1, <2>2 DEF UpdateUser
<1>4. CASE DeleteUser(h)
  <2>1. CASE UNCHANGED <<users, keys, everAdmin, closed>>
    BY <1>1, <1>4, <2>1 DEF DeleteUser, TypeOK, Account
  <2>2. ASSUME NEW id \in drawnUsers, Commit(users \ Account(id)), Cascade(id),
               \/ closed' = closed \cup {k.id : k \in {x \in keys : x.owner = id}}
               \/ UNCHANGED closed
        PROVE  TypeOK'
    <3>1. users' \subseteq users /\ Distinct(users')
      BY <2>2 DEF TypeOK, Commit, Distinct
    <3>2. keys' \subseteq keys
      BY <2>2 DEF Cascade
    <3>3. \A k \in keys' : Account(k.owner)' # {}
      BY <2>2 DEF TypeOK, Commit, Cascade, Account
    <3>4. everAdmin' \subseteq UserId /\ closed' \subseteq KeyId
      BY <2>2, <3>1 DEF TypeOK, Commit, Admins, User, ApiKey
    <3>5. QED
      BY <1>1, <1>4, <3>1, <3>2, <3>3, <3>4 DEF DeleteUser, TypeOK
  <2>3. QED BY <1>4, <2>1, <2>2 DEF DeleteUser
<1>5. QED BY <1>2, <1>3, <1>4

\* apikeys.Service keeps the types: a new key has an id of its own and an owner.
LEMMA ApiKeyType ==
    ASSUME TypeOK, NEW h \in Handler, CreateKey(h) \/ FindKey(h) \/ RevokeKey(h)
    PROVE  TypeOK'
<1>1. CASE CreateKey(h)
  <2>1. req' \in [Handler -> Request]
    BY <1>1, RequestType DEF CreateKey
  <2>2. CASE UNCHANGED <<keys, drawnKeys>>
    BY <1>1, <2>1, <2>2 DEF CreateKey, TypeOK, Account
  <2>3. ASSUME NEW p \in req[h].who, NEW id \in KeyId, NEW scope \in KeyScope,
               id \notin drawnKeys, Account(p.user) # {},
               keys' = keys \cup
                 {[id |-> id, owner |-> p.user, scope |-> scope, revoked |-> FALSE]},
               drawnKeys' = drawnKeys \cup {id}
        PROVE  TypeOK'
    <3> DEFINE new == [id |-> id, owner |-> p.user, scope |-> scope, revoked |-> FALSE]
    <3>1. p.user \in UserId
      BY DEF TypeOK, Request, Principal
    <3>2. new \in ApiKey /\ new.id = id /\ new.owner = p.user
      BY <3>1, AccountAssumption DEF ApiKey
    <3> HIDE DEF new
    <3>3. keys' = keys \cup {new}
      BY <2>3 DEF new
    <3>4. \A k \in keys : k.id # new.id
      BY <2>3, <3>2 DEF TypeOK
    <3>5. /\ keys' \subseteq ApiKey
          /\ \A k, l \in keys' : k.id = l.id => k = l
          /\ {k.id : k \in keys'} \subseteq drawnKeys' /\ drawnKeys' \subseteq KeyId
      BY <2>3, <3>2, <3>3, <3>4 DEF TypeOK
    <3>6. \A k \in keys' : Account(k.owner)' # {}
      BY <1>1, <2>3, <3>2, <3>3 DEF CreateKey, TypeOK, Account
    <3>7. QED BY <1>1, <2>1, <3>5, <3>6 DEF CreateKey, TypeOK
  <2>4. QED BY <1>1, <2>2, <2>3 DEF CreateKey
<1>2. CASE FindKey(h)
  <2>1. req[h].who \in SUBSET Principal
    BY DEF TypeOK, Request
  <2>2. req' \in [Handler -> Request]
    <3>1. PICK p \in req[h].who, id \in KeyId : Goto(h, "revoke", {id}, {p}) \/ Reply(h)
      BY <1>2 DEF FindKey
    <3>2. "revoke" \in Pc /\ {id} \in SUBSET KeyId /\ {p} \in SUBSET Principal
      BY <2>1 DEF Pc
    <3>3. QED BY <3>1, <3>2, RequestType
  <2>3. QED BY <1>2, <2>2 DEF FindKey, TypeOK, tables, Account
<1>3. CASE RevokeKey(h)
  <2>1. req' \in [Handler -> Request] /\ closed' \subseteq KeyId
    BY <1>3, RequestType DEF RevokeKey, TypeOK, Request
  <2>2. CASE UNCHANGED keys
    BY <1>3, <2>1, <2>2 DEF RevokeKey, TypeOK, Account
  <2>3. CASE keys' = Revoked(req[h].key)
    <3>1. /\ \A l \in keys' : \E k \in keys : l = [k EXCEPT !.revoked = TRUE] \/ l = k
          /\ \A k \in keys : [k EXCEPT !.revoked = TRUE] \in ApiKey
      BY <2>3 DEF Revoked, TypeOK, ApiKey
    <3>2. \A l \in keys' : \E k \in keys : l.id = k.id /\ l.owner = k.owner
      BY <3>1 DEF TypeOK, ApiKey
    <3>3. ASSUME NEW k \in keys', NEW l \in keys', k.id = l.id
          PROVE  k = l
      <4> DEFINE Mark(x) == IF x.id \in req[h].key THEN [x EXCEPT !.revoked = TRUE] ELSE x
      <4>1. PICK x \in keys, y \in keys : k = Mark(x) /\ l = Mark(y)
        BY <2>3 DEF Revoked
      <4>2. \A z \in keys : Mark(z).id = z.id
        BY DEF TypeOK, ApiKey
      <4>3. x.id = y.id
        BY <3>3, <4>1, <4>2
      <4>4. QED BY <4>1, <4>3 DEF TypeOK
    <3>4. keys' \subseteq ApiKey
      BY <3>1 DEF TypeOK
    <3>5. /\ \A k \in keys' : Account(k.owner)' # {}
          /\ {k.id : k \in keys'} \subseteq drawnKeys'
      BY <1>3, <3>2 DEF RevokeKey, TypeOK, Account
    <3>6. QED BY <1>3, <2>1, <3>3, <3>4, <3>5 DEF RevokeKey, TypeOK
  <2>4. QED BY <1>3, <2>2, <2>3 DEF RevokeKey
<1>4. QED BY <1>1, <1>2, <1>3

-----------------------------------------------------------------------------
\* Principals stay genuine and late requests late while the history only grows.
LEMMA OthersKeep ==
    ASSUME IInv, NEW h \in Handler, Only(h),
           everAdmin \subseteq everAdmin', closed \subseteq closed', drawnKeys \subseteq drawnKeys'
    PROVE  \A g \in Handler : g # h => RequestInv(g)'
  BY DEF IInv, Only, RequestInv, Genuine, At

\* A request that has ended promises nothing.
LEMMA ReplyKeeps ==
    ASSUME TypeOK, IInv, NEW h \in Handler, Reply(h),
           everAdmin \subseteq everAdmin', closed \subseteq closed', drawnKeys \subseteq drawnKeys'
    PROVE  \A g \in Handler : RequestInv(g)'
<1>1. Only(h) /\ req'[h] = NoRequest
  BY RequestEffect
<1>2. RequestInv(h)'
  BY <1>1 DEF RequestInv, NoRequest, At
<1>3. QED BY <1>1, <1>2, OthersKeep

\* The history only grows, but for the step that makes a new principal or closes a
\* key: each action keeps the invariant.
LEMMA ArriveKeeps ==
    ASSUME TypeOK, IInv, NEW h \in Handler, Signup(h) \/ Login(h) \/ OpenSession(h)
    PROVE  IInv'
<1>1. CASE Signup(h)
  <2>1. /\ everAdmin \subseteq everAdmin' /\ Admins(users)' \subseteq everAdmin'
        /\ UNCHANGED <<keys, sess, drawnKeys, closed>> /\ Reply(h)
    BY <1>1 DEF Signup, Commit, IInv, AdminInv
  <2>2. \A g \in Handler : RequestInv(g)'
    BY <2>1, ReplyKeeps
  <2>3. QED BY <2>1, <2>2 DEF IInv, KeyInv, AdminInv, Genuine
<1>2. CASE Login(h)
  <2>1. PICK u \in users :
          Start(h, [NoRequest EXCEPT !.pc = "session",
                                     !.who = {[user |-> u.id, role |-> u.role]}])
    BY <1>2 DEF Login
  <2>2. Genuine([user |-> u.id, role |-> u.role])
    BY DEF IInv, AdminInv, Genuine, Admins
  <2>3. UNCHANGED <<users, keys, drawnKeys, everAdmin, sess, closed>>
    BY <1>2 DEF Login, tables
  <2>4. /\ Only(h)
        /\ req'[h].who = {[user |-> u.id, role |-> u.role]}
        /\ req'[h].pc = "session" /\ req'[h].late = {}
    <3>1. /\ Only(h)
          /\ req'[h] = [NoRequest EXCEPT !.pc = "session",
                                        !.who = {[user |-> u.id, role |-> u.role]}]
      BY <2>1, RequestEffect
    <3>2. QED BY <3>1 DEF NoRequest
  <2>5. RequestInv(h)'
    BY <2>2, <2>3, <2>4 DEF RequestInv, At, Genuine
  <2>6. QED BY <2>3, <2>4, <2>5, OthersKeep DEF IInv, KeyInv, AdminInv, Genuine, Admins
<1>3. CASE OpenSession(h)
  <2>1. UNCHANGED <<users, keys, drawnKeys, everAdmin, closed>> /\ Reply(h)
    BY <1>3 DEF OpenSession, tables
  <2>2. \A p \in sess' : Genuine(p)
    BY <1>3 DEF OpenSession, IInv, AdminInv, RequestInv
  <2>3. \A g \in Handler : RequestInv(g)'
    BY <2>1, ReplyKeeps
  <2>4. QED BY <2>1, <2>2, <2>3 DEF IInv, KeyInv, AdminInv, Genuine, Admins
<1>4. QED BY <1>1, <1>2, <1>3

\* A closed key is never Valid, so Authenticate lets no late request through.
LEMMA AuthKeeps ==
    ASSUME TypeOK, IInv, NEW h \in Handler, BySession(h) \/ ByKey(h) \/ Authenticate(h)
    PROVE  IInv'
<1>1. UNCHANGED <<users, keys, drawnKeys, everAdmin, sess, closed>>
  BY DEF BySession, ByKey, Authenticate, tables
<1>2. CASE BySession(h)
  <2>1. PICK p \in sess, op \in BySessionOp :
          Start(h, [NoRequest EXCEPT !.pc = op, !.who = {p}])
    BY <1>2 DEF BySession
  <2>2. Only(h) /\ req'[h].who = {p} /\ req'[h].pc = op /\ req'[h].late = {}
    <3>1. Only(h) /\ req'[h] = [NoRequest EXCEPT !.pc = op, !.who = {p}]
      BY <2>1, RequestEffect
    <3>2. QED BY <3>1 DEF NoRequest
  <2>3. RequestInv(h)'
    BY <1>1, <2>2 DEF RequestInv, At, Genuine, IInv, AdminInv, BySessionOp
  <2>4. QED BY <1>1, <2>2, <2>3, OthersKeep DEF IInv, KeyInv, AdminInv, Genuine, Admins
<1>3. CASE ByKey(h)
  <2>1. PICK k \in drawnKeys, op \in ByKeyOp :
          Start(h, [NoRequest EXCEPT !.pc = "auth", !.op = op, !.key = {k},
                                     !.late = {k} \cap closed])
    BY <1>3 DEF ByKey
  <2>2. /\ Only(h)
        /\ req'[h].who = {} /\ req'[h].pc = "auth" /\ req'[h].op = op
        /\ req'[h].key = {k} /\ req'[h].late = {k} \cap closed
    <3>1. /\ Only(h)
          /\ req'[h] = [NoRequest EXCEPT !.pc = "auth", !.op = op, !.key = {k},
                                        !.late = {k} \cap closed]
      BY <2>1, RequestEffect
    <3>2. QED BY <3>1 DEF NoRequest
  <2>3. RequestInv(h)'
    BY <1>1, <2>2 DEF RequestInv, At
  <2>4. QED BY <1>1, <2>2, <2>3, OthersKeep DEF IInv, KeyInv, AdminInv, Genuine, Admins
<1>4. CASE Authenticate(h)
  <2>1. CASE Reply(h)
    BY <1>1, <2>1, ReplyKeeps DEF IInv, KeyInv, AdminInv, Genuine, Admins
  <2>2. ASSUME NEW k \in Valid(req[h].key), NEW u \in users,
               Goto(h, req[h].op, {}, {[user |-> u.id, role |-> u.role]})
        PROVE  IInv'
    <3>1. /\ Only(h) /\ req'[h].pc = req[h].op
          /\ req'[h].who = {[user |-> u.id, role |-> u.role]} /\ req'[h].late = req[h].late
      BY <2>2, RequestEffect
    <3>2. k.id \in req[h].key /\ k \in keys /\ ~k.revoked
      BY DEF Valid, Named
    <3>3. req[h].late = {}
      BY <3>2 DEF IInv, RequestInv, KeyInv
    <3>4. Genuine([user |-> u.id, role |-> u.role])
      BY DEF IInv, AdminInv, Genuine, Admins
    <3>5. req[h].op \in ByKeyOp
      BY <1>4 DEF Authenticate, IInv, RequestInv
    <3>6. RequestInv(h)'
      BY <1>1, <3>1, <3>3, <3>4, <3>5 DEF RequestInv, At, Genuine, ByKeyOp
    <3>7. QED BY <1>1, <3>1, <3>6, OthersKeep DEF IInv, KeyInv, AdminInv, Genuine, Admins
  <2>3. QED BY <1>4, <2>1, <2>2 DEF Authenticate
<1>5. QED BY <1>2, <1>3, <1>4

\* users.Service keeps the invariant: the rows of closed keys only go.
LEMMA UserKeeps ==
    ASSUME TypeOK, IInv, NEW h \in Handler, Read(h) \/ UpdateUser(h) \/ DeleteUser(h)
    PROVE  IInv'
<1>1. Reply(h) /\ UNCHANGED <<sess, drawnKeys>>
  BY DEF Read, UpdateUser, DeleteUser, tables
<1>2. everAdmin \subseteq everAdmin' /\ Admins(users)' \subseteq everAdmin'
  BY DEF Read, UpdateUser, DeleteUser, tables, Commit, IInv, AdminInv, Admins
<1>3. closed \subseteq closed' /\ KeyInv'
  <2>1. CASE UNCHANGED <<keys, closed>>
    BY <1>1, <2>1 DEF IInv, KeyInv
  <2>2. ASSUME NEW id \in drawnUsers, Cascade(id),
               \/ closed' = closed \cup {k.id : k \in {x \in keys : x.owner = id}}
               \/ UNCHANGED closed
        PROVE  closed \subseteq closed' /\ KeyInv'
    <3>1. keys' = {k \in keys : k.owner # id}
      BY <2>2 DEF Cascade
    <3>2. \A i \in closed' \ closed : \E x \in keys : x.id = i /\ x.owner = id
      BY <2>2
    <3>3. \A k \in keys' : k.id \notin closed' \ closed
      BY <3>1, <3>2 DEF TypeOK
    <3>4. closed' \subseteq drawnKeys'
      BY <1>1, <3>2 DEF TypeOK, IInv, KeyInv
    <3>5. QED BY <2>2, <3>1, <3>3, <3>4 DEF IInv, KeyInv
  <2>3. QED BY <2>1, <2>2 DEF Read, UpdateUser, DeleteUser, tables
<1>4. \A g \in Handler : RequestInv(g)'
  BY <1>1, <1>2, <1>3, ReplyKeeps
<1>5. QED BY <1>1, <1>2, <1>3, <1>4 DEF IInv, AdminInv, Genuine

\* apikeys.Service keeps the invariant: a new key is not closed, a revoked one stays
\* revoked.
LEMMA ApiKeyKeeps ==
    ASSUME TypeOK, IInv, NEW h \in Handler, CreateKey(h) \/ FindKey(h) \/ RevokeKey(h)
    PROVE  IInv'
<1>1. UNCHANGED <<users, everAdmin, sess>>
  BY DEF CreateKey, FindKey, RevokeKey, tables
<1>2. CASE CreateKey(h)
  <2>1. Reply(h) /\ drawnKeys \subseteq drawnKeys' /\ UNCHANGED closed
    BY <1>2 DEF CreateKey
  <2>2. \A k \in keys' \ keys : k.id \notin drawnKeys
    BY <1>2 DEF CreateKey
  <2>3. KeyInv'
    BY <2>1, <2>2 DEF IInv, KeyInv
  <2>4. \A g \in Handler : RequestInv(g)'
    BY <1>1, <2>1, ReplyKeeps
  <2>5. QED BY <1>1, <2>3, <2>4 DEF IInv, AdminInv, Genuine, Admins
<1>3. CASE FindKey(h)
  <2>1. UNCHANGED <<keys, drawnKeys, closed>>
    BY <1>3 DEF FindKey, tables
  <2>2. CASE Reply(h)
    BY <1>1, <2>1, <2>2, ReplyKeeps DEF IInv, KeyInv, AdminInv, Genuine, Admins
  <2>3. ASSUME NEW p \in req[h].who, NEW id \in KeyId,
               {k \in Valid({id}) : k.owner = p.user} # {}, Goto(h, "revoke", {id}, {p})
        PROVE  IInv'
    <3>1. /\ Only(h) /\ req'[h].pc = "revoke"
          /\ req'[h].key = {id} /\ req'[h].who = {p} /\ req'[h].late = req[h].late
      BY <2>3, RequestEffect
    <3>2. id \in drawnKeys
      BY <2>3 DEF Valid, Named, TypeOK
    <3>3. req[h].late = {}
      BY <1>3 DEF FindKey, IInv, RequestInv, At
    <3>4. RequestInv(h)'
      BY <1>1, <2>1, <3>1, <3>2, <3>3 DEF RequestInv, At, Genuine, IInv
    <3>5. QED
      BY <1>1, <2>1, <3>1, <3>4, OthersKeep DEF IInv, KeyInv, AdminInv, Genuine, Admins
  <2>4. QED BY <1>3, <2>2, <2>3 DEF FindKey
<1>4. CASE RevokeKey(h)
  <2>1. Reply(h) /\ UNCHANGED drawnKeys /\ closed \subseteq closed'
    BY <1>4 DEF RevokeKey
  <2>2. closed' \subseteq drawnKeys'
    BY <1>4 DEF RevokeKey, IInv, KeyInv, RequestInv
  <2>3. \A k \in keys' : k.id \in closed' => k.revoked
    <3>1. CASE UNCHANGED <<keys, closed>>
      BY <3>1 DEF IInv, KeyInv
    <3>2. CASE /\ keys' = Revoked(req[h].key)
               /\ closed' = closed \cup req[h].key \/ UNCHANGED closed
      BY <3>2 DEF IInv, KeyInv, Revoked, TypeOK, ApiKey
    <3>3. QED BY <1>4, <3>1, <3>2 DEF RevokeKey
  <2>4. \A g \in Handler : RequestInv(g)'
    BY <1>1, <2>1, ReplyKeeps
  <2>5. QED BY <1>1, <2>2, <2>3, <2>4 DEF IInv, KeyInv, AdminInv, Genuine, Admins
<1>5. QED BY <1>2, <1>3, <1>4

-----------------------------------------------------------------------------
\* Every reachable state has its types and satisfies the invariant.
THEOREM Invariance == Spec => [](TypeOK /\ IInv)
<1>1. Init => TypeOK /\ IInv
  <2> SUFFICES ASSUME Init PROVE TypeOK /\ IInv
    OBVIOUS
  <2> USE DEF Init
  <2>1. users \subseteq User /\ everAdmin \subseteq UserId
    BY AccountAssumption DEF User, Role
  <2>2. NoRequest \in Request
    BY DEF NoRequest, Request, Pc
  <2>3. TypeOK
    BY <2>1, <2>2, AccountAssumption DEF TypeOK
  <2>4. Admins(users) \subseteq everAdmin
    BY DEF Admins
  <2>5. QED BY <2>3, <2>4 DEF IInv, KeyInv, AdminInv, RequestInv, NoRequest, At
<1>2. TypeOK /\ IInv /\ [Next]_vars => (TypeOK /\ IInv)'
  <2> SUFFICES ASSUME TypeOK, IInv, [Next]_vars PROVE (TypeOK /\ IInv)'
    OBVIOUS
  <2>1. CASE UNCHANGED vars
    BY <2>1 DEF vars, tables, TypeOK, Account, IInv, KeyInv, AdminInv, RequestInv, At,
                Genuine, Admins
  <2>2. CASE CloseSession
    BY <2>2 DEF CloseSession, tables, TypeOK, Account, IInv, KeyInv, AdminInv, RequestInv,
                At, Genuine, Admins
  <2>3. ASSUME NEW h \in Handler, Arrive(h) \/ Step(h) PROVE (TypeOK /\ IInv)'
    <3>1. CASE Signup(h) \/ Login(h) \/ OpenSession(h)
      BY <3>1, ArriveType, ArriveKeeps
    <3>2. CASE BySession(h) \/ ByKey(h) \/ Authenticate(h)
      BY <3>2, AuthType, AuthKeeps
    <3>3. CASE Read(h) \/ UpdateUser(h) \/ DeleteUser(h)
      BY <3>3, UserType, UserKeeps
    <3>4. CASE CreateKey(h) \/ FindKey(h) \/ RevokeKey(h)
      BY <3>4, ApiKeyType, ApiKeyKeeps
    <3>5. QED BY <2>3, <3>1, <3>2, <3>3, <3>4 DEF Arrive, Step
  <2>4. QED BY <2>1, <2>2, <2>3 DEF Next
<1>3. QED BY <1>1, <1>2, PTL DEF Spec

\* Ids and emails stay unique and no key is left without its owner, whichever signups,
\* updates, deletions and new keys race: the tables' constraints suffice.
THEOREM TypeCorrect == Spec => []TypeOK
BY Invariance, PTL

\* A key whose revocation, or whose owner's deletion, was answered lets no later
\* request in, for any number of requests at once.
THEOREM ClosedKeysStayOut == Spec => []ClosedStaysOut
<1>1. IInv => ClosedStaysOut
  BY DEF IInv, RequestInv, ClosedStaysOut
<1>2. QED BY <1>1, Invariance, PTL

\* Nobody becomes an admin but by an update asked for by someone who is or was one.
THEOREM OnlyAdminsMakeAdmins == Spec => AdminsAreMade
<1>1. TypeOK /\ IInv /\ [Next]_vars =>
        [\A id \in everAdmin' \ everAdmin :
            \E h \in Handler :
               /\ At(h, "update") /\ ~At(h, "update")'
               /\ \E p \in req[h].who : p.user \in everAdmin /\ p.role = "admin"]_vars
  <2> SUFFICES ASSUME TypeOK, IInv, Next, NEW id \in everAdmin' \ everAdmin
               PROVE  \E h \in Handler :
                        /\ At(h, "update") /\ ~At(h, "update")'
                        /\ \E p \in req[h].who : p.user \in everAdmin /\ p.role = "admin"
    BY DEF vars, tables
  <2>1. PICK h \in Handler : Signup(h) \/ UpdateUser(h) \/ DeleteUser(h)
    BY DEF Next, Arrive, Step, CloseSession, Login, BySession, ByKey, OpenSession,
           Authenticate, Read, CreateKey, FindKey, RevokeKey, tables
  <2>2. \A rows \in SUBSET users : Admins(rows) \subseteq everAdmin
    BY DEF IInv, AdminInv, Admins
  <2>3. ~Signup(h)
    BY <2>2 DEF Signup, Commit, Admins, IInv, AdminInv
  <2>4. ~DeleteUser(h)
    BY <2>2 DEF DeleteUser, Commit
  <2>5. UpdateUser(h)
    BY <2>1, <2>3, <2>4
  <2>6. PICK p \in req[h].who, i \in drawnUsers, set \in SUBSET {"email", "role"},
             e \in Email, r \in Role :
          /\ May(p, i, set)
          /\ id \in Admins(After(i, set, e, r))
    BY <2>5 DEF UpdateUser, Commit
  <2>7. "role" \in set
    <3> SUFFICES ASSUME "role" \notin set PROVE FALSE
      OBVIOUS
    <3>1. \A u \in users : Updated(u, set, e, r).id = u.id /\ Updated(u, set, e, r).role = u.role
      BY DEF Updated, TypeOK, User
    <3>2. Admins(After(i, set, e, r)) \subseteq Admins(users)
      BY <3>1 DEF Admins, After, Account
    <3>3. QED BY <2>6, <3>2 DEF IInv, AdminInv
  <2>8. p.role = "admin" /\ p.user \in everAdmin
    BY <2>6, <2>7 DEF May, IInv, RequestInv, Genuine
  <2>9. At(h, "update") /\ ~At(h, "update")'
    <3>1. At(h, "update") /\ req'[h] = NoRequest
      BY <2>5, RequestEffect DEF UpdateUser
    <3>2. QED BY <3>1 DEF At, NoRequest
  <2>10. QED BY <2>8, <2>9
<1>2. QED BY <1>1, Invariance, PTL DEF Spec, AdminsAreMade
=============================================================================
