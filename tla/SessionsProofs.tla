--------------------------- MODULE SessionsProofs ---------------------------
(***************************************************************************)
(* Proofs about Sessions.  IInv says that every copy of a session, in Redis *)
(* or in a handler's hands, agrees with the session as it was issued in     *)
(* everything but its expiry; the safety properties follow.                 *)
(***************************************************************************)
EXTENDS Sessions, TLAPS

\* c is a copy of the issued session s.
Copy(c, s) == c.id = s.id /\ c.user = s.user /\ c.csrf = s.csrf /\ c.created = s.created
Genuine(c) == \E s \in issued : Copy(c, s)

\* An id names one session, and Redis holds only copies of issued sessions.
StoreInv ==
    /\ \A s, t \in issued : s.id = t.id => s = t
    /\ \A k \in store : Genuine(k.sess)

\* Passed: the copy has passed every test of AuthenticateSession so far.
Passed(h) == req[h].op = "auth" /\ (req[h].pc \in {"refresh", "set"} \/ req[h].code = "ok")

\* What the handler of a request carries.
RequestInv(h) ==
    /\ req[h].pc # "idle" => req[h].code = "none"
    /\ req[h].pc \in {"get", "vet", "refresh", "discard"} => req[h].op = "auth"
    /\ At(h, "get") => \E i \in SessionId : req[h].id = {i}
    /\ \A c \in req[h].held : Genuine(c) /\ req[h].id = {c.id} /\ req[h].held = {c}
    /\ Passed(h) => /\ req[h].held # {}
                    /\ \A c \in req[h].held :
                          /\ MaxAge > 0 => req[h].at <= c.created + MaxAge
                          /\ req[h].csrf \in {{}, {c.csrf}}

IInv == StoreInv /\ \A h \in Handler : RequestInv(h)

-----------------------------------------------------------------------------
\* What the four ways of changing a request do to its type.
LEMMA GotoType ==
    ASSUME TypeOK, NEW h \in Handler, NEW pc \in Pc, Goto(h, pc)
    PROVE  req' \in [Handler -> Request]
<1>1. req[h] \in Request /\ req \in [Handler -> Request]
  BY DEF TypeOK
<1>2. [req[h] EXCEPT !.pc = pc] \in Request
  BY <1>1 DEF Request
<1>3. QED BY <1>1, <1>2 DEF Goto

\* The same for Carry.
LEMMA CarryType ==
    ASSUME TypeOK, NEW h \in Handler, NEW pc \in Pc, NEW s \in Session, NEW at \in Nat,
           Carry(h, pc, s, at)
    PROVE  req' \in [Handler -> Request]
<1>1. req[h] \in Request /\ req \in [Handler -> Request]
  BY DEF TypeOK
<1>2. [req[h] EXCEPT !.pc = pc, !.held = {s}, !.at = at] \in Request
  BY <1>1 DEF Request
<1>3. QED BY <1>1, <1>2 DEF Carry

\* The same for Accept.
LEMMA AcceptType ==
    ASSUME TypeOK, NEW h \in Handler, NEW s \in Session, NEW at \in Nat, Accept(h, s, at)
    PROVE  req' \in [Handler -> Request]
<1>1. req[h] \in Request /\ req \in [Handler -> Request]
  BY DEF TypeOK
<1>2. [req[h] EXCEPT !.pc = "idle", !.code = "ok", !.held = {s}, !.at = at] \in Request
  BY <1>1 DEF Request, Pc, Code
<1>3. QED BY <1>1, <1>2 DEF Accept

\* The same for Refuse.
LEMMA RefuseType ==
    ASSUME TypeOK, NEW h \in Handler, NEW code \in Code, Refuse(h, code)
    PROVE  req' \in [Handler -> Request]
<1>1. [NoRequest EXCEPT !.code = code] \in Request
  BY DEF NoRequest, Request, Pc, Op
<1>2. QED BY <1>1 DEF Refuse, TypeOK

\* Putting a session into Redis keeps the type of the keys.
LEMMA PutType ==
    ASSUME TypeOK, NEW s \in Session, Put(s)
    PROVE  /\ store' \subseteq Key
           /\ TTL > 0 => \A k \in store' : k.until \in (clock + 1)..(clock + TTL)
  BY SessionAssumption DEF TypeOK, Put, Key

\* A login, a logout or a new request keeps the types.
LEMMA ArriveType ==
    ASSUME TypeOK, NEW h \in Handler, Login(h) \/ Logout(h) \/ Present(h)
    PROVE  TypeOK'
<1> USE SessionAssumption
<1>1. CASE Login(h)
  <2>1. PICK id \in SessionId \ Ids(issued), u \in User :
          /\ issued' = issued \cup {NewSession(id, u)}
          /\ req' = [req EXCEPT ![h] = [NoRequest EXCEPT !.op = "login", !.pc = "set",
                                          !.id = {id}, !.held = {NewSession(id, u)}]]
    BY <1>1 DEF Login
  <2>2. NewSession(id, u) \in Session
    BY DEF NewSession, Session, TypeOK
  <2>3. [NoRequest EXCEPT !.op = "login", !.pc = "set", !.id = {id},
                          !.held = {NewSession(id, u)}] \in Request
    BY <2>2 DEF NoRequest, Request, Pc, Op, Code
  <2>4. given \subseteq Ids(issued')
    BY <2>1 DEF TypeOK, Ids
  <2>5. QED BY <1>1, <2>1, <2>2, <2>3, <2>4 DEF Login, TypeOK
<1>2. CASE Logout(h)
  <2>1. PICK id \in given, code \in {"ok", "internal"} :
          req' = [req EXCEPT ![h] = [NoRequest EXCEPT !.op = "logout", !.id = {id},
                                                      !.code = code]]
    BY <1>2 DEF Logout
  <2>2. id \in SessionId
    BY DEF TypeOK, Ids, Session
  <2>3. [NoRequest EXCEPT !.op = "logout", !.id = {id}, !.code = code] \in Request
    BY <2>2 DEF NoRequest, Request, Pc, Op, Code
  <2>4. store' \subseteq store
    BY <1>2 DEF Logout
  <2>5. QED BY <1>2, <2>1, <2>3, <2>4 DEF Logout, TypeOK
<1>3. CASE Present(h)
  <2>1. CASE Refuse(h, "forbidden")
    BY <1>3, <2>1, RefuseType DEF Present, TypeOK, Code
  <2>2. ASSUME NEW id \in given, NEW csrf \in {{}} \cup {{t} : t \in given},
               req' = [req EXCEPT ![h] = [NoRequest EXCEPT !.op = "auth", !.pc = "get",
                                                           !.id = {id}, !.csrf = csrf]]
        PROVE  TypeOK'
    <3>1. id \in SessionId /\ csrf \in SUBSET SessionId
      BY DEF TypeOK, Ids, Session
    <3>2. [NoRequest EXCEPT !.op = "auth", !.pc = "get", !.id = {id}, !.csrf = csrf]
             \in Request
      BY <3>1 DEF NoRequest, Request, Pc, Op, Code
    <3>3. QED BY <1>3, <2>2, <3>2 DEF Present, TypeOK
  <2>3. QED BY <1>3, <2>1, <2>2 DEF Present
<1>4. QED BY <1>1, <1>2, <1>3

\* A step of AuthenticateSession or of Create keeps the types, provided a handler's
\* copy comes from an issued session.
LEMMA StepType ==
    ASSUME TypeOK, IInv, NEW h \in Handler, Step(h)
    PROVE  TypeOK'
<1> USE SessionAssumption
<1>1. /\ req[h].held \in SUBSET Session
      /\ clock \in Nat /\ req[h].at \in Nat
  BY DEF TypeOK, Request
<1>2. \A code \in Code : Refuse(h, code) => req' \in [Handler -> Request]
  BY RefuseType
<1>3. \A pc \in Pc : Goto(h, pc) => req' \in [Handler -> Request]
  BY GotoType
<1>4. CASE Get(h)
  <2>1. \A k \in Live(req[h].id) : k.sess \in Session
    BY DEF Live, TypeOK, Key
  <2>2. req' \in [Handler -> Request]
    BY <1>2, <1>4, <2>1, CarryType DEF Get, Pc, Code
  <2>3. QED BY <1>4, <2>2 DEF Get, TypeOK
<1>5. CASE Vet(h)
  <2>1. req' \in [Handler -> Request]
    BY <1>1, <1>2, <1>3, <1>5, CarryType DEF Vet, Pc, Code
  <2>2. QED BY <1>5, <2>1 DEF Vet, TypeOK
<1>6. CASE Discard(h)
  <2>1. req' \in [Handler -> Request] /\ store' \subseteq store
    BY <1>2, <1>6 DEF Discard, Code
  <2>2. QED BY <1>6, <2>1 DEF Discard, TypeOK
<1>7. CASE Refresh(h)
  <2>1. \A s \in req[h].held : Renewed(s) \in Session
    BY <1>1 DEF Renewed, Session
  <2>2. req' \in [Handler -> Request]
    BY <1>1, <1>3, <1>7, <2>1, CarryType, AcceptType DEF Refresh, Pc
  <2>3. QED BY <1>7, <2>2 DEF Refresh, TypeOK
<1>8. CASE Set(h)
  <2>1. PICK s \in req[h].held :
          /\ Put(s) \/ UNCHANGED store
          /\ Accept(h, s, req[h].at) \/ Refuse(h, "internal")
          /\ given' = given \cup {s.id} \/ UNCHANGED given
    BY <1>8 DEF Set
  <2>2. req' \in [Handler -> Request]
    BY <1>1, <1>2, <2>1, AcceptType DEF Code
  <2>3. s.id \in Ids(issued)
    BY DEF IInv, RequestInv, Genuine, Copy, Ids
  <2>4. /\ store' \subseteq Key
        /\ TTL > 0 => \A k \in store' : k.until \in (clock + 1)..(clock + TTL)
    BY <1>1, <2>1, PutType DEF TypeOK
  <2>5. QED BY <1>8, <2>1, <2>2, <2>3, <2>4 DEF Set, TypeOK
<1>9. QED BY <1>4, <1>5, <1>6, <1>7, <1>8 DEF Step

\* So does a SET that is sent again.
LEMMA ResendType ==
    ASSUME TypeOK, NEW h \in Handler, Resend(h)
    PROVE  TypeOK'
<1>1. PICK s \in req[h].held : Put(s)
  BY DEF Resend
<1>2. s \in Session
  BY DEF TypeOK, Request
<1>3. QED BY <1>1, <1>2, PutType DEF Resend, TypeOK

\* So does a tick.
LEMMA TickType ==
    ASSUME TypeOK, Tick
    PROVE  TypeOK'
  BY SessionAssumption DEF TypeOK, Tick, Key

-----------------------------------------------------------------------------
\* What a step of h does to the requests.
Only(h) == \A g \in Handler : g # h => req'[g] = req[g]
Same(h) == /\ req'[h].op = req[h].op
           /\ req'[h].id = req[h].id
           /\ req'[h].csrf = req[h].csrf

\* Goto moves h to pc and leaves the rest of its request alone.
LEMMA GotoEffect ==
    ASSUME TypeOK, NEW h \in Handler, NEW pc, Goto(h, pc)
    PROVE  /\ Only(h) /\ Same(h)
           /\ req'[h].pc = pc /\ req'[h].code = req[h].code
           /\ req'[h].held = req[h].held /\ req'[h].at = req[h].at
  BY DEF TypeOK, Request, Goto, Only, Same

\* Carry moves h to pc with the copy s.
LEMMA CarryEffect ==
    ASSUME TypeOK, NEW h \in Handler, NEW pc, NEW s, NEW at, Carry(h, pc, s, at)
    PROVE  /\ Only(h) /\ Same(h)
           /\ req'[h].pc = pc /\ req'[h].code = req[h].code
           /\ req'[h].held = {s} /\ req'[h].at = at
  BY DEF TypeOK, Request, Carry, Only, Same

\* Accept ends the request of h with the copy s.
LEMMA AcceptEffect ==
    ASSUME TypeOK, NEW h \in Handler, NEW s, NEW at, Accept(h, s, at)
    PROVE  /\ Only(h) /\ Same(h)
           /\ req'[h].pc = "idle" /\ req'[h].code = "ok"
           /\ req'[h].held = {s} /\ req'[h].at = at
  BY DEF TypeOK, Request, Accept, Only, Same

\* Refuse ends it with nothing but the status.
LEMMA RefuseEffect ==
    ASSUME TypeOK, NEW h \in Handler, NEW code, Refuse(h, code)
    PROVE  /\ Only(h) /\ req'[h] = [NoRequest EXCEPT !.code = code]
           /\ req'[h].op = "none" /\ req'[h].pc = "idle"
  BY DEF TypeOK, Request, Refuse, Only, NoRequest

\* The other handlers are not disturbed.
LEMMA OthersKeep ==
    ASSUME IInv, NEW h \in Handler, Only(h), issued \subseteq issued'
    PROVE  \A g \in Handler : g # h => RequestInv(g)'
  BY DEF IInv, RequestInv, Only, Passed, Genuine, At

\* A step that issues nothing and leaves only genuine copies in Redis keeps StoreInv.
LEMMA StoreKeep ==
    ASSUME IInv, issued' = issued, \A k \in store' : k \in store \/ Genuine(k.sess)
    PROVE  StoreInv'
  BY DEF IInv, StoreInv, Genuine

\* A refused request carries nothing.
LEMMA RefuseKeeps ==
    ASSUME TypeOK, NEW h \in Handler, NEW code, code # "ok", Refuse(h, code)
    PROVE  RequestInv(h)'
  BY RefuseEffect DEF RequestInv, Passed, NoRequest, At

\* IInv is kept by a login, a logout and a new request.
LEMMA ArriveKeeps ==
    ASSUME TypeOK, IInv, NEW h \in Handler, Login(h) \/ Logout(h) \/ Present(h)
    PROVE  IInv'
<1>1. CASE Login(h)
  <2>1. PICK id \in SessionId \ Ids(issued), u \in User :
          /\ issued' = issued \cup {NewSession(id, u)}
          /\ req' = [req EXCEPT ![h] = [NoRequest EXCEPT !.op = "login", !.pc = "set",
                                          !.id = {id}, !.held = {NewSession(id, u)}]]
    BY <1>1 DEF Login
  <2> DEFINE s == NewSession(id, u)
  <2>2. s.id = id
    BY DEF NewSession
  <2>3. Only(h) /\ req'[h] = [NoRequest EXCEPT !.op = "login", !.pc = "set",
                                !.id = {id}, !.held = {s}]
    BY <2>1 DEF Only, TypeOK
  <2> HIDE DEF s
  <2>4. StoreInv'
    BY <1>1, <2>1, <2>2 DEF Login, IInv, StoreInv, Genuine, Ids, s
  <2>5. Copy(s, s) /\ s \in issued'
    BY <2>1 DEF Copy, s
  <2>6. RequestInv(h)'
    BY <2>2, <2>3, <2>5 DEF RequestInv, Passed, NoRequest, At, Genuine
  <2>7. QED BY <2>1, <2>3, <2>4, <2>6, OthersKeep DEF IInv
<1>2. CASE Logout(h)
  <2>1. PICK id \in given, code \in {"ok", "internal"} :
          req' = [req EXCEPT ![h] = [NoRequest EXCEPT !.op = "logout", !.id = {id},
                                                      !.code = code]]
    BY <1>2 DEF Logout
  <2>2. Only(h) /\ req'[h] = [NoRequest EXCEPT !.op = "logout", !.id = {id}, !.code = code]
    BY <2>1 DEF Only, TypeOK
  <2>3. issued' = issued /\ store' \subseteq store
    BY <1>2 DEF Logout
  <2>4. RequestInv(h)'
    BY <2>2 DEF RequestInv, Passed, NoRequest, At
  <2>5. QED BY <2>2, <2>3, <2>4, OthersKeep, StoreKeep DEF IInv
<1>3. CASE Present(h)
  <2>1. issued' = issued /\ store' = store
    BY <1>3 DEF Present
  <2>2. CASE Refuse(h, "forbidden")
    BY <2>1, <2>2, RefuseEffect, RefuseKeeps, OthersKeep, StoreKeep DEF IInv
  <2>3. ASSUME NEW id \in given, NEW csrf \in {{}} \cup {{t} : t \in given},
               req' = [req EXCEPT ![h] = [NoRequest EXCEPT !.op = "auth", !.pc = "get",
                                                           !.id = {id}, !.csrf = csrf]]
        PROVE  IInv'
    <3>1. Only(h) /\ req'[h] = [NoRequest EXCEPT !.op = "auth", !.pc = "get",
                                                 !.id = {id}, !.csrf = csrf]
      BY <2>3 DEF Only, TypeOK
    <3>2. id \in SessionId
      BY DEF TypeOK, Ids, Session
    <3>3. RequestInv(h)'
      BY <3>1, <3>2 DEF RequestInv, Passed, NoRequest, At
    <3>4. QED BY <2>1, <3>1, <3>3, OthersKeep, StoreKeep DEF IInv
  <2>4. QED BY <1>3, <2>2, <2>3 DEF Present
<1>4. QED BY <1>1, <1>2, <1>3

\* IInv is kept by GET, by the tests of the copy and by the DEL of a spent session.
LEMMA CheckKeeps ==
    ASSUME TypeOK, IInv, NEW h \in Handler, Get(h) \/ Vet(h) \/ Discard(h) \/ Refresh(h)
    PROVE  IInv'
<1>1. issued' = issued /\ store' \subseteq store /\ ~At(h, "idle")
  BY DEF Get, Vet, Discard, Refresh, At
<1>2. StoreInv'
  BY <1>1, StoreKeep
<1>3. Only(h)
  BY GotoEffect, CarryEffect, AcceptEffect, RefuseEffect DEF Get, Vet, Discard, Refresh
<1>4. req[h].code = "none"
  BY <1>1 DEF IInv, RequestInv, At
<1>5. CASE Refuse(h, "unauthorized") \/ Refuse(h, "forbidden")
  BY <1>1, <1>2, <1>3, <1>5, RefuseKeeps, OthersKeep DEF IInv
<1>6. ASSUME NEW k \in Live(req[h].id), Carry(h, "vet", k.sess, 0), At(h, "get")
      PROVE  IInv'
  <2>1. Genuine(k.sess) /\ req[h].id = {k.sess.id}
    BY <1>6 DEF IInv, StoreInv, RequestInv, Live
  <2>2. RequestInv(h)'
    BY <1>1, <1>4, <1>6, <2>1, CarryEffect DEF RequestInv, Same, Passed, At, Genuine, IInv
  <2>3. QED BY <1>1, <1>2, <1>3, <2>2, OthersKeep DEF IInv
<1>7. CASE Goto(h, "discard")
  <2>1. RequestInv(h)'
    BY <1>1, <1>4, <1>7, GotoEffect
       DEF Vet, Refresh, Discard, Get, RequestInv, Same, Passed, At, Genuine, IInv
  <2>2. QED BY <1>1, <1>2, <1>3, <2>1, OthersKeep DEF IInv
<1>8. ASSUME NEW s \in req[h].held, ~TooOld(s), ~Forged(h, s), At(h, "vet"),
             Carry(h, "refresh", s, clock)
      PROVE  IInv'
  <2>1. s \in Session /\ clock \in Nat
    BY DEF TypeOK, Request
  <2>2. MaxAge > 0 => clock <= s.created + MaxAge
    BY <1>8, <2>1, SessionAssumption DEF TooOld, Session
  <2>3. RequestInv(h)'
    BY <1>1, <1>4, <1>8, <2>2, CarryEffect
       DEF RequestInv, Same, Passed, At, Genuine, IInv, Forged
  <2>4. QED BY <1>1, <1>2, <1>3, <2>3, OthersKeep DEF IInv
<1>9. ASSUME NEW s \in req[h].held, ~(TTL > 0 /\ TooOld(s)), At(h, "refresh"),
             \/ Accept(h, s, IF TTL > 0 THEN clock ELSE req[h].at)
             \/ TTL > 0 /\ Carry(h, "set", Renewed(s), clock)
      PROVE  IInv'
  <2>1. s \in Session /\ clock \in Nat
    BY DEF TypeOK, Request
  <2>2. MaxAge > 0 /\ TTL > 0 => clock <= s.created + MaxAge
    BY <1>9, <2>1, SessionAssumption DEF TooOld, Session
  <2>3. Passed(h) /\ Genuine(s) /\ req[h].id = {s.id}
    BY <1>9 DEF Passed, IInv, RequestInv, At
  <2>4. /\ MaxAge > 0 => req[h].at <= s.created + MaxAge
        /\ req[h].csrf \in {{}, {s.csrf}}
    BY <2>3 DEF IInv, RequestInv
  <2>5. CASE Accept(h, s, IF TTL > 0 THEN clock ELSE req[h].at)
    <3>1. RequestInv(h)'
      BY <1>1, <2>2, <2>3, <2>4, <2>5, AcceptEffect
         DEF RequestInv, Same, Passed, At, Genuine
    <3>2. QED BY <1>1, <1>2, <1>3, <3>1, OthersKeep DEF IInv
  <2>6. CASE TTL > 0 /\ Carry(h, "set", Renewed(s), clock)
    <3>1. Copy(Renewed(s), s)
      BY <2>1 DEF Renewed, Copy, Session
    <3>2. RequestInv(h)'
      BY <1>1, <1>4, <2>2, <2>3, <2>4, <2>6, <3>1, CarryEffect
         DEF RequestInv, Same, Passed, At, Genuine, Copy
    <3>3. QED BY <1>1, <1>2, <1>3, <3>2, OthersKeep DEF IInv
  <2>7. QED BY <1>9, <2>5, <2>6
<1>10. QED
  BY <1>5, <1>6, <1>7, <1>8, <1>9, SessionAssumption
     DEF Get, Vet, Discard, Refresh, Due

\* IInv is kept by SET.
LEMMA SetKeeps ==
    ASSUME TypeOK, IInv, NEW h \in Handler, Set(h)
    PROVE  IInv'
<1>1. PICK s \in req[h].held :
        /\ Put(s) \/ UNCHANGED store
        /\ Accept(h, s, req[h].at) \/ Refuse(h, "internal")
  BY DEF Set
<1>2. issued' = issued /\ Only(h)
  BY <1>1, AcceptEffect, RefuseEffect DEF Set
<1>3. Genuine(s) /\ req[h].id = {s.id} /\ req[h].held = {s}
  BY DEF IInv, RequestInv
<1>4. StoreInv'
  BY <1>1, <1>2, <1>3, StoreKeep DEF Put
<1>5. RequestInv(h)'
  <2>1. CASE Accept(h, s, req[h].at)
    BY <1>2, <1>3, <2>1, AcceptEffect DEF Set, RequestInv, Same, Passed, At, Genuine, IInv
  <2>2. CASE Refuse(h, "internal")
    BY <2>2, RefuseKeeps
  <2>3. QED BY <1>1, <2>1, <2>2
<1>6. QED BY <1>2, <1>4, <1>5, OthersKeep DEF IInv

\* IInv is kept by a SET that is sent again.
LEMMA ResendKeeps ==
    ASSUME IInv, NEW h \in Handler, Resend(h)
    PROVE  IInv'
<1>1. PICK s \in req[h].held : Put(s)
  BY DEF Resend
<1>2. Genuine(s) /\ issued' = issued /\ req' = req
  BY DEF Resend, IInv, RequestInv
<1>3. StoreInv'
  BY <1>1, <1>2, StoreKeep DEF Put
<1>4. QED BY <1>2, <1>3 DEF IInv, RequestInv, Passed, Genuine, At

\* TypeOK and IInv hold in every reachable state.
THEOREM Invariance == Spec => [](TypeOK /\ IInv)
<1>1. Init => TypeOK /\ IInv
  BY SessionAssumption
     DEF Init, TypeOK, IInv, StoreInv, RequestInv, Passed, NoRequest, Request, Op, Pc, Code,
         At, Ids
<1>2. TypeOK /\ IInv /\ [Next]_vars => (TypeOK /\ IInv)'
  <2> SUFFICES ASSUME TypeOK, IInv, [Next]_vars PROVE (TypeOK /\ IInv)'
    OBVIOUS
  <2>1. ASSUME NEW h \in Handler, Login(h) \/ Logout(h) \/ Present(h)
        PROVE  (TypeOK /\ IInv)'
    BY <2>1, ArriveType, ArriveKeeps
  <2>2. ASSUME NEW h \in Handler, Step(h) PROVE (TypeOK /\ IInv)'
    BY <2>2, StepType, CheckKeeps, SetKeeps DEF Step
  <2>3. CASE Tick
    <3>1. TypeOK'
      BY <2>3, TickType
    <3>2. IInv'
      BY <2>3 DEF Tick, IInv, StoreInv, RequestInv, Passed, Genuine, At
    <3>3. QED BY <3>1, <3>2
  <2>4. CASE UNCHANGED vars
    BY <2>4 DEF vars, TypeOK, IInv, StoreInv, RequestInv, Passed, Genuine, At
  <2>5. ASSUME NEW h \in Handler, Resend(h) PROVE (TypeOK /\ IInv)'
    BY <2>5, ResendType, ResendKeeps
  <2>6. QED BY <2>1, <2>2, <2>3, <2>4, <2>5 DEF Next
<1>3. QED BY <1>1, <1>2, PTL DEF Spec

\* Every variable keeps its type, and no key of a session outlives its TTL.
THEOREM TypeCorrect == Spec => []TypeOK
  BY Invariance, PTL

\* Whoever is about to send the DEL of a spent session has found its copy outlived; and
\* the clock does not go back.
DiscardInv ==
    \A h \in Handler : At(h, "discard") => /\ req[h].held # {}
                                          /\ \A c \in req[h].held : Outlived(c)

LEMMA StaysOutlived ==
    ASSUME TypeOK, NEW c \in Session, Outlived(c), clock' \in Nat, clock' >= clock
    PROVE  Outlived(c)'
BY SessionAssumption DEF TypeOK, Outlived, Session

LEMMA DiscardStep ==
    ASSUME TypeOK, IInv, DiscardInv, [Next]_vars
    PROVE  DiscardInv'
<1>1. clock \in Nat /\ \A h \in Handler : req[h].held \subseteq Session
  BY SessionAssumption DEF TypeOK, Request
<1>2. ASSUME clock' = clock, NEW h \in Handler, Only(h),
             At(h, "discard")' => req'[h].held # {} /\ \A c \in req'[h].held : Outlived(c)
      PROVE  DiscardInv'
  BY <1>2 DEF DiscardInv, Only, At, Outlived
<1>3. ASSUME NEW h \in Handler, Login(h) \/ Logout(h) \/ Present(h)
      PROVE  DiscardInv'
  <2>1. clock' = clock /\ Only(h) /\ req'[h].pc # "discard"
    <3>1. CASE Login(h) \/ Logout(h)
      BY <3>1 DEF Login, Logout, TypeOK, Only, NoRequest
    <3>2. CASE Present(h) /\ Refuse(h, "forbidden")
      BY <3>2, RefuseEffect DEF Present
    <3>3. CASE Present(h) /\ ~ Refuse(h, "forbidden")
      BY <3>3 DEF Present, TypeOK, Only, NoRequest
    <3>4. QED BY <1>3, <3>1, <3>2, <3>3
  <2>2. QED BY <1>2, <2>1 DEF At
<1>4. ASSUME NEW h \in Handler, Get(h) \/ Discard(h) \/ Set(h)
      PROVE  DiscardInv'
  <2>1. clock' = clock /\ Only(h) /\ req'[h].pc # "discard"
    <3>1. CASE Get(h)
      <4>1. CASE Refuse(h, "unauthorized")
        BY <3>1, <4>1, RefuseEffect DEF Get
      <4>2. ASSUME NEW k \in store, Carry(h, "vet", k.sess, 0)
            PROVE  clock' = clock /\ Only(h) /\ req'[h].pc # "discard"
        <5>1. Only(h) /\ req'[h].pc = "vet"
          BY <4>2, CarryEffect
        <5>2. QED BY <3>1, <5>1 DEF Get
      <4>3. QED BY <3>1, <4>1, <4>2 DEF Get, Live
    <3>2. CASE Discard(h)
      BY <3>2, RefuseEffect DEF Discard
    <3>3. CASE Set(h)
      BY <3>3, AcceptEffect, RefuseEffect DEF Set
    <3>4. QED BY <1>4, <3>1, <3>2, <3>3
  <2>2. QED BY <1>2, <2>1 DEF At
<1>5. ASSUME NEW h \in Handler, Vet(h) \/ Refresh(h)
      PROVE  DiscardInv'
  <2>1. clock' = clock /\ Only(h)
    BY <1>5, GotoEffect, CarryEffect, AcceptEffect, RefuseEffect DEF Vet, Refresh
  <2>2. CASE req'[h].pc # "discard"
    BY <1>2, <2>1, <2>2 DEF At
  <2>3. CASE req'[h].pc = "discard"
    <3>1. PICK s \in req[h].held : Goto(h, "discard") /\ (clock > s.expires \/ TooOld(s))
      <4>1. CASE Vet(h)
        <5>1. ~ Refuse(h, "forbidden")
          BY <2>3, RefuseEffect
        <5>2. ASSUME NEW s \in req[h].held PROVE ~ Carry(h, "refresh", s, clock)
          <6>1. Carry(h, "refresh", s, clock) => req'[h].pc = "refresh"
            BY CarryEffect
          <6>2. QED BY <2>3, <6>1
        <5>3. QED BY <4>1, <5>1, <5>2 DEF Vet
      <4>2. CASE Refresh(h)
        BY <2>3, <4>2, CarryEffect, AcceptEffect DEF Refresh
      <4>3. QED BY <1>5, <4>1, <4>2
    <3>2. req'[h].held = {s}
      BY <3>1, GotoEffect DEF IInv, RequestInv
    <3>3. Outlived(s)
      BY <3>1 DEF TooOld, Outlived
    <3>4. QED BY <1>2, <2>1, <3>2, <3>3
  <2>4. QED BY <2>2, <2>3
<1>6. CASE Tick
  <2>1. clock' \in Nat /\ clock' >= clock /\ req' = req
    BY <1>1, <1>6 DEF Tick
  <2>2. QED BY <1>1, <2>1, StaysOutlived DEF DiscardInv, At
<1>7. CASE UNCHANGED vars \/ \E h \in Handler : Resend(h)
  BY <1>7 DEF vars, Resend, DiscardInv, At, Outlived
<1>8. QED BY <1>3, <1>4, <1>5, <1>6, <1>7 DEF Next, Step

\* No request is let through by a session older than MaxAge, whatever refreshes and
\* logouts race with it.
THEOREM AgeIsLimited == Spec => []HardClose
<1>1. TypeOK /\ IInv => HardClose
  <2> SUFFICES ASSUME TypeOK, IInv, MaxAge > 0, NEW h \in Handler, NEW s \in issued,
                      Admitted(h), s.id \in req[h].id
               PROVE  req[h].at <= s.created + MaxAge
    BY DEF HardClose
  <2>1. Passed(h)
    BY DEF Admitted, Passed, At
  <2>2. PICK c \in req[h].held : Genuine(c) /\ req[h].id = {c.id}
                                 /\ req[h].at <= c.created + MaxAge
    BY <2>1 DEF IInv, RequestInv
  <2>3. c.created = s.created
    BY <2>2 DEF IInv, StoreInv, Genuine, Copy
  <2>4. QED BY <2>2, <2>3
<1>2. QED BY <1>1, Invariance, PTL

\* A request is let through as the user of the login that drew its session id, and
\* one that changes data only with the token of that login.
THEOREM AdmittedAsLoggedIn == Spec => []SameLogin
<1>1. TypeOK /\ IInv => SameLogin
  <2> SUFFICES ASSUME TypeOK, IInv, NEW h \in Handler, Admitted(h)
               PROVE  \E s \in issued, c \in req[h].held :
                         /\ req[h].id = {s.id}
                         /\ c.user = s.user
                         /\ req[h].csrf \in {{}, {s.csrf}}
    BY DEF SameLogin
  <2>1. Passed(h)
    BY DEF Admitted, Passed, At
  <2>2. PICK c \in req[h].held : /\ Genuine(c) /\ req[h].id = {c.id}
                                 /\ req[h].csrf \in {{}, {c.csrf}}
    BY <2>1 DEF IInv, RequestInv
  <2>3. PICK s \in issued : Copy(c, s)
    BY <2>2 DEF Genuine
  <2>4. QED BY <2>2, <2>3 DEF Copy
<1>2. QED BY <1>1, Invariance, PTL

-----------------------------------------------------------------------------
\* Whose id is alive, spelled out.
LEMMA AliveIs ==
    \A i : i \in Alive <=> \/ \E k \in store : k.sess.id = i
                           \/ \E h \in Handler : Working(h) /\ \E c \in req[h].held : c.id = i
  BY DEF Alive, Ids

\* Ids stop being alive, or stay so, when Redis gains no id that was not alive and
\* no handler starts to work with a copy whose id was not.
LEMMA AliveShrinks ==
    ASSUME NEW h \in Handler, Only(h),
           \A k \in store' : k \in store \/ k.sess.id \in Alive,
           Working(h)' => \A c \in req'[h].held : c.id \in Alive
    PROVE  Alive' \subseteq Alive
<1>1. SUFFICES ASSUME NEW i \in Alive' PROVE i \in Alive
  OBVIOUS
<1>2. \/ \E k \in store' : k.sess.id = i
      \/ \E g \in Handler : Working(g)' /\ \E c \in req'[g].held : c.id = i
  <2>1. Alive' = Ids({k.sess : k \in store'})
                  \cup UNION {Ids(req'[g].held) : g \in {f \in Handler : Working(f)'}}
    BY DEF Alive
  <2>2. QED BY <2>1 DEF Ids
<1>3. CASE \E k \in store' : k.sess.id = i
  BY <1>3, AliveIs
<1>4. ASSUME NEW g \in Handler, Working(g)', NEW c \in req'[g].held, c.id = i
      PROVE  i \in Alive
  <2>1. CASE g = h
    BY <1>4, <2>1
  <2>2. CASE g # h
    BY <1>4, <2>2, AliveIs DEF Only, Working
  <2>3. QED BY <2>1, <2>2
<1>5. QED BY <1>2, <1>3, <1>4

\* The admissions when only h moves.
LEMMA AdmissionOnly ==
    ASSUME NEW h \in Handler, Only(h)
    PROVE  Admission' = [Admission EXCEPT ![h] = Admission'[h]]
  BY DEF Admission, Admitted, Only, At

\* The refusal of a request, or its end, is a Leave.
LEMMA LeaveStep ==
    ASSUME NEW h \in Handler, Only(h), ~Admitted(h)', Alive' \subseteq Alive,
           UNCHANGED <<clock, issued>>
    PROVE  Lifetime!Next
<1>1. Admission'[h] = {}
  BY DEF Admission
<1>2. Admission' = [Admission EXCEPT ![h] = {}]
  BY <1>1, AdmissionOnly
<1>3. QED BY <1>2 DEF Lifetime!Next, Lifetime!Leave

\* A step that lets nobody in and nobody out is an End.
LEMMA EndStep ==
    ASSUME NEW h \in Handler, Only(h), Admission'[h] = Admission[h], Alive' \subseteq Alive,
           UNCHANGED <<clock, issued>>
    PROVE  Lifetime!Next
<1>1. Admission' = Admission
  BY AdmissionOnly DEF Admission
<1>2. QED BY <1>1 DEF Lifetime!Next, Lifetime!End

\* A step that lets the request of h in, with a copy that is young enough, is an
\* Admit.
LEMMA AdmitStep ==
    ASSUME TypeOK, NEW h \in Handler, Only(h), Working(h), Admitted(h)',
           NEW s \in req[h].held, Genuine(s), ~TooOld(s),
           NEW r, req'[h].held = {r}, r.id = s.id, r.user = s.user,
           Alive' \subseteq Alive, UNCHANGED <<clock, issued>>
    PROVE  Lifetime!Next
<1>1. PICK t \in issued : Copy(s, t)
  BY DEF Genuine
<1>2. t.id \in Alive
  BY <1>1, AliveIs DEF Copy
<1>3. ~Lifetime!OfAge(t)
  BY <1>1 DEF Copy, TooOld, Lifetime!OfAge
<1>4. Admission'[h] = {[id |-> t.id, user |-> t.user]}
  BY <1>1 DEF Admission, Copy
<1>5. Admission' = [Admission EXCEPT ![h] = {[id |-> t.id, user |-> t.user]}]
  BY <1>4, AdmissionOnly
<1>6. QED BY <1>1, <1>2, <1>3, <1>5 DEF Lifetime!Next, Lifetime!Admit

\* With a TTL, Sessions implements SessionLifetime: what logouts and refreshes in a
\* race leave of a session is alive only because a request that had read it before
\* still holds it, nobody is let in by a dead or an old session, and the user, token
\* and login time of a session never change.  (With a TTL of 0 the age of a copy is
\* not looked at again when a request is let in.)
THEOREM KeepsLifetimePromise ==
    ASSUME TTL > 0
    PROVE  Spec => LifetimePromise
<1>1. Init => Lifetime!Init
  BY DEF Init, Lifetime!Init, Alive, Ids, Working, Admission, Admitted, At, NoRequest
<1>2. TypeOK /\ IInv /\ [Next]_vars => [Lifetime!Next]_(Lifetime!vars)
  <2> SUFFICES ASSUME TypeOK, IInv, [Next]_vars
               PROVE  [Lifetime!Next]_(Lifetime!vars)
    OBVIOUS
  <2>1. ASSUME NEW h \in Handler, Login(h) PROVE Lifetime!Next
    <3>1. PICK id \in SessionId \ Ids(issued), u \in User :
            /\ issued' = issued \cup {NewSession(id, u)}
            /\ req' = [req EXCEPT ![h] = [NoRequest EXCEPT !.op = "login", !.pc = "set",
                                            !.id = {id}, !.held = {NewSession(id, u)}]]
      BY <2>1 DEF Login
    <3> DEFINE s == NewSession(id, u)
    <3>2. s.id = id /\ s.created = clock
      BY DEF NewSession
    <3>3. Only(h) /\ req'[h] = [NoRequest EXCEPT !.op = "login", !.pc = "set",
                                  !.id = {id}, !.held = {s}]
      BY <3>1 DEF Only, TypeOK
    <3>4. issued' = issued \cup {s}
      BY <3>1
    <3> HIDE DEF s
    <3>5. ~Working(h) /\ ~Admitted(h)' /\ store' = store /\ clock' = clock
      BY <2>1, <3>3 DEF Login, At, Working, Admitted, NoRequest
    <3>6. Alive' = Alive \cup {s.id}
      <4>1. {g \in Handler : Working(g)'} = {g \in Handler : Working(g)} \cup {h}
        BY <3>3 DEF Working, Only, NoRequest
      <4>2. \A g \in Handler : Working(g) => req'[g] = req[g]
        BY <3>3, <3>5 DEF Only
      <4>3. Ids(req'[h].held) = {s.id}
        BY <3>3 DEF Ids, NoRequest
      <4>4. QED BY <3>5, <4>1, <4>2, <4>3 DEF Alive
    <3>7. Admission' = [Admission EXCEPT ![h] = {}]
      BY <3>3, <3>5, AdmissionOnly DEF Admission
    <3>8. s \in issued' /\ s.id \notin Lifetime!Ids(issued)
      BY <3>1, <3>2, <3>4 DEF Ids, Lifetime!Ids
    <3>9. QED
      BY <3>2, <3>4, <3>5, <3>6, <3>7, <3>8 DEF Lifetime!Next, Lifetime!Issue
  <2>2. ASSUME NEW h \in Handler, Logout(h) \/ Present(h) PROVE Lifetime!Next
    <3>1. Only(h) /\ store' \subseteq store /\ UNCHANGED <<clock, issued>>
      BY <2>2, RefuseEffect DEF Logout, Present, Only, TypeOK
    <3>2. req'[h].pc \in {"idle", "get"}
          /\ (req'[h].op = "auth" => req'[h].code = "none" /\ req'[h].pc = "get")
      <4>1. CASE Logout(h)
        BY <4>1 DEF Logout, TypeOK, NoRequest
      <4>2. CASE Present(h) /\ Refuse(h, "forbidden")
        BY <4>2, RefuseEffect
      <4>3. CASE Present(h) /\ ~Refuse(h, "forbidden")
        BY <4>3 DEF Present, TypeOK, NoRequest
      <4>4. QED BY <2>2, <4>1, <4>2, <4>3
    <3>3. ~Admitted(h)' /\ ~Working(h)'
      BY <3>2 DEF Admitted, Working, At
    <3>4. QED BY <3>1, <3>3, AliveShrinks, LeaveStep
  <2>3. ASSUME NEW h \in Handler, Get(h) \/ Vet(h) \/ Discard(h) PROVE Lifetime!Next
    <3>1. store' \subseteq store /\ UNCHANGED <<clock, issued>>
      BY <2>3 DEF Get, Vet, Discard
    <3>2. CASE Refuse(h, "unauthorized") \/ Refuse(h, "forbidden")
      <4>1. Only(h) /\ ~Admitted(h)' /\ ~Working(h)'
        BY <3>2, RefuseEffect DEF Admitted, Working, At, NoRequest
      <4>2. QED BY <3>1, <4>1, AliveShrinks, LeaveStep
    <3>3. CASE \/ \E k \in Live(req[h].id) : Carry(h, "vet", k.sess, 0)
               \/ At(h, "vet") /\ (\/ Goto(h, "discard")
                                   \/ \E s \in req[h].held : Carry(h, "refresh", s, clock))
      <4>1. Only(h) /\ ~Admitted(h)'
        BY <2>3, <3>3, GotoEffect, CarryEffect
           DEF Get, Vet, Discard, IInv, RequestInv, Same, Admitted, At
      <4>2. Working(h)' => \A c \in req'[h].held : c.id \in Alive
        BY <3>3, GotoEffect, CarryEffect, AliveIs DEF Working, Live, At
      <4>3. QED BY <3>1, <4>1, <4>2, AliveShrinks, LeaveStep
    <3>4. QED BY <2>3, <3>2, <3>3 DEF Get, Vet, Discard
  <2>4. ASSUME NEW h \in Handler, Refresh(h) PROVE Lifetime!Next
    <3>1. PICK s \in req[h].held :
            \/ TooOld(s) /\ Goto(h, "discard")
            \/ ~TooOld(s) /\ Accept(h, s, clock)
            \/ ~TooOld(s) /\ Carry(h, "set", Renewed(s), clock)
      BY <2>4, TTL > 0 DEF Refresh
    <3>2. UNCHANGED <<clock, issued, store>> /\ Working(h) /\ req[h].op = "auth"
      BY <2>4 DEF Refresh, Working, IInv, RequestInv, At
    <3>3. s.id \in Alive /\ Genuine(s) /\ s \in Session /\ req[h].code = "none"
      BY <2>4, <3>2, AliveIs DEF Refresh, IInv, RequestInv, TypeOK, Request, At
    <3>4. CASE Goto(h, "discard")
      <4>1. Only(h) /\ ~Admitted(h)' /\ ~Working(h)'
        BY <3>3, <3>4, GotoEffect DEF Admitted, Working, At
      <4>2. QED BY <3>2, <4>1, AliveShrinks, LeaveStep
    <3>5. CASE ~TooOld(s) /\ Accept(h, s, clock)
      <4>1. Only(h) /\ Admitted(h)' /\ ~Working(h)' /\ req'[h].held = {s}
        BY <3>2, <3>5, AcceptEffect DEF Admitted, Working, Same, At
      <4>2. Alive' \subseteq Alive
        BY <3>2, <4>1, AliveShrinks
      <4>3. QED BY <3>2, <3>3, <3>5, <4>1, <4>2, AdmitStep
    <3>6. CASE ~TooOld(s) /\ Carry(h, "set", Renewed(s), clock)
      <4>1. Only(h) /\ Admitted(h)' /\ req'[h].held = {Renewed(s)}
        BY <3>2, <3>6, CarryEffect DEF Admitted, Same, At
      <4>2. Renewed(s).id = s.id /\ Renewed(s).user = s.user
        BY <3>3 DEF Renewed, Session
      <4>3. Alive' \subseteq Alive
        BY <3>2, <3>3, <4>1, <4>2, AliveShrinks
      <4>4. QED BY <3>2, <3>3, <3>6, <4>1, <4>2, <4>3, AdmitStep
    <3>7. QED BY <3>1, <3>4, <3>5, <3>6
  <2>5. ASSUME NEW h \in Handler, Set(h) PROVE Lifetime!Next
    <3>1. PICK s \in req[h].held :
            /\ Put(s) \/ UNCHANGED store
            /\ Accept(h, s, req[h].at) \/ Refuse(h, "internal")
      BY <2>5 DEF Set
    <3>2. UNCHANGED <<clock, issued>> /\ Working(h) /\ At(h, "set")
      BY <2>5 DEF Set, Working, At
    <3>3. s.id \in Alive /\ req[h].held = {s} /\ req[h].code = "none"
      BY <3>2, AliveIs DEF IInv, RequestInv, At
    <3>4. \A k \in store' : k \in store \/ k.sess.id \in Alive
      BY <3>1, <3>3 DEF Put
    <3>5. CASE Accept(h, s, req[h].at)
      <4>1. Only(h) /\ ~Working(h)' /\ req'[h].held = req[h].held
            /\ (Admitted(h)' <=> Admitted(h))
        BY <3>2, <3>3, <3>5, AcceptEffect DEF Admitted, Working, Same, At
      <4>2. Admission'[h] = Admission[h]
        BY <4>1 DEF Admission
      <4>3. QED BY <3>2, <3>4, <4>1, <4>2, AliveShrinks, EndStep
    <3>6. CASE Refuse(h, "internal")
      <4>1. Only(h) /\ ~Admitted(h)' /\ ~Working(h)'
        BY <3>6, RefuseEffect DEF Admitted, Working, At, NoRequest
      <4>2. QED BY <3>2, <3>4, <4>1, AliveShrinks, LeaveStep
    <3>7. QED BY <3>1, <3>5, <3>6
  <2>6. CASE Tick
    <3>1. store' \subseteq store /\ UNCHANGED <<issued, req>> /\ clock' = clock + 1
      BY <2>6 DEF Tick
    <3>2. Alive' \subseteq Alive /\ Admission' = Admission
      BY <3>1 DEF Alive, Ids, Working, Admission, Admitted, At
    <3>3. QED BY <3>1, <3>2 DEF Lifetime!Next, Lifetime!Advance
  <2>7. CASE UNCHANGED vars
    BY <2>7 DEF vars, Lifetime!vars, Alive, Ids, Working, Admission, Admitted, At
  <2>8. ASSUME NEW h \in Handler, Resend(h) PROVE Lifetime!Next
    <3>1. PICK s \in req[h].held : Put(s)
      BY <2>8 DEF Resend
    <3>2. UNCHANGED <<clock, issued, req>> /\ Working(h)
      BY <2>8 DEF Resend, Working, At
    <3>3. s.id \in Alive
      BY <3>2, AliveIs
    <3>4. \A k \in store' : k \in store \/ k.sess.id \in Alive
      BY <3>1, <3>3 DEF Put
    <3>5. Working(h)' => \A c \in req'[h].held : c.id \in Alive
      BY <3>2, AliveIs
    <3>6. Only(h) /\ Admission'[h] = Admission[h]
      BY <3>2 DEF Only, Admission, Admitted, At
    <3>7. QED BY <3>2, <3>4, <3>5, <3>6, AliveShrinks, EndStep
  <2>9. QED BY <2>1, <2>2, <2>3, <2>4, <2>5, <2>6, <2>7, <2>8 DEF Next, Step
<1>3. QED BY <1>1, <1>2, Invariance, PTL DEF Spec, LifetimePromise, Lifetime!Spec

-----------------------------------------------------------------------------
\* Redis loses a session at its deadline, by its own logout, or because a request had
\* read a copy of it that was outlived: for any number of handlers and sessions, and
\* whatever is sent late or sent again (store_redis.go:40-62).
THEOREM EndedForCause == Spec => EndsForCause
<1>1. Init => DiscardInv
  BY DEF Init, NoRequest, DiscardInv, At
<1>2. TypeOK /\ IInv /\ DiscardInv /\ [Next]_vars => DiscardInv'
  BY DiscardStep
<1> DEFINE Cause(k) ==
       \/ k.sess.id \in Ids({j.sess : j \in store'})
       \/ TTL > 0 /\ clock' >= k.until
       \/ \E h \in Handler :
            \/ Logout(h) /\ req'[h].id = {k.sess.id}
            \/ At(h, "discard") /\ \E s \in req[h].held : s.id = k.sess.id /\ Outlived(s)
<1>3. TypeOK /\ IInv /\ DiscardInv /\ [Next]_vars => [\A k \in store : Cause(k)]_vars
  <2>1. SUFFICES ASSUME TypeOK, IInv, DiscardInv, Next, NEW k \in store,
                        k.sess.id \notin Ids({j.sess : j \in store'})
                 PROVE  Cause(k)
    OBVIOUS
  <2>2. \A j \in store' : j.sess.id # k.sess.id
    BY <2>1 DEF Ids
  <2>3. CASE Tick
    <3>1. k.until \in Nat /\ clock' \in Nat
      BY <2>1, <2>3, SessionAssumption DEF Tick, TypeOK, Key
    <3>2. QED BY <2>1, <2>2, <2>3, <3>1, SessionAssumption DEF Tick
  <2>4. ASSUME NEW h \in Handler, Logout(h) PROVE Cause(k)
    <3>1. PICK id \in given, code \in {"ok", "internal"} :
            /\ \/ store' = {j \in store : j.sess.id # id}
               \/ code = "internal" /\ UNCHANGED store
            /\ req' = [req EXCEPT ![h] = [NoRequest EXCEPT !.op = "logout", !.id = {id},
                                                           !.code = code]]
      BY <2>4 DEF Logout
    <3>2. k.sess.id = id
      BY <2>1, <2>2, <3>1
    <3>3. req'[h].id = {id}
      BY <2>1, <3>1 DEF TypeOK, NoRequest
    <3>4. QED BY <2>4, <3>2, <3>3
  <2>5. ASSUME NEW h \in Handler, Discard(h) PROVE Cause(k)
    <3>1. At(h, "discard") /\ k.sess.id \in req[h].id
      BY <2>1, <2>2, <2>5 DEF Discard
    <3>2. PICK s \in req[h].held : Outlived(s) /\ req[h].id = {s.id}
      BY <2>1, <3>1 DEF DiscardInv, IInv, RequestInv
    <3>3. QED BY <3>1, <3>2
  <2>6. ASSUME NEW h \in Handler, Set(h) \/ Resend(h) PROVE FALSE
    <3>1. PICK s \in req[h].held : Put(s) \/ UNCHANGED store
      BY <2>6 DEF Set, Resend
    <3>2. CASE UNCHANGED store
      BY <2>1, <2>2, <3>2
    <3>3. CASE Put(s)
      <4>1. [sess |-> s, until |-> clock + TTL] \in store'
        BY <3>3 DEF Put
      <4>2. k.sess.id # s.id
        BY <2>2, <4>1
      <4>3. k \in store'
        BY <2>1, <3>3, <4>2 DEF Put
      <4>4. QED BY <2>2, <4>3
    <3>4. QED BY <3>1, <3>2, <3>3
  <2>7. ASSUME NEW h \in Handler, Login(h) \/ Present(h) \/ Get(h) \/ Vet(h) \/ Refresh(h)
        PROVE  FALSE
    <3>1. store' = store
      BY <2>7 DEF Login, Present, Get, Vet, Refresh
    <3>2. QED BY <2>1, <2>2, <3>1
  <2>8. QED BY <2>1, <2>3, <2>4, <2>5, <2>6, <2>7 DEF Next, Step
<1>4. QED BY <1>1, <1>2, <1>3, Invariance, PTL DEF Spec, EndsForCause
=============================================================================
