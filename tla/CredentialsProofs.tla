--------------------------- MODULE CredentialsProofs ---------------------------
(***************************************************************************)
(* Proofs about Credentials: an email is one account's in all its           *)
(* spellings, whoever gets in brought an account's email and password, and  *)
(* whoever has them all the time gets in.                                   *)
(***************************************************************************)
EXTENDS Credentials, TLAPS

\* What the table says of an account is what its client knows.
GrantOf(u) == [id |-> u.id, email |-> u.email.word, password |-> u.hash.word]

\* One form, one id and one email for each row, and a hash of a password that bcrypt takes.
UserOK(u) ==
    u \in Row /\ u.email.bare = TRUE /\ u.hash.bare = TRUE /\ u.hash.word \notin Long
Table ==
    /\ \A u \in users : UserOK(u)
    /\ \A u, v \in users : u.id = v.id \/ u.email = v.email => u = v
Ledger == granted = {GrantOf(u) : u \in users}

\* A login at work has noticed whether its pair was some account's, and whether it
\* still is.
Owned(r, grants) == \E w \in r.want : Owns(grants, w)
ReqOK(r, grants) ==
    /\ \A w, x \in r.want : w = x
    /\ r.pc # "idle" => r.code = "none"
    /\ r.pc # "idle" /\ Owned(r, grants) => r.ever
    /\ r.pc # "idle" /\ r.always => Owned(r, grants)
    /\ r.pc = "session" => r.ever
    /\ r.code = "ok" => r.ever
    /\ r.code = "refused" /\ ~ r.failed => ~ r.always

Logins == req \in [Handler -> Request] /\ \A h \in Handler : ReqOK(req[h], granted)
IInv == Table /\ Ledger /\ Logins

LEMMA GrantType ==
    \A u : UserOK(u) => GrantOf(u) \in Grant
BY DEF UserOK, Row, Text, GrantOf, Grant

\* Two texts of one form that have one word are one.
LEMMA SameText ==
    \A W : \A s, t \in Text(W) : s.word = t.word /\ s.bare = t.bare => s = t
<1>1. \A W : \A t \in Text(W) : t = [word |-> t.word, bare |-> t.bare]
  BY DEF Text
<1>2. QED BY <1>1

LEMMA NormalType ==
    \A W : \A t \in Text(W) :
        Normal(t) \in Text(W) /\ Normal(t).word = t.word /\ Normal(t).bare = TRUE
BY DEF Text, Normal

\* A password that is looked for with Matches is the one the client of the row knows.
LEMMA MatchesGrant ==
    ASSUME NEW u, UserOK(u), NEW p \in Text(Word)
    PROVE  Matches(u, p) <=> GrantOf(u).password = Cut[p.word]
<1> DEFINE t == [Normal(p) EXCEPT !.word = Cut[@]]
<1>1. t \in Text(Word) /\ t.word = Cut[p.word] /\ t.bare = TRUE
  BY NormalType, CredentialAssumption DEF CredentialAssumption, Text
<1>2. u.hash \in Text(Word) /\ u.hash.bare = TRUE
  BY DEF UserOK, Row
<1>3. u.hash = t <=> u.hash.word = t.word
  BY <1>1, <1>2, SameText
<1>4. QED BY <1>1, <1>3 DEF Matches, GrantOf

\* The pair of a login is owned exactly if the row of its email has its password.
LEMMA OwnsRow ==
    ASSUME Table, Ledger, NEW w \in Login
    PROVE  /\ \A u \in users : u.email = Normal(w.email) /\ Matches(u, w.password)
                                 => Owns(granted, w)
           /\ Owns(granted, w) => \E u \in users : /\ u.email = Normal(w.email)
                                                   /\ Matches(u, w.password)
<1>1. w.email \in Text(Email) /\ w.password \in Text(Word)
  BY DEF Login
<1>2. ASSUME NEW u \in users
      PROVE  u.email = Normal(w.email) <=> GrantOf(u).email = w.email.word
  <2>1. u.email \in Text(Email) /\ u.email.bare = TRUE
    BY DEF Table, UserOK, Row
  <2>2. /\ Normal(w.email) \in Text(Email) /\ Normal(w.email).word = w.email.word
        /\ Normal(w.email).bare = TRUE
    BY <1>1, NormalType
  <2>3. u.email = Normal(w.email) <=> u.email.word = w.email.word
    BY <2>1, <2>2, SameText
  <2>4. QED BY <2>3 DEF GrantOf
<1>3. ASSUME NEW u \in users
      PROVE  Matches(u, w.password) <=> GrantOf(u).password = Cut[w.password.word]
  BY <1>1, MatchesGrant DEF Table
<1>4. Owns(granted, w) <=> \E u \in users : /\ GrantOf(u).email = w.email.word
                                            /\ GrantOf(u).password = Cut[w.password.word]
  BY DEF Owns, Ledger
<1>5. QED BY <1>2, <1>3, <1>4

-----------------------------------------------------------------------------
\* What a login has noticed stays true through a statement of another request.
LEMMA SeenOK ==
    ASSUME NEW r \in Request, ReqOK(r, granted), NEW grants
    PROVE  Seen(r, grants) \in Request /\ ReqOK(Seen(r, grants), grants)
<1> DEFINE s == Seen(r, grants)
<1> DEFINE owned == \E w \in r.want : Owns(grants, w)
<1>1. CASE r.pc = "idle"
  BY <1>1 DEF Seen, ReqOK
<1>2. CASE r.pc # "idle"
  <2>1. s = [r EXCEPT !.ever = @ \/ owned, !.always = @ /\ owned]
    BY <1>2 DEF Seen
  <2>2. s \in Request
    BY <2>1 DEF Request
  <2>3. /\ s.pc = r.pc /\ s.want = r.want /\ s.failed = r.failed /\ s.code = r.code
    BY <2>1 DEF Request
  <2>4. (s.ever <=> r.ever \/ owned) /\ (s.always <=> r.always /\ owned)
    BY <2>1 DEF Request
  <2>5. QED BY <1>2, <2>2, <2>3, <2>4 DEF ReqOK, Owned
<1>3. QED BY <1>1, <1>2

LEMMA CommitOK ==
    ASSUME Logins, NEW rows, NEW grants, Commit(rows, grants)
    PROVE  Logins'
<1>1. granted' = grants /\ req' = [h \in Handler |-> Seen(req[h], grants)]
  BY DEF Commit
<1>2. \A h \in Handler : Seen(req[h], grants) \in Request /\ ReqOK(Seen(req[h], grants), grants)
  BY SeenOK DEF Logins
<1>3. QED BY <1>1, <1>2 DEF Logins

\* The statements keep the table and what clients know of it together.
LEMMA SignupInv ==
    ASSUME IInv, Signup
    PROVE  IInv'
<1>1. PICK id \in UserId, e \in Text(Email), p \in Text(Word) :
        /\ \A u \in users : u.id # id
        /\ Hashable(p)
        /\ Free(Normal(e), id)
        /\ Commit(users \cup {[id |-> id, email |-> Normal(e), hash |-> NewHash(p)]},
                  granted \cup {[id |-> id, email |-> e.word, password |-> p.word]})
  BY DEF Signup
<1> DEFINE n == [id |-> id, email |-> Normal(e), hash |-> NewHash(p)]
<1>2. users' = users \cup {n}
      /\ granted' = granted \cup {[id |-> id, email |-> e.word, password |-> p.word]}
  BY <1>1 DEF Commit
<1>3. UserOK(n) /\ n.id = id /\ n.email = Normal(e)
  BY <1>1, NormalType DEF UserOK, Row, NewHash, Hashable
<1>4. GrantOf(n) = [id |-> id, email |-> e.word, password |-> p.word]
  BY NormalType DEF GrantOf, NewHash
<1>5. Table'
  BY <1>1, <1>2, <1>3 DEF IInv, Table, Free
<1>6. Ledger'
  BY <1>2, <1>4 DEF IInv, Ledger
<1>7. Logins'
  BY <1>1, CommitOK DEF IInv
<1>8. QED BY <1>5, <1>6, <1>7 DEF IInv

LEMMA UpdateInv ==
    ASSUME IInv, UpdateUser
    PROVE  IInv'
<1>1. PICK u \in users, set \in SUBSET {"email", "password"}, e \in Text(Email),
           p \in Text(Word) :
        /\ "email" \in set => Free(Normal(e), u.id)
        /\ "password" \in set => Hashable(p)
        /\ Commit((users \ {u}) \cup {Changed(u, set, e, p)},
                  {IF g.id = u.id THEN Meant(g, set, e, p) ELSE g : g \in granted})
  BY DEF UpdateUser
<1> DEFINE n == Changed(u, set, e, p)
<1>2. UserOK(u)
  BY DEF IInv, Table
<1>3. /\ n.id = u.id
      /\ n.email = IF "email" \in set THEN Normal(e) ELSE u.email
      /\ n.hash = IF "password" \in set THEN NewHash(p) ELSE u.hash
      /\ n \in Row
  BY <1>2, NormalType DEF Changed, UserOK, Row, NewHash
<1>4. UserOK(n)
  BY <1>1, <1>2, <1>3, NormalType DEF UserOK, NewHash, Hashable
<1>5. GrantOf(n) = Meant(GrantOf(u), set, e, p)
  <2>1. n.email.word = (IF "email" \in set THEN e.word ELSE u.email.word)
    BY <1>3, NormalType
  <2>2. n.hash.word = (IF "password" \in set THEN p.word ELSE u.hash.word)
    BY <1>3, NormalType DEF NewHash
  <2> DEFINE m == Meant(GrantOf(u), set, e, p)
  <2>3. GrantOf(u) \in Grant /\ GrantOf(n) \in Grant
    BY <1>2, <1>4, GrantType
  <2>4. m \in Grant
    BY <2>3 DEF Meant, Grant, Text
  <2>5. /\ m.id = u.id
        /\ m.email = (IF "email" \in set THEN e.word ELSE u.email.word)
        /\ m.password = (IF "password" \in set THEN p.word ELSE u.hash.word)
    BY <2>3 DEF Meant, Grant, GrantOf
  <2>6. GrantOf(n).id = u.id /\ GrantOf(n).email = n.email.word /\ GrantOf(n).password = n.hash.word
    BY <1>3 DEF GrantOf
  <2>7. \A g \in Grant : g = [id |-> g.id, email |-> g.email, password |-> g.password]
    BY DEF Grant
  <2>8. QED BY <2>1, <2>2, <2>3, <2>4, <2>5, <2>6, <2>7
<1>6. users' = (users \ {u}) \cup {n}
      /\ granted' = {IF g.id = u.id THEN Meant(g, set, e, p) ELSE g : g \in granted}
  BY <1>1 DEF Commit
<1>7. Table'
  <2>1. \A v \in users : v # u => v.id # n.id
    BY <1>3 DEF IInv, Table
  <2>2. \A v \in users : v # u => v.email # n.email
    BY <1>1, <1>3, <2>1 DEF IInv, Table, Free
  <2>3. QED BY <1>4, <1>6, <2>1, <2>2 DEF IInv, Table
<1>8. Ledger'
  <2>1. \A v \in users : GrantOf(v).id = v.id
    BY DEF GrantOf
  <2>2. \A v \in users : v # u => GrantOf(v).id # u.id
    BY <2>1 DEF IInv, Table
  <2>3. \A g : g \in granted' <=> \E v \in users : g = IF v = u THEN GrantOf(n) ELSE GrantOf(v)
    <3>1. granted = {GrantOf(v) : v \in users}
      BY DEF IInv, Ledger
    <3>2. \A v \in users : (IF GrantOf(v).id = u.id THEN Meant(GrantOf(v), set, e, p) ELSE GrantOf(v))
                             = IF v = u THEN GrantOf(n) ELSE GrantOf(v)
      BY <1>5, <2>1, <2>2
    <3>3. \A g : g \in granted' <=>
            \E v \in users : g = IF GrantOf(v).id = u.id THEN Meant(GrantOf(v), set, e, p)
                                 ELSE GrantOf(v)
      BY <1>6, <3>1
    <3>4. QED BY <3>2, <3>3
  <2>4. \A g : g \in granted' <=> \E v \in users' : g = GrantOf(v)
    BY <1>6, <2>3
  <2>5. QED BY <2>4 DEF Ledger, GrantOf
<1>9. Logins'
  BY <1>1, CommitOK DEF IInv
<1>10. QED BY <1>7, <1>8, <1>9 DEF IInv

LEMMA DeleteInv ==
    ASSUME IInv, DeleteUser
    PROVE  IInv'
<1>1. PICK u \in users : Commit(users \ {u}, {g \in granted : g.id # u.id})
  BY DEF DeleteUser
<1>2. users' = users \ {u} /\ granted' = {g \in granted : g.id # u.id}
  BY <1>1 DEF Commit
<1>3. Table'
  BY <1>2 DEF IInv, Table
<1>4. Ledger'
  <2>1. \A v \in users : GrantOf(v).id = v.id
    BY DEF GrantOf
  <2>2. \A v \in users : v # u <=> GrantOf(v).id # u.id
    BY <2>1 DEF IInv, Table
  <2>3. \A g : g \in granted' <=> \E v \in users' : g = GrantOf(v)
    BY <1>2, <2>2 DEF IInv, Ledger
  <2>4. QED BY <2>3 DEF Ledger, GrantOf
<1>5. Logins'
  BY <1>1, CommitOK DEF IInv
<1>6. QED BY <1>3, <1>4, <1>5 DEF IInv

-----------------------------------------------------------------------------
\* The steps of a login.
LEMMA LoginInv ==
    ASSUME IInv, NEW h \in Handler, PostLogin(h) \/ Verify(h) \/ OpenSession(h)
    PROVE  IInv'
<1>1. UNCHANGED <<users, granted>>
  BY DEF PostLogin, Verify, OpenSession
<1>2. Table' /\ Ledger'
  BY <1>1 DEF IInv, Table, Ledger, GrantOf
<1>3. SUFFICES Logins'
  BY <1>2 DEF IInv
<1>4. Logins /\ req[h] \in Request /\ ReqOK(req[h], granted)
  BY DEF IInv, Logins
<1>5. ASSUME NEW r \in Request, ReqOK(r, granted), req' = [req EXCEPT ![h] = r]
      PROVE  Logins'
  BY <1>1, <1>4, <1>5 DEF Logins
<1>6. CASE PostLogin(h)
  <2>1. PICK w \in Login :
          req' = [req EXCEPT ![h] = [NoRequest EXCEPT !.pc = "load", !.want = {w},
                                       !.ever = Owns(granted, w), !.always = Owns(granted, w)]]
    BY <1>6 DEF PostLogin
  <2> DEFINE r == [NoRequest EXCEPT !.pc = "load", !.want = {w},
                     !.ever = Owns(granted, w), !.always = Owns(granted, w)]
  <2>2. Owns(granted, w) \in BOOLEAN
    BY DEF Owns
  <2>3. r \in Request
    BY <2>2 DEF NoRequest, Request, Code
  <2>4. /\ r.pc = "load" /\ r.want = {w} /\ r.code = "none"
        /\ r.ever = Owns(granted, w) /\ r.always = Owns(granted, w)
    BY DEF NoRequest
  <2>5. ReqOK(r, granted)
    BY <2>4 DEF ReqOK, Owned
  <2>6. QED BY <1>5, <2>1, <2>3, <2>5
<1>7. CASE Verify(h)
  <2>1. PICK w \in req[h].want :
          \/ \E u \in users :
               /\ u.email = Normal(w.email)
               /\ Matches(u, w.password)
               /\ req' = [req EXCEPT ![h] = [@ EXCEPT !.pc = "session"]]
          \/ \E u \in users :
               u.email = Normal(w.email) /\ ~ Matches(u, w.password) /\ Refuse(h, FALSE)
          \/ (\A u \in users : u.email # Normal(w.email)) /\ Refuse(h, FALSE)
          \/ Refuse(h, TRUE)
    BY <1>7 DEF Verify
  <2>2. w \in Login /\ req[h].pc = "load" /\ \A x \in req[h].want : x = w
    BY <1>4, <1>7 DEF Verify, At, Request, ReqOK
  <2>3. Owned(req[h], granted) <=> Owns(granted, w)
    BY <2>2 DEF Owned
  <2>4. CASE /\ \E u \in users : u.email = Normal(w.email) /\ Matches(u, w.password)
             /\ req' = [req EXCEPT ![h] = [@ EXCEPT !.pc = "session"]]
    <3> DEFINE r == [req[h] EXCEPT !.pc = "session"]
    <3>1. req[h].ever
      BY <1>4, <2>2, <2>3, <2>4, OwnsRow DEF IInv, ReqOK
    <3>2. r \in Request
      BY <1>4 DEF Request
    <3>3. /\ r.pc = "session" /\ r.want = req[h].want /\ r.code = req[h].code
          /\ r.ever = req[h].ever /\ r.always = req[h].always /\ r.failed = req[h].failed
      BY <1>4 DEF Request
    <3>4. ReqOK(r, granted)
      BY <1>4, <2>2, <3>1, <3>3 DEF ReqOK, Owned
    <3>5. QED BY <1>5, <2>4, <3>2, <3>4
  <2>5. ASSUME NEW failed \in BOOLEAN, Refuse(h, failed),
               ~ failed => \A u \in users : u.email = Normal(w.email) => ~ Matches(u, w.password)
        PROVE  Logins'
    <3> DEFINE r == [req[h] EXCEPT !.pc = "idle", !.code = "refused", !.failed = failed]
    <3>1. ~ failed => ~ req[h].always
      BY <1>4, <2>2, <2>3, <2>5, OwnsRow DEF IInv, ReqOK
    <3>2. r \in Request
      BY <1>4 DEF Request, Code
    <3>3. /\ r.pc = "idle" /\ r.want = req[h].want /\ r.code = "refused"
          /\ r.ever = req[h].ever /\ r.always = req[h].always /\ r.failed = failed
      BY <1>4 DEF Request
    <3>4. ReqOK(r, granted)
      BY <1>4, <3>1, <3>3 DEF ReqOK
    <3>5. QED BY <1>5, <2>5, <3>2, <3>4 DEF Refuse
  <2>6. \A u, v \in users : u.email = v.email => u = v
    BY DEF IInv, Table
  <2>7. QED BY <2>1, <2>4, <2>5, <2>6
<1>8. CASE OpenSession(h)
  <2>1. req[h].pc = "session" /\ req[h].ever
    BY <1>4, <1>8 DEF OpenSession, At, ReqOK
  <2>2. PICK code \in {"ok", "internal"} : Reply(h, code)
    BY <1>8 DEF OpenSession
  <2> DEFINE r == [req[h] EXCEPT !.pc = "idle", !.code = code]
  <2>3. r \in Request
    BY <1>4 DEF Request, Code
  <2>4. /\ r.pc = "idle" /\ r.want = req[h].want /\ r.code = code /\ r.ever = req[h].ever
    BY <1>4 DEF Request
  <2>5. ReqOK(r, granted)
    BY <1>4, <2>1, <2>4 DEF ReqOK
  <2>6. QED BY <1>5, <2>2, <2>3, <2>5 DEF Reply
<1>9. QED BY <1>6, <1>7, <1>8

LEMMA Invariance == Spec => []IInv
<1>1. Init => IInv
  BY DEF Init, IInv, Table, Ledger, Logins, NoRequest, Request, Code, ReqOK
<1>2. IInv /\ [Next]_vars => IInv'
  <2>1. IInv /\ UNCHANGED vars => IInv'
    BY DEF vars, IInv, Table, Ledger, GrantOf, Logins
  <2>2. QED BY <2>1, SignupInv, UpdateInv, DeleteInv, LoginInv DEF Next
<1>3. QED BY <1>1, <1>2, PTL DEF Spec

\* Ids are unique, and no statement stores an email or a password in another form than
\* the one logins look for (users/service.go:38-39, 180-185).
THEOREM TypeCorrect == Spec => []TypeOK
<1>1. IInv => TypeOK
  <2>1. SUFFICES ASSUME IInv PROVE TypeOK
    OBVIOUS
  <2>2. \A u \in users : GrantOf(u) \in Grant
    BY <2>1, GrantType DEF IInv, Table
  <2>3. QED BY <2>1, <2>2 DEF IInv, Table, UserOK, Ledger, Logins, TypeOK
<1>2. QED BY <1>1, Invariance, PTL

\* However it is spelled, an email is one account's, for any sign-ups and PUTs
\* (users/service.go:38, 180).
THEOREM EmailsAreUnique == Spec => []OneAccountPerEmail
<1>1. IInv => OneAccountPerEmail
  <2>1. SUFFICES ASSUME IInv, NEW u \in users, NEW v \in users, u.email.word = v.email.word
                 PROVE  u = v
    BY DEF OneAccountPerEmail, IInv, Ledger, GrantOf
  <2>2. /\ u.email \in Text(Email) /\ v.email \in Text(Email)
        /\ u.email.bare = v.email.bare
    BY <2>1 DEF IInv, Table, UserOK, Row
  <2>3. u.email = v.email
    BY <2>1, <2>2, SameText
  <2>4. QED BY <2>1, <2>3 DEF IInv, Table
<1>2. QED BY <1>1, Invariance, PTL

\* Whoever gets in typed what was some account's email and password while the login was
\* under way (auth/service.go:103-119).
THEOREM OnlyOwnersGetIn == Spec => []LoginMeansPassword
<1>1. IInv => LoginMeansPassword
  BY DEF IInv, Logins, ReqOK, LoginMeansPassword
<1>2. QED BY <1>1, Invariance, PTL

\* An owner is refused by a failure only, in whatever spelling the pair was typed
\* (users/service.go:38-39, 180-185; auth/service.go:74-75).
THEOREM OwnersGetIn == Spec => []OwnerGetsIn
<1>1. IInv => OwnerGetsIn
  BY DEF IInv, Logins, ReqOK, OwnerGetsIn
<1>2. QED BY <1>1, Invariance, PTL
=============================================================================
