----------------------------- MODULE Credentials -----------------------------
(***************************************************************************)
(* What emails and passwords go through: sign-up, PUT of a user and login   *)
(* all bring what the client typed into one form before they store or       *)
(* compare it.  Each statement is one step; who may change whom is module   *)
(* Accounts, how often a login may be tried LoginLimiter.                   *)
(***************************************************************************)
EXTENDS Naturals

CONSTANTS
    Handler,    \* concurrent request goroutines
    UserId,     \* ids that 12 random bytes may draw
    Email,      \* emails, whatever their case
    Word,       \* passwords of at most 72 characters, without the space around them
    Long,       \* those of them that have more than 72 bytes
    Cut,        \* the password that bcrypt makes of one when it compares
    Faults      \* do Postgres and Redis calls fail?

\* bcrypt reads the first 72 bytes.
ASSUME CredentialAssumption ==
    /\ Long \subseteq Word
    /\ Cut \in [Word -> Word] /\ \A w \in Word \ Long : Cut[w] = w
    /\ Faults \in BOOLEAN

VARIABLES
    users,      \* table users (role and created_at left out)
    granted,    \* history: the credentials that clients have given to accounts
    req         \* each handler's request, or its last one once it is idle

vars == <<users, granted, req>>

\* Typed text: the word, and whether it was typed without capitals (in an email) and
\* space around it.
Text(words) == [word : words, bare : BOOLEAN]

Row == [id : UserId, email : Text(Email), hash : Text(Word)]
Grant == [id : UserId, email : Email, password : Word]

\* want: what the client of a login typed; found: the ids whose hash matched; failed:
\* did a call fail?  ever, always (history): since the request came, was the pair it
\* brings some account's at some time, or all the time?
Login == [email : Text(Email), password : Text(Word)]
Code == {"none", "ok", "refused", "internal"}
Request == [pc : {"idle", "load", "session"}, want : SUBSET Login, failed : BOOLEAN,
            ever : BOOLEAN, always : BOOLEAN, code : Code]
NoRequest == [pc |-> "idle", want |-> {}, failed |-> FALSE, ever |-> FALSE,
              always |-> FALSE, code |-> "none"]

Init ==
    /\ users = {}
    /\ granted = {}
    /\ req = [h \in Handler |-> NoRequest]

At(h, pc) == req[h].pc = pc
Reply(h, code) == req' = [req EXCEPT ![h] = [@ EXCEPT !.pc = "idle", !.code = code]]
Refuse(h, failed) ==
    req' = [req EXCEPT ![h] = [@ EXCEPT !.pc = "idle", !.code = "refused", !.failed = failed]]

-----------------------------------------------------------------------------
\* One form for what was typed.

Normal(t) == [t EXCEPT !.bare = TRUE]

\* The hash of a trimmed password; one that is too long for bcrypt has none.
NewHash(t) == Normal(t)
Hashable(t) == t.word \notin Long

\* Mutant: the result of the comparison is dropped.
BugMatches(u, t) == TRUE

\* Mutant: the password of a login is compared as it was typed.
BugExact(u, t) == u.hash = [t EXCEPT !.word = Cut[@]]

Matches(u, t) == u.hash = [Normal(t) EXCEPT !.word = Cut[@]]

-----------------------------------------------------------------------------
\* Statements on the table, and what their clients know from then on.

Owns(grants, w) ==
    \E g \in grants : g.email = w.email.word /\ g.password = Cut[w.password.word]

Seen(r, grants) ==
    LET owned == \E w \in r.want : Owns(grants, w)
    IN  IF r.pc = "idle" THEN r
        ELSE [r EXCEPT !.ever = @ \/ owned, !.always = @ /\ owned]

Commit(rows, grants) ==
    /\ users' = rows
    /\ granted' = grants
    /\ req' = [h \in Handler |-> Seen(req[h], grants)]

\* Mutant: the column is not UNIQUE.
BugFree(t, id) == TRUE

\* email TEXT UNIQUE
Free(t, id) == \A u \in users : u.id # id => u.email # t

\* Mutant: PUT stores the email as it was typed.
BugChanged(u, set, e, p) ==
    [u EXCEPT !.email = IF "email" \in set THEN e ELSE @,
              !.hash = IF "password" \in set THEN NewHash(p) ELSE @]

\* SET names the columns the body gives.
Changed(u, set, e, p) ==
    [u EXCEPT !.email = IF "email" \in set THEN Normal(e) ELSE @,
              !.hash = IF "password" \in set THEN NewHash(p) ELSE @]

\* What the client means by it.
Meant(g, set, e, p) ==
    [g EXCEPT !.email = IF "email" \in set THEN e.word ELSE @,
              !.password = IF "password" \in set THEN p.word ELSE @]

-----------------------------------------------------------------------------
\* POST /users, PUT and DELETE of a user.  A request that is answered with an error of
\* its input changes nothing and is not a step; one that fails does its statement or not.

Signup ==
    \E id \in UserId, e \in Text(Email), p \in Text(Word) :
        /\ \A u \in users : u.id # id
        /\ Hashable(p)
        /\ Free(Normal(e), id)
        /\ Commit(users \cup {[id |-> id, email |-> Normal(e), hash |-> NewHash(p)]},
                  granted \cup {[id |-> id, email |-> e.word, password |-> p.word]})

\* A user that is not there is answered 404, an email that is taken 500.
UpdateUser ==
    \E u \in users, set \in SUBSET {"email", "password"}, e \in Text(Email),
       p \in Text(Word) :
        /\ "email" \in set => Free(Normal(e), u.id)
        /\ "password" \in set => Hashable(p)
        /\ Commit((users \ {u}) \cup {Changed(u, set, e, p)},
                  {IF g.id = u.id THEN Meant(g, set, e, p) ELSE g : g \in granted})

DeleteUser ==
    \E u \in users :
        Commit(users \ {u}, {g \in granted : g.id # u.id})

-----------------------------------------------------------------------------
\* Service.Login, past the limiter.

PostLogin(h) ==
    /\ At(h, "idle")
    /\ \E w \in Login :
         req' = [req EXCEPT ![h] = [NoRequest EXCEPT !.pc = "load", !.want = {w},
                                      !.ever = Owns(granted, w), !.always = Owns(granted, w)]]
    /\ UNCHANGED <<users, granted>>

\* No such row, another password, and a call that failed are answered alike.
Verify(h) ==
    /\ At(h, "load")
    /\ \E w \in req[h].want :
         \/ \E u \in users :
              /\ u.email = Normal(w.email)
              /\ IF Matches(u, w.password)
                 THEN req' = [req EXCEPT ![h] = [@ EXCEPT !.pc = "session"]]
                 ELSE Refuse(h, FALSE)
         \/ (\A u \in users : u.email # Normal(w.email)) /\ Refuse(h, FALSE)
         \/ Faults /\ Refuse(h, TRUE)
    /\ UNCHANGED <<users, granted>>

OpenSession(h) ==
    /\ At(h, "session")
    /\ \/ Reply(h, "ok")
       \/ Faults /\ Reply(h, "internal")
    /\ UNCHANGED <<users, granted>>

Next ==
    \/ Signup \/ UpdateUser \/ DeleteUser
    \/ \E h \in Handler : PostLogin(h) \/ Verify(h) \/ OpenSession(h)

Spec == Init /\ [][Next]_vars

-----------------------------------------------------------------------------
\* Every variable has its type; ids are unique, and no statement has stored an email or
\* a password in another form than the one logins look for.
TypeOK ==
    /\ users \subseteq Row
    /\ \A u \in users : u.email.bare /\ u.hash.bare
    /\ \A u, v \in users : u.id = v.id => u = v
    /\ granted \subseteq Grant
    /\ req \in [Handler -> Request]

\* However it is spelled, an email is one account's: two sign-ups, or a sign-up and a
\* PUT, of one email never both succeed (users/service.go:38, 180).
OneAccountPerEmail == \A g, k \in granted : g.email = k.email => g = k

\* Who gets in typed an email and a password that were some account's at one moment
\* while the login was under way, so a password given up before it, or an account
\* deleted before it, opens no session (auth/service.go:103-119).
LoginMeansPassword == \A h \in Handler : req[h].code = "ok" => req[h].ever

\* Whose account had that email and password all the time is not told that they are
\* wrong, in whatever spelling they were typed now, at the sign-up and in PUTs, unless
\* the database failed (users/service.go:38-39, 180-185; auth/service.go:74-75).
OwnerGetsIn ==
    \A h \in Handler : req[h].code = "refused" /\ ~ req[h].failed => ~ req[h].always
=============================================================================
