------------------------------ MODULE CookieJar ------------------------------
(***************************************************************************)
(* The session cookie and the CSRF cookie of one browser.  Requests carry   *)
(* the cookies as they were when they were sent; the answers, each of which *)
(* may set or clear one cookie or both, arrive in any order or not at all.  *)
(* The server answers from the sessions that are alive, in the sense of     *)
(* SessionLifetime, which module Sessions implements.  A CSRF token is      *)
(* named by the session it was drawn for.                                   *)
(***************************************************************************)
EXTENDS Naturals

CONSTANTS
    Conn,       \* the browser's connections: requests it may have under way
    SessionId   \* sessions that logins may draw

VARIABLES
    alive,      \* sessions a request may be let through with
    drawn,      \* sessions ever created
    jar,        \* the browser's cookies
    token,      \* the token the page took from the last login or GET /auth/csrf
    conn        \* each connection's request and answer

vars == <<alive, drawn, jar, token, conn>>

Maybe == {{}} \cup {{s} : s \in SessionId}
Jar == [sess : Maybe, csrf : Maybe]
Op == {"none", "login", "logout", "csrf", "read", "write"}

\* Which cookies an answer sets to id ({} clears them), and whether its body holds
\* the token.  The session cookie never gets a new expiry without the CSRF cookie.
Answer == {a \in [sess : BOOLEAN, csrf : BOOLEAN, body : BOOLEAN, id : Maybe,
                   ok : BOOLEAN] : a.sess => a.csrf}
Refusal == [sess |-> FALSE, csrf |-> FALSE, body |-> FALSE, id |-> {}, ok |-> FALSE]

\* has: the cookies sent; head: the header X-CSRF-Token.
Request == [op : Op, pc : {"idle", "sent", "answered"}, has : Jar, head : Maybe,
            answer : Answer]
NoCookies == [sess |-> {}, csrf |-> {}]
NoRequest == [op |-> "none", pc |-> "idle", has |-> NoCookies, head |-> {},
              answer |-> Refusal]

Init ==
    /\ alive = {}
    /\ drawn = {}
    /\ jar = NoCookies
    /\ token = {}
    /\ conn = [c \in Conn |-> NoRequest]

-----------------------------------------------------------------------------
\* The browser.  The page puts the cookie it can read, or the token it was given,
\* into the header.

Send(c) ==
    /\ conn[c].pc = "idle"
    /\ \E op \in Op \ {"none"}, head \in {jar.csrf, token} :
         /\ op \in {"login", "logout", "csrf", "read"} => head = jar.csrf
         /\ op = "login" => drawn # SessionId
         /\ conn' = [conn EXCEPT ![c] = [NoRequest EXCEPT !.op = op, !.pc = "sent",
                                                          !.has = jar, !.head = head]]
    /\ UNCHANGED <<alive, drawn, jar, token>>

Arrive(c) ==
    /\ conn[c].pc = "answered"
    /\ LET a == conn[c].answer
       IN  /\ jar' = [sess |-> IF a.sess THEN a.id ELSE jar.sess,
                      csrf |-> IF a.csrf THEN a.id ELSE jar.csrf]
           /\ token' = IF a.body THEN a.id ELSE token
    /\ conn' = [conn EXCEPT ![c] = NoRequest]
    /\ UNCHANGED <<alive, drawn>>

\* The connection breaks, before or after the server has handled the request.
Lose(c) ==
    /\ conn[c].pc # "idle"
    /\ conn' = [conn EXCEPT ![c] = NoRequest]
    /\ UNCHANGED <<alive, drawn, jar, token>>

\* Each cookie has its own expiry: that of the answer that set it.
DropCookie ==
    /\ \/ jar' = [jar EXCEPT !.sess = {}]
       \/ jar' = [jar EXCEPT !.csrf = {}]
    /\ UNCHANGED <<alive, drawn, token, conn>>

-----------------------------------------------------------------------------
\* The server.

Reply(c, answer) ==
    conn' = [conn EXCEPT ![c] = [@ EXCEPT !.pc = "answered", !.has = NoCookies,
                                          !.answer = answer]]

Serving(c, op) == conn[c].pc = "sent" /\ conn[c].op = op

\* A login ends no other session.
Login(c) ==
    /\ Serving(c, "login")
    /\ \E s \in SessionId \ drawn :
         /\ alive' = alive \cup {s}
         /\ drawn' = drawn \cup {s}
         /\ Reply(c, [sess |-> TRUE, csrf |-> TRUE, body |-> TRUE, id |-> {s}, ok |-> TRUE])
    /\ UNCHANGED <<jar, token>>

\* Mutant: a refusal clears the CSRF cookie.
BugRefuse(c) ==
    /\ conn[c].pc = "sent"
    /\ Reply(c, [Refusal EXCEPT !.csrf = TRUE])
    /\ UNCHANGED <<alive, drawn, jar, token>>

\* Any request may be refused or fail: then it touches no cookie.
Refuse(c) ==
    /\ conn[c].pc = "sent"
    /\ Reply(c, Refusal)
    /\ UNCHANGED <<alive, drawn, jar, token>>

\* Logout clears both cookies, also when none was sent.  A refresh under way may keep
\* the session alive (SessionLogout).
Logout(c) ==
    /\ Serving(c, "logout")
    /\ alive' \in {alive \ conn[c].has.sess, alive}
    /\ alive' # alive \ conn[c].has.sess =>
         \E d \in Conn \ {c} : conn[d].pc = "sent" /\ conn[d].has.sess = conn[c].has.sess
    /\ Reply(c, [sess |-> TRUE, csrf |-> TRUE, body |-> FALSE, id |-> {}, ok |-> TRUE])
    /\ UNCHANGED <<drawn, jar, token>>

\* GET /auth/csrf sets the CSRF cookie always, the session cookie after a refresh.
CSRFToken(c) ==
    /\ Serving(c, "csrf")
    /\ conn[c].has.sess \cap alive # {}
    /\ \E refreshed \in BOOLEAN :
         Reply(c, [sess |-> refreshed, csrf |-> TRUE, body |-> TRUE,
                   id |-> conn[c].has.sess, ok |-> TRUE])
    /\ UNCHANGED <<alive, drawn, jar, token>>

\* Mutant: the CSRF cookie is set after a refresh only.
BugRepairs(r, refreshed) == refreshed

\* Mutant: the CSRF cookie is set only when it does not fit.
BugRepairsMisfit(r, refreshed) == r.has.csrf # r.has.sess

\* The middleware sets the CSRF cookie when the one sent is not the session's.
Repairs(r, refreshed) == refreshed \/ r.has.csrf # r.has.sess

Pass(c, refreshed) ==
    Reply(c, [sess |-> refreshed, csrf |-> Repairs(conn[c], refreshed),
              body |-> FALSE, id |-> conn[c].has.sess, ok |-> TRUE])

Read(c) ==
    /\ Serving(c, "read")
    /\ conn[c].has.sess \cap alive # {}
    /\ \E refreshed \in BOOLEAN : Pass(c, refreshed)
    /\ UNCHANGED <<alive, drawn, jar, token>>

\* The middleware compares the header with the cookie; the auth service, with the session.
Submitted(r) == r.head # {} /\ r.head = r.has.csrf
Genuine(r) == r.head = r.has.sess

Write(c) ==
    /\ Serving(c, "write")
    /\ Submitted(conn[c])
    /\ conn[c].has.sess \cap alive # {}
    /\ Genuine(conn[c])
    /\ \E refreshed \in BOOLEAN : Pass(c, refreshed)
    /\ UNCHANGED <<alive, drawn, jar, token>>

\* A session expires, grows too old, or is logged out elsewhere.
End ==
    /\ \E s \in alive : alive' = alive \ {s}
    /\ UNCHANGED <<drawn, jar, token, conn>>

Serve(c) ==
    Login(c) \/ Refuse(c) \/ Logout(c) \/ CSRFToken(c) \/ Read(c) \/ Write(c)

Next ==
    \/ \E c \in Conn : Send(c) \/ Arrive(c) \/ Lose(c) \/ Serve(c)
    \/ DropCookie
    \/ End

Spec == Init /\ [][Next]_vars

-----------------------------------------------------------------------------
\* Every variable has its type; an answer that prolongs the session cookie prolongs the
\* CSRF cookie too (middleware_auth.go:78-83).
TypeOK ==
    /\ alive \subseteq drawn
    /\ drawn \subseteq SessionId
    /\ jar \in Jar
    /\ token \in Maybe
    /\ conn \in [Conn -> Request]

\* The cookies fit, or the session cookie is no longer worth anything.
Settled == jar.sess \cap alive # {} => jar.csrf = jar.sess

\* The browser logs in or out; the answer to a read arrives.
Upset == \E c \in Conn : Send(c) /\ conn'[c].op \in {"login", "logout"}
ReadArrives == \E c \in Conn : conn[c].op = "read" /\ conn[c].answer.ok /\ Arrive(c)

\* What is under way is of the session in the jar; and the cookies fit, too.
Quiet ==
    \A c \in Conn :
        /\ conn[c].op \notin {"login", "logout"}
        /\ conn[c].pc = "sent" => conn[c].has.sess = jar.sess
        /\ conn[c].answer.csrf => conn[c].answer.id = jar.sess
Calm == Settled /\ Quiet

\* Cookies that fit are not parted again: when no login, no logout and no request with
\* another session is under way, whatever reads and writes are refused, refreshed, lost
\* or answered late leaves the jar as fit (middleware_auth.go:45-83).
StaysSettled == [][Calm /\ ~ (Upset \/ DropCookie) => Calm']_vars

\* A read sent with cookies that do not fit, or its answer.
Mending(c) ==
    /\ Quiet
    /\ conn[c].op = "read"
    /\ \/ conn[c].pc = "sent" /\ conn[c].has.csrf # conn[c].has.sess
       \/ conn[c].pc = "answered" /\ (conn[c].answer.ok => conn[c].answer.csrf)

\* Cookies that do not fit are mended by a single read, if it is neither lost nor refused:
\* though the middleware looks at the cookie as it was sent, nothing that happens before
\* the answer arrives makes the repair it carries, or does not carry, wrong
\* (middleware_auth.go:78-83).
OneReadMends ==
    [][\A c \in Conn : Mending(c) /\ ~ (Upset \/ DropCookie) =>
           \/ Mending(c)' \/ Calm'
           \/ Lose(c)
           \/ Arrive(c) /\ ~ conn[c].answer.ok]_vars

\* Once the browser logs neither in nor out and loses no cookie, and if answers to its
\* reads go on arriving, the CSRF cookie comes to fit the session cookie for good,
\* whatever was under way (middleware_auth.go:78-83).
CookiesSettle ==
    <>[][~ (Upset \/ DropCookie)]_vars /\ []<><<ReadArrives>>_vars => <>[]Settled
=============================================================================
