---------------------------- MODULE CookieJarProofs ----------------------------
(***************************************************************************)
(* Proofs about CookieJar, for any number of connections and of sessions:   *)
(* types, that cookies which fit stay so, and that one read mends others.   *)
(***************************************************************************)
EXTENDS CookieJar, TLAPS

\* An answer is an answer: what the server sends back keeps the request's type.
LEMMA ReplyType ==
    ASSUME TypeOK, NEW c \in Conn, NEW answer \in Answer, Reply(c, answer)
    PROVE  conn' \in [Conn -> Request]
<1>1. conn \in [Conn -> Request] /\ conn[c] \in Request
  BY DEF TypeOK
<1>2. NoCookies \in Jar
  BY DEF NoCookies, Jar, Maybe
<1>3. [conn[c] EXCEPT !.pc = "answered", !.has = NoCookies, !.answer = answer] \in Request
  BY <1>1, <1>2 DEF Request
<1>4. QED BY <1>1, <1>3 DEF Reply

LEMMA RefusalType == Refusal \in Answer /\ NoCookies \in Jar /\ NoRequest \in Request
<1>1. Refusal \in Answer
  BY DEF Refusal, Answer, Maybe
<1>2. NoCookies \in Jar
  BY DEF NoCookies, Jar, Maybe
<1>3. NoRequest \in Request
  BY <1>1, <1>2 DEF NoRequest, Request, Op, Maybe
<1>4. QED BY <1>1, <1>2, <1>3

LEMMA PassType ==
    ASSUME TypeOK, NEW c \in Conn, NEW refreshed \in BOOLEAN, Pass(c, refreshed)
    PROVE  conn' \in [Conn -> Request]
<1>1. conn[c].has.sess \in Maybe
  BY DEF TypeOK, Request, Jar
<1>2. Repairs(conn[c], refreshed) \in BOOLEAN /\ (refreshed => Repairs(conn[c], refreshed))
  BY DEF Repairs
<1>3. [sess |-> refreshed, csrf |-> Repairs(conn[c], refreshed), body |-> FALSE,
       id |-> conn[c].has.sess, ok |-> TRUE] \in Answer
  BY <1>1, <1>2 DEF Answer
<1>4. QED BY <1>3, ReplyType DEF Pass

LEMMA BrowserType ==
    ASSUME TypeOK, NEW c \in Conn, Send(c) \/ Arrive(c) \/ Lose(c)
    PROVE  TypeOK'
<1>1. conn \in [Conn -> Request] /\ conn[c] \in Request /\ jar \in Jar /\ token \in Maybe
  BY DEF TypeOK
<1>2. CASE Send(c)
  <2>1. PICK op \in Op, head \in {jar.csrf, token} :
          conn' = [conn EXCEPT ![c] = [NoRequest EXCEPT !.op = op, !.pc = "sent",
                                                        !.has = jar, !.head = head]]
    BY <1>2 DEF Send
  <2>2. head \in Maybe
    BY <1>1 DEF Jar
  <2>3. [NoRequest EXCEPT !.op = op, !.pc = "sent", !.has = jar, !.head = head] \in Request
    BY <1>1, <2>2, RefusalType DEF Request
  <2>4. QED BY <1>1, <1>2, <2>1, <2>3 DEF Send, TypeOK
<1>3. CASE Arrive(c)
  <2>1. conn[c].answer.id \in Maybe
    BY <1>1 DEF Request, Answer
  <2>2. jar' \in Jar /\ token' \in Maybe
    BY <1>1, <1>3, <2>1 DEF Arrive, Jar
  <2>3. QED BY <1>1, <1>3, <2>2, RefusalType DEF Arrive, TypeOK
<1>4. CASE Lose(c)
  BY <1>1, <1>4, RefusalType DEF Lose, TypeOK
<1>5. QED BY <1>2, <1>3, <1>4

LEMMA ServerType ==
    ASSUME TypeOK, NEW c \in Conn, Serve(c)
    PROVE  TypeOK'
<1>1. {} \in Maybe /\ conn[c].has.sess \in Maybe
  BY DEF TypeOK, Request, Jar, Maybe
<1>2. CASE Login(c)
  <2>1. PICK s \in SessionId \ drawn :
          /\ alive' = alive \cup {s}
          /\ drawn' = drawn \cup {s}
          /\ Reply(c, [sess |-> TRUE, csrf |-> TRUE, body |-> TRUE, id |-> {s},
                           ok |-> TRUE])
    BY <1>2 DEF Login
  <2>2. [sess |-> TRUE, csrf |-> TRUE, body |-> TRUE, id |-> {s}, ok |-> TRUE] \in Answer
    BY DEF Answer, Maybe
  <2>3. conn' \in [Conn -> Request]
    BY <1>1, <2>1, <2>2, ReplyType
  <2>4. QED BY <1>2, <2>1, <2>3 DEF Login, TypeOK
<1>3. CASE Refuse(c)
  <2>1. conn' \in [Conn -> Request]
    BY <1>1, <1>3, RefusalType, ReplyType DEF Refuse
  <2>2. QED BY <1>3, <2>1 DEF Refuse, TypeOK
<1>4. CASE Logout(c)
  <2>1. [sess |-> TRUE, csrf |-> TRUE, body |-> FALSE, id |-> {}, ok |-> TRUE] \in Answer
    BY DEF Answer, Maybe
  <2>2. conn' \in [Conn -> Request]
    BY <1>1, <1>4, <2>1, ReplyType DEF Logout
  <2>3. alive' \subseteq alive
    BY <1>4 DEF Logout
  <2>4. QED BY <1>4, <2>2, <2>3 DEF Logout, TypeOK
<1>5. CASE CSRFToken(c)
  <2>1. PICK refreshed \in BOOLEAN :
          Reply(c, [sess |-> refreshed, csrf |-> TRUE, body |-> TRUE,
                        id |-> conn[c].has.sess, ok |-> TRUE])
    BY <1>5 DEF CSRFToken
  <2>2. [sess |-> refreshed, csrf |-> TRUE, body |-> TRUE, id |-> conn[c].has.sess,
         ok |-> TRUE] \in Answer
    BY <1>1 DEF Answer
  <2>3. conn' \in [Conn -> Request]
    BY <1>1, <2>1, <2>2, ReplyType
  <2>4. QED BY <1>5, <2>3 DEF CSRFToken, TypeOK
<1>6. CASE Read(c) \/ Write(c)
  <2>1. \E refreshed \in BOOLEAN : Pass(c, refreshed)
    BY <1>6 DEF Read, Write
  <2>2. conn' \in [Conn -> Request]
    BY <2>1, PassType
  <2>3. QED BY <1>6, <2>2 DEF Read, Write, TypeOK
<1>7. QED BY <1>2, <1>3, <1>4, <1>5, <1>6 DEF Serve

\* Every variable keeps its type, and no answer gives the session cookie a new expiry
\* without the CSRF cookie (middleware_auth.go:78-83).
THEOREM TypeCorrect == Spec => []TypeOK
<1>1. Init => TypeOK
  BY RefusalType DEF Init, TypeOK, Maybe
<1>2. TypeOK /\ [Next]_vars => TypeOK'
  <2>1. SUFFICES ASSUME TypeOK, [Next]_vars PROVE TypeOK'
    OBVIOUS
  <2>2. CASE DropCookie
    BY <2>1, <2>2 DEF DropCookie, TypeOK, Jar, Maybe
  <2>3. CASE End
    BY <2>1, <2>3 DEF End, TypeOK
  <2>4. CASE UNCHANGED vars
    BY <2>1, <2>4 DEF vars, TypeOK
  <2>5. QED BY <2>1, <2>2, <2>3, <2>4, BrowserType, ServerType DEF Next
<1>3. QED BY <1>1, <1>2, PTL DEF Spec

-----------------------------------------------------------------------------
\* An idle connection asks for nothing and sets no cookie.
LEMMA NothingYet ==
    NoRequest.op = "none" /\ NoRequest.pc = "idle" /\ ~ NoRequest.answer.csrf
BY DEF NoRequest, Refusal

\* What a request is when it is sent, and what is left of it when it is over.
LEMMA SendIs ==
    ASSUME TypeOK, NEW c \in Conn, Send(c)
    PROVE  /\ conn[c].pc = "idle" /\ conn'[c].has = jar /\ ~ conn'[c].answer.csrf
           /\ \A d \in Conn : d # c => conn'[d] = conn[d]
<1>1. PICK op \in Op, head \in {jar.csrf, token} :
        conn' = [conn EXCEPT ![c] = [NoRequest EXCEPT !.op = op, !.pc = "sent",
                                                      !.has = jar, !.head = head]]
  BY DEF Send
<1>2. conn \in [Conn -> Request] /\ NoRequest \in Request
  BY RefusalType DEF TypeOK
<1>3. conn'[c] = [NoRequest EXCEPT !.op = op, !.pc = "sent", !.has = jar, !.head = head]
  BY <1>1, <1>2
<1>4. conn'[c].has = jar /\ conn'[c].answer = NoRequest.answer
  BY <1>2, <1>3 DEF Request
<1>5. QED BY <1>1, <1>2, <1>4, NothingYet DEF Send

LEMMA OverIs ==
    ASSUME TypeOK, NEW c \in Conn, Arrive(c) \/ Lose(c)
    PROVE  conn'[c] = NoRequest /\ \A d \in Conn : d # c => conn'[d] = conn[d]
BY DEF TypeOK, Arrive, Lose

\* What an answer is depends on the request; the other connections do not change.
LEMMA ReplyIs ==
    ASSUME TypeOK, NEW c \in Conn, NEW answer, Reply(c, answer)
    PROVE  /\ conn'[c].op = conn[c].op /\ conn'[c].pc = "answered"
           /\ conn'[c].answer = answer
           /\ \A d \in Conn : d # c => conn'[d] = conn[d]
BY DEF TypeOK, Request, Reply

-----------------------------------------------------------------------------
\* The answer to a request of the jar's session touches no cookie or sets both alike.
LEMMA ServeQuiet ==
    ASSUME TypeOK, Quiet, NEW c \in Conn, Serve(c)
    PROVE  Quiet' /\ UNCHANGED <<alive, jar>>
<1>1. conn[c].op \notin {"login", "logout"} /\ conn[c].has.sess = jar.sess
  BY DEF Quiet, Serve, Login, Refuse, Logout, CSRFToken, Read, Write, Serving
<1>2. UNCHANGED <<alive, jar>>
  BY <1>1 DEF Serve, Login, Refuse, Logout, CSRFToken, Read, Write, Serving
<1>3. \E answer : Reply(c, answer) /\ (answer.csrf => answer.id = jar.sess)
  <2>1. CASE Refuse(c)
    <3>1. ~ Refusal.csrf
      BY DEF Refusal
    <3>2. QED BY <2>1, <3>1 DEF Refuse
  <2>2. CASE CSRFToken(c)
    <3>1. PICK refreshed \in BOOLEAN :
            Reply(c, [sess |-> refreshed, csrf |-> TRUE, body |-> TRUE,
                      id |-> conn[c].has.sess, ok |-> TRUE])
      BY <2>2 DEF CSRFToken
    <3>2. QED BY <1>1, <3>1
  <2>3. CASE Read(c) \/ Write(c)
    <3>1. PICK refreshed \in BOOLEAN : Pass(c, refreshed)
      BY <2>3 DEF Read, Write
    <3>2. QED BY <1>1, <3>1 DEF Pass
  <2>4. QED BY <1>1, <2>1, <2>2, <2>3 DEF Serve, Login, Logout, Serving
<1>4. QED BY <1>1, <1>2, <1>3, ReplyIs DEF Quiet

\* What arrives while all under way is of the jar's session.
LEMMA ArriveQuiet ==
    ASSUME TypeOK, Quiet, NEW c \in Conn, Arrive(c)
    PROVE  /\ jar'.sess = jar.sess
           /\ jar'.csrf = IF conn[c].answer.csrf THEN jar.sess ELSE jar.csrf
<1>1. conn[c].answer \in Answer /\ (conn[c].answer.csrf => conn[c].answer.id = jar.sess)
  BY DEF TypeOK, Request, Quiet
<1>2. QED BY <1>1 DEF Arrive, Answer

\* Until the next login, logout or expiry in the browser all stays of the jar's session,
\* and a CSRF cookie that fits stays as well.
LEMMA QuietStep ==
    ASSUME TypeOK, Quiet, Next, ~ Upset, ~ DropCookie
    PROVE  /\ Quiet'
           /\ jar'.sess = jar.sess
           /\ jar.csrf = jar.sess => jar'.csrf = jar.sess
           /\ alive' \subseteq alive
<1> DEFINE Kept == /\ Quiet'
                   /\ jar'.sess = jar.sess
                   /\ jar.csrf = jar.sess => jar'.csrf = jar.sess
                   /\ alive' \subseteq alive
<1>1. ASSUME NEW c \in Conn, Send(c) PROVE Kept
  <2>1. conn'[c].op \notin {"login", "logout"}
    BY <1>1 DEF Upset
  <2>2. /\ conn'[c].has = jar /\ ~ conn'[c].answer.csrf
        /\ \A d \in Conn : d # c => conn'[d] = conn[d]
    BY <1>1, SendIs
  <2>3. UNCHANGED <<alive, jar>>
    BY <1>1 DEF Send
  <2>4. QED BY <2>1, <2>2, <2>3 DEF Quiet
<1>2. ASSUME NEW c \in Conn, Arrive(c) PROVE Kept
  <2>1. /\ conn'[c] = NoRequest /\ UNCHANGED alive
        /\ \A d \in Conn : d # c => conn'[d] = conn[d]
    BY <1>2, OverIs DEF Arrive
  <2>2. QED BY <1>2, <2>1, ArriveQuiet, NothingYet DEF Quiet
<1>3. ASSUME NEW c \in Conn, Lose(c) PROVE Kept
  <2>1. /\ conn'[c] = NoRequest /\ UNCHANGED <<alive, jar>>
        /\ \A d \in Conn : d # c => conn'[d] = conn[d]
    BY <1>3, OverIs DEF Lose
  <2>2. QED BY <2>1, NothingYet DEF Quiet
<1>4. CASE End
  BY <1>4 DEF End, Quiet
<1>5. ASSUME NEW c \in Conn, Serve(c) PROVE Kept
  BY <1>5, ServeQuiet
<1>6. QED BY <1>1, <1>2, <1>3, <1>4, <1>5 DEF Next

\* Cookies that fit are parted by a login, a logout or an expiry in the browser only: the
\* answers to any number of reads and writes, in any order, refused, refreshed or lost,
\* leave them as fit (middleware_auth.go:45-83).
THEOREM CookiesStay == Spec => StaysSettled
<1>1. TypeOK /\ [Next]_vars => [Calm /\ ~ (Upset \/ DropCookie) => Calm']_vars
  <2>1. SUFFICES ASSUME TypeOK, Next, Calm, ~ Upset, ~ DropCookie PROVE Calm'
    BY DEF vars
  <2>2. QED BY <2>1, QuietStep DEF Calm, Settled
<1>2. QED BY <1>1, TypeCorrect, PTL DEF Spec, StaysSettled

\* Cookies that do not fit are mended by one read that is answered, however many answers
\* to other requests of that session arrive before (middleware_auth.go:78-83).
THEOREM OneReadIsEnough == Spec => OneReadMends
<1> DEFINE Mends(c) == Mending(c) /\ ~ (Upset \/ DropCookie) =>
                         \/ Mending(c)' \/ Calm'
                         \/ Lose(c)
                         \/ Arrive(c) /\ ~ conn[c].answer.ok
<1>1. TypeOK /\ [Next]_vars => [\A c \in Conn : Mends(c)]_vars
  <2>1. SUFFICES ASSUME TypeOK, Next, NEW c \in Conn, Mending(c), ~ Upset, ~ DropCookie,
                        ~ Lose(c), ~ (Arrive(c) /\ ~ conn[c].answer.ok)
                 PROVE  Mending(c)' \/ Calm'
    BY DEF vars
  <2>2. Quiet /\ Quiet' /\ jar'.sess = jar.sess
    BY <2>1, QuietStep DEF Mending
  <2>3. CASE conn'[c] = conn[c]
    BY <2>1, <2>2, <2>3 DEF Mending
  <2>4. CASE Arrive(c)
    <3>1. conn[c].answer.csrf
      BY <2>1, <2>4 DEF Mending, Arrive
    <3>2. jar'.csrf = jar'.sess
      BY <2>1, <2>2, <2>4, <3>1, ArriveQuiet
    <3>3. QED BY <2>2, <3>2 DEF Calm, Settled
  <2>5. CASE Refuse(c)
    <3>1. Reply(c, Refusal) /\ ~ Refusal.ok
      BY <2>5 DEF Refuse, Refusal
    <3>2. QED BY <2>1, <2>2, <3>1, ReplyIs DEF Mending
  <2>6. CASE Read(c)
    <3>1. conn[c].has.csrf # conn[c].has.sess
      BY <2>1, <2>6 DEF Mending, Read, Serving
    <3>2. \E answer : Reply(c, answer) /\ answer.csrf
      <4>1. PICK refreshed \in BOOLEAN : Pass(c, refreshed)
        BY <2>6 DEF Read
      <4>2. Repairs(conn[c], refreshed)
        BY <3>1 DEF Repairs
      <4>3. QED BY <4>1, <4>2 DEF Pass
    <3>3. QED BY <2>1, <2>2, <3>2, ReplyIs DEF Mending
  <2>7. ~ Send(c) /\ ~ Login(c) /\ ~ Logout(c) /\ ~ CSRFToken(c) /\ ~ Write(c)
    BY <2>1 DEF Mending, Send, Login, Logout, CSRFToken, Write, Serving
  <2>8. ASSUME NEW d \in Conn, d # c, Send(d) \/ Arrive(d) \/ Lose(d) \/ Serve(d)
        PROVE  conn'[c] = conn[c]
    <3>1. CASE Send(d) \/ Arrive(d) \/ Lose(d)
      BY <2>1, <2>8, <3>1, SendIs, OverIs
    <3>2. CASE Serve(d)
      <4>1. \E answer : Reply(d, answer)
        BY <3>2 DEF Serve, Login, Refuse, Logout, CSRFToken, Read, Write, Pass
      <4>2. QED BY <2>1, <2>8, <4>1, ReplyIs
    <3>3. QED BY <2>8, <3>1, <3>2
  <2>9. End => conn'[c] = conn[c]
    BY DEF End
  <2>10. QED BY <2>1, <2>3, <2>4, <2>5, <2>6, <2>7, <2>8, <2>9 DEF Next, Serve
<1>2. QED BY <1>1, TypeCorrect, PTL DEF Spec, OneReadMends
=============================================================================
