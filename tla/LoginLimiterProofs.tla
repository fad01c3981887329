------------------------- MODULE LoginLimiterProofs -------------------------
(***************************************************************************)
(* Proofs about LoginLimiter, and about LoginRetry, which is built on it.   *)
(* What the observer has seen of a key is what the key's present window let *)
(* through, and, unless that window was open when the observer began, at    *)
(* most Limit of the window before it.  A key that has refused the watched  *)
(* client once lives for less than a second beyond the client's wait, and   *)
(* one that has refused it twice not beyond it.                             *)
(***************************************************************************)
EXTENDS LoginRetry, TLAPS

\* Calls the present window of k has let through.
Through(k) == IF count[k] <= Limit THEN count[k] ELSE Limit

\* The window of k ends before the observer does, so it was open when he began.
Open(k) == 0 < ttl[k] /\ ttl[k] < left

\* What the observer has seen of k, while he looks and after.
SeenInv(k) ==
    /\ left > 0 /\ Open(k) => seen[k] <= Through(k)
    /\ left > 0 /\ ~Open(k) => seen[k] <= Through(k) + Limit
    /\ left = 0 => seen[k] <= 2 * Limit

IInv == \A k \in Key : SeenInv(k)

-----------------------------------------------------------------------------
\* What a run of the script on k does to the counters.
LEMMA RunEffect ==
    ASSUME TypeOK, NEW k \in Key, Run(k)
    PROVE  /\ count' \in [Key -> 0..(Limit + 1)] /\ ttl' \in [Key -> 0..Window]
           /\ \A j \in Key : count'[j] = 0 <=> ttl'[j] = 0
           /\ \A j \in Key : j # k => count'[j] = count[j] /\ ttl'[j] = ttl[j]
           /\ count'[k] = Incr(count[k]) /\ ttl'[k] = Expire(k)
<1>1. Incr(count[k]) \in 1..(Limit + 1) /\ Expire(k) \in 1..Window
  BY LimiterAssumption DEF TypeOK, Incr, Expire
<1>2. QED BY <1>1, LimiterAssumption DEF TypeOK, Run

\* A request that ends keeps its type.
LEMMA ReplyType ==
    ASSUME TypeOK, NEW h \in Handler, NEW code \in Code, Reply(h, code)
    PROVE  req' \in [Handler -> Request]
  BY DEF TypeOK, Reply, NoRequest, Request, Pc

\* A call for k that ends somehow, or is sent again.
Call(h, k) == Pass(k) \/ Deny(h, k) \/ Fail(h, k) \/ (Run(k) /\ UNCHANGED seen)

\* A call of the limiter for k, of whatever outcome, leaves the script run or not,
\* and k counted by the observer only if it was let through.
LEMMA CallEffect ==
    ASSUME NEW h \in Handler, NEW k \in Key, Call(h, k)
    PROVE  \/ Run(k) /\ Allowed(k) /\ Observe(k)
           \/ Run(k) /\ UNCHANGED seen
           \/ UNCHANGED <<count, ttl, seen>>
  BY DEF Call, Pass, Deny, Fail

\* Such a call keeps the types.
LEMMA CallType ==
    ASSUME TypeOK, NEW h \in Handler, NEW k \in Key, Call(h, k),
           left' = left, req' \in [Handler -> Request]
    PROVE  TypeOK'
<1>1. seen' \in [Key -> Nat]
  BY CallEffect DEF Observe, TypeOK
<1>2. CASE Run(k)
  BY <1>1, <1>2, RunEffect DEF TypeOK
<1>3. CASE UNCHANGED <<count, ttl>>
  BY <1>1, <1>3 DEF TypeOK
<1>4. QED BY <1>2, <1>3, CallEffect

\* And what the observer has seen stays accounted for.
LEMMA CallKeeps ==
    ASSUME TypeOK, IInv, NEW h \in Handler, NEW k \in Key, Call(h, k), left' = left
    PROVE  IInv'
<1> USE LimiterAssumption
<1> SUFFICES ASSUME NEW j \in Key PROVE SeenInv(j)'
  BY DEF IInv
<1>1. /\ SeenInv(j) /\ count[j] \in 0..(Limit + 1) /\ ttl[j] \in 0..Window
      /\ left \in 0..Window /\ seen[j] \in Nat /\ (count[j] = 0 <=> ttl[j] = 0)
  BY DEF IInv, TypeOK
<1>2. CASE UNCHANGED <<count, ttl, seen>>
  BY <1>1, <1>2 DEF SeenInv, Open, Through
<1>3. CASE Run(k) /\ j # k
  <2>1. seen'[j] = seen[j]
    BY <1>3, CallEffect DEF Observe, TypeOK
  <2>2. QED BY <1>1, <1>3, <2>1, RunEffect DEF SeenInv, Open, Through
<1>4. CASE Run(k) /\ j = k
  <2>1. count'[j] = Incr(count[j]) /\ ttl'[j] = Expire(j)
    BY <1>4, RunEffect
  <2>2. Through(j) <= Through(j)'
    BY <1>1, <2>1 DEF Through, Incr
  <2>3. Open(j)' => Open(j)
    BY <1>1, <2>1 DEF Open, Expire
  <2>4. Open(j) => Open(j)'
    BY <1>1, <2>1 DEF Open, Expire
  <2>5. Through(j) \in Nat /\ Through(j)' \in Nat
    BY <1>1, <2>1 DEF Through, Incr
  <2>6. CASE UNCHANGED seen
    BY <1>1, <2>2, <2>3, <2>4, <2>5, <2>6 DEF SeenInv
  <2>7. CASE Allowed(k) /\ Observe(k)
    <3>1. Through(j)' = Through(j) + 1
      BY <1>1, <1>4, <2>1, <2>7 DEF Allowed, Incr, Through
    <3>2. seen'[j] = IF left > 0 THEN seen[j] + 1 ELSE seen[j]
      BY <1>4, <2>7 DEF Observe, TypeOK
    <3>3. QED BY <1>1, <2>3, <2>4, <2>5, <3>1, <3>2 DEF SeenInv
  <2>8. QED BY <1>4, <2>6, <2>7, CallEffect
<1>5. QED BY <1>2, <1>3, <1>4, CallEffect

\* A login's calls of the limiter, for a key of its own.
LEMMA PassIs ==
    ASSUME TypeOK, NEW h \in Handler, PassIp(h) \/ PassEmail(h) \/ Resend(h)
    PROVE  /\ \E k \in Key : Call(h, k)
           /\ left' = left /\ req' \in [Handler -> Request]
<1>1. req[h].key \subseteq Key /\ req[h] \in Request
  BY DEF TypeOK, Request
<1>2. CASE Resend(h)
  BY <1>1, <1>2 DEF Resend, Mine, Call, TypeOK
<1>3. CASE PassIp(h) \/ PassEmail(h)
  <2>1. PICK k \in req[h].key :
          \/ /\ Pass(k)
             /\ \/ req' = [req EXCEPT ![h] = [@ EXCEPT !.pc = "email",
                                                       !.key = req[h].key \ {k}]]
                \/ Reply(h, "checked")
          \/ Deny(h, k) \/ Fail(h, k)
    BY <1>3 DEF PassIp, PassEmail, Mine
  <2>2. [req[h] EXCEPT !.pc = "email", !.key = req[h].key \ {k}] \in Request
    BY <1>1 DEF Request, Pc
  <2>3. req' \in [Handler -> Request]
    BY <2>1, <2>2, ReplyType DEF TypeOK, Deny, Fail, Code
  <2>4. QED BY <1>1, <1>3, <2>1, <2>3 DEF PassIp, PassEmail, Call
<1>4. QED BY <1>2, <1>3

\* A login that begins asks for keys.
LEMMA LoginType ==
    ASSUME TypeOK, NEW h \in Handler, Login(h)
    PROVE  TypeOK'
<1>1. PICK e \in Email :
         \/ \E i \in Ip :
               req' = [req EXCEPT ![h] = [NoRequest EXCEPT !.pc = "ip",
                                            !.key = {<<"ip", i>>, <<"email", e>>}]]
         \/ req' = [req EXCEPT ![h] = [NoRequest EXCEPT !.pc = "email",
                                         !.key = {<<"email", e>>}]]
  BY DEF Login
<1>2. <<"email", e>> \in Key /\ \A i \in Ip : <<"ip", i>> \in Key
  BY DEF Key
<1>3. \A keys \in SUBSET Key, pc \in Pc :
         [NoRequest EXCEPT !.pc = pc, !.key = keys] \in Request
  BY DEF NoRequest, Request, Code
<1>4. /\ \A i \in Ip : [NoRequest EXCEPT !.pc = "ip",
                          !.key = {<<"ip", i>>, <<"email", e>>}] \in Request
      /\ [NoRequest EXCEPT !.pc = "email", !.key = {<<"email", e>>}] \in Request
  BY <1>2, <1>3 DEF Pc
<1>5. QED BY <1>1, <1>4 DEF Login, TypeOK

\* Time keeps the invariant: a window that ends while the observer looks was open
\* when he began, so nothing had been counted before it.
LEMMA TickKeeps ==
    ASSUME TypeOK, IInv, Tick
    PROVE  TypeOK' /\ IInv'
<1> USE LimiterAssumption
<1>1. TypeOK'
  BY DEF TypeOK, Tick
<1>2. ASSUME NEW k \in Key PROVE SeenInv(k)'
  <2>1. /\ SeenInv(k) /\ count[k] \in 0..(Limit + 1) /\ ttl[k] \in 0..Window
        /\ left \in 0..Window /\ seen[k] \in Nat /\ (count[k] = 0 <=> ttl[k] = 0)
    BY DEF IInv, TypeOK
  <2>2. /\ ttl'[k] = IF ttl[k] > 0 THEN ttl[k] - 1 ELSE 0
        /\ count'[k] = IF ttl[k] > 1 THEN count[k] ELSE 0
        /\ left' = IF left > 0 THEN left - 1 ELSE 0
        /\ seen' = seen
    BY DEF Tick
  <2>3. QED BY <2>1, <2>2 DEF SeenInv, Open, Through
<1>3. QED BY <1>1, <1>2 DEF IInv

\* The observer begins with nothing seen.
LEMMA LookKeeps ==
    ASSUME TypeOK, IInv, Look
    PROVE  TypeOK' /\ IInv'
<1> USE LimiterAssumption
<1>1. TypeOK'
  BY DEF TypeOK, Look
<1>2. \A k \in Key : seen'[k] = 0 /\ left' > 0 /\ Through(k)' \in Nat
  BY DEF Look, TypeOK, Through
<1>3. QED BY <1>1, <1>2 DEF IInv, SeenInv

\* TypeOK and IInv hold in every reachable state.
THEOREM Invariance == Spec => [](TypeOK /\ IInv)
<1>1. Init => TypeOK /\ IInv
  BY LimiterAssumption
     DEF Init, TypeOK, IInv, SeenInv, NoRequest, Request, Pc, Code
<1>2. TypeOK /\ IInv /\ [Next]_vars => (TypeOK /\ IInv)'
  <2> SUFFICES ASSUME TypeOK, IInv, [Next]_vars PROVE (TypeOK /\ IInv)'
    OBVIOUS
  <2>1. ASSUME NEW h \in Handler, Login(h) PROVE (TypeOK /\ IInv)'
    <3>1. IInv'
      BY <2>1 DEF Login, IInv, SeenInv, Open, Through
    <3>2. QED BY <2>1, <3>1, LoginType
  <2>2. ASSUME NEW h \in Handler, PassIp(h) \/ PassEmail(h) \/ Resend(h)
        PROVE  (TypeOK /\ IInv)'
    BY <2>2, PassIs, CallType, CallKeeps
  <2>3. CASE Tick
    BY <2>3, TickKeeps
  <2>4. CASE Look
    BY <2>4, LookKeeps
  <2>5. CASE UNCHANGED vars
    BY <2>5 DEF vars, TypeOK, IInv, SeenInv, Open, Through
  <2>6. QED BY <2>1, <2>2, <2>3, <2>4, <2>5 DEF Next
<1>3. QED BY <1>1, <1>2, PTL DEF Spec

\* Every variable keeps its type; in particular no counter is without a time to live.
THEOREM TypeCorrect == Spec => []TypeOK
  BY Invariance, PTL

\* No key lets more than twice the limit through in any stretch as long as its window.
THEOREM TwiceTheLimit == Spec => []AtMostTwice
<1>1. TypeOK /\ IInv => AtMostTwice
  <2> SUFFICES ASSUME TypeOK, IInv, NEW k \in Key PROVE seen[k] <= 2 * Limit
    BY DEF AtMostTwice
  <2>1. Through(k) \in 0..Limit
    BY LimiterAssumption DEF Through, TypeOK
  <2>2. SeenInv(k) /\ left \in Nat /\ seen[k] \in Nat
    BY LimiterAssumption DEF IInv, TypeOK
  <2>3. QED BY <2>1, <2>2, LimiterAssumption DEF SeenInv
<1>2. QED BY <1>1, Invariance, PTL

\* No step lengthens the wait of a key.
THEOREM NoLongerWait == Spec => WaitOnlyShrinks
<1>1. TypeOK /\ IInv /\ [Next]_vars => [\A k \in Key : ttl[k] > 0 => ttl'[k] <= ttl[k]]_vars
  <2> SUFFICES ASSUME TypeOK, Next, NEW k \in Key, ttl[k] > 0 PROVE ttl'[k] <= ttl[k]
    OBVIOUS
  <2>1. ttl[k] \in Nat /\ count[k] # 0
    BY LimiterAssumption DEF TypeOK
  <2>2. ASSUME NEW h \in Handler, PassIp(h) \/ PassEmail(h) \/ Resend(h)
        PROVE  ttl'[k] <= ttl[k]
    <3>1. \A j \in Key : Run(j) => ttl'[k] = ttl[k]
      BY <2>1, RunEffect DEF Expire
    <3>2. QED BY <2>1, <2>2, <3>1, PassIs, CallEffect
  <2>3. ASSUME NEW h \in Handler, Login(h) PROVE ttl'[k] <= ttl[k]
    <3>1. ttl' = ttl
      BY <2>3 DEF Login
    <3>2. QED BY <2>1, <3>1
  <2>4. CASE Tick \/ Look
    BY <2>1, <2>4 DEF Tick, Look
  <2>5. QED BY <2>2, <2>3, <2>4 DEF Next
<1>2. QED BY <1>1, Invariance, PTL DEF Spec, WaitOnlyShrinks

-----------------------------------------------------------------------------
\* LoginRetry.

\* A login asks for one key of each kind, and has no outcome while it is at work.
ReqInv(h) ==
    /\ \A j, k \in req[h].key : j[1] = k[1] => j = k
    /\ req[h].pc # "idle" => req[h].code = "none"

\* The watched client's wait against the times to live of the keys that refused it.
WaitInv(k) ==
    /\ refused[k] \in 0..2
    /\ refused[k] >= 1 => ttl[k] < wait + Second
    /\ refused[k] = 2 => ttl[k] <= wait

RetryInv ==
    /\ \A h \in Handler : ReqInv(h)
    /\ wait \in Nat
    /\ refused \in [Key -> Nat]
    /\ req[Watched].pc # "idle" => wait = 0
    /\ \A k \in Key : WaitInv(k)

\* The header leaves out less than a second, and nothing of less than a second.
LEMMA HeaderCovers ==
    ASSUME NEW t \in Nat
    PROVE  /\ Second * RetryAfter(t) \in Nat
           /\ t < Second * RetryAfter(t) + Second
           /\ t < Second => t <= Second * RetryAfter(t)
<1>1. Second \in Nat \ {0}
  BY RetryAssumption DEF RetryAssumption
<1>2. CASE t < Second
  BY <1>1, <1>2 DEF RetryAfter
<1>3. CASE ~ (t < Second)
  <2>1. t \div Second \in Nat /\ t < Second * (t \div Second) + Second
    BY <1>1
  <2>2. QED BY <1>1, <1>3, <2>1 DEF RetryAfter
<1>4. QED BY <1>2, <1>3

\* Every step of LoginRetry is one of LoginLimiter.
LEMMA RetryIsNext ==
    [NextRetry]_<<vars, wait, refused>> => [Next]_vars
BY DEF NextRetry, LoginRetry, Next, vars

\* A login that begins.
LEMMA LoginReq ==
    ASSUME TypeOK, NEW h \in Handler, Login(h)
    PROVE  /\ ttl' = ttl
           /\ \A g \in Handler : g # h => req'[g] = req[g]
           /\ ReqInv(h)'
<1>1. PICK e \in Email :
        \/ \E i \in Ip :
              req' = [req EXCEPT ![h] = [NoRequest EXCEPT !.pc = "ip",
                                           !.key = {<<"ip", i>>, <<"email", e>>}]]
        \/ req' = [req EXCEPT ![h] = [NoRequest EXCEPT !.pc = "email",
                                        !.key = {<<"email", e>>}]]
  BY DEF Login
<1>2. CASE req' = [req EXCEPT ![h] = [NoRequest EXCEPT !.pc = "email",
                                        !.key = {<<"email", e>>}]]
  <2>1. req'[h].key = {<<"email", e>>} /\ req'[h].code = "none"
    BY <1>2 DEF TypeOK, NoRequest
  <2>2. QED BY <1>2, <2>1 DEF ReqInv, Login, TypeOK
<1>3. ASSUME NEW i \in Ip,
             req' = [req EXCEPT ![h] = [NoRequest EXCEPT !.pc = "ip",
                                          !.key = {<<"ip", i>>, <<"email", e>>}]]
      PROVE  ReqInv(h)' /\ \A g \in Handler : g # h => req'[g] = req[g]
  <2>1. req'[h].key = {<<"ip", i>>, <<"email", e>>} /\ req'[h].code = "none"
    BY <1>3 DEF TypeOK, NoRequest
  <2>2. \A j, k \in {<<"ip", i>>, <<"email", e>>} : j[1] = k[1] => j = k
    OBVIOUS
  <2>3. QED BY <1>3, <2>1, <2>2 DEF ReqInv, TypeOK
<1>4. QED BY <1>1, <1>2, <1>3 DEF Login

\* What a call of the limiter makes of its login.
LEMMA CallReq ==
    ASSUME TypeOK, NEW h \in Handler, ReqInv(h), PassIp(h) \/ PassEmail(h) \/ Resend(h)
    PROVE  /\ req[h].pc # "idle"
           /\ \A g \in Handler : g # h => req'[g] = req[g]
           /\ ReqInv(h)'
           /\ \E k \in Called(h) :
                /\ \A j \in Called(h) : j = k
                /\ Run(k) \/ UNCHANGED <<count, ttl>>
                /\ Denied(h) => Run(k) /\ ~ Allowed(k) /\ req'[h].pc = "idle"
<1>1. req \in [Handler -> Request] /\ req[h].key \subseteq Key
  BY DEF TypeOK, Request
<1>2. CASE Resend(h)
  <2>1. PICK k \in Mine(h, req[h].pc) : Run(k)
    BY <1>2 DEF Resend
  <2>2. req[h].pc # "idle" /\ k \in Key
    BY <1>1, <2>1 DEF Mine, Key
  <2>3. ~ Denied(h)
    BY <1>2, <2>2 DEF Resend, ReqInv, Denied
  <2>4. QED BY <1>2, <2>1, <2>2, <2>3 DEF Resend, Called, Mine, ReqInv
<1>3. CASE PassIp(h) \/ PassEmail(h)
  <2>1. PICK k \in Mine(h, req[h].pc) :
          \/ /\ Pass(k)
             /\ \/ req' = [req EXCEPT ![h] = [@ EXCEPT !.pc = "email",
                                                       !.key = req[h].key \ {k}]]
                \/ Reply(h, "checked")
          \/ Deny(h, k) \/ Fail(h, k)
    BY <1>3 DEF PassIp, PassEmail, At
  <2>2. req[h].pc # "idle"
    BY <1>3 DEF PassIp, PassEmail, At
  <2>3. \A j \in Called(h) : j = k
    BY <2>1 DEF Called, Mine, ReqInv
  <2>4. CASE Pass(k) /\ req' = [req EXCEPT ![h] = [@ EXCEPT !.pc = "email",
                                                             !.key = req[h].key \ {k}]]
    <3>1. /\ req'[h].key \subseteq req[h].key /\ req'[h].code = "none"
          /\ \A g \in Handler : g # h => req'[g] = req[g]
      BY <1>1, <2>2, <2>4 DEF ReqInv, Request
    <3>2. ReqInv(h)' /\ ~ Denied(h)
      BY <3>1 DEF ReqInv, Denied
    <3>3. QED BY <2>1, <2>2, <2>3, <2>4, <3>1, <3>2 DEF Pass, Called
  <2>5. ASSUME NEW code, Reply(h, code)
        PROVE  /\ req'[h].pc = "idle" /\ req'[h].code = code /\ ReqInv(h)'
               /\ \A g \in Handler : g # h => req'[g] = req[g]
    BY <1>1, <2>5 DEF Reply, NoRequest, ReqInv
  <2>6. CASE Pass(k) /\ Reply(h, "checked")
    BY <2>1, <2>2, <2>3, <2>5, <2>6 DEF Pass, Called, Denied
  <2>7. CASE Deny(h, k)
    BY <2>1, <2>2, <2>3, <2>5, <2>7 DEF Deny, Called
  <2>8. CASE Fail(h, k)
    BY <2>1, <2>2, <2>3, <2>5, <2>8 DEF Fail, Called, Denied
  <2>9. QED BY <2>1, <2>4, <2>6, <2>7, <2>8
<1>4. QED BY <1>2, <1>3

\* A call of the limiter keeps the invariant: the third refusal in a row would be of a
\* counter that has expired.
LEMMA AnsweredKeeps ==
    ASSUME TypeOK, RetryInv, NEW h \in Handler,
           PassIp(h) \/ PassEmail(h) \/ Resend(h), Answered(h)
    PROVE  RetryInv'
<1>1. /\ Second \in Nat \ {0} /\ Limit \in Nat \ {0} /\ Watched \in Handler
      /\ wait \in Nat /\ refused \in [Key -> Nat]
  BY RetryAssumption, LimiterAssumption
     DEF RetryAssumption, LimiterAssumption, RetryInv
<1>2. /\ req[h].pc # "idle" /\ ReqInv(h)'
      /\ \A g \in Handler : g # h => req'[g] = req[g]
  BY CallReq DEF RetryInv
<1>3. \A g \in Handler : ReqInv(g)'
  BY <1>2 DEF RetryInv, ReqInv
<1>4. PICK k \in Called(h) :
        /\ \A j \in Called(h) : j = k
        /\ Run(k) \/ UNCHANGED <<count, ttl>>
        /\ Denied(h) => Run(k) /\ ~ Allowed(k) /\ req'[h].pc = "idle"
  BY CallReq DEF RetryInv
<1>5. k \in Key
  BY DEF TypeOK, Request, Called, Mine
<1>6. \A j \in Key : j # k => ttl'[j] = ttl[j]
  BY <1>4, <1>5, RunEffect
<1>7. \A j \in Key : ttl[j] \in Nat /\ (count[j] = 0 <=> ttl[j] = 0)
  BY LimiterAssumption DEF TypeOK, LimiterAssumption
<1>8. CASE ~ (h = Watched /\ Denied(h))
  <2>1. wait' = wait /\ refused' = [j \in Key |-> IF j \in Called(h) THEN 0 ELSE refused[j]]
    BY <1>8 DEF Answered
  <2>2. req'[Watched].pc # "idle" => wait' = 0
    BY <1>1, <1>2, <2>1 DEF RetryInv
  <2>3. ASSUME NEW j \in Key PROVE WaitInv(j)'
    <3>1. CASE j = k
      BY <1>1, <1>4, <2>1, <3>1 DEF WaitInv
    <3>2. CASE j # k
      <4>1. refused'[j] = refused[j] /\ ttl'[j] = ttl[j]
        BY <1>4, <1>6, <2>1, <3>2
      <4>2. QED BY <2>1, <4>1 DEF RetryInv, WaitInv
    <3>3. QED BY <3>1, <3>2
  <2>4. refused' \in [Key -> Nat]
    BY <1>1, <2>1
  <2>5. QED BY <1>1, <1>3, <2>1, <2>2, <2>3, <2>4 DEF RetryInv
<1>9. CASE h = Watched /\ Denied(h)
  <2>1. wait' = Second * RetryAfter(ttl'[k]) /\ refused' = [refused EXCEPT ![k] = @ + 1]
    BY <1>4, <1>9 DEF Answered
  <2>2. wait = 0 /\ req'[Watched].pc = "idle"
    BY <1>2, <1>4, <1>9 DEF RetryInv
  <2>3. ttl'[k] \in Nat /\ wait' \in Nat /\ ttl'[k] < wait' + Second
        /\ (ttl'[k] < Second => ttl'[k] <= wait')
    <3>1. ttl'[k] \in Nat
      BY <1>4, <1>5, <1>9, RunEffect, LimiterAssumption DEF LimiterAssumption
    <3>2. QED BY <2>1, <3>1, HeaderCovers
  <2>4. ttl[k] > 0 /\ ttl'[k] = ttl[k]
    <3>1. count[k] # 0
      BY <1>1, <1>4, <1>9 DEF Allowed, Incr
    <3>2. QED BY <1>4, <1>5, <1>7, <1>9, <3>1, RunEffect DEF Expire
  <2>5. WaitInv(k)'
    <3>1. WaitInv(k) /\ refused'[k] = refused[k] + 1 /\ refused[k] \in Nat
      BY <1>1, <1>5, <2>1 DEF RetryInv
    <3>2. refused[k] # 2
      BY <1>5, <1>7, <2>2, <2>4, <3>1 DEF WaitInv
    <3>3. refused[k] = 1 => ttl'[k] <= wait'
      BY <1>1, <1>5, <1>7, <2>2, <2>3, <2>4, <3>1 DEF WaitInv
    <3>4. refused'[k] \in 0..2
      BY <3>1, <3>2 DEF WaitInv
    <3>5. refused'[k] = 2 => ttl'[k] <= wait'
      BY <3>1, <3>3
    <3>6. QED BY <2>3, <3>4, <3>5 DEF WaitInv
  <2>6. ASSUME NEW j \in Key, j # k PROVE WaitInv(j)'
    <3>1. refused'[j] = refused[j] /\ ttl'[j] = ttl[j] /\ WaitInv(j) /\ ttl[j] \in Nat
      BY <1>1, <1>6, <1>7, <2>1, <2>6 DEF RetryInv
    <3>2. QED BY <1>1, <2>2, <2>3, <3>1 DEF WaitInv
  <2>7. refused' \in [Key -> Nat]
    BY <1>1, <1>5, <2>1
  <2>8. QED BY <1>3, <2>2, <2>3, <2>5, <2>6, <2>7 DEF RetryInv
<1>10. QED BY <1>8, <1>9

\* Clients that keep to Retry-After are clients: with them the limiter does nothing that
\* it may not do anyhow, so all that holds of it holds here too (errors.go:16-24).
THEOREM RetryImplements == SpecRetry => Spec
BY RetryIsNext, PTL DEF SpecRetry, Spec, InitRetry

\* RetryInv holds in every reachable state.
THEOREM RetryInvariance == SpecRetry => [](TypeOK /\ RetryInv)
<1>1. InitRetry => Init /\ RetryInv
  <2> SUFFICES ASSUME InitRetry PROVE RetryInv
    BY DEF InitRetry
  <2>1. /\ wait = 0 /\ refused = [k \in Key |-> 0]
        /\ \A h \in Handler : req[h] = NoRequest
    BY DEF InitRetry, Init
  <2>2. \A h \in Handler : ReqInv(h) /\ req[h].pc = "idle"
    <3>1. NoRequest.key = {} /\ NoRequest.pc = "idle"
      BY DEF NoRequest
    <3>2. QED BY <2>1, <3>1 DEF ReqInv
  <2>3. \A k \in Key : WaitInv(k)
    BY <2>1 DEF WaitInv
  <2>4. QED BY <2>1, <2>2, <2>3, RetryAssumption DEF RetryInv, RetryAssumption
<1>2. TypeOK /\ RetryInv /\ [NextRetry]_<<vars, wait, refused>> => RetryInv'
  <2> SUFFICES ASSUME TypeOK, RetryInv, [NextRetry]_<<vars, wait, refused>> PROVE RetryInv'
    OBVIOUS
  <2>1. /\ Second \in Nat \ {0} /\ Watched \in Handler /\ wait \in Nat
        /\ refused \in [Key -> Nat]
    BY RetryAssumption DEF RetryAssumption, RetryInv
  <2>2. ASSUME NEW h \in Handler, LoginRetry(h) PROVE RetryInv'
    <3>1. ttl' = ttl /\ (\A g \in Handler : g # h => req'[g] = req[g]) /\ ReqInv(h)'
      BY <2>2, LoginReq DEF LoginRetry
    <3>3. \A g \in Handler : ReqInv(g)'
      BY <3>1 DEF RetryInv, ReqInv
    <3>4. CASE h = Watched /\ wait > 0
      <4>1. wait' = 0 /\ refused' = [k \in Key |-> 0]
        BY <2>2, <3>4 DEF LoginRetry
      <4>2. QED BY <3>3, <4>1 DEF RetryInv, WaitInv
    <3>5. CASE ~ (h = Watched /\ wait > 0)
      <4>1. wait' = wait /\ refused' = refused
        BY <2>2, <3>5 DEF LoginRetry
      <4>2. req'[Watched].pc # "idle" => wait' = 0
        BY <2>1, <3>1, <3>5, <4>1 DEF RetryInv
      <4>3. QED BY <3>1, <3>3, <4>1, <4>2 DEF RetryInv, WaitInv
    <3>6. QED BY <3>4, <3>5
  <2>3. ASSUME NEW h \in Handler, PassIp(h) \/ PassEmail(h) \/ Resend(h), Answered(h)
        PROVE  RetryInv'
    BY <2>3, AnsweredKeeps
  <2>4. CASE Tick /\ wait' = (IF wait > 0 THEN wait - 1 ELSE 0) /\ UNCHANGED refused
    <3>1. req' = req /\ refused' = refused
      BY <2>4 DEF Tick
    <3>2. ASSUME NEW k \in Key PROVE WaitInv(k)'
      <4>1. ttl[k] \in Nat /\ ttl'[k] = (IF ttl[k] > 0 THEN ttl[k] - 1 ELSE 0)
        BY <2>4, LimiterAssumption DEF Tick, TypeOK, LimiterAssumption
      <4>2. QED BY <2>1, <2>4, <3>1, <4>1 DEF RetryInv, WaitInv
    <3>3. wait' \in Nat
      BY <2>1, <2>4
    <3>4. QED BY <2>1, <2>4, <3>1, <3>2, <3>3 DEF RetryInv, ReqInv
  <2>5. CASE (Look \/ UNCHANGED vars) /\ UNCHANGED <<wait, refused>>
    BY <2>5 DEF Look, vars, RetryInv, ReqInv, WaitInv
  <2>6. QED BY <2>2, <2>3, <2>4, <2>5 DEF NextRetry
<1>3. QED BY <1>1, <1>2, RetryImplements, TypeCorrect, PTL DEF SpecRetry

\* A client that waits as Retry-After says, alone with its keys, is refused at most twice
\* in a row, for any limit, window and length of a second (errors.go:18-23).
THEOREM TwiceRefusedAtMost == SpecRetry => []TwiceRefused
<1>1. RetryInv => TwiceRefused
  BY DEF RetryInv, WaitInv, TwiceRefused
<1>2. QED BY <1>1, RetryInvariance, PTL
=============================================================================
