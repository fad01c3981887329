---------------------------- MODULE LoginLimiter ----------------------------
(***************************************************************************)
(* ratelimit.Limiter as auth.Service.Login uses it: a login passes the      *)
(* counter of its client address, then the one of its email, before its     *)
(* credentials are looked at.  The Lua script runs in Redis in one step;    *)
(* logins interleave between their two calls of it.  An observer, who       *)
(* changes nothing, counts what passes during one window's length.          *)
(***************************************************************************)
EXTENDS Naturals

CONSTANTS
    Handler,    \* concurrent request goroutines
    Ip,         \* client addresses
    Email,      \* normalised emails
    Limit,      \* Limiter.Limit (LOGIN_RATE_LIMIT), or its default 5
    Window,     \* Limiter.Window (LOGIN_RATE_WINDOW), or its default, in ticks
    Faults      \* do Redis calls fail?

ASSUME LimiterAssumption ==
    /\ Limit \in Nat \ {0} /\ Window \in Nat \ {0}
    /\ Faults \in BOOLEAN

VARIABLES
    count,      \* Redis counters sniply:ratelimit:<key>; 0 for no key
    ttl,        \* their times to live; 0 for none
    req,        \* each handler's login, or its last one once it is idle
    left,       \* observer: ticks until it stops, 0 when it does not look
    seen        \* observer: calls let through, for each key

vars == <<count, ttl, req, left, seen>>

\* login:ip:<address> and login:email:<email>
Key == ({"ip"} \X Ip) \cup ({"email"} \X Email)

Pc == {"idle", "ip", "email"}
Code == {"none", "checked", "limited", "internal"}
Request == [pc : Pc, key : SUBSET Key, code : Code]

\* key: the keys the login has still to pass.
NoRequest == [pc |-> "idle", key |-> {}, code |-> "none"]

Init ==
    /\ count = [k \in Key |-> 0]
    /\ ttl = [k \in Key |-> 0]
    /\ req = [h \in Handler |-> NoRequest]
    /\ left = 0
    /\ seen = [k \in Key |-> 0]

At(h, pc) == req[h].pc = pc
Mine(h, kind) == {k \in req[h].key : k[1] = kind}
Reply(h, code) == req' = [req EXCEPT ![h] = [NoRequest EXCEPT !.code = code]]

-----------------------------------------------------------------------------
\* The script.  Counts above Limit + 1 are not told apart: nothing in it does.
Incr(n) == IF n > Limit THEN n ELSE n + 1

\* Mutant: every call sets the key's time to live.
BugExpire(k) == Window

\* Mutant: the script ends before PEXPIRE.
BugNoExpire(k) == ttl[k]

\* PEXPIRE when the count has become 1.
Expire(k) == IF count[k] = 0 THEN Window ELSE ttl[k]

Run(k) ==
    /\ count' = [count EXCEPT ![k] = Incr(@)]
    /\ ttl' = [ttl EXCEPT ![k] = Expire(k)]

\* Mutant: the count before INCR is compared.
BugAllowed(k) == count[k] <= Limit

\* The script's verdict, on the count after INCR.
Allowed(k) == Incr(count[k]) <= Limit

\* The observer's count of k.
Observe(k) == seen' = IF left > 0 THEN [seen EXCEPT ![k] = @ + 1] ELSE seen

\* A call that lets the login through, one that ends it, and one that fails, before
\* or after the script ran.
Pass(k) == Run(k) /\ Allowed(k) /\ Observe(k)
Deny(h, k) == Run(k) /\ ~Allowed(k) /\ Reply(h, "limited") /\ UNCHANGED seen
Fail(h, k) ==
    /\ Faults
    /\ Run(k) \/ UNCHANGED <<count, ttl>>
    /\ Reply(h, "internal")
    /\ UNCHANGED seen

-----------------------------------------------------------------------------
\* Service.Login.  A login whose client address is not known skips that counter.
Login(h) ==
    /\ At(h, "idle")
    /\ \E e \in Email :
         \/ \E i \in Ip :
               req' = [req EXCEPT ![h] = [NoRequest EXCEPT !.pc = "ip",
                                            !.key = {<<"ip", i>>, <<"email", e>>}]]
         \/ req' = [req EXCEPT ![h] = [NoRequest EXCEPT !.pc = "email",
                                         !.key = {<<"email", e>>}]]
    /\ UNCHANGED <<count, ttl, left, seen>>

PassIp(h) ==
    /\ At(h, "ip")
    /\ \E k \in Mine(h, "ip") :
         \/ /\ Pass(k)
            /\ req' = [req EXCEPT ![h] = [@ EXCEPT !.pc = "email",
                                                   !.key = req[h].key \ {k}]]
         \/ Deny(h, k)
         \/ Fail(h, k)
    /\ UNCHANGED left

\* Past the second counter the credentials are looked at; right or wrong, the
\* counters stay.
PassEmail(h) ==
    /\ At(h, "email")
    /\ \E k \in Mine(h, "email") :
         \/ Pass(k) /\ Reply(h, "checked")
         \/ Deny(h, k)
         \/ Fail(h, k)
    /\ UNCHANGED left

\* The Redis client sends a command again whose reply it has not got: the script then
\* runs once for each time.
Resend(h) ==
    /\ Faults
    /\ \E k \in Mine(h, req[h].pc) : Run(k)
    /\ UNCHANGED <<req, left, seen>>

-----------------------------------------------------------------------------
\* Redis drops a counter when its time to live is over.
Tick ==
    /\ ttl' = [k \in Key |-> IF ttl[k] > 0 THEN ttl[k] - 1 ELSE 0]
    /\ count' = [k \in Key |-> IF ttl[k] > 1 THEN count[k] ELSE 0]
    /\ left' = IF left > 0 THEN left - 1 ELSE 0
    /\ UNCHANGED <<req, seen>>

\* The observer may begin at any time.
Look ==
    /\ left = 0
    /\ left' = Window
    /\ seen' = [k \in Key |-> 0]
    /\ UNCHANGED <<count, ttl, req>>

Next ==
    \/ \E h \in Handler : Login(h) \/ PassIp(h) \/ PassEmail(h) \/ Resend(h)
    \/ Tick
    \/ Look

Spec == Init /\ [][Next]_vars

-----------------------------------------------------------------------------
\* Every variable has its type, and a counter without a time to live, which would
\* block its key for good, does not exist.
TypeOK ==
    /\ count \in [Key -> 0..(Limit + 1)]
    /\ ttl \in [Key -> 0..Window]
    /\ \A k \in Key : count[k] = 0 <=> ttl[k] = 0
    /\ req \in [Handler -> Request]
    /\ left \in 0..Window
    /\ seen \in [Key -> Nat]

\* However the logins interleave and whenever the counting starts: in any stretch of
\* time as long as the window, a key lets at most twice the limit through (the end of
\* one window and the beginning of the next; limiter.go:17-28).
AtMostTwice == \A k \in Key : seen[k] <= 2 * Limit

\* Attempts that are refused, or that fail, do not lengthen the wait of their key
\* (PEXPIRE is for the first call of a window only, limiter.go:19-21).
WaitOnlyShrinks ==
    [][\A k \in Key : ttl[k] > 0 => ttl'[k] <= ttl[k]]_vars

\* A key over its limit is released, even if refused logins go on for ever, provided that
\* time passes (LoginRetry's SpecRetry says so; limiter.go:19-25).
Released == \A k \in Key : count[k] > Limit ~> count[k] = 0
=============================================================================
