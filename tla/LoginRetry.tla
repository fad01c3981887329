------------------------------ MODULE LoginRetry ------------------------------
(***************************************************************************)
(* LoginLimiter with the Retry-After of a 429: the header is in whole       *)
(* seconds, the time to live of a counter is not.  Any client may wait as   *)
(* it is told, or not; one of them is watched.                              *)
(***************************************************************************)
EXTENDS LoginLimiter

CONSTANTS
    Second,     \* ticks in a second
    Watched     \* a client: a handler, whose logins come one after another

ASSUME RetryAssumption == Second \in Nat \ {0} /\ Watched \in Handler

VARIABLES
    wait,       \* ticks the watched client has still to wait
    refused     \* how often in a row each key has refused it, although it waited as
                \* it was told and nobody else used the key

InitRetry ==
    /\ Init
    /\ wait = 0
    /\ refused = [k \in Key |-> 0]

\* Mutant: less than a second is sent as 0.
BugRetryAfter(t) == t \div Second

\* The seconds of the header.
RetryAfter(t) == IF t < Second THEN 1 ELSE t \div Second

\* A login ahead of time begins the count anew.
LoginRetry(h) ==
    /\ Login(h)
    /\ IF h = Watched /\ wait > 0
       THEN wait' = 0 /\ refused' = [k \in Key |-> 0]
       ELSE UNCHANGED <<wait, refused>>

\* The key of a handler's next call, and whether the call has refused it.
Called(h) == Mine(h, req[h].pc)
Denied(h) == req'[h].code = "limited"

Answered(h) ==
    IF h = Watched /\ Denied(h)
    THEN \E k \in Called(h) :
           /\ wait' = Second * RetryAfter(ttl'[k])
           /\ refused' = [refused EXCEPT ![k] = @ + 1]
    ELSE /\ refused' = [k \in Key |-> IF k \in Called(h) THEN 0 ELSE refused[k]]
         /\ UNCHANGED wait

NextRetry ==
    \/ \E h \in Handler : \/ LoginRetry(h)
                          \/ (PassIp(h) \/ PassEmail(h) \/ Resend(h)) /\ Answered(h)
    \/ Tick /\ wait' = (IF wait > 0 THEN wait - 1 ELSE 0) /\ UNCHANGED refused
    \/ Look /\ UNCHANGED <<wait, refused>>

\* Time passes; nobody has to log in.
SpecRetry == InitRetry /\ [][NextRetry]_<<vars, wait, refused>> /\ WF_vars(Tick)

\* A client that waits as it is told, alone with its keys, is refused by a key at most
\* twice in a row: the fraction of a second that the header leaves out costs it one
\* more attempt, and not another window (errors.go:18-23, limiter.go:22-25).
TwiceRefused == \A k \in Key : refused[k] <= 2
=============================================================================
