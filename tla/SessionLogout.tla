---------------------------- MODULE SessionLogout ----------------------------
(***************************************************************************)
(* Sessions with the history a client sees: which sessions a logout was     *)
(* answered 204 for, and which requests were sent after that answer.  The   *)
(* two variables only record; they disable nothing.                         *)
(***************************************************************************)
EXTENDS Sessions

VARIABLES
    closed,     \* ids whose logout was answered
    late        \* handlers whose request was sent after such an answer

InitHistory == Init /\ closed = {} /\ late = {}

NextHistory ==
    \/ \E h \in Handler :
         /\ Logout(h)
         /\ closed' = IF req'[h].code = "ok" THEN closed \cup req'[h].id ELSE closed
         /\ late' = late \ {h}
    \/ \E h \in Handler :
         /\ Present(h)
         /\ late' = IF At(h, "get")' /\ req'[h].id \subseteq closed THEN late \cup {h}
                                                                  ELSE late \ {h}
         /\ UNCHANGED closed
    \/ \E h \in Handler : Login(h) /\ late' = late \ {h} /\ UNCHANGED closed
    \/ Tick /\ UNCHANGED <<closed, late>>
    \/ \E h \in Handler : (Step(h) \/ Resend(h)) /\ UNCHANGED <<closed, late>>

SpecHistory == InitHistory /\ [][NextHistory]_<<vars, closed, late>>

\* src/src/integration/api_test.go:310-316 sends GET /me after a logout was answered
\* and fails unless the answer is 401.  A request that read the session before the
\* logout's DEL and refreshes it puts the key back (session.go:82, 119).
LoggedOutStaysOut == \A h \in late : ~Admitted(h)
=============================================================================
