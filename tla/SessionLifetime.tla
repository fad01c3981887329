--------------------------- MODULE SessionLifetime ---------------------------
(***************************************************************************)
(* What a session promises, without stores, copies or races.  A login issues *)
(* a session with a user, a CSRF token and a login time that never change.   *)
(* While it is alive and not older than MaxAge a request may be admitted as  *)
(* its user.  A session that is no longer alive never is again.              *)
(***************************************************************************)
EXTENDS Naturals

CONSTANTS
    Handler,    \* request goroutines
    MaxAge      \* hard limit on a session's age; 0 for none

VARIABLES
    clock,
    issued,     \* every session ever issued, as issued
    alive,      \* ids a request may still be admitted with
    admitted    \* the session each handler has admitted its request as

vars == <<clock, issued, alive, admitted>>

Ids(sessions) == {s.id : s \in sessions}
OfAge(s) == MaxAge > 0 /\ clock > s.created + MaxAge

Init ==
    /\ clock = 0
    /\ issued = {}
    /\ alive = {}
    /\ admitted = [h \in Handler |-> {}]

Advance ==
    /\ clock' = clock + 1
    /\ alive' \subseteq alive
    /\ UNCHANGED <<issued, admitted>>

\* A login: a new id, alive from now on.
Issue(h) ==
    /\ \E s \in issued' :
         /\ s.id \notin Ids(issued)
         /\ s.created = clock
         /\ issued' = issued \cup {s}
         /\ alive' = alive \cup {s.id}
    /\ admitted' = [admitted EXCEPT ![h] = {}]
    /\ UNCHANGED clock

\* A logout, an expiry, or the end of a request that kept a session alive.
End ==
    /\ alive' \subseteq alive
    /\ UNCHANGED <<clock, issued, admitted>>

\* A request is admitted: with a session that is alive and young enough.
Admit(h) ==
    /\ \E s \in issued :
         /\ s.id \in alive /\ ~OfAge(s)
         /\ admitted' = [admitted EXCEPT ![h] = {[id |-> s.id, user |-> s.user]}]
    /\ alive' \subseteq alive
    /\ UNCHANGED <<clock, issued>>

\* The request is over, refused, or fails.
Leave(h) ==
    /\ admitted' = [admitted EXCEPT ![h] = {}]
    /\ alive' \subseteq alive
    /\ UNCHANGED <<clock, issued>>

Next == Advance \/ End \/ \E h \in Handler : Issue(h) \/ Admit(h) \/ Leave(h)

Spec == Init /\ [][Next]_vars
=============================================================================
