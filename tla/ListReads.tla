------------------------------- MODULE ListReads -------------------------------
(***************************************************************************)
(* What GET /v1/snippets promises its readers, with no cache in sight.  An  *)
(* answer is a pair of a filter and the rows listed for it.  A request may  *)
(* be given an answer while it is `answerable'.  The table's own answers    *)
(* always are; a write brings no other; and an answer that has stopped      *)
(* being answerable becomes so again only by being the table's.  How long   *)
(* the answers of an earlier table last is left open here: SnippetLists     *)
(* says what keeps them, and its liveness property that this ends.          *)
(***************************************************************************)
CONSTANT Handler    \* the goroutines that serve requests

VARIABLES
    current,        \* the answers that the table gives
    answerable,     \* the answers that a request may be given
    served          \* the answer of each handler's last request, as a set

vars == <<current, answerable, served>>

Init ==
    /\ current = {}
    /\ answerable = {}
    /\ served = [h \in Handler |-> {}]

\* The table is written, or answers are forgotten, but never the table's: of those that
\* were not answerable only the table's are now.
Change ==
    /\ UNCHANGED served
    /\ answerable' \subseteq answerable \cup current'
    /\ current' \subseteq answerable'

\* A list is answered; answers may be forgotten by that.
Serve(h) ==
    /\ \E a \in answerable : served' = [served EXCEPT ![h] = {a}]
    /\ UNCHANGED current
    /\ answerable' \subseteq answerable
    /\ current \subseteq answerable'

\* The handler takes up another request.
Retire(h) ==
    /\ served' = [served EXCEPT ![h] = {}]
    /\ UNCHANGED <<current, answerable>>

Next ==
    \/ Change
    \/ \E h \in Handler : Serve(h) \/ Retire(h)

Spec == Init /\ [][Next]_vars
=============================================================================
