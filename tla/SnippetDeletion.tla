--------------------------- MODULE SnippetDeletion ---------------------------
(***************************************************************************)
(* SnippetCache with the history a client sees: which ids a DELETE was      *)
(* answered 204 for, and which GETs were sent after that answer.  The two   *)
(* variables only record; they disable nothing.                             *)
(***************************************************************************)
EXTENDS SnippetCache

VARIABLES
    deleted,    \* ids whose DELETE was answered 204
    late        \* handlers whose GET was sent after such an answer

Deletes(h) == At(h, "invalidate") /\ req[h].op = "delete"

InitHistory == Init /\ deleted = {} /\ late = {}

\* An answered DELETE is remembered; a request that begins is late or not.
NextHistory ==
    /\ Next
    /\ deleted' = deleted \cup
         UNION {req[h].id : h \in {g \in Handler : Deletes(g) /\ At(g, "idle")'}}
    /\ late' = {h \in Handler :
         IF At(h, "idle") /\ ~At(h, "idle")' THEN req'[h].id \subseteq deleted
                                             ELSE h \in late}

SpecHistory == InitHistory /\ [][NextHistory]_<<vars, deleted, late>>

\* src/src/integration/api_test.go:591-595 sends GET after DELETE was answered 204
\* and fails unless the answer is 404.  A GET that loaded the row before the
\* DELETE's statement stores it after the DELETE's invalidation
\* (service.go:117-130, 301-310).
GoneAfterDelete == \A h \in late : ~Answered(h)
=============================================================================
