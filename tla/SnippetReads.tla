---------------------------- MODULE SnippetReads ----------------------------
(***************************************************************************)
(* What GET /v1/snippets/{id} promises its readers, with no cache in sight. *)
(* A row may be read while it is `readable'.  Only the commit of a public   *)
(* row makes it readable; the public rows of the table always are; and a    *)
(* row that has stopped being readable never is again.  How long a replaced *)
(* or deleted row stays readable is left open here: SnippetCache says what  *)
(* keeps it so, and its liveness property that this ends.                   *)
(***************************************************************************)
CONSTANTS
    Handler,    \* the goroutines that serve requests
    Row         \* every row version the table may hold

VARIABLES
    db,         \* the committed rows
    written,    \* every row ever committed
    readable,   \* the rows a GET may answer with
    served      \* the row each handler last answered a GET with, as a set

vars == <<db, written, readable, served>>

Public(rows) == {x \in rows : x.vis = "public"}

Init ==
    /\ db = {}
    /\ written = {}
    /\ readable = {}
    /\ served = [h \in Handler |-> {}]

\* Readable rows may be forgotten, except those the table still publishes.
Forgetting ==
    /\ readable' \subseteq readable
    /\ Public(db) \subseteq readable'

\* A commit brings only rows never written before, and only the public ones
\* of them become readable.
Commit ==
    /\ db' \subseteq Row
    /\ (db' \ db) \cap written = {}
    /\ written' = written \cup db'
    /\ readable' \subseteq readable \cup Public(db' \ db)
    /\ Public(db') \subseteq readable'
    /\ UNCHANGED served

Forget ==
    /\ Forgetting
    /\ UNCHANGED <<db, written, served>>

\* A GET is answered with a readable row.
Serve(h) ==
    /\ \E x \in readable : served' = [served EXCEPT ![h] = {x}]
    /\ Forgetting
    /\ UNCHANGED <<db, written>>

\* The handler takes up another request.
Retire(h) ==
    /\ served' = [served EXCEPT ![h] = {}]
    /\ UNCHANGED <<db, written, readable>>

Next ==
    \/ Commit
    \/ Forget
    \/ \E h \in Handler : Serve(h) \/ Retire(h)

Spec == Init /\ [][Next]_vars
=============================================================================
