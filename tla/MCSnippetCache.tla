--------------------------- MODULE MCSnippetCache ---------------------------
(* Instances of SnippetCache for TLC. *)
EXTENDS SnippetCache, TLC

\* Handlers are interchangeable, and so are ids and users: no definition
\* names one.  Used by the runs that check no liveness.
Symmetry == Permutations(Handler) \cup Permutations(SnippetId) \cup Permutations(User)
=============================================================================
