----------------------------- MODULE MCSessions -----------------------------
(* Instances of Sessions for TLC. *)
EXTENDS Sessions, TLC

\* No definition names a handler, an id or a user.
Symmetry == Permutations(Handler) \cup Permutations(SessionId) \cup Permutations(User)
=============================================================================
