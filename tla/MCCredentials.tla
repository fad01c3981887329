---------------------------- MODULE MCCredentials ----------------------------
(* Instances of Credentials for TLC. *)
EXTENDS Credentials, TLC

CONSTANTS short, other, long

\* One password is too long for bcrypt and begins with another.
Words == {short, other, long}
LongWords == {long}
FirstBytes == [w \in Words |-> IF w = long THEN short ELSE w]

Symmetry == Permutations(Handler) \cup Permutations(UserId) \cup Permutations(Email)
=============================================================================
