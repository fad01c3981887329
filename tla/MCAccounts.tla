----------------------------- MODULE MCAccounts -----------------------------
(* Instances of Accounts for TLC. *)
EXTENDS Accounts, TLC

\* No definition names a handler, an email or a key; Root names a user.
Symmetry == Permutations(Handler) \cup Permutations(Email) \cup Permutations(KeyId)
=============================================================================
