---------------------------- MODULE MCLoginRetry -----------------------------
(* Instances of LoginRetry, and so of LoginLimiter, for TLC. *)
EXTENDS LoginRetry
==============================================================================
