----------------------------- MODULE MCCookieJar -----------------------------
(* Instances of CookieJar for TLC. *)
EXTENDS CookieJar
=============================================================================
