----------------------------- MODULE MCUserCache -----------------------------
(* Small instances of UserCache.                                           *)
EXTENDS UserCache
=============================================================================
