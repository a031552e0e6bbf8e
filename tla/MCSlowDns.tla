----------------------------- MODULE MCSlowDns -----------------------------
(* Three requests race for one host: a publisher, a waiter and a late one   *)
(* that may start a second resolution.  Requests for other hosts touch other*)
(* keys of the same maps only.  Two endpoint lists tell a stale result from *)
(* a fresh one.                                                             *)
EXTENDS SlowDns
=============================================================================
