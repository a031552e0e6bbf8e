------------------------------ MODULE MCHttpDo ------------------------------
(* Two requests of one client, each of every kind.  A script has at most     *)
(* three tokens, and the end of a read can fall between any two of them.     *)
EXTENDS HttpDo
=============================================================================
