----------------------------- MODULE MCCaStore -----------------------------
(* Four pairs: enough for a crash in the making of each, and a removal      *)
(* after a good start.                                                      *)
EXTENDS CaStore
=============================================================================
