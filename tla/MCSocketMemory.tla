--------------------------- MODULE MCSocketMemory ---------------------------
(* A stream of a few bytes: three blocks, partial removals and merges all    *)
(* happen.  IntMax is given above the stream, as in the program below 2 GiB. *)
EXTENDS SocketMemory
=============================================================================
