------------------------------ MODULE MCTunnel ------------------------------
(* Two or three bytes in each direction, chunks of one or two: enough for a *)
(* pump to be anywhere in its loop while the other ends.                    *)
EXTENDS Tunnel
=============================================================================
