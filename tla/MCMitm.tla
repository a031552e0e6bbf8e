------------------------------- MODULE MCMitm -------------------------------
(* Three clients of two hosts, so that two of them race for one certificate *)
(* and any of them can be stuck; one place in the channel, so that senders  *)
(* wait.                                                                    *)
(* Nothing tells one client from another, or one host, but what is chosen   *)
(* at the start.  So the run begins with one of all the choices that differ *)
(* in the names only: two of three clients have the same host, and are      *)
(* taken to be the first two, and of clients of one host the stuck ones are *)
(* in a fixed order.  The choices stay, so this also holds for liveness.    *)
EXTENDS Mitm

Rank == [nobody |-> 0, origin |-> 1, client |-> 2, close |-> 3]

MCInit ==
  /\ Init
  /\ host[1] = "h1" /\ host[2] = "h1"
  /\ \A c, d \in Clients :
       c < d /\ host[c] = host[d] => Rank[stuck[c]] <= Rank[stuck[d]]

MCSpec == MCInit /\ [][Next]_vars /\ Fairness
=============================================================================
