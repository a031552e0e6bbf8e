----------------------------- MODULE ByteStream -----------------------------
(***************************************************************************)
(* What a memory promises the coroutine that reads from it: the bytes of   *)
(* the peer, each once and in their order.  SocketMemory, which keeps them *)
(* in blocks, implements this.  A byte is its position in the stream.      *)
(***************************************************************************)
EXTENDS Integers

CONSTANT StreamLen

VARIABLES
  arrived,   \* bytes taken from the peer
  unread,    \* those the reader can still get
  front,     \* what get_some shows of them
  ok         \* no read failed yet

vars == <<arrived, unread, front, ok>>

\* P is the beginning of S.
Begins(P, S) == P \subseteq S /\ \A x \in P, y \in S \ P : x < y

\* Some beginning is shown, nothing only when there is nothing.
Shown(P, S) == Begins(P, S) /\ (P = {} => S = {})

Init == arrived = 0 /\ unread = {} /\ front = {} /\ ok = TRUE

\* More bytes arrive, behind the others.
Arrive(n) ==
  /\ ok /\ arrived + n <= StreamLen
  /\ arrived' = arrived + n
  /\ unread' = unread \cup (arrived .. (arrived + n - 1))
  /\ Shown(front', unread') /\ front \subseteq front'
  /\ UNCHANGED ok

\* The reader is done with a beginning P of what it was shown.
Take(P) ==
  /\ Begins(P, front)
  /\ unread' = unread \ P
  /\ Shown(front', unread') /\ front \ P \subseteq front'
  /\ UNCHANGED <<arrived, ok>>

\* All that is unread is shown.
Gather == front' = unread /\ UNCHANGED <<arrived, unread, ok>>

\* The reader drops what it has not read.
Forget == unread' = {} /\ front' = {} /\ UNCHANGED <<arrived, ok>>

\* The end: bytes that came after the last delimiter are lost, and only then.
Lose(k) ==
  /\ k > 0 => ok
  /\ arrived + k <= StreamLen
  /\ arrived' = arrived + k
  /\ ok' = FALSE
  /\ UNCHANGED <<unread, front>>

Next ==
  \/ \E n \in 1 .. StreamLen : Arrive(n)
  \/ \E P \in SUBSET front : Take(P)
  \/ Gather
  \/ Forget
  \/ \E k \in 0 .. StreamLen : Lose(k)

Spec == Init /\ [][Next]_vars
=============================================================================
