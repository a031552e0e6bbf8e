---------------------------- MODULE SocketMemory ----------------------------
(***************************************************************************)
(* The read buffer of socket_memory (socket_wrap.cpp); ssl_sock_mem holds  *)
(* the same code over a TLS stream.  Bytes that arrive are kept in blocks, *)
(* a set ordered by the index of their first byte; get_some finds the one  *)
(* that holds read_index_, remove_some consumes, merge_some joins them.    *)
(*                                                                         *)
(* A byte is its position in the stream of the peer, the data of a block a *)
(* set of positions.  Every operation is one action: a memory is used by   *)
(* one coroutine at a time ("not thread-safe", socket_wrap.h:17).          *)
(***************************************************************************)
EXTENDS Integers, FiniteSets

CONSTANTS
  StreamLen,  \* bytes the peer sends in all
  IntMax      \* 2^(w-1) for the w-bit int that keys are narrowed to

ASSUME BoundsAssumption == StreamLen \in Nat /\ IntMax \in Nat \ {0}

VARIABLES
  received,     \* bytes taken from the socket so far
  base,         \* received at the last reset
  buffs,        \* blocks [begin, data]
  read_index,
  write_index,
  read_ok       \* read_ok_: no load failed yet

vars == <<received, base, buffs, read_index, write_index, read_ok>>

Init ==
  /\ received = 0
  /\ base = 0
  /\ buffs = {}
  /\ read_index = 0
  /\ write_index = 0
  /\ read_ok = TRUE

Size(b) == Cardinality(b.data)
End(b) == b.begin + Size(b)

\* The comparators take the key as an int.  A size_t beyond it comes out
\* negative, which the unsigned comparison makes larger than every block, or
\* wraps around.
Holds(b, k) ==
  LET lk == k % (2 * IntMax) IN lk < IntMax /\ b.begin <= lk /\ lk < End(b)

Offset(b, x) == Cardinality({y \in b.data : y < x})

\* get_some: the bytes from read_index_ to the end of the block holding it.
GetSome ==
  UNION {{x \in b.data : Offset(b, x) >= read_index - b.begin} :
           b \in {c \in buffs : Holds(c, read_index)}}

\* emplace: a block whose begin is there already is not inserted.
Emplaced(data) ==
  IF \E b \in buffs : b.begin = write_index THEN buffs
  ELSE buffs \cup {[begin |-> write_index, data |-> data]}

\* async_load_some: up to max_n bytes, at least one, in a block of their own.
LoadSome(n) ==
  LET data == received .. (received + n - 1) IN
  /\ read_ok
  /\ received + n <= StreamLen
  /\ received' = received + n
  /\ write_index' = write_index + n
  /\ buffs' = Emplaced(data)
  /\ UNCHANGED <<base, read_index, read_ok>>

\* The peer has closed, or the connection failed; nothing comes any more.
LoadSomeFail ==
  /\ read_ok' = FALSE
  /\ UNCHANGED <<received, base, buffs, read_index, write_index>>

\* async_load_until succeeds like LoadSome: all it read goes into one block.
\* When the stream ends before the delimiter, the k bytes it has read are
\* dropped with the local streambuf.
LoadUntilFail(k) ==
  /\ read_ok
  /\ received + k <= StreamLen
  /\ received' = received + k
  /\ read_ok' = FALSE
  /\ UNCHANGED <<base, buffs, read_index, write_index>>

\* Variant: a block that ends one byte further goes too.
RemovesEarly(k) == {b \in buffs : k + 1 >= End(b)}

\* The loop of remove_some erases from the front up to the first block that
\* holds bytes after the index.
Removed(k) ==
  {b \in buffs : \A c \in buffs : c.begin <= b.begin => k >= End(c)}

\* remove_some, called with at most what get_some returned.  The code does not
\* check it, its callers keep to it, but for the pumps of a tunnel: they remove
\* what they loaded (tunnel.cpp:118), with early bytes buffered in front of it.
\* No pump reads with get_some; module Tunnel says what becomes of those bytes.
RemoveSome(n) ==
  /\ n <= Cardinality(GetSome)
  /\ read_index' = read_index + n
  /\ buffs' = buffs \ Removed(read_index + n)
  /\ UNCHANGED <<received, base, write_index, read_ok>>

First == CHOOSE b \in buffs : \A c \in buffs : b.begin <= c.begin

Merged == [begin |-> First.begin, data |-> UNION {b.data : b \in buffs}]

\* merge_some: nothing to do for one block.
MergeSome ==
  /\ Cardinality(buffs) > 1
  /\ buffs' = {Merged}
  /\ UNCHANGED <<received, base, read_index, write_index, read_ok>>

\* Variant: the blocks outlive the reset.
ResetKeepsBlocks ==
  /\ read_index' = 0
  /\ write_index' = 0
  /\ base' = received
  /\ UNCHANGED <<received, buffs, read_ok>>

\* Variant: the read index outlives the reset.
ResetWriteOnly ==
  /\ write_index' = 0
  /\ buffs' = {}
  /\ base' = received
  /\ UNCHANGED <<received, read_index, read_ok>>

\* reset: what was buffered and not consumed is forgotten.
Reset ==
  /\ read_index' = 0
  /\ write_index' = 0
  /\ buffs' = {}
  /\ base' = received
  /\ UNCHANGED <<received, read_ok>>

Next ==
  \/ \E n \in 1 .. StreamLen : LoadSome(n)
  \/ LoadSomeFail
  \/ \E k \in 0 .. StreamLen : LoadUntilFail(k)
  \/ \E n \in 0 .. StreamLen : RemoveSome(n)
  \/ MergeSome
  \/ Reset

Spec == Init /\ [][Next]_vars

-----------------------------------------------------------------------------
TypeOK ==
  /\ received \in 0 .. StreamLen
  /\ base \in 0 .. received
  /\ read_index \in 0 .. write_index
  /\ write_index \in 0 .. StreamLen
  /\ \A b \in buffs : b.begin \in 0 .. StreamLen /\ b.data # {}
  /\ read_ok \in BOOLEAN

\* The assertion of async_load_some (socket_wrap.cpp:47) and the one that is
\* commented out because it "sometimes fails" (socket_wrap.cpp:89): the
\* block of a load is always inserted.  One coroutine alone cannot break it.
AlwaysInserted == \A b \in buffs : b.begin # write_index

\* What the blocks hold from the read index on.
Unread == {x \in UNION {b.data : b \in buffs} : x >= base + read_index}

\* To its reader the buffer is the stream of the peer: no sequence of loads,
\* partial removals, merges and resets skips, repeats or reorders a byte, and
\* get_some shows the next one whenever there is one.  While reads are ok no byte
\* was taken from the socket that is not to be had there: "the read characters
\* all go into buff, to be consumed with get_some and remove_some"
\* (hmemory.h:34).
Stream == INSTANCE ByteStream WITH
            arrived <- received, unread <- Unread, front <- GetSome,
            ok <- read_ok
ImplementsByteStream == Stream!Spec
=============================================================================
