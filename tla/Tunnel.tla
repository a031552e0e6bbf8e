------------------------------- MODULE Tunnel -------------------------------
(***************************************************************************)
(* socket_tunnel (tunnel.cpp): the answer to CONNECT.  make_tunnel         *)
(* connects to the server, spawns two pumps and writes the 200 line to the *)
(* client; bind_write carries bytes up, bind_read down, each in a loop     *)
(* that loads once and writes once.  The pumps and make_tunnel run on any  *)
(* thread of the io_context and share the two memories and their flags.    *)
(*                                                                         *)
(* A byte is its position in its direction's stream.                       *)
(***************************************************************************)
EXTENDS Integers, Sequences

CONSTANTS
  ClientLen,  \* bytes the client may send through the tunnel
  ServerLen,  \* bytes the server may send
  MaxChunk,   \* the 4096 bytes of one load
  MaxEarly    \* bytes of the client that came in with its CONNECT header

ASSUME LengthAssumption ==
  /\ ClientLen \in Nat /\ ServerLen \in Nat
  /\ MaxChunk \in Nat \ {0}
  /\ MaxEarly \in 0 .. ClientLen

Dirs == {"up", "down"}
Len0(d) == IF d = "up" THEN ClientLen ELSE ServerLen
Receiver(d) == IF d = "up" THEN "server" ELSE "client"
Sender(d) == IF d = "up" THEN "client" ELSE "server"

VARIABLES
  early,      \* bytes load_until left in the buffer of c_
  maker,      \* the coroutine of make_tunnel
  pump,       \* the coroutine of each direction
  chunk,      \* what a pump loaded and has not written
  rok,        \* read_ok_ of the memory a direction reads from
  wok,        \* write_ok_ of the memory a direction writes to
  loaded,     \* bytes taken from the socket in each direction
  delivered,  \* the bytes the receiver got, in order
  sent,       \* bytes the sender has sent
  fin,        \* the sender will send no more
  gone        \* the peer has closed its socket for good

peers == <<sent, fin, gone>>
vars == <<early, maker, pump, chunk, rok, wok, loaded, delivered, peers>>

Init ==
  /\ early \in 0 .. MaxEarly
  /\ maker = "connecting"
  /\ pump = [d \in Dirs |-> "none"]
  /\ chunk = [d \in Dirs |-> <<>>]
  /\ rok = [d \in Dirs |-> TRUE]
  /\ wok = [d \in Dirs |-> TRUE]
  /\ loaded = [d \in Dirs |-> IF d = "up" THEN early ELSE 0]
  /\ delivered = [d \in Dirs |-> <<>>]
  /\ sent = [d \in Dirs |-> IF d = "up" THEN early ELSE 0]
  /\ fin = [d \in Dirs |-> FALSE]
  /\ gone = [p \in {"client", "server"} |-> FALSE]

-----------------------------------------------------------------------------
(* The peers                                                               *)

Send(d) ==
  /\ maker # "connecting" \/ d = "up"
  /\ ~fin[d] /\ sent[d] < Len0(d)
  /\ sent' = [sent EXCEPT ![d] = @ + 1]
  /\ UNCHANGED <<early, maker, pump, chunk, rok, wok, loaded, delivered, fin,
                 gone>>

\* The sender closes its side and still reads.
HalfClose(d) ==
  /\ ~fin[d]
  /\ fin' = [fin EXCEPT ![d] = TRUE]
  /\ UNCHANGED <<early, maker, pump, chunk, rok, wok, loaded, delivered, sent,
                 gone>>

\* The peer closes its socket: writes to it will fail.
Leave(d) ==
  /\ ~gone[Sender(d)]
  /\ gone' = [gone EXCEPT ![Sender(d)] = TRUE]
  /\ fin' = [fin EXCEPT ![d] = TRUE]
  /\ UNCHANGED <<early, maker, pump, chunk, rok, wok, loaded, delivered, sent>>

-----------------------------------------------------------------------------
(* make_tunnel                                                             *)

ConnectFail ==
  /\ maker = "connecting"
  /\ maker' = "failed"
  /\ UNCHANGED <<early, pump, chunk, rok, wok, loaded, delivered, peers>>

\* wait returns at once on a tunnel memory; both pumps are spawned and the
\* write of the 200 line begins.
ConnectOk ==
  /\ maker = "connecting"
  /\ maker' = "replying"
  /\ pump' = [d \in Dirs |-> "check"]
  /\ UNCHANGED <<early, chunk, rok, wok, loaded, delivered, peers>>

ReplyOk ==
  /\ maker = "replying"
  /\ maker' = "done"
  /\ UNCHANGED <<early, pump, chunk, rok, wok, loaded, delivered, peers>>

ReplyFail ==
  /\ maker = "replying" /\ gone["client"]
  /\ maker' = "done"
  /\ wok' = [wok EXCEPT !["down"] = FALSE]
  /\ UNCHANGED <<early, pump, chunk, rok, loaded, delivered, peers>>

-----------------------------------------------------------------------------
(* bind_read and bind_write                                                *)

\* ok(): the flags of both memories, whichever pump asks.
Ok == \A d \in Dirs : rok[d] /\ wok[d]

Check(d) ==
  /\ pump[d] = "check"
  /\ pump' = [pump EXCEPT ![d] = IF Ok THEN "loading" ELSE "ended"]
  /\ UNCHANGED <<early, maker, chunk, rok, wok, loaded, delivered, peers>>

\* Variant: the size of the buffer is counted for what was read into it.
LoadCountsRoom(d, n) ==
  /\ pump[d] = "loading"
  /\ loaded[d] + n <= sent[d]
  /\ chunk' = [chunk EXCEPT ![d] = [i \in 1 .. n |-> loaded[d] + i]]
  /\ loaded' = [loaded EXCEPT ![d] = @ + MaxChunk]
  /\ pump' = [pump EXCEPT ![d] = "writing"]
  /\ UNCHANGED <<early, maker, rok, wok, delivered, peers>>

Load(d, n) ==
  /\ pump[d] = "loading"
  /\ loaded[d] + n <= sent[d]
  /\ chunk' = [chunk EXCEPT ![d] = [i \in 1 .. n |-> loaded[d] + i]]
  /\ loaded' = [loaded EXCEPT ![d] = @ + n]
  /\ pump' = [pump EXCEPT ![d] = "writing"]
  /\ UNCHANGED <<early, maker, rok, wok, delivered, peers>>

\* Variant: the error of a load is not noted.
LoadFailUnnoted(d) ==
  /\ pump[d] = "loading"
  /\ gone[Sender(d)] \/ (fin[d] /\ loaded[d] = sent[d])
  /\ pump' = [pump EXCEPT ![d] = "writing"]
  /\ UNCHANGED <<early, maker, chunk, rok, wok, loaded, delivered, peers>>

\* Variant: a load fails as soon as the sender has closed its side.
LoadFailEarly(d) ==
  /\ pump[d] = "loading"
  /\ fin[d]
  /\ rok' = [rok EXCEPT ![d] = FALSE]
  /\ pump' = [pump EXCEPT ![d] = "writing"]
  /\ UNCHANGED <<early, maker, chunk, wok, loaded, delivered, peers>>

\* End of stream after the last byte, or a reset at any time; the empty
\* result is written like any other.
LoadFail(d) ==
  /\ pump[d] = "loading"
  /\ gone[Sender(d)] \/ (fin[d] /\ loaded[d] = sent[d])
  /\ rok' = [rok EXCEPT ![d] = FALSE]
  /\ pump' = [pump EXCEPT ![d] = "writing"]
  /\ UNCHANGED <<early, maker, chunk, wok, loaded, delivered, peers>>

\* Variant: the chunk stays with the pump and is written once more.
WriteKeeps(d) ==
  /\ pump[d] = "writing"
  /\ delivered' = [delivered EXCEPT ![d] = @ \o chunk[d]]
  /\ pump' = [pump EXCEPT ![d] = "check"]
  /\ UNCHANGED <<early, maker, chunk, rok, wok, loaded, peers>>

Write(d) ==
  /\ pump[d] = "writing"
  /\ delivered' = [delivered EXCEPT ![d] = @ \o chunk[d]]
  /\ chunk' = [chunk EXCEPT ![d] = <<>>]
  /\ pump' = [pump EXCEPT ![d] = "check"]
  /\ UNCHANGED <<early, maker, rok, wok, loaded, peers>>

\* The write fails after part of the chunk went out.
WriteFail(d, n) ==
  /\ pump[d] = "writing" /\ gone[Receiver(d)]
  /\ n < Len(chunk[d])
  /\ delivered' = [delivered EXCEPT ![d] = @ \o SubSeq(chunk[d], 1, n)]
  /\ chunk' = [chunk EXCEPT ![d] = <<>>]
  /\ wok' = [wok EXCEPT ![d] = FALSE]
  /\ pump' = [pump EXCEPT ![d] = "check"]
  /\ UNCHANGED <<early, maker, rok, loaded, peers>>

-----------------------------------------------------------------------------
Next ==
  \/ \E d \in Dirs : Send(d)
  \/ \E d \in Dirs : HalfClose(d)
  \/ \E d \in Dirs : Leave(d)
  \/ ConnectFail
  \/ ConnectOk
  \/ ReplyOk
  \/ ReplyFail
  \/ \E d \in Dirs : Check(d)
  \/ \E d \in Dirs, n \in 1 .. MaxChunk : Load(d, n)
  \/ \E d \in Dirs : LoadFail(d)
  \/ \E d \in Dirs : Write(d)
  \/ \E d \in Dirs, n \in 0 .. MaxChunk - 1 : WriteFail(d, n)

Loads(d) == (\E n \in 1 .. MaxChunk : Load(d, n)) \/ LoadFail(d)
Writes(d) == Write(d) \/ (\E n \in 0 .. MaxChunk - 1 : WriteFail(d, n))

(* Handlers that are ready run, and a peer that stays reads what it is     *)
(* sent; whether and when a peer sends or closes is its own affair.        *)
Fairness ==
  /\ WF_vars(ConnectOk \/ ConnectFail)
  /\ WF_vars(ReplyOk \/ ReplyFail)
  /\ \A d \in Dirs :
       WF_vars(Check(d)) /\ WF_vars(Loads(d)) /\ WF_vars(Writes(d))

Spec == Init /\ [][Next]_vars /\ Fairness

-----------------------------------------------------------------------------
TypeOK ==
  /\ early \in 0 .. MaxEarly
  /\ maker \in {"connecting", "failed", "replying", "done"}
  /\ pump \in [Dirs -> {"none", "check", "loading", "writing", "ended"}]
  /\ chunk \in [Dirs -> Seq(Nat)]
  /\ rok \in [Dirs -> BOOLEAN] /\ wok \in [Dirs -> BOOLEAN]
  /\ loaded \in [Dirs -> Nat] /\ delivered \in [Dirs -> Seq(Nat)]
  /\ sent \in [Dirs -> Nat] /\ fin \in [Dirs -> BOOLEAN]
  /\ gone \in [{"client", "server"} -> BOOLEAN]
  /\ \A d \in Dirs : loaded[d] <= sent[d]

\* Where the bytes that are delivered begin.  The early ones never are: the
\* pump loads from the socket (tunnel.cpp:115) and nobody writes what load_until
\* left in the buffer of c_, although "reads and consumes through get_some and
\* remove_some" is how the buffer is meant (hmemory.h:34).
Start(d) == IF d = "up" THEN early ELSE 0

\* The receiver gets the bytes the pump loaded in order, without a gap and
\* without a repetition, whatever the other pump and make_tunnel do.
InOrder ==
  \A d \in Dirs :
    \A i \in 1 .. Len(delivered[d]) : delivered[d][i] = Start(d) + i

\* Without a failure the early bytes are lost, and no others: when a pump
\* ends, no write of it and nothing of the other pump has failed and its sender
\* was not reset, then its sender has ended its stream and the receiver has all
\* of it but the early bytes.
OnlyEarlyLost ==
  \A d \in Dirs :
    LET o == CHOOSE o \in Dirs : o # d IN
    pump[d] = "ended" /\ ~gone[Sender(d)] /\ wok[d] /\ wok[o] /\ rok[o] =>
      /\ fin[d]
      /\ delivered[d] = [i \in 1 .. sent[d] - Start(d) |-> Start(d) + i]

\* Once both peers have closed their sides the tunnel is over: the last
\* reference to it goes with the pumps and both sockets are closed.
Released ==
  (fin["up"] /\ fin["down"]) ~>
    (maker = "failed" \/ \A d \in Dirs : pump[d] = "ended")

\* One coroutine at a time writes to a memory, which is "not thread-safe"
\* (socket_wrap.h:17): no chunk of the server is being written to the client
\* while make_tunnel still writes the 200 line to it.
OneWriter ==
  ~(maker = "replying" /\ pump["down"] = "writing" /\ chunk["down"] # <<>>)
=============================================================================
