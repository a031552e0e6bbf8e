------------------------------- MODULE HttpDo -------------------------------
(***************************************************************************)
(* http_handler::http_do (httpserver.cpp): the loop of one client          *)
(* connection.  It reads a request, hands a CONNECT to a tunnel, answers   *)
(* itself what names no host, and forwards the rest to the origin and      *)
(* relays the answer.  The same loop serves the plain proxy (a new         *)
(* connection to the origin for every request) and, behind a MITM          *)
(* handshake, one client on one origin connection (tls).                   *)
(*                                                                         *)
(* A message is a sequence of tokens: its head, its units of body, and for *)
(* a chunked body the last chunk.  The answer to a HEAD may announce a body *)
(* that does not follow (bodyless), a final answer follow one of status    *)
(* 1xx (interim).                                                          *)
(***************************************************************************)
EXTENDS Integers, Sequences

CONSTANTS
  Flavours,  \* values of tls
  Asks,      \* what clients ask: proxy, post, connect, self, stop, bad
  Answers,   \* how origins answer: names of Script
  MaxReq     \* requests of the client

Script ==
  [none     |-> <<"head">>,
   len      |-> <<"head", "u", "u">>,
   lenclose |-> <<"head", "u", "u">>,
   cut      |-> <<"head", "u">>,
   chunked  |-> <<"head", "u", "z">>,
   badchunk |-> <<"head", "u", "x">>,
   cutchunk |-> <<"head", "u">>,
   close    |-> <<"head", "u", "u">>,
   badhead  |-> <<"junk">>,
   bodyless |-> <<"head">>,
   interim  |-> <<"1xx", "head", "u">>,
   eof      |-> <<>>]

ASSUME HttpAssumption ==
  /\ Flavours \subseteq BOOLEAN
  /\ Asks \subseteq {"proxy", "post", "connect", "self", "stop", "bad"}
  /\ Answers \subseteq DOMAIN Script
  /\ MaxReq \in Nat

\* Answers after which the origin closes its connection; one that sends no
\* head is taken to do so.
Closing ==
  {"lenclose", "cut", "cutchunk", "close", "badhead", "bodyless", "eof"}

\* What a client is sent: answers of the handler's own, tokens of an origin's.
Own == {"400", "500", "hello", "stopped"}
Relayed == {"head", "1xx", "u", "z"}

VARIABLES
  tls,    \* the loop runs behind channel_client and mitm_svc
  asks,   \* the requests the client has sent
  owes,   \* the client has still to send the body of its last request
  left,   \* the client has closed its socket
  got,    \* what the client received: tokens with the request they answer
  taken,  \* requests gone from the client's socket
  pc,     \* the coroutine
  cur,    \* the request in work
  cok,    \* ok() of the client's memory
  up,     \* the connection to the origin
  ans,    \* how the origin answers each request
  osent,  \* tokens of the answer the origin has sent,
  oread,  \*   that are in the memory of its connection or beyond,
  opass   \*   that were written to the client

client == <<tls, asks, owes, left>>
origin == <<up, ans, osent>>
relay == <<oread, opass>>
vars == <<client, got, taken, pc, cur, cok, origin, relay>>

Init ==
  /\ tls \in Flavours
  /\ asks = <<>> /\ owes = FALSE /\ left = FALSE
  /\ got = <<>> /\ taken = 0
  /\ pc = "top" /\ cur = 0 /\ cok = TRUE
  /\ up = IF tls THEN "open" ELSE "none"
  /\ ans = [i \in 1 .. MaxReq |-> "?"]
  /\ osent = 0 /\ oread = 0 /\ opass = 0

Over == pc \in {"ended", "tunnel", "stopped"}

AnswerTo(i) ==
  LET own == SelectSeq(got, LAMBDA e : e.r = i) IN
  [k \in DOMAIN own |-> own[k].t]

\* The client knows by the framing that it has the whole answer to request i.
\* The handler's 400 announces 16 bytes and has 12, its 500 and an answer
\* without a length end with the connection.
Complete(i) ==
  LET a == AnswerTo(i) IN
  \/ a = <<"hello">> \/ a = <<"stopped">>
  \/ ans[i] \in {"none", "len", "lenclose", "chunked", "bodyless", "interim"}
     /\ a = Script[ans[i]]

-----------------------------------------------------------------------------
(* The client                                                              *)

\* The client may pipeline; a post waits until what is before it was read.
Ask(k) ==
  /\ ~left /\ ~Over /\ ~owes /\ Len(asks) < MaxReq
  /\ tls => k \notin {"self", "stop"}     \* make_request names the host
  /\ k = "post" => taken = Len(asks)
  /\ asks' = Append(asks, k) /\ owes' = (k = "post")
  /\ UNCHANGED <<tls, left, got, taken, pc, cur, cok, origin, relay>>

SendBody ==
  /\ owes /\ ~left
  /\ owes' = FALSE
  /\ UNCHANGED <<tls, asks, left, got, taken, pc, cur, cok, origin, relay>>

Leave ==
  /\ ~left
  /\ left' = TRUE
  /\ UNCHANGED <<tls, asks, owes, got, taken, pc, cur, cok, origin, relay>>

-----------------------------------------------------------------------------
(* The origin                                                              *)

OriginSends ==
  /\ up = "open" /\ cur > 0 /\ ans[cur] # "?"
  /\ osent < Len(Script[ans[cur]])
  /\ osent' = osent + 1
  /\ UNCHANGED <<client, got, taken, pc, cur, cok, up, ans, relay>>

OriginCloses ==
  /\ up = "open" /\ cur > 0 /\ ans[cur] \in Closing
  /\ osent = Len(Script[ans[cur]])
  /\ up' = "closed"
  /\ UNCHANGED <<client, got, taken, pc, cur, cok, ans, osent, relay>>

-----------------------------------------------------------------------------
(* Reading a request                                                       *)

\* A write to the client; an error is only noted, and only the kernel knows
\* when it tells.
Put(t) ==
  IF left THEN got' = got /\ cok' \in {cok, FALSE}
          ELSE got' = Append(got, [r |-> cur, t |-> t]) /\ cok' = cok

\* Variant: an empty write is nothing on TLS either.
PutNothingAtAll(next) == got' = got /\ cok' = cok /\ pc' = next

\* An empty write: nothing on TCP.  On TLS it ends the connection: the client
\* is sent a close_notify, and ssl_sock_->shutdown() waits for the client's.
PutNothing(next) ==
  /\ got' = got /\ cok' = (cok /\ ~tls)
  /\ pc' = IF tls THEN "closing" ELSE next

\* shutdown() returns, or throws because the other side closed without a
\* word or went on sending.  It waits for the client (closing) or the origin
\* (closingup), and with it waits the thread: module Mitm.
ShutDown ==
  /\ pc \in {"closing", "closingup"}
  /\ \/ pc' = "ended"
     \/ /\ pc = "closing" /\ ans[cur] \in {"eof", "close"}
        /\ pc' = "top"
     \/ /\ pc = "closing" => ans[cur] \notin {"eof", "close"}
        /\ pc' = "spin"
  /\ UNCHANGED <<client, got, taken, cur, cok, origin, relay>>

\* ss->reset() and the test of ok().
Top ==
  /\ pc = "top"
  /\ pc' = IF cok THEN "wait" ELSE "ended"
  /\ UNCHANGED <<client, got, taken, cur, cok, origin, relay>>

\* async_load_until: the first header is parsed, requests that came in the
\* same read are dropped by the next reset.
ReadRequest(n) ==
  /\ pc = "wait" /\ taken + n <= Len(asks)
  /\ cur' = taken + 1 /\ taken' = taken + n
  /\ pc' = "parsed"
  /\ UNCHANGED <<client, got, cok, origin, relay>>

\* Variant: the error of the read is not noted.
ReadEofUnnoted ==
  /\ pc = "wait" /\ left /\ taken = Len(asks)
  /\ pc' = "parsed400"
  /\ UNCHANGED <<client, got, taken, cur, cok, origin, relay>>

ReadEof ==
  /\ pc = "wait" /\ left /\ taken = Len(asks)
  /\ cok' = FALSE /\ pc' = "parsed400"
  /\ UNCHANGED <<client, got, taken, cur, origin, relay>>

BadRequest ==
  /\ pc = "parsed400" \/ (pc = "parsed" /\ asks[cur] = "bad")
  /\ Put("400") /\ pc' = "top"
  /\ UNCHANGED <<client, taken, cur, origin, relay>>

Connect ==
  /\ pc = "parsed" /\ asks[cur] = "connect"
  /\ pc' = "tunnel"
  /\ UNCHANGED <<client, got, taken, cur, cok, origin, relay>>

AnswerSelf ==
  /\ pc = "parsed" /\ asks[cur] = "self"
  /\ Put("hello") /\ pc' = "top"
  /\ UNCHANGED <<client, taken, cur, origin, relay>>

\* The one handler that is registered stops the io_context (main.cpp:65).
Stop ==
  /\ pc = "parsed" /\ asks[cur] = "stop"
  /\ Put("stopped") /\ pc' = "stopped"
  /\ UNCHANGED <<client, taken, cur, origin, relay>>

-----------------------------------------------------------------------------
(* Forwarding it                                                           *)

Forwards == pc = "parsed" /\ asks[cur] \in {"proxy", "post"}

\* The answers still possible: none on a connection the origin closed.  An
\* interim one is left out behind a MITM: what follows it would be read for the
\* answer to the next request, from an index that fits neither.
Possible ==
  IF tls /\ \E i \in 1 .. MaxReq : ans[i] \in Closing THEN {"eof"}
  ELSE Answers \ (IF tls THEN {"interim"} ELSE {})

\* Variant: a new connection starts with the old one's read position.
DialKeepsPosition(k) ==
  /\ Forwards
  /\ up' = IF tls THEN up ELSE "open"
  /\ ans' = [ans EXCEPT ![cur] = k]
  /\ osent' = 0 /\ oread' = 0 /\ opass' = opass
  /\ pc' = IF asks[cur] = "post" THEN "upload" ELSE "head"
  /\ UNCHANGED <<client, got, taken, cur, cok>>

\* sk->wait: host_ and service_ of the keeper are never set, so the plain
\* proxy always connects; mitm_svc has its one connection.  The request line
\* and the headers are written, then the body.
Dial(k) ==
  /\ Forwards
  /\ up' = IF tls THEN up ELSE "open"
  /\ ans' = [ans EXCEPT ![cur] = k]
  /\ osent' = 0 /\ oread' = 0 /\ opass' = 0
  /\ pc' = IF asks[cur] = "post" THEN "upload" ELSE "head"
  /\ UNCHANGED <<client, got, taken, cur, cok>>

\* Writing to failed_mem throws, the coroutine and its sockets go.
DialFail ==
  /\ Forwards /\ ~tls
  /\ pc' = "ended"
  /\ UNCHANGED <<client, got, taken, cur, cok, origin, relay>>

Upload ==
  /\ pc = "upload" /\ (~owes \/ cur < Len(asks))
  /\ pc' = "head"
  /\ UNCHANGED <<client, got, taken, cur, cok, origin, relay>>

\* transfer_mem: a load that returns nothing does not end the loop, and is
\* written to the origin, an empty write.
UploadSpins ==
  /\ pc = "upload" /\ owes /\ cur = Len(asks) /\ left
  /\ pc' = IF tls THEN "closingup" ELSE "spin"
  /\ UNCHANGED <<client, got, taken, cur, cok, origin, relay>>

-----------------------------------------------------------------------------
(* Relaying the answer                                                     *)

ReadHead(n) ==
  /\ pc = "head" /\ n <= osent
  /\ oread' = n /\ pc' = "headed"
  /\ UNCHANGED <<client, got, taken, cur, cok, origin, opass>>

\* What is behind the first line of a head leaves the memory of the origin's
\* connection only when it was parsed; mitm_svc keeps that memory.
Leftover == tls /\ \E i \in 1 .. MaxReq : ans[i] = "badhead"

\* The stream ended before a head: an empty line and no header are accepted,
\* an empty head is written to the client and there is no body.
ReadHeadEof ==
  /\ pc = "head" /\ up = "closed" /\ osent = 0 /\ ~Leftover
  /\ PutNothing("top")
  /\ UNCHANGED <<client, taken, cur, origin, relay>>

\* header_end_ wraps, all that was left of the other head is parsed again and
\* fails again.
ReadHeadLeftover ==
  /\ pc = "head" /\ up = "closed" /\ osent = 0 /\ Leftover
  /\ Put("500") /\ pc' = "top"
  /\ UNCHANGED <<client, taken, cur, origin, relay>>

ServerError ==
  /\ pc = "headed" /\ Script[ans[cur]][1] = "junk"
  /\ Put("500") /\ pc' = "top"
  /\ UNCHANGED <<client, taken, cur, origin, relay>>

\* Variant: what came with the head is taken for written.
RelayHeadDrops ==
  /\ pc = "headed" /\ Script[ans[cur]][1] # "junk"
  /\ Put(Script[ans[cur]][1]) /\ opass' = oread
  /\ pc' = IF ans[cur] \in {"none", "interim"} THEN "top" ELSE "relay"
  /\ UNCHANGED <<client, taken, cur, origin, oread>>

\* Whatever its status, a head without a length is all of its answer.
RelayHead ==
  /\ pc = "headed" /\ Script[ans[cur]][1] # "junk"
  /\ Put(Script[ans[cur]][1]) /\ opass' = 1
  /\ pc' = IF ans[cur] \in {"none", "interim"} THEN "top" ELSE "relay"
  /\ UNCHANGED <<client, taken, cur, origin, oread>>

Load(n) ==
  /\ pc = "relay" /\ opass = oread /\ oread + n <= osent
  /\ oread' = oread + n
  /\ UNCHANGED <<client, got, taken, pc, cur, cok, origin, opass>>

\* The token that is being written is the last one the framing asks for.
Final(t) ==
  \/ ans[cur] \in {"len", "lenclose", "cut", "bodyless"} /\ opass = 2
  \/ ans[cur] \in {"chunked", "cutchunk"} /\ t = "z"

Relay ==
  /\ pc = "relay" /\ opass < oread
  /\ LET t == Script[ans[cur]][opass + 1] IN
       /\ t # "x"
       /\ Put(t) /\ opass' = opass + 1
       /\ pc' = IF Final(t) THEN "top" ELSE "relay"
  /\ UNCHANGED <<client, taken, cur, origin, oread>>

\* hex_str_to or transfer_chunk throws.
BadChunk ==
  /\ pc = "relay" /\ opass < oread /\ Script[ans[cur]][opass + 1] = "x"
  /\ pc' = "ended"
  /\ UNCHANGED <<client, got, taken, cur, cok, origin, relay>>

AtEof == pc = "relay" /\ opass = osent /\ up = "closed"

\* A body without a length ends with the connection; the client's stays.
RelayUntilClose ==
  /\ AtEof /\ ans[cur] = "close"
  /\ PutNothing("top")
  /\ UNCHANGED <<client, taken, cur, origin, relay>>

\* transfer_mem, as UploadSpins; or transfer_chunk in front of a size, where
\* nothing is written.
RelaySpins ==
  /\ AtEof /\ ans[cur] # "close"
  /\ \/ PutNothing("spin")
     \/ ans[cur] = "cutchunk" /\ pc' = "spin" /\ UNCHANGED <<got, cok>>
  /\ UNCHANGED <<client, taken, cur, origin, relay>>

-----------------------------------------------------------------------------
Handler ==
  \/ Top
  \/ \E n \in 1 .. MaxReq : ReadRequest(n)
  \/ ReadEof
  \/ BadRequest
  \/ Connect
  \/ AnswerSelf
  \/ Stop
  \/ \E k \in Possible : Dial(k)
  \/ DialFail
  \/ Upload
  \/ UploadSpins
  \/ \E n \in 1 .. 3 : ReadHead(n)
  \/ ReadHeadEof
  \/ ReadHeadLeftover
  \/ ServerError
  \/ RelayHead
  \/ \E n \in 1 .. 2 : Load(n)
  \/ Relay
  \/ BadChunk
  \/ RelayUntilClose
  \/ RelaySpins

Next ==
  \/ \E k \in Asks : Ask(k)
  \/ SendBody
  \/ Leave
  \/ OriginSends
  \/ OriginCloses
  \/ Handler
  \/ ShutDown

\* The side whose close_notify is awaited has closed its socket.
PeerGone == IF pc = "closing" THEN left ELSE up = "closed"

(* The coroutine runs when it can.  An origin that has begun its answer    *)
(* goes on with it and closes behind it, if it is one to close; it need    *)
(* not begin.  A client sends the body it announced; nobody has to ask, to *)
(* leave, or to answer a close_notify.                                     *)
Fairness ==
  /\ WF_vars(Handler)
  /\ WF_vars(osent > 0 /\ (OriginSends \/ OriginCloses))
  /\ WF_vars(SendBody)
  /\ WF_vars(PeerGone /\ ShutDown)

Spec == Init /\ [][Next]_vars /\ Fairness

-----------------------------------------------------------------------------
TypeOK ==
  /\ tls \in BOOLEAN
  /\ asks \in Seq(Asks) /\ Len(asks) <= MaxReq
  /\ owes \in BOOLEAN /\ left \in BOOLEAN /\ cok \in BOOLEAN
  /\ got \in Seq([r : 1 .. MaxReq, t : Own \cup Relayed])
  /\ taken \in 0 .. Len(asks) /\ cur \in 0 .. taken
  /\ pc \in {"top", "wait", "parsed", "parsed400", "upload", "head", "headed",
             "relay", "closing", "closingup", "spin", "ended", "tunnel",
             "stopped"}
  /\ up \in {"none", "open", "closed"}
  /\ ans \in [1 .. MaxReq -> DOMAIN Script \cup {"?"}]
  /\ opass \in 0 .. 3 /\ oread \in 0 .. 3 /\ osent \in 0 .. 3
  /\ opass <= oread /\ oread <= osent

\* The n entries of got up to k are the first n tokens of an origin's answer to
\* one request, and nothing for that request stands in front of them.
Begins(k, n) ==
  LET r == got[k].r IN
  /\ n <= k /\ ans[r] # "?" /\ n <= Len(Script[ans[r]])
  /\ \A m \in 1 .. n : got[k - n + m] = [r |-> r, t |-> Script[ans[r]][m]]
  /\ k > n => got[k - n].r < r

\* The client receives the answers in the order of its requests, and of each
\* the origin's own tokens from the head on, none lost, repeated or of
\* another answer, or one answer of the handler's and nothing else.
Faithful ==
  /\ \A i, j \in DOMAIN got : i < j => got[i].r <= got[j].r
  /\ \A k \in DOMAIN got :
       \/ got[k].t \in Own /\ \A j \in DOMAIN got : j # k => got[j].r # got[k].r
       \/ \E n \in 1 .. 3 : Begins(k, n)

\* Requests the loop leaves without an answer the client can use, on a
\* connection it keeps: one that was read together with the one before, one it
\* could not parse, one whose answer is no head and, behind a MITM, those after
\* it, which get another 500 without an end; and the plain proxy's when the
\* origin closes at once, ends its answer with the connection, or sends an
\* interim answer, which is taken for the final one.
Unanswered(i) ==
  \/ i <= taken /\ i # cur /\ AnswerTo(i) = <<>>
  \/ i <= Len(asks) /\ asks[i] = "bad"
  \/ ans[i] = "badhead"
  \/ tls /\ ans[i] = "eof" /\ \E j \in 1 .. i - 1 : ans[j] = "badhead"
  \/ ~tls /\ ans[i] \in {"eof", "close", "interim"}

\* The loop waits for an origin that has not begun its answer, or does not
\* answer a close_notify.  It has no timeout and does not watch the client.
Silent ==
  /\ up = "open"
  /\ pc = "closingup" \/ (pc = "head" /\ osent = 0)

\* With these exceptions a request is answered in full, or the client sees
\* its connection end, or a transfer whose source has gone spins, or the
\* origin stays silent for ever.
AnsweredOrEnded ==
  \A i \in 1 .. MaxReq :
    (Len(asks) >= i) ~>
      \/ Complete(i) \/ left \/ Over \/ pc \in {"closing", "spin"}
      \/ Unanswered(i)
      \/ []Silent

\* When the client has gone the coroutine ends, and with it the sockets,
\* unless it spins or its origin stays silent for ever.
Released == left ~> (Over \/ pc = "spin" \/ []Silent)
=============================================================================
