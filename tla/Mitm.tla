-------------------------------- MODULE Mitm --------------------------------
(***************************************************************************)
(* How a client of an intercepted host gets from the plain proxy to the    *)
(* MITM server (httpserver.cpp wait_c, https/mitm_svc.cpp): the handler of *)
(* its CONNECT moves the socket into a channel_client and sends that       *)
(* through the socket_channel; wait_c receives and spawns a coroutine on   *)
(* the one thread of its own io_context, which shakes hands with the       *)
(* origin, makes or finds a certificate for the host, shakes hands with    *)
(* the client and enters http_do (module HttpDo).  An empty write of       *)
(* http_do calls ssl_sock_->shutdown(), which waits for the other side on  *)
(* that one thread, with every other coroutine behind it.                  *)
(***************************************************************************)
EXTENDS Naturals, Sequences

CONSTANTS
  Clients,  \* client connections
  Hosts,    \* intercepted hosts
  Cap,      \* the 10 places of the socket_channel
  NoCert    \* no certificate

ASSUME MitmAssumption ==
  Cap \in Nat \ {0} /\ NoCert \notin [host : Hosts, by : Clients]

VARIABLES
  host,     \* the host of the CONNECT of each client, after url_ replaced it
  stuck,    \* who never answers: its origin, the client in the handshake, the
            \*   side that a served one's close_notify goes to, or nobody
  handler,  \* channel_tunnel::make_tunnel of a client
  mem,      \* sock_ of the client's socket_memory is there
  cc,       \* the client's channel_client and its sock_
  chan,     \* the socket_channel
  coro,     \* the coroutine of https_client::init and http_do
  known,    \* it has found a certificate in server_subject_map
  cache,    \* server_subject_map
  shown,    \* the certificate the client is shown
  verified  \* the origin's own certificate was verified for this client

choices == <<host, stuck>>
vars == <<choices, handler, mem, cc, chan, coro, known, cache, shown, verified>>

Cert == [host : Hosts, by : Clients]

Init ==
  /\ host \in [Clients -> Hosts]
  /\ stuck \in [Clients -> {"nobody", "origin", "client", "close"}]
  /\ handler = [c \in Clients |-> "reply"]
  /\ mem = [c \in Clients |-> TRUE]
  /\ cc = [c \in Clients |-> "none"]
  /\ chan = <<>>
  /\ coro = [c \in Clients |-> "none"]
  /\ known = [c \in Clients |-> FALSE]
  /\ cache = [h \in Hosts |-> NoCert]
  /\ shown = [c \in Clients |-> NoCert]
  /\ verified = [c \in Clients |-> FALSE]

-----------------------------------------------------------------------------
(* channel_tunnel::make_tunnel, on the threads of the proxy                *)

\* The 200 line; that it could not be written is not noticed.  Then
\* chc_ is made, without a socket.
Reply(c) ==
  /\ handler[c] = "reply"
  /\ handler' = [handler EXCEPT ![c] = "check"]
  /\ cc' = [cc EXCEPT ![c] = "empty"]
  /\ UNCHANGED <<choices, mem, chan, coro, known, cache, shown, verified>>

\* Variant: the channel_client is sent before it has the socket.
SendFirst(c) ==
  /\ handler[c] \in {"check", "send"} /\ Len(chan) < Cap
  /\ handler' = [handler EXCEPT ![c] = "send"]
  /\ chan' = IF handler[c] = "check" THEN Append(chan, c) ELSE chan
  /\ UNCHANGED <<choices, mem, cc, coro, known, cache, shown, verified>>

\* m->check(*this): the socket moves from the memory into the channel_client.
TakeSocket(c) ==
  /\ handler[c] = "check"
  /\ handler' = [handler EXCEPT ![c] = "send"]
  /\ mem' = [mem EXCEPT ![c] = FALSE]
  /\ cc' = [cc EXCEPT ![c] = "socket"]
  /\ UNCHANGED <<choices, chan, coro, known, cache, shown, verified>>

\* Variant: a full channel takes one more.
SendAnyway(c) ==
  /\ handler[c] = "send"
  /\ handler' = [handler EXCEPT ![c] = "done"]
  /\ chan' = Append(chan, c)
  /\ UNCHANGED <<choices, mem, cc, coro, known, cache, shown, verified>>

\* async_send waits while the channel is full.
Send(c) ==
  /\ handler[c] = "send" /\ Len(chan) < Cap
  /\ handler' = [handler EXCEPT ![c] = "done"]
  /\ chan' = Append(chan, c)
  /\ UNCHANGED <<choices, mem, cc, coro, known, cache, shown, verified>>

-----------------------------------------------------------------------------
(* wait_c                                                                  *)

\* Variant: init runs in the coroutine of wait_c, before the next receive.
ReceiveInLine ==
  /\ chan # <<>>
  /\ \A d \in Clients : coro[d] \notin {"lookup", "origin", "client"}
  /\ chan' = Tail(chan)
  /\ coro' = [coro EXCEPT ![Head(chan)] = "lookup"]
  /\ UNCHANGED <<choices, handler, mem, cc, known, cache, shown, verified>>

Receive ==
  /\ chan # <<>>
  /\ chan' = Tail(chan)
  /\ coro' = IF cc[Head(chan)] = "socket"
             THEN [coro EXCEPT ![Head(chan)] = "lookup"]
             ELSE [coro EXCEPT ![Head(chan)] = "closed"]
  /\ UNCHANGED <<choices, handler, mem, cc, known, cache, shown, verified>>

-----------------------------------------------------------------------------
(* init_ and http_do, on the one thread of the MITM server                 *)

\* The thread is not in a shutdown.
ThreadFree == \A d \in Clients : coro[d] # "closing"

\* Variant: a host whose certificate is known needs no origin yet.
LookupSkips(c) ==
  /\ coro[c] = "lookup" /\ ThreadFree
  /\ known' = [known EXCEPT ![c] = cache[host[c]] # NoCert]
  /\ shown' = [shown EXCEPT ![c] = cache[host[c]]]
  /\ coro' = [coro EXCEPT ![c] =
                IF cache[host[c]] # NoCert THEN "client" ELSE "origin"]
  /\ UNCHANGED <<choices, handler, mem, cc, chan, cache, verified>>

\* server_subject_map.find; both branches then wait for make_memory.
Lookup(c) ==
  /\ coro[c] = "lookup" /\ ThreadFree
  /\ known' = [known EXCEPT ![c] = cache[host[c]] # NoCert]
  /\ coro' = [coro EXCEPT ![c] = "origin"]
  /\ UNCHANGED <<choices, handler, mem, cc, chan, cache, shown, verified>>

\* Variant: the last certificate made for a host replaces the others.
StoredLast(h, cert) == [cache EXCEPT ![h] = cert]

\* insert does nothing when another coroutine was faster.
Stored(h, cert) ==
  [cache EXCEPT ![h] = IF @ = NoCert THEN cert ELSE @]

\* make_memory has verified the origin: the certificate found before the
\* wait is used, or one is made from the names that were collected.
OriginOk(c) ==
  /\ coro[c] = "origin" /\ stuck[c] # "origin" /\ ThreadFree
  /\ LET own == [host |-> host[c], by |-> c] IN
       IF known[c]
       THEN /\ shown' = [shown EXCEPT ![c] = cache[host[c]]]
            /\ cache' = cache
       ELSE /\ shown' = [shown EXCEPT ![c] = own]
            /\ cache' = Stored(host[c], own)
  /\ verified' = [verified EXCEPT ![c] = TRUE]
  /\ coro' = [coro EXCEPT ![c] = "client"]
  /\ UNCHANGED <<choices, handler, mem, cc, chan, known>>

\* No connection, or a certificate that is not the host's: make_memory
\* throws, the coroutine ends and the client's socket is closed with cc.
OriginFail(c) ==
  /\ coro[c] = "origin" /\ stuck[c] # "origin" /\ ThreadFree
  /\ coro' = [coro EXCEPT ![c] = "closed"]
  /\ cc' = [cc EXCEPT ![c] = "none"]
  /\ UNCHANGED <<choices, handler, mem, chan, known, cache, shown, verified>>

\* channel_client::make releases the socket to one of the MITM server's
\* io_context and shakes hands as the host.
ClientOk(c) ==
  /\ coro[c] = "client" /\ stuck[c] # "client" /\ ThreadFree
  /\ cc' = [cc EXCEPT ![c] = "none"]
  /\ coro' = [coro EXCEPT ![c] = "serving"]
  /\ UNCHANGED <<choices, handler, mem, chan, known, cache, shown, verified>>

ClientFail(c) ==
  /\ coro[c] = "client" /\ stuck[c] # "client" /\ ThreadFree
  /\ cc' = [cc EXCEPT ![c] = "none"]
  /\ coro' = [coro EXCEPT ![c] = "closed"]
  /\ UNCHANGED <<choices, handler, mem, chan, known, cache, shown, verified>>

\* The origin of a served client ends, or the client does while the origin is
\* sent a body: the other side gets a close_notify, and the thread waits.
EmptyWrite(c) ==
  /\ coro[c] = "serving" /\ ThreadFree
  /\ coro' = [coro EXCEPT ![c] = "closing"]
  /\ UNCHANGED <<choices, handler, mem, cc, chan, known, cache, shown, verified>>

\* That side answers or closes.
ShutDown(c) ==
  /\ coro[c] = "closing" /\ stuck[c] # "close"
  /\ coro' = [coro EXCEPT ![c] = "closed"]
  /\ UNCHANGED <<choices, handler, mem, cc, chan, known, cache, shown, verified>>

-----------------------------------------------------------------------------
Origin(c) == OriginOk(c) \/ OriginFail(c)
Client(c) == ClientOk(c) \/ ClientFail(c)

Next ==
  \/ \E c \in Clients : Reply(c)
  \/ \E c \in Clients : TakeSocket(c)
  \/ \E c \in Clients : Send(c)
  \/ Receive
  \/ \E c \in Clients : Lookup(c)
  \/ \E c \in Clients : Origin(c)
  \/ \E c \in Clients : Client(c)
  \/ \E c \in Clients : EmptyWrite(c)
  \/ \E c \in Clients : ShutDown(c)

(* Coroutines that are ready run, those of the MITM server while its thread *)
(* is free; a sender that waits for a place is woken in its turn; a peer   *)
(* answers unless it is stuck.  A served connection need not end.  Each    *)
(* occupies the thread once, so weak fairness is enough for the others.    *)
Fairness ==
  /\ WF_vars(Receive)
  /\ \A c \in Clients :
       /\ WF_vars(Reply(c)) /\ WF_vars(TakeSocket(c)) /\ SF_vars(Send(c))
       /\ WF_vars(Lookup(c)) /\ WF_vars(Origin(c)) /\ WF_vars(Client(c))
       /\ WF_vars(ShutDown(c))

Spec == Init /\ [][Next]_vars /\ Fairness

-----------------------------------------------------------------------------
TypeOK ==
  /\ host \in [Clients -> Hosts]
  /\ stuck \in [Clients -> {"nobody", "origin", "client", "close"}]
  /\ handler \in [Clients -> {"reply", "check", "send", "done"}]
  /\ mem \in [Clients -> BOOLEAN]
  /\ cc \in [Clients -> {"none", "empty", "socket"}]
  /\ chan \in Seq(Clients) /\ Len(chan) <= Cap
  /\ coro \in [Clients -> {"none", "lookup", "origin", "client", "serving",
                           "closing", "closed"}]
  /\ known \in [Clients -> BOOLEAN]
  /\ cache \in [Hosts -> Cert \cup {NoCert}]
  /\ shown \in [Clients -> Cert \cup {NoCert}]
  /\ verified \in [Clients -> BOOLEAN]

\* The socket of a client is in one place: its memory, its channel_client, or
\* the coroutine that serves it; none is dropped on the way unless a
\* handshake failed, and wait_c never gets a channel_client without one.
OneOwner ==
  \A c \in Clients :
    /\ mem[c] <=> handler[c] \in {"reply", "check"}
    /\ cc[c] = "socket" <=>
         ~mem[c] /\ coro[c] \in {"none", "lookup", "origin", "client"}
    /\ \A i \in 1 .. Len(chan) : chan[i] = c => cc[c] = "socket"

\* A client is shown a certificate for the host its CONNECT went to, and only
\* after the origin of its own connection was verified as that host.  A rule
\* with a url_ has replaced the host before that (httpserver.cpp:49), so it
\* need not be the one the client asked for: module Intercept.
VerifiedFirst ==
  \A c \in Clients :
    coro[c] \in {"client", "serving", "closing"} =>
      verified[c] /\ shown[c] # NoCert /\ shown[c].host = host[c]

\* A host whose certificate was found keeps it: every later client that finds
\* it is shown the same, however many were being made at that time.
CacheStays ==
  [][\A h \in Hosts : cache[h] # NoCert => cache'[h] = cache[h]]_vars

\* The thread waits for a close_notify that never comes.
ThreadStuck == \E d \in Clients : coro[d] = "closing" /\ stuck[d] = "close"

\* "This has to run in a coroutine, some of it would block" (httpserver.cpp:
\* 280): a client whose own origin answers and who answers itself gets served
\* or closed, whatever origin or client is stuck in a handshake and however
\* full the channel is.  That is not so once one served connection ends whose
\* other side says nothing: then the thread is in ssl_sock_->shutdown()
\* (ssl_socket_wrap.cpp:98) and all the others wait with it.
NotHeldUp ==
  \A c \in Clients :
    stuck[c] = "nobody" ~>
      (coro[c] \in {"serving", "closing", "closed"} \/ ThreadStuck)
=============================================================================
