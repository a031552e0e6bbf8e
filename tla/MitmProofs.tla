----------------------------- MODULE MitmProofs -----------------------------
(***************************************************************************)
(* The hand-over to the MITM server and its certificate cache, for any     *)
(* number of clients and hosts and any size of the channel.                *)
(* Then the files of the CA that signs its certificates, for any number of *)
(* pairs: module CaStore.                                                  *)
(***************************************************************************)
EXTENDS Mitm, CaStore, SequenceTheorems, TLAPS

\* A client is in the channel once, after its handler has sent it and before
\* its coroutine is spawned.
Queued ==
  /\ \A i \in 1 .. Len(chan) :
       handler[chan[i]] = "done" /\ coro[chan[i]] = "none"
  /\ \A i, j \in 1 .. Len(chan) : chan[i] = chan[j] => i = j

\* A coroutine is spawned for what was sent only.
Spawned == \A c \in Clients : coro[c] # "none" => handler[c] = "done"

\* Where the socket of a client is: in the memory, or from there on in the
\* channel_client until the end of the handshakes.
Owned ==
  \A c \in Clients :
    /\ mem[c] <=> handler[c] \in {"reply", "check"}
    /\ cc[c] = "socket" <=>
         ~mem[c] /\ coro[c] \in {"none", "lookup", "origin", "client"}

\* The cache holds certificates of the host they are filed under, and what a
\* coroutine has found there stays there.
Filed == \A h \in Hosts : cache[h] # NoCert => cache[h].host = h
Found == \A c \in Clients : known[c] => cache[host[c]] # NoCert

IInv ==
  /\ TypeOK
  /\ Queued /\ Spawned /\ Owned
  /\ Filed /\ Found /\ VerifiedFirst

LEMMA Initially == Init => IInv
<1> SUFFICES ASSUME Init
             PROVE  IInv
  OBVIOUS
<1>1. TypeOK
  <2>1. chan \in Seq(Clients) /\ Len(chan) <= Cap
    BY MitmAssumption DEF Init
  <2> QED
    BY <2>1 DEF Init, TypeOK
<1>2. Queued /\ Spawned /\ Owned
  BY DEF Init, Queued, Spawned, Owned
<1>3. Filed /\ Found /\ VerifiedFirst
  BY DEF Init, Filed, Found, VerifiedFirst
<1> QED
  BY <1>1, <1>2, <1>3 DEF IInv

\* Writing the 200 line and taking the socket touch neither channel nor cache.
LEMMA HandlerIInv ==
  ASSUME IInv, NEW c \in Clients, Reply(c) \/ TakeSocket(c)
  PROVE  IInv'
<1> USE DEF IInv
<1>1. UNCHANGED <<host, stuck, chan, coro, known, cache, shown, verified>>
  BY DEF Reply, TakeSocket, choices
<1>2. handler[c] \in {"reply", "check"}
  BY DEF Reply, TakeSocket
<1>3. TypeOK'
  BY <1>1 DEF TypeOK, Reply, TakeSocket
<1>4. \A d \in Clients : handler[d] = "done" => handler'[d] = "done"
  BY DEF TypeOK, Reply, TakeSocket
<1>5. Queued'
  <2>1. \A i \in 1 .. Len(chan) : chan[i] \in Clients
    BY DEF TypeOK
  <2> QED
    BY <1>1, <1>4, <2>1 DEF Queued
<1>6. Spawned'
  BY <1>1, <1>4 DEF Spawned
<1>7. Owned'
  <2>1. coro[c] = "none"
    BY <1>2 DEF Spawned
  <2>2. CASE Reply(c)
    BY <1>1, <2>1, <2>2 DEF Owned, TypeOK, Reply
  <2>3. CASE TakeSocket(c)
    BY <1>1, <2>1, <2>3 DEF Owned, TypeOK, TakeSocket
  <2> QED
    BY <2>2, <2>3
<1>8. Filed' /\ Found' /\ VerifiedFirst'
  BY <1>1 DEF Filed, Found, VerifiedFirst
<1> QED
  BY <1>3, <1>5, <1>6, <1>7, <1>8

LEMMA SendIInv ==
  ASSUME IInv, NEW c \in Clients, Send(c)
  PROVE  IInv'
<1> USE DEF IInv
<1>1. UNCHANGED <<host, stuck, mem, cc, coro, known, cache, shown, verified>>
  BY DEF Send, choices
<1>2. /\ handler[c] = "send" /\ handler' = [handler EXCEPT ![c] = "done"]
      /\ chan' = Append(chan, c) /\ Len(chan) < Cap
  BY DEF Send
<1>3. chan \in Seq(Clients) /\ Len(chan) \in Nat /\ Cap \in Nat
  BY MitmAssumption DEF TypeOK
<1>4. /\ chan' \in Seq(Clients) /\ Len(chan') = Len(chan) + 1
      /\ chan'[Len(chan) + 1] = c
      /\ \A i \in 1 .. Len(chan) : chan'[i] = chan[i]
  BY <1>2, <1>3
<1>5. TypeOK'
  <2>1. Len(chan') <= Cap
    BY <1>2, <1>3, <1>4
  <2> QED
    BY <1>1, <1>2, <1>4, <2>1 DEF TypeOK
<1>6. handler'[c] = "done" /\ \A d \in Clients : d # c => handler'[d] = handler[d]
  BY <1>2 DEF TypeOK
<1>7. coro[c] = "none"
  BY <1>2 DEF Spawned
<1>8. Queued'
  <2>1. \A i \in 1 .. Len(chan) : chan[i] \in Clients /\ chan[i] # c
    BY <1>2, <1>3 DEF Queued
  <2>2. \A i \in 1 .. Len(chan') : i \in 1 .. Len(chan) \/ i = Len(chan) + 1
    BY <1>3, <1>4
  <2>3. \A i \in 1 .. Len(chan') :
          handler'[chan'[i]] = "done" /\ coro'[chan'[i]] = "none"
    BY <1>1, <1>4, <1>6, <1>7, <2>1, <2>2 DEF Queued
  <2>4. \A i, j \in 1 .. Len(chan') : chan'[i] = chan'[j] => i = j
    BY <1>4, <2>1, <2>2 DEF Queued
  <2> QED
    BY <2>3, <2>4 DEF Queued
<1>9. Spawned' /\ Owned'
  BY <1>1, <1>2, <1>6 DEF Spawned, Owned
<1>10. Filed' /\ Found' /\ VerifiedFirst'
  BY <1>1 DEF Filed, Found, VerifiedFirst
<1> QED
  BY <1>5, <1>8, <1>9, <1>10

LEMMA ReceiveIInv ==
  ASSUME IInv, Receive
  PROVE  IInv'
<1> USE DEF IInv
<1> DEFINE c == Head(chan)
<1>1. UNCHANGED <<host, stuck, handler, mem, cc, known, cache, shown, verified>>
  BY DEF Receive, choices
<1>2. /\ chan # <<>> /\ chan \in Seq(Clients) /\ Len(chan) \in Nat
      /\ Cap \in Nat
  BY MitmAssumption DEF Receive, TypeOK
<1>3. /\ chan' = Tail(chan) /\ chan' \in Seq(Clients)
      /\ Len(chan') = Len(chan) - 1
      /\ \A i \in 1 .. Len(chan') : chan'[i] = chan[i + 1]
  BY <1>2 DEF Receive
<1>4. c \in Clients /\ c = chan[1] /\ 1 \in 1 .. Len(chan)
  BY <1>2
<1>5. handler[c] = "done" /\ coro[c] = "none"
  BY <1>4 DEF Queued
<1>6. cc[c] = "socket"
  BY <1>4, <1>5 DEF Owned
<1>7. coro' = [coro EXCEPT ![c] = "lookup"]
  BY <1>6 DEF Receive
<1> HIDE DEF c
<1>8. TypeOK'
  <2>1. Len(chan') <= Cap
    BY <1>2, <1>3 DEF TypeOK
  <2> QED
    BY <1>1, <1>3, <1>7, <2>1 DEF TypeOK
<1>9. Queued'
  <2>1. \A i \in 1 .. Len(chan') : i + 1 \in 1 .. Len(chan) /\ i + 1 # 1
    BY <1>2, <1>3
  <2>2. \A i \in 1 .. Len(chan') : chan'[i] \in Clients /\ chan'[i] # c
    BY <1>2, <1>3, <1>4, <2>1 DEF Queued
  <2>3. \A i \in 1 .. Len(chan') :
          handler'[chan'[i]] = "done" /\ coro'[chan'[i]] = "none"
    BY <1>1, <1>3, <1>7, <2>1, <2>2 DEF Queued, TypeOK
  <2>4. ASSUME NEW i \in 1 .. Len(chan'), NEW j \in 1 .. Len(chan'),
               chan'[i] = chan'[j]
        PROVE  i = j
    <3>1. i + 1 = j + 1
      BY <1>3, <2>1, <2>4 DEF Queued
    <3> QED
      BY <3>1
  <2> QED
    BY <2>3, <2>4 DEF Queued
<1>10. Spawned' /\ Owned'
  BY <1>1, <1>4, <1>5, <1>7 DEF Spawned, Owned, TypeOK
<1>11. Filed' /\ Found'
  BY <1>1 DEF Filed, Found
<1>12. VerifiedFirst'
  BY <1>1, <1>7 DEF VerifiedFirst, TypeOK
<1> QED
  BY <1>8, <1>9, <1>10, <1>11, <1>12

\* What the steps of a coroutine have in common: it is not in the channel.
LEMMA CoroutineIInv ==
  ASSUME IInv, NEW c \in Clients, Lookup(c) \/ Origin(c) \/ Client(c)
  PROVE  Queued' /\ Spawned' /\ Owned'
<1> USE DEF IInv, Origin, Client
<1>1. UNCHANGED <<handler, mem, chan>>
  BY DEF Lookup, OriginOk, OriginFail, ClientOk, ClientFail
<1>2. coro[c] # "none" /\ coro'[c] # "none"
  BY DEF Lookup, OriginOk, OriginFail, ClientOk, ClientFail, TypeOK
<1>3. \A d \in Clients : d # c => coro'[d] = coro[d] /\ cc'[d] = cc[d]
  BY DEF Lookup, OriginOk, OriginFail, ClientOk, ClientFail, TypeOK
<1>4. Queued'
  <2>1. \A i \in 1 .. Len(chan) : chan[i] \in Clients /\ chan[i] # c
    BY <1>2 DEF Queued, TypeOK
  <2> QED
    BY <1>1, <1>3, <2>1 DEF Queued
<1>5. Spawned'
  BY <1>1, <1>2, <1>3 DEF Spawned
<1>6. coro[c] \in {"lookup", "origin", "client"}
  BY DEF Lookup, OriginOk, OriginFail, ClientOk, ClientFail
<1>7. \/ coro'[c] \in {"origin", "client"} /\ cc'[c] = cc[c]
      \/ coro'[c] \in {"serving", "closed"} /\ cc'[c] = "none"
  BY DEF Lookup, OriginOk, OriginFail, ClientOk, ClientFail, TypeOK
<1>8. Owned'
  BY <1>1, <1>3, <1>6, <1>7 DEF Owned
<1> QED
  BY <1>4, <1>5, <1>8

LEMMA LookupIInv ==
  ASSUME IInv, NEW c \in Clients, Lookup(c)
  PROVE  IInv'
<1> USE DEF IInv
<1>1. UNCHANGED <<host, stuck, handler, mem, cc, chan, cache, shown, verified>>
  BY DEF Lookup, choices
<1>2. TypeOK'
  BY <1>1 DEF TypeOK, Lookup
<1>3. Filed' /\ Found'
  BY <1>1 DEF Filed, Found, TypeOK, Lookup
<1>4. VerifiedFirst'
  BY <1>1 DEF VerifiedFirst, TypeOK, Lookup
<1> QED
  BY <1>2, <1>3, <1>4, CoroutineIInv

LEMMA OriginOkIInv ==
  ASSUME IInv, NEW c \in Clients, OriginOk(c)
  PROVE  IInv'
<1> USE DEF IInv
<1> DEFINE own == [host |-> host[c], by |-> c]
<1>1. UNCHANGED <<host, stuck, handler, mem, cc, chan, known>>
  BY DEF OriginOk, choices
<1>2. /\ verified' = [verified EXCEPT ![c] = TRUE]
      /\ coro' = [coro EXCEPT ![c] = "client"]
  BY DEF OriginOk
<1>3. own \in Cert /\ own # NoCert /\ own.host = host[c] /\ host[c] \in Hosts
  BY MitmAssumption DEF TypeOK, Cert
<1>4. \/ /\ shown' = [shown EXCEPT ![c] = cache[host[c]]]
         /\ cache' = cache /\ known[c]
      \/ /\ shown' = [shown EXCEPT ![c] = own]
         /\ cache' = [cache EXCEPT ![host[c]] = IF @ = NoCert THEN own ELSE @]
  BY DEF OriginOk, Stored
<1>5. TypeOK'
  <2>1. cache' \in [Hosts -> Cert \cup {NoCert}]
    BY <1>3, <1>4 DEF TypeOK
  <2>2. shown' \in [Clients -> Cert \cup {NoCert}]
    BY <1>3, <1>4 DEF TypeOK
  <2> QED
    BY <1>1, <1>2, <2>1, <2>2 DEF TypeOK
<1>6. Filed'
  BY <1>3, <1>4 DEF Filed, TypeOK
<1>7. Found'
  BY <1>1, <1>3, <1>4 DEF Found, TypeOK
<1>8. shown'[c] # NoCert /\ shown'[c].host = host[c]
  BY <1>3, <1>4 DEF Filed, Found, TypeOK
<1>9. VerifiedFirst'
  <2>1. \A d \in Clients : d # c =>
          /\ coro'[d] = coro[d] /\ shown'[d] = shown[d]
          /\ verified'[d] = verified[d] /\ host'[d] = host[d]
    BY <1>1, <1>2, <1>4 DEF TypeOK
  <2>2. verified'[c]
    BY <1>2 DEF TypeOK
  <2> QED
    BY <1>1, <1>8, <2>1, <2>2 DEF VerifiedFirst
<1> QED
  BY <1>5, <1>6, <1>7, <1>9, CoroutineIInv DEF Origin

LEMMA HandshakeIInv ==
  ASSUME IInv, NEW c \in Clients, OriginFail(c) \/ ClientOk(c) \/ ClientFail(c)
  PROVE  IInv'
<1> USE DEF IInv
<1>1. UNCHANGED <<host, stuck, handler, mem, chan, known, cache, shown, verified>>
  BY DEF OriginFail, ClientOk, ClientFail, choices
<1>2. TypeOK'
  BY <1>1 DEF TypeOK, OriginFail, ClientOk, ClientFail
<1>3. Filed' /\ Found'
  BY <1>1 DEF Filed, Found
<1>4. \A d \in Clients :
        coro'[d] \in {"client", "serving", "closing"} =>
          coro[d] \in {"client", "serving", "closing"}
  BY DEF OriginFail, ClientOk, ClientFail, TypeOK
<1>5. VerifiedFirst'
  BY <1>1, <1>4 DEF VerifiedFirst
<1> QED
  BY <1>2, <1>3, <1>5, CoroutineIInv DEF Origin, Client

\* The end of a served connection: its client was verified and has no
\* channel_client any more.
LEMMA ServedIInv ==
  ASSUME IInv, NEW c \in Clients, EmptyWrite(c) \/ ShutDown(c)
  PROVE  IInv'
<1> USE DEF IInv
<1>1. UNCHANGED <<host, stuck, handler, mem, cc, chan, known, cache, shown, verified>>
  BY DEF EmptyWrite, ShutDown, choices
<1>2. /\ coro[c] \in {"serving", "closing"} /\ coro'[c] \in {"closing", "closed"}
      /\ \A d \in Clients : d # c => coro'[d] = coro[d]
  BY DEF EmptyWrite, ShutDown, TypeOK
<1>3. TypeOK'
  BY <1>1 DEF TypeOK, EmptyWrite, ShutDown
<1>4. Queued'
  <2>1. \A i \in 1 .. Len(chan) : chan[i] \in Clients /\ chan[i] # c
    BY <1>2 DEF Queued, TypeOK
  <2> QED
    BY <1>1, <1>2, <2>1 DEF Queued
<1>5. Spawned' /\ Owned'
  BY <1>1, <1>2 DEF Spawned, Owned
<1>6. Filed' /\ Found' /\ VerifiedFirst'
  BY <1>1, <1>2 DEF Filed, Found, VerifiedFirst
<1> QED
  BY <1>3, <1>4, <1>5, <1>6

LEMMA StepIInv == IInv /\ [Next]_vars => IInv'
<1> SUFFICES ASSUME IInv, [Next]_vars
             PROVE  IInv'
  OBVIOUS
<1>1. ASSUME NEW c \in Clients, Reply(c) \/ TakeSocket(c)
      PROVE  IInv'
  BY <1>1, HandlerIInv
<1>2. ASSUME NEW c \in Clients, Send(c)
      PROVE  IInv'
  BY <1>2, SendIInv
<1>3. CASE Receive
  BY <1>3, ReceiveIInv
<1>4. ASSUME NEW c \in Clients, Lookup(c)
      PROVE  IInv'
  BY <1>4, LookupIInv
<1>5. ASSUME NEW c \in Clients, OriginOk(c)
      PROVE  IInv'
  BY <1>5, OriginOkIInv
<1>6. ASSUME NEW c \in Clients, OriginFail(c) \/ ClientOk(c) \/ ClientFail(c)
      PROVE  IInv'
  BY <1>6, HandshakeIInv
<1>7. ASSUME NEW c \in Clients, EmptyWrite(c) \/ ShutDown(c)
      PROVE  IInv'
  BY <1>7, ServedIInv
<1>8. CASE UNCHANGED vars
  BY <1>8 DEF vars, choices, IInv, TypeOK, Queued, Spawned, Owned, Filed,
              Found, VerifiedFirst
<1> QED
  BY <1>1, <1>2, <1>3, <1>4, <1>5, <1>6, <1>7, <1>8 DEF Next, Origin, Client

\* The inductive invariant holds in every behaviour.
THEOREM Invariance == Spec => []IInv
  BY Initially, StepIInv, PTL DEF Spec

\* Type correctness.
THEOREM TypeCorrect == Spec => []TypeOK
<1>1. IInv => TypeOK
  BY DEF IInv
<1> QED
  BY <1>1, Invariance, PTL

\* The socket of an intercepted client is in one place at any time and what
\* wait_c receives always has one (httpserver.cpp:300, mitm_svc.cpp).
THEOREM SocketHasOneOwner == Spec => []OneOwner
<1>1. IInv => OneOwner
  <2> SUFFICES ASSUME IInv, NEW c \in Clients
               PROVE  /\ mem[c] <=> handler[c] \in {"reply", "check"}
                      /\ cc[c] = "socket" <=>
                           ~mem[c] /\ coro[c] \in {"none", "lookup", "origin", "client"}
                      /\ \A i \in 1 .. Len(chan) : chan[i] = c => cc[c] = "socket"
    BY DEF OneOwner
  <2>1. Owned
    BY DEF IInv
  <2>2. ASSUME NEW i \in 1 .. Len(chan), chan[i] = c
        PROVE  cc[c] = "socket"
    BY <2>1, <2>2 DEF IInv, Queued, Owned
  <2> QED
    BY <2>1, <2>2 DEF Owned
<1> QED
  BY <1>1, Invariance, PTL

\* Nobody is shown a certificate before the origin was verified
\* (httpserver.cpp:316).
THEOREM NeverShownUnverified == Spec => []VerifiedFirst
<1>1. IInv => VerifiedFirst
  BY DEF IInv
<1> QED
  BY <1>1, Invariance, PTL

\* No step replaces a certificate that others have been shown
\* (httpserver.cpp:318).
THEOREM CertificateStays == Spec => CacheStays
<1>1. IInv /\ [Next]_vars =>
        [\A h \in Hosts : cache[h] # NoCert => cache'[h] = cache[h]]_vars
  <2> SUFFICES ASSUME IInv, Next, NEW h \in Hosts, cache[h] # NoCert
               PROVE  cache'[h] = cache[h]
    OBVIOUS
  <2>1. ASSUME NEW c \in Clients, OriginOk(c)
        PROVE  cache'[h] = cache[h]
    BY <2>1 DEF OriginOk, Stored, IInv, TypeOK
  <2>2. CASE UNCHANGED cache
    BY <2>2
  <2> QED
    BY <2>1, <2>2 DEF Next, Reply, TakeSocket, Send, Receive, Lookup, Origin,
                      OriginFail, Client, ClientOk, ClientFail, EmptyWrite,
                      ShutDown
<1> QED
  BY <1>1, Invariance, PTL DEF Spec, CacheStays

-----------------------------------------------------------------------------
(* The CA whose certificates the MITM server shows: its files, for any      *)
(* number of pairs.  The inductive invariant says for each point of the     *)
(* program what the files may hold: while no key was removed from under its *)
(* certificate, a certificate file only exists behind a key file of its own *)
(* pair.                                                                    *)

\* The key of the pair in the making is in its file, as far as it was written.
KeyWritten ==
  pc \in {"opencert", "writecert"} =>
    /\ kf.gen = gen /\ kf.size \in {"part", "whole"}
    /\ ~torn => Whole(kf)

\* The key behind a certificate, and how much of both there is.
Behind ==
  ~orphan /\ Exists(cf) =>
    /\ kf.size \in {"part", "whole"}
    /\ Whole(cf) => cf.gen = kf.gen
    /\ ~torn /\ pc # "writecert" => Whole(kf) /\ Whole(cf)

\* A pair is only made when there is no certificate.
NoneWhileMaking ==
  ~orphan /\ pc \in {"openkey", "writekey", "opencert"} => ~Exists(cf)

\* What was loaded is what the file holds.
Loaded == pc = "loadcert" => si.key = kf

\* The pair in the making is newer than any certificate, and what it is
\* written over is no whole pair.
Fresh ==
  /\ cf.gen <= gen
  /\ pc \in {"openkey", "writekey", "opencert"} => cf.gen < gen
  /\ pc = "openkey" => ~(Exists(kf) /\ Exists(cf))
  /\ pc = "writekey" => ~Whole(kf)
  /\ pc = "writecert" => ~Whole(cf)

CaIInv ==
  /\ CaTypeOK
  /\ Fresh
  /\ KeyWritten
  /\ Behind
  /\ NoneWhileMaking
  /\ Loaded
  /\ NeverMixed
  /\ WholeUnlessTorn

LEMMA CaInitially == CaInit => CaIInv
<1> SUFFICES ASSUME CaInit
             PROVE  CaIInv
  OBVIOUS
<1>1. CaTypeOK
  <2>1. gen \in Nat /\ gen <= MaxGen
    BY GenAssumption DEF CaInit
  <2>2. NoFile \in File
    BY DEF NoFile, File
  <2>3. si \in [key : File, cert : File] /\ kf \in File /\ cf \in File
    BY <2>2 DEF CaInit, Nobody
  <2> QED
    BY <2>1, <2>3, Zenon DEF CaInit, CaTypeOK
<1>2. Fresh /\ KeyWritten /\ Behind /\ NoneWhileMaking /\ Loaded
  BY DEF CaInit, Fresh, Whole, KeyWritten, Behind, NoneWhileMaking, Loaded, NoFile, Exists
<1>3. NeverMixed /\ WholeUnlessTorn
  BY DEF CaInit, NeverMixed, WholeUnlessTorn
<1> QED
  BY <1>1, <1>2, <1>3 DEF CaIInv

LEMMA CaPreserved == CaIInv /\ [CaNext]_caVars => CaIInv'
<1> SUFFICES ASSUME CaIInv, [CaNext]_caVars
             PROVE  CaIInv'
  OBVIOUS
<1> USE GenAssumption DEF CaIInv, CaTypeOK, Fresh, KeyWritten, Behind, NoneWhileMaking,
        Loaded, NeverMixed, WholeUnlessTorn, files, File, NoFile, EmptyFile,
        Nobody, Exists, Whole
<1>1. CASE FindBoth
  BY <1>1 DEF FindBoth
<1>2. CASE LoadKey
  BY <1>2 DEF LoadKey
<1>3. CASE LoadCert
  BY <1>3 DEF LoadCert
<1>4. CASE Generate
  BY <1>4 DEF Generate
<1>5. CASE OpenKey
  BY <1>5 DEF OpenKey
<1>6. ASSUME NEW size \in {"part", "whole"}, WriteKey(size)
      PROVE  CaIInv'
  BY <1>6 DEF WriteKey
<1>7. CASE OpenCert
  BY <1>7 DEF OpenCert
<1>8. ASSUME NEW size \in {"part", "whole"}, WriteCert(size)
      PROVE  CaIInv'
  <2>1. CaTypeOK'
    BY <1>8 DEF WriteCert
  <2>2. Fresh' /\ KeyWritten' /\ NoneWhileMaking' /\ Loaded'
    BY <1>8 DEF WriteCert
  <2>4. Behind'
    <3>1. /\ kf' = kf /\ cf'.gen = gen /\ cf'.size = size
          /\ kf.gen = gen /\ kf.size \in {"part", "whole"}
      BY <1>8 DEF WriteCert
    <3>2. ~torn' => size = "whole" /\ kf.size = "whole"
      BY <1>8 DEF WriteCert
    <3> QED
      BY <3>1, <3>2
  <2>3. (NeverMixed /\ WholeUnlessTorn)'
    BY <1>8 DEF WriteCert
  <2> QED
    BY <2>1, <2>2, <2>3, <2>4
<1>9. CASE End
  BY <1>9 DEF End
<1>10. CASE RemoveCert
  BY <1>10 DEF RemoveCert
<1>11. CASE RemoveKey
  BY <1>11 DEF RemoveKey
<1>12. CASE UNCHANGED caVars
  BY <1>12 DEF caVars
<1> QED
  BY <1>1, <1>2, <1>3, <1>4, <1>5, <1>6, <1>7, <1>8, <1>9, <1>10, <1>11,
     <1>12 DEF CaNext

\* The inductive invariant holds throughout.
THEOREM CaInvariance == CaSpec => []CaIInv
BY CaInitially, CaPreserved, PTL DEF CaSpec

\* Type correctness.
THEOREM CaTypeCorrect == CaSpec => []CaTypeOK
<1>1. CaIInv => CaTypeOK
  BY DEF CaIInv
<1> QED
  BY <1>1, CaInvariance, PTL

\* A key is never used with the certificate of another pair.
THEOREM PairsMatch == CaSpec => []NeverMixed
<1>1. CaIInv => NeverMixed
  BY DEF CaIInv
<1> QED
  BY <1>1, CaInvariance, PTL

\* A stored pair stays until a user removes a file of it: every step that
\* writes a file finds that there was none of its own pair.
THEOREM StoredPairStays == CaSpec => PairStays
<1>1. CaIInv /\ [CaNext]_caVars =>
        [Whole(kf) /\ Whole(cf) /\ kf.gen = cf.gen =>
           kf' \in {kf, NoFile} /\ cf' \in {cf, NoFile}]_caVars
  <2> SUFFICES ASSUME CaIInv, [CaNext]_caVars,
                      Whole(kf), Whole(cf), kf.gen = cf.gen
               PROVE  kf' \in {kf, NoFile} /\ cf' \in {cf, NoFile}
    OBVIOUS
  <2> USE DEF CaIInv, Fresh, KeyWritten, Whole, Exists, files
  <2>1. CASE OpenKey
    BY <2>1 DEF OpenKey
  <2>2. ASSUME NEW size \in {"part", "whole"}, WriteKey(size)
        PROVE  FALSE
    BY <2>2 DEF WriteKey
  <2>3. CASE OpenCert
    BY <2>3 DEF OpenCert, CaTypeOK, File
  <2>4. ASSUME NEW size \in {"part", "whole"}, WriteCert(size)
        PROVE  FALSE
    BY <2>4 DEF WriteCert
  <2>5. CASE FindBoth \/ LoadKey \/ LoadCert \/ Generate \/ End
    BY <2>5 DEF FindBoth, LoadKey, LoadCert, Generate, End
  <2>6. CASE RemoveCert \/ RemoveKey
    BY <2>6 DEF RemoveCert, RemoveKey
  <2>7. CASE UNCHANGED caVars
    BY <2>7 DEF caVars
  <2> QED
    BY <2>1, <2>2, <2>3, <2>4, <2>5, <2>6, <2>7 DEF CaNext
<1> QED
  BY <1>1, CaInvariance, PTL DEF CaSpec, PairStays

\* Only an unnoticed cut leaves the program with less than a pair.
THEOREM CrashHeals == CaSpec => []WholeUnlessTorn
<1>1. CaIInv => WholeUnlessTorn
  BY DEF CaIInv
<1> QED
  BY <1>1, CaInvariance, PTL
=============================================================================
