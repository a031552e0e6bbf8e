---------------------------- MODULE HttpDoProofs ----------------------------
(* The request loop of httpserver.cpp, for any number of requests of any     *)
(* kind: what a client receives are the answers to its requests, in their    *)
(* order, each from its first token on.  Inductive is that nothing has been  *)
(* received for the request in work before its answer is read, and while it  *)
(* is relayed exactly what was written of it, unless the client has left.    *)
EXTENDS HttpDo, TLAPS

\* The request in work has been forwarded to an origin.
Forwarded == pc \in {"upload", "head", "headed", "relay"}

\* A request is in work from its head to its answer, and the memory of the
\* origin's connection is behind what the origin sent.
InWork ==
  /\ pc \in {"parsed"} \/ Forwarded => cur > 0
  /\ Forwarded =>
       /\ ans[cur] # "?"
       /\ osent <= Len(Script[ans[cur]])
  /\ pc \in {"upload", "head"} => opass = 0
  /\ pc = "headed" => oread > 0 /\ opass = 0
  /\ pc = "relay" => opass > 0 /\ Script[ans[cur]][1] # "junk"
  /\ pc = "parsed400" => left

\* What the client has received is for requests up to the one in work, and
\* none of it for that one before its answer is read.
Before ==
  \A k \in DOMAIN got :
    /\ got[k].r <= cur
    /\ pc \in {"parsed", "upload", "head", "headed"} => got[k].r < cur

\* What was written of the answer in work is what the client received last.
Sent ==
  pc = "relay" /\ ~left =>
    /\ opass > 0 /\ opass <= Len(got)
    /\ got[Len(got)].r = cur
    /\ Begins(Len(got), opass)

IInv ==
  /\ TypeOK
  /\ InWork
  /\ Before
  /\ Sent
  /\ Faithful

-----------------------------------------------------------------------------
Entry == [r : 1 .. MaxReq, t : Own \cup Relayed]

\* A script is at most three tokens, of those a relay can meet.
Token == Relayed \cup {"junk", "x"}

LEMMA Scripts ==
  ASSUME NEW a \in DOMAIN Script
  PROVE  /\ Script[a] \in Seq(Token) /\ Len(Script[a]) \in 0 .. 3
         /\ \A i \in 2 .. Len(Script[a]) : Script[a][i] # "junk"
<1>1. DOMAIN Script = {"none", "len", "lenclose", "cut", "chunked", "badchunk",
                       "cutchunk", "close", "badhead", "bodyless", "interim",
                       "eof"}
  BY DEF Script
<1>3. <<>> \in Seq(Token) /\ Len(<<>>) \in 0 .. 3
  OBVIOUS
<1>5. \A x \in Token : <<x>> \in Seq(Token) /\ Len(<<x>>) \in 0 .. 3
  OBVIOUS
<1>6. \A x, y \in Token : <<x, y>> \in Seq(Token) /\ Len(<<x, y>>) \in 0 .. 3
  OBVIOUS
<1>7. \A x, y, z \in Token :
        <<x, y, z>> \in Seq(Token) /\ Len(<<x, y, z>>) \in 0 .. 3
  OBVIOUS
<1>4. \/ Script[a] = <<>> \/ Script[a] = <<"head">> \/ Script[a] = <<"junk">>
      \/ Script[a] = <<"head", "u">>
      \/ Script[a] = <<"head", "u", "u">> \/ Script[a] = <<"head", "u", "z">>
      \/ Script[a] = <<"head", "u", "x">> \/ Script[a] = <<"1xx", "head", "u">>
  <2>1. CASE a \in {"none", "bodyless", "badhead", "eof"}
    BY <2>1 DEF Script
  <2>2. CASE a \in {"len", "lenclose", "close"}
    BY <2>2 DEF Script
  <2>3. CASE a \in {"cut", "cutchunk"}
    BY <2>3 DEF Script
  <2>4. CASE a \in {"chunked", "badchunk", "interim"}
    BY <2>4 DEF Script
  <2> QED
    BY <1>1, <2>1, <2>2, <2>3, <2>4
<1>8. /\ "head" \in Token /\ "1xx" \in Token /\ "u" \in Token /\ "z" \in Token
      /\ "junk" \in Token /\ "x" \in Token
  BY DEF Token, Relayed
<1>9. Script[a] \in Seq(Token) /\ Len(Script[a]) \in 0 .. 3
  BY <1>3, <1>4, <1>5, <1>6, <1>7, <1>8, Zenon
<1>10. \A i \in 2 .. Len(Script[a]) : Script[a][i] # "junk"
  BY <1>4
<1> QED
  BY <1>9, <1>10

\* Where the numbers of the request in work can be.
LEMMA Current ==
  ASSUME TypeOK
  PROVE  /\ MaxReq \in Nat /\ Len(asks) \in 0 .. MaxReq
         /\ taken \in 0 .. MaxReq /\ cur \in 0 .. MaxReq
         /\ cur > 0 => cur \in 1 .. MaxReq
         /\ \A i \in 1 .. MaxReq : ans[i] # "?" => ans[i] \in DOMAIN Script
         /\ osent \in 0 .. 3 /\ oread \in 0 .. 3 /\ opass \in 0 .. 3
<1>1. MaxReq \in Nat
  BY HttpAssumption
<1>2. Len(asks) \in Nat /\ Len(asks) <= MaxReq
  BY DEF TypeOK
<1>3. taken \in 0 .. Len(asks) /\ cur \in 0 .. taken
  BY DEF TypeOK
<1>4. \A i \in 1 .. MaxReq : ans[i] # "?" => ans[i] \in DOMAIN Script
  BY DEF TypeOK
<1>5. osent \in 0 .. 3 /\ oread \in 0 .. 3 /\ opass \in 0 .. 3
  BY DEF TypeOK
<1> QED
  BY <1>1, <1>2, <1>3, <1>4, <1>5

\* What an appended entry leaves of the others.
LEMMA Appended ==
  ASSUME TypeOK, NEW e \in Entry, got' = Append(got, e)
  PROVE  /\ got' \in Seq(Entry)
         /\ Len(got) \in Nat /\ Len(got') = Len(got) + 1
         /\ DOMAIN got = 1 .. Len(got) /\ DOMAIN got' = 1 .. (Len(got) + 1)
         /\ got'[Len(got) + 1] = e
         /\ \A k \in 1 .. Len(got) : got'[k] = got[k] /\ got[k] \in Entry
<1>1. got \in Seq(Entry)
  BY DEF TypeOK, Entry
<1> QED
  BY <1>1

\* What was received stays faithful while nothing is received, also when a
\* request is answered that nothing was received for.
LEMMA StaysFaithful ==
  ASSUME TypeOK, Faithful, got' = got,
         \A k \in DOMAIN got : ans'[got[k].r] = ans[got[k].r]
  PROVE  Faithful'
<1>1. ASSUME NEW k \in DOMAIN got, NEW n \in 1 .. 3, Begins(k, n)
      PROVE  Begins(k, n)'
  BY <1>1 DEF Begins
<1> QED
  BY <1>1 DEF Faithful

\* What stood in got before still begins an answer after one more entry.
LEMMA StillBegins ==
  ASSUME TypeOK, NEW e \in Entry, got' = Append(got, e), ans' = ans,
         NEW k \in DOMAIN got, NEW n \in 1 .. 3, Begins(k, n)
  PROVE  Begins(k, n)'
<1>1. /\ DOMAIN got = 1 .. Len(got) /\ Len(got) \in Nat
      /\ \A j \in 1 .. Len(got) : got'[j] = got[j]
  BY Appended
<1>2. n <= k
  BY DEF Begins
<1>3. /\ \A m \in 1 .. n : k - n + m \in 1 .. Len(got)
      /\ k > n => k - n \in 1 .. Len(got)
      /\ k \in 1 .. Len(got)
  BY <1>1, <1>2
<1>4. /\ \A m \in 1 .. n : got'[k - n + m] = got[k - n + m]
      /\ k > n => got'[k - n] = got[k - n]
      /\ got'[k] = got[k]
  BY <1>1, <1>3
<1> QED
  BY <1>4 DEF Begins

\* An answer of the handler's own, for which nothing was received yet.
LEMMA OwnAnswer ==
  ASSUME TypeOK, Faithful, NEW t \in Own, cur \in 1 .. MaxReq,
         \A k \in DOMAIN got : got[k].r < cur,
         Put(t), ans' = ans, cur' = cur
  PROVE  /\ got' \in Seq(Entry) /\ cok' \in BOOLEAN
         /\ \A k \in DOMAIN got' : got'[k].r <= cur
         /\ Faithful'
<1> DEFINE e == [r |-> cur, t |-> t]
<1>1. CASE left
  <2>1. got' = got /\ cok' \in BOOLEAN
    BY <1>1 DEF Put, TypeOK
  <2>2. Faithful'
    BY <2>1, StaysFaithful
  <2>3. got \in Seq(Entry) /\ \A k \in DOMAIN got : got[k].r <= cur
    <3>1. got \in Seq(Entry)
      BY DEF TypeOK, Entry
    <3>2. \A k \in DOMAIN got : got[k] \in Entry
      BY <3>1
    <3>3. \A k \in DOMAIN got : got[k].r \in Int
      BY <3>2 DEF Entry
    <3> QED
      BY <3>1, <3>3
  <2> QED
    BY <2>1, <2>2, <2>3
<1>2. CASE ~left
  <2>1. e \in Entry /\ got' = Append(got, e) /\ cok' \in BOOLEAN
    BY <1>2 DEF Put, TypeOK, Entry
  <2> HIDE DEF e
  <2>2. /\ got' \in Seq(Entry)
        /\ Len(got) \in Nat /\ Len(got') = Len(got) + 1
        /\ DOMAIN got = 1 .. Len(got) /\ DOMAIN got' = 1 .. (Len(got) + 1)
        /\ got'[Len(got) + 1] = e
        /\ \A k \in 1 .. Len(got) : got'[k] = got[k] /\ got[k] \in Entry
    BY <2>1, Appended
  <2>3. e.r = cur /\ e.t = t
    BY DEF e
  <2>4. ASSUME NEW i \in DOMAIN got', NEW j \in DOMAIN got', i < j
        PROVE  got'[i].r <= got'[j].r
    <3>1. i \in DOMAIN got
      BY <2>2, <2>4
    <3>2. CASE j \in DOMAIN got
      BY <3>1, <3>2, <2>2, <2>4 DEF Faithful
    <3>3. CASE j = Len(got) + 1
      <4>1. got'[i] = got[i] /\ got[i].r \in Int /\ got[i].r < cur
        BY <3>1, <2>2 DEF Entry
      <4> QED
        BY <4>1, <3>3, <2>2, <2>3
    <3> QED
      BY <3>2, <3>3, <2>2
  <2>5. ASSUME NEW k \in DOMAIN got'
        PROVE  \/ got'[k].t \in Own
                  /\ \A j \in DOMAIN got' : j # k => got'[j].r # got'[k].r
               \/ \E n \in 1 .. 3 : Begins(k, n)'
    <3>1. CASE k = Len(got) + 1
      BY <3>1, <2>2, <2>3
    <3>2. CASE k \in DOMAIN got
      <4>1. CASE /\ got[k].t \in Own
                 /\ \A j \in DOMAIN got : j # k => got[j].r # got[k].r
        BY <3>2, <4>1, <2>2, <2>3
      <4>2. CASE \E n \in 1 .. 3 : Begins(k, n)
        BY <3>2, <4>2, <2>1, StillBegins
      <4> QED
        BY <3>2, <4>1, <4>2 DEF Faithful
    <3> QED
      BY <3>1, <3>2, <2>2
  <2>6. Faithful'
    BY <2>4, <2>5 DEF Faithful
  <2>7. \A k \in DOMAIN got' : got'[k].r <= cur
    BY <2>2, <2>3 DEF Entry
  <2> QED
    BY <2>1, <2>2, <2>6, <2>7
<1> QED
  BY <1>1, <1>2

\* One more token of the answer that is being relayed.
LEMMA RelayedToken ==
  ASSUME TypeOK, Faithful, cur \in 1 .. MaxReq, ans[cur] # "?",
         opass < Len(Script[ans[cur]]),
         NEW t \in Relayed, t = Script[ans[cur]][opass + 1],
         Before,
         opass = 0 => \A k \in DOMAIN got : got[k].r < cur,
         opass > 0 /\ ~left => /\ opass <= Len(got)
                              /\ got[Len(got)].r = cur
                              /\ Begins(Len(got), opass),
         Put(t), ans' = ans, cur' = cur, left' = left, opass' = opass + 1
  PROVE  /\ got' \in Seq(Entry) /\ cok' \in BOOLEAN
         /\ \A k \in DOMAIN got' : got'[k].r <= cur
         /\ ~left => /\ opass' > 0 /\ opass' <= Len(got')
                     /\ got'[Len(got')].r = cur
                     /\ Begins(Len(got), opass)'
         /\ Faithful'
<1> DEFINE e == [r |-> cur, t |-> t]
<1>1. CASE left
  <2>1. got' = got /\ cok' \in BOOLEAN
    BY <1>1 DEF Put, TypeOK
  <2>2. Faithful'
    BY <2>1, StaysFaithful
  <2> QED
    BY <1>1, <2>1, <2>2 DEF TypeOK, Entry, Before
<1>2. CASE ~left
  <2>1. e \in Entry /\ got' = Append(got, e) /\ cok' \in BOOLEAN
    BY <1>2 DEF Put, TypeOK, Entry
  <2>3. e.r = cur /\ e.t = t /\ e = [r |-> cur, t |-> Script[ans[cur]][opass + 1]]
    OBVIOUS
  <2> HIDE DEF e
  <2>2. /\ got' \in Seq(Entry)
        /\ Len(got) \in Nat /\ Len(got') = Len(got) + 1
        /\ DOMAIN got = 1 .. Len(got) /\ DOMAIN got' = 1 .. (Len(got) + 1)
        /\ got'[Len(got) + 1] = e
        /\ \A k \in 1 .. Len(got) : got'[k] = got[k] /\ got[k] \in Entry
    BY <2>1, Appended
  <2>4. ASSUME NEW i \in DOMAIN got', NEW j \in DOMAIN got', i < j
        PROVE  got'[i].r <= got'[j].r
    <3>1. i \in DOMAIN got
      BY <2>2, <2>4
    <3>2. CASE j \in DOMAIN got
      BY <3>1, <3>2, <2>2, <2>4 DEF Faithful
    <3>3. CASE j = Len(got) + 1
      <4>1. got'[i] = got[i] /\ got[i].r <= cur
        BY <3>1, <2>2 DEF Before
      <4> QED
        BY <4>1, <3>3, <2>2, <2>3
    <3> QED
      BY <3>2, <3>3, <2>2
  <2>5. opass \in 0 .. 2 /\ opass + 1 \in 1 .. 3
    <3>1. ans[cur] \in DOMAIN Script
      BY DEF TypeOK
    <3>2. Len(Script[ans[cur]]) \in 0 .. 3
      BY <3>1, Scripts
    <3>3. opass \in 0 .. 3
      BY DEF TypeOK
    <3> QED
      BY <3>2, <3>3
  <2>a. PICK l \in Nat, o \in 0 .. 2 : l = Len(got) /\ o = opass
    BY <2>2, <2>5
  <2>b. o > 0 => o <= l /\ got[l].r = cur /\ Begins(l, o)
    BY <2>a, <1>2
  <2>6. Begins(l + 1, o + 1)'
    <3>1. o + 1 <= l + 1
      BY <2>a, <2>b
    <3>2. ASSUME NEW m \in 1 .. (o + 1)
          PROVE  got'[l + 1 - (o + 1) + m] = [r |-> cur, t |-> Script[ans[cur]][m]]
      <4>1. CASE m = o + 1
        <5>1. l + 1 - (o + 1) + m = l + 1
          BY <4>1
        <5> QED
          BY <4>1, <5>1, <2>a, <2>2, <2>3
      <4>2. CASE m \in 1 .. o
        <5>1. got[l - o + m] = [r |-> cur, t |-> Script[ans[cur]][m]]
          BY <4>2, <2>b DEF Begins
        <5>2. l - o + m \in 1 .. l /\ l + 1 - (o + 1) + m = l - o + m
          BY <4>2, <2>b
        <5> QED
          BY <5>1, <5>2, <2>2, <2>a
      <4> QED
        BY <4>1, <4>2
    <3>3. ASSUME l + 1 > o + 1
          PROVE  got'[l + 1 - (o + 1)].r < cur
      <4>1. l - o \in 1 .. l /\ l + 1 - (o + 1) = l - o
        BY <3>3
      <4>2. got[l - o].r < cur
        <5>1. CASE o = 0
          BY <5>1, <4>1, <2>2, <2>a
        <5>2. CASE o > 0
          BY <5>2, <3>3, <2>b DEF Begins
        <5> QED
          BY <5>1, <5>2
      <4> QED
        BY <4>1, <4>2, <2>2, <2>a
    <3>4. got'[l + 1].r = cur /\ ans[cur] # "?" /\ o + 1 <= Len(Script[ans[cur]])
      <4>1. Len(Script[ans[cur]]) \in Nat
        <5>1. ans[cur] \in DOMAIN Script
          BY DEF TypeOK
        <5> QED
          BY <5>1, Scripts
      <4> QED
        BY <4>1, <2>a, <2>2, <2>3
    <3> QED
      BY <3>1, <3>2, <3>3, <3>4 DEF Begins
  <2>7. ASSUME NEW k \in DOMAIN got'
        PROVE  \/ got'[k].t \in Own
                  /\ \A j \in DOMAIN got' : j # k => got'[j].r # got'[k].r
               \/ \E n \in 1 .. 3 : Begins(k, n)'
    <3>1. CASE k = Len(got) + 1
      <4>1. o + 1 \in 1 .. 3 /\ k = l + 1
        BY <3>1, <2>a
      <4> QED
        BY <4>1, <2>6
    <3>2. CASE k \in DOMAIN got
      <4>1. CASE /\ got[k].t \in Own
                 /\ \A j \in DOMAIN got : j # k => got[j].r # got[k].r
        <5>1. got[k].r # cur
          <6>1. CASE opass = 0
            BY <6>1, <3>2, <2>2
          <6>2. CASE opass > 0
            <7>1. o \in 1 .. l /\ l \in DOMAIN got /\ got[l].r = cur /\ Begins(l, o)
              BY <6>2, <2>a, <2>b, <2>2
            <7>2. got[l].t = Script[ans[cur]][o]
              <8>1. got[l - o + o] = [r |-> cur, t |-> Script[ans[cur]][o]]
                <9>1. \A m \in 1 .. o :
                        got[l - o + m] = [r |-> cur, t |-> Script[ans[cur]][m]]
                  BY <7>1 DEF Begins
                <9>2. o \in 1 .. o
                  BY <7>1
                <9> QED
                  BY <9>1, <9>2
              <8>2. l - o + o = l
                BY <2>a
              <8> QED
                BY <8>1, <8>2
            <7>3. Script[ans[cur]][o] \notin Own
              <8>1. Script[ans[cur]] \in Seq(Token)
                BY Scripts DEF TypeOK
              <8>2. o \in 1 .. Len(Script[ans[cur]])
                BY <7>1, <2>a, <8>1
              <8>3. Script[ans[cur]][o] \in Token
                BY <8>1, <8>2
              <8> QED
                BY <8>3 DEF Token, Relayed, Own
            <7> QED
              BY <7>1, <7>2, <7>3, <4>1
          <6> QED
            BY <6>1, <6>2, <2>5
        <5> QED
          BY <3>2, <4>1, <5>1, <2>2, <2>3
      <4>2. CASE \E n \in 1 .. 3 : Begins(k, n)
        BY <3>2, <4>2, <2>1, StillBegins
      <4> QED
        BY <3>2, <4>1, <4>2 DEF Faithful
    <3> QED
      BY <3>1, <3>2, <2>2
  <2>8. Faithful'
    BY <2>4, <2>7 DEF Faithful
  <2>9. \A k \in DOMAIN got' : got'[k].r <= cur
    BY <2>2, <2>3 DEF Before, Entry
  <2>10. opass' > 0 /\ opass' <= Len(got') /\ got'[Len(got')].r = cur
    BY <2>2, <2>3, <2>5, <2>a, <2>b
  <2>11. Begins(Len(got), opass)'
    <3>1. Len(got') = l + 1 /\ opass' = o + 1
      BY <2>2, <2>a
    <3> QED
      BY <3>1, <2>6 DEF Begins
  <2> QED
    BY <2>1, <2>2, <2>8, <2>9, <2>10, <2>11
<1> QED
  BY <1>1, <1>2

-----------------------------------------------------------------------------
LEMMA Initially == Init => IInv
<1> SUFFICES ASSUME Init
             PROVE  IInv
  OBVIOUS
<1>1. ans \in [1 .. MaxReq -> DOMAIN Script \cup {"?"}]
  BY DEF Init
<1>2. got \in Seq([r : 1 .. MaxReq, t : Own \cup Relayed]) /\ DOMAIN got = {}
  BY DEF Init
<1>3. tls \in BOOLEAN /\ up \in {"none", "open", "closed"}
  BY HttpAssumption DEF Init
<1>4. TypeOK
  <2>1. asks \in Seq(Asks) /\ Len(asks) = 0 /\ MaxReq \in Nat
    BY HttpAssumption DEF Init
  <2>2. taken = 0 /\ cur = 0 /\ osent = 0 /\ oread = 0 /\ opass = 0
    BY DEF Init
  <2>3. taken \in 0 .. Len(asks) /\ cur \in 0 .. taken /\ Len(asks) <= MaxReq
    BY <2>1, <2>2
  <2>4. /\ opass \in 0 .. 3 /\ oread \in 0 .. 3 /\ osent \in 0 .. 3
        /\ opass <= oread /\ oread <= osent
    BY <2>2
  <2>5. owes \in BOOLEAN /\ left \in BOOLEAN /\ cok \in BOOLEAN /\ pc = "top"
    BY DEF Init
  <2> QED
    BY <1>1, <1>2, <1>3, <2>1, <2>3, <2>4, <2>5 DEF TypeOK
<1>5. InWork /\ Sent
  BY DEF Init, InWork, Sent, Forwarded
<1>6. Before /\ Faithful
  BY <1>2 DEF Before, Faithful
<1> QED
  BY <1>4, <1>5, <1>6 DEF IInv

\* A step that writes nothing to the client and leaves the request in work
\* the same one.
LEMMA Quiet ==
  ASSUME IInv, UNCHANGED <<got, ans, cur>>, TypeOK', InWork', left => left',
         pc' \in {"parsed", "upload", "head", "headed"} =>
           pc \in {"parsed", "upload", "head", "headed"},
         pc' = "relay" => pc = "relay" /\ opass' = opass
  PROVE  IInv'
<1>1. Before'
  BY DEF IInv, Before
<1>2. Faithful'
  BY StaysFaithful DEF IInv
<1>3. Sent'
  <2> SUFFICES ASSUME pc' = "relay", ~left'
               PROVE  /\ opass > 0 /\ opass <= Len(got) /\ got[Len(got)].r = cur
                      /\ opass' = opass /\ Begins(Len(got), opass)
    BY DEF Sent, Begins
  <2>1. left \in BOOLEAN /\ left' \in BOOLEAN
    BY DEF IInv, TypeOK
  <2> QED
    BY <2>1 DEF IInv, Sent
<1> QED
  BY <1>1, <1>2, <1>3 DEF IInv

LEMMA ClientPreserves ==
  ASSUME IInv
  PROVE  /\ \A k \in Asks : Ask(k) => IInv'
         /\ SendBody \/ Leave => IInv'
<1>1. ASSUME NEW k \in Asks, Ask(k)
      PROVE  IInv'
  <2>1. TypeOK'
    <3>1. /\ asks' \in Seq(Asks) /\ Len(asks) \in Nat /\ Len(asks') = Len(asks) + 1
          /\ Len(asks) < MaxReq
      BY <1>1 DEF Ask, IInv, TypeOK
    <3>2. owes' \in BOOLEAN
      BY <1>1 DEF Ask
    <3>3. taken \in 0 .. Len(asks')
      BY <3>1 DEF IInv, TypeOK
    <3> QED
      BY <1>1, <3>1, <3>2, <3>3, HttpAssumption DEF Ask, IInv, TypeOK, origin, relay
  <2>2. InWork'
    BY <1>1 DEF Ask, IInv, InWork, Forwarded, origin, relay
  <2> QED
    BY <1>1, <2>1, <2>2, Quiet DEF Ask, origin, relay
<1>2. ASSUME SendBody
      PROVE  IInv'
  <2>1. TypeOK' /\ InWork'
    BY <1>2 DEF SendBody, IInv, TypeOK, InWork, Forwarded, origin, relay
  <2> QED
    BY <1>2, <2>1, Quiet DEF SendBody, origin, relay
<1>3. ASSUME Leave
      PROVE  IInv'
  <2>1. TypeOK' /\ InWork'
    BY <1>3 DEF Leave, IInv, TypeOK, InWork, Forwarded, origin, relay
  <2> QED
    BY <1>3, <2>1, Quiet DEF Leave, origin, relay
<1> QED
  BY <1>1, <1>2, <1>3

LEMMA OriginPreserves ==
  ASSUME IInv, OriginSends \/ OriginCloses
  PROVE  IInv'
<1>1. CASE OriginSends
  <2>1. ans[cur] \in DOMAIN Script
    BY <1>1, Current DEF OriginSends, IInv
  <2>2. Len(Script[ans[cur]]) \in 0 .. 3
    BY <2>1, Scripts
  <2>3. osent' \in 0 .. 3 /\ osent' = osent + 1 /\ osent' <= Len(Script[ans[cur]])
    <3>1. osent \in 0 .. 3
      BY Current DEF IInv
    <3>2. osent < Len(Script[ans[cur]]) /\ osent' = osent + 1
      BY <1>1 DEF OriginSends
    <3>3. \A x, y \in 0 .. 3 : x < y => x + 1 \in 0 .. 3 /\ x + 1 <= y
      OBVIOUS
    <3> QED
      BY <2>2, <3>1, <3>2, <3>3, Zenon
  <2>4. TypeOK'
    BY <1>1, <2>3 DEF OriginSends, IInv, TypeOK, client, relay
  <2>5. InWork'
    BY <1>1, <2>3 DEF OriginSends, IInv, InWork, Forwarded, client, relay
  <2> QED
    BY <1>1, <2>4, <2>5, Quiet DEF OriginSends, client, relay
<1>2. CASE OriginCloses
  <2>1. TypeOK' /\ InWork'
    BY <1>2 DEF OriginCloses, IInv, TypeOK, InWork, Forwarded, client, relay
  <2> QED
    BY <1>2, <2>1, Quiet DEF OriginCloses, client, relay
<1> QED
  BY <1>1, <1>2

\* The loop's steps that write nothing, or an empty text.
LEMMA QuietStepsPreserve ==
  ASSUME IInv,
         \/ Top \/ ReadEof \/ Connect \/ DialFail \/ Upload \/ UploadSpins
         \/ ReadHeadEof \/ BadChunk \/ RelayUntilClose \/ RelaySpins \/ ShutDown
  PROVE  IInv'
<1>1. CASE Top
  <2>1. TypeOK' /\ InWork'
    BY <1>1 DEF Top, IInv, TypeOK, InWork, Forwarded, client, origin, relay
  <2> QED
    BY <1>1, <2>1, Quiet DEF Top, client, origin, relay
<1>2. CASE ReadEof
  <2>1. TypeOK' /\ InWork'
    BY <1>2 DEF ReadEof, IInv, TypeOK, InWork, Forwarded, client, origin, relay
  <2> QED
    BY <1>2, <2>1, Quiet DEF ReadEof, client, origin, relay
<1>3. CASE Connect
  <2>1. TypeOK' /\ InWork'
    BY <1>3 DEF Connect, IInv, TypeOK, InWork, Forwarded, client, origin, relay
  <2> QED
    BY <1>3, <2>1, Quiet DEF Connect, client, origin, relay
<1>4. CASE DialFail
  <2>1. TypeOK' /\ InWork'
    BY <1>4 DEF DialFail, Forwards, IInv, TypeOK, InWork, Forwarded, client,
                origin, relay
  <2> QED
    BY <1>4, <2>1, Quiet DEF DialFail, client, origin, relay
<1>5. CASE Upload
  <2>1. TypeOK' /\ InWork'
    BY <1>5 DEF Upload, IInv, TypeOK, InWork, Forwarded, client, origin, relay
  <2> QED
    BY <1>5, <2>1, Quiet DEF Upload, client, origin, relay
<1>6. CASE UploadSpins
  <2>1. TypeOK' /\ InWork'
    BY <1>6 DEF UploadSpins, IInv, TypeOK, InWork, Forwarded, client, origin, relay
  <2> QED
    BY <1>6, <2>1, Quiet DEF UploadSpins, client, origin, relay
<1>7. ASSUME NEW next \in {"top", "spin"}, PutNothing(next)
      PROVE  got' = got /\ cok' \in BOOLEAN /\ pc' \in {"closing", "top", "spin"}
  BY <1>7 DEF PutNothing, IInv, TypeOK
<1>8. CASE ReadHeadEof
  <2>1. TypeOK' /\ InWork'
    BY <1>7, <1>8 DEF ReadHeadEof, IInv, TypeOK, InWork, Forwarded, client,
                      origin, relay
  <2> QED
    BY <1>7, <1>8, <2>1, Quiet DEF ReadHeadEof, client, origin, relay
<1>9. CASE BadChunk
  <2>1. TypeOK' /\ InWork'
    BY <1>9 DEF BadChunk, IInv, TypeOK, InWork, Forwarded, client, origin, relay
  <2> QED
    BY <1>9, <2>1, Quiet DEF BadChunk, client, origin, relay
<1>10. CASE RelayUntilClose
  <2>1. TypeOK' /\ InWork'
    BY <1>7, <1>10 DEF RelayUntilClose, IInv, TypeOK, InWork, Forwarded, client,
                       origin, relay
  <2> QED
    BY <1>7, <1>10, <2>1, Quiet DEF RelayUntilClose, client, origin, relay
<1>11. CASE RelaySpins
  <2>1. got' = got /\ cok' \in BOOLEAN /\ pc' \in {"closing", "spin", "top"}
    BY <1>7, <1>11 DEF RelaySpins, IInv, TypeOK
  <2>2. UNCHANGED <<tls, asks, owes, left, taken, cur, up, ans, osent, oread, opass>>
    BY <1>11 DEF RelaySpins, client, origin, relay
  <2>3. TypeOK' /\ InWork'
    BY <2>1, <2>2 DEF IInv, TypeOK, InWork, Forwarded
  <2> QED
    BY <2>1, <2>2, <2>3, Quiet
<1>12. CASE ShutDown
  <2>1. pc' \in {"top", "spin", "ended"}
    BY <1>12 DEF ShutDown
  <2>2. UNCHANGED <<tls, asks, owes, left, got, taken, cur, cok, up, ans, osent,
                    oread, opass>>
    BY <1>12 DEF ShutDown, client, origin, relay
  <2>3. TypeOK' /\ InWork'
    BY <2>1, <2>2 DEF IInv, TypeOK, InWork, Forwarded
  <2> QED
    BY <2>1, <2>2, <2>3, Quiet
<1> QED
  BY <1>1, <1>2, <1>3, <1>4, <1>5, <1>6, <1>8, <1>9, <1>10, <1>11, <1>12

\* Loading the answer moves no token to the client.
LEMMA LoadsPreserve ==
  ASSUME IInv, NEW n \in 1 .. 3, ReadHead(n) \/ Load(n)
  PROVE  IInv'
<1>1. CASE ReadHead(n)
  <2>1. TypeOK' /\ InWork'
    BY <1>1 DEF ReadHead, IInv, TypeOK, InWork, Forwarded, client, origin
  <2> QED
    BY <1>1, <2>1, Quiet DEF ReadHead, client, origin
<1>2. CASE Load(n)
  <2>1. TypeOK' /\ InWork'
    BY <1>2 DEF Load, IInv, TypeOK, InWork, Forwarded, client, origin
  <2> QED
    BY <1>2, <2>1, Quiet DEF Load, client, origin
<1> QED
  BY <1>1, <1>2

LEMMA ReadRequestPreserves ==
  ASSUME IInv, NEW n \in 1 .. MaxReq, ReadRequest(n)
  PROVE  IInv'
<1>1. /\ cur' = taken + 1 /\ taken' = taken + n /\ taken + n <= Len(asks)
      /\ pc' = "parsed"
      /\ UNCHANGED <<tls, asks, owes, left, got, cok, up, ans, osent, oread, opass>>
  BY DEF ReadRequest, client, origin, relay
<1>2. taken' \in 0 .. Len(asks') /\ cur' \in 0 .. taken' /\ cur' > 0 /\ cur' > cur
  <2>1. cur \in 0 .. taken /\ taken \in 0 .. Len(asks) /\ Len(asks) \in Nat
    BY DEF IInv, TypeOK
  <2> QED
    BY <1>1, <2>1
<1>3. TypeOK'
  BY <1>1, <1>2 DEF IInv, TypeOK
<1>4. InWork' /\ Sent'
  BY <1>1, <1>2 DEF InWork, Sent, Forwarded
<1>5. Before'
  <2>1. \A k \in DOMAIN got : got[k].r \in Int
    <3>1. \A k \in DOMAIN got : got[k] \in Entry
      <4>1. got \in Seq(Entry)
        BY DEF IInv, TypeOK, Entry
      <4> QED
        BY <4>1
    <3> QED
      BY <3>1 DEF Entry
  <2>2. cur \in Int /\ cur' \in Int
    BY <1>1, Current DEF IInv
  <2> QED
    BY <1>1, <1>2, <2>1, <2>2 DEF IInv, Before
<1>6. Faithful'
  BY <1>1, StaysFaithful DEF IInv
<1> QED
  BY <1>3, <1>4, <1>5, <1>6 DEF IInv

LEMMA DialPreserves ==
  ASSUME IInv, NEW a \in Possible, Dial(a)
  PROVE  IInv'
<1>1. /\ pc = "parsed" /\ ans' = [ans EXCEPT ![cur] = a]
      /\ up' \in {up, "open"} /\ osent' = 0 /\ oread' = 0 /\ opass' = 0
      /\ pc' \in {"upload", "head"}
      /\ UNCHANGED <<tls, asks, owes, left, got, taken, cur, cok>>
  BY DEF Dial, Forwards, client
<1>2. a \in DOMAIN Script /\ a # "?"
  <2>1. a \in Answers \/ a = "eof"
    BY DEF Possible
  <2>2. DOMAIN Script = {"none", "len", "lenclose", "cut", "chunked", "badchunk",
                         "cutchunk", "close", "badhead", "bodyless", "interim",
                         "eof"}
    BY DEF Script
  <2> QED
    BY <2>1, <2>2, HttpAssumption
<1>3. cur \in 1 .. MaxReq
  BY <1>1, Current DEF IInv, InWork
<1>4. ans' \in [1 .. MaxReq -> DOMAIN Script \cup {"?"}] /\ ans'[cur] = a
  BY <1>1, <1>2, <1>3 DEF IInv, TypeOK
<1>5. TypeOK'
  BY <1>1, <1>4 DEF IInv, TypeOK
<1>6. InWork'
  <2>1. Len(Script[a]) \in 0 .. 3
    BY <1>2, Scripts
  <2> QED
    BY <1>1, <1>2, <1>3, <1>4, <2>1 DEF InWork, Forwarded
<1>7. Sent' /\ Before'
  BY <1>1 DEF IInv, Sent, Before
<1>8. \A k \in DOMAIN got : ans'[got[k].r] = ans[got[k].r]
  <2>1. \A k \in DOMAIN got : got[k].r < cur /\ got[k].r \in 1 .. MaxReq
    <3>1. \A k \in DOMAIN got : got[k] \in Entry
      <4>1. got \in Seq(Entry)
        BY DEF IInv, TypeOK, Entry
      <4> QED
        BY <4>1
    <3> QED
      BY <1>1, <3>1 DEF Entry, IInv, Before
  <2> QED
    BY <1>1, <1>3, <2>1 DEF IInv, TypeOK
<1>9. Faithful'
  BY <1>1, <1>8, StaysFaithful DEF IInv
<1> QED
  BY <1>5, <1>6, <1>7, <1>9 DEF IInv

\* The handler's own answers.
LEMMA OwnAnswersPreserve ==
  ASSUME IInv,
         BadRequest \/ AnswerSelf \/ Stop \/ ServerError \/ ReadHeadLeftover
  PROVE  IInv'
<1>1. PICK t \in Own :
        /\ Put(t) /\ pc' \in {"top", "stopped"}
        /\ pc \in {"parsed", "parsed400", "head", "headed"}
        /\ UNCHANGED <<tls, asks, owes, left, taken, cur, up, ans, osent, oread,
                       opass>>
  BY DEF BadRequest, AnswerSelf, Stop, ServerError, ReadHeadLeftover, Own, client,
         origin, relay
<1>2. CASE pc = "parsed400"
  <2>1. got' = got /\ cok' \in BOOLEAN
    BY <1>1, <1>2 DEF Put, IInv, InWork, TypeOK
  <2>2. TypeOK' /\ InWork'
    BY <1>1, <2>1 DEF IInv, TypeOK, InWork, Forwarded
  <2> QED
    BY <1>1, <2>1, <2>2, Quiet
<1>3. CASE pc \in {"parsed", "head", "headed"}
  <2>1. cur \in 1 .. MaxReq /\ \A k \in DOMAIN got : got[k].r < cur
    BY <1>3, Current DEF IInv, InWork, Before, Forwarded
  <2>2. /\ got' \in Seq(Entry) /\ cok' \in BOOLEAN
        /\ \A k \in DOMAIN got' : got'[k].r <= cur
        /\ Faithful'
    BY <1>1, <2>1, OwnAnswer DEF IInv
  <2>3. TypeOK'
    BY <1>1, <2>2 DEF IInv, TypeOK, Entry
  <2>4. InWork' /\ Before' /\ Sent'
    BY <1>1, <2>2 DEF InWork, Before, Sent, Forwarded
  <2> QED
    BY <2>2, <2>3, <2>4 DEF IInv
<1> QED
  BY <1>1, <1>2, <1>3

\* A token of the answer goes to the client.
LEMMA RelayPreserves ==
  ASSUME IInv, RelayHead \/ Relay
  PROVE  IInv'
<1>1. /\ pc \in {"headed", "relay"} /\ opass < oread /\ opass' = opass + 1
      /\ pc' \in {"top", "relay"}
      /\ Put(Script[ans[cur]][opass + 1])
      /\ Script[ans[cur]][opass + 1] \notin {"junk", "x"}
      /\ UNCHANGED <<tls, asks, owes, left, taken, cur, up, ans, osent, oread>>
  <2>1. CASE RelayHead
    <3>1. opass = 0 /\ oread > 0 /\ pc = "headed"
      BY <2>1 DEF RelayHead, IInv, InWork
    <3>2. Script[ans[cur]][1] # "x"
      <4>1. ans[cur] \in DOMAIN Script
        BY <3>1, Current DEF IInv, InWork, Forwarded
      <4>2. osent <= Len(Script[ans[cur]]) /\ oread <= osent /\ oread > 0
        BY <3>1 DEF IInv, InWork, Forwarded, TypeOK
      <4>3. Script[ans[cur]] # <<>>
        BY <4>2, Current DEF IInv
      <4> QED
        BY <4>1, <4>3 DEF Script
    <3> QED
      BY <2>1, <3>1, <3>2 DEF RelayHead, client, origin
  <2>2. CASE Relay
    <3>1. /\ pc = "relay" /\ ans[cur] \in DOMAIN Script
          /\ opass > 0 /\ opass < oread /\ oread <= osent
          /\ osent <= Len(Script[ans[cur]])
      BY <2>2, Current DEF Relay, IInv, InWork, Forwarded, TypeOK
    <3>2. Len(Script[ans[cur]]) \in Nat
      BY <3>1, Scripts
    <3>3. opass + 1 \in 2 .. Len(Script[ans[cur]])
      BY <3>1, <3>2, Current DEF IInv
    <3>4. Script[ans[cur]][opass + 1] # "junk"
      BY <3>1, <3>3, Scripts
    <3>5. /\ opass' = opass + 1 /\ pc' \in {"top", "relay"}
          /\ Put(Script[ans[cur]][opass + 1])
          /\ Script[ans[cur]][opass + 1] # "x"
          /\ UNCHANGED <<tls, asks, owes, left, taken, cur, up, ans, osent, oread>>
      BY <2>2, Zenon DEF Relay, client, origin
    <3> QED
      BY <3>1, <3>4, <3>5
  <2> QED
    BY <2>1, <2>2
<1>2. /\ cur \in 1 .. MaxReq /\ ans[cur] # "?" /\ ans[cur] \in DOMAIN Script
      /\ osent <= Len(Script[ans[cur]])
  BY <1>1, Current DEF IInv, InWork, Forwarded
<1>3. opass < Len(Script[ans[cur]]) /\ opass' \in 0 .. 3 /\ opass' <= oread
  <2>1. Len(Script[ans[cur]]) \in 0 .. 3 /\ oread <= osent
    BY <1>2, Scripts DEF IInv, TypeOK
  <2> QED
    BY <1>1, <1>2, <2>1, Current DEF IInv
<1>4. Script[ans[cur]][opass + 1] \in Relayed
  <2>1. Script[ans[cur]] \in Seq(Token) /\ opass \in Nat
    BY <1>2, Scripts, Current DEF IInv
  <2>2. opass + 1 \in 1 .. Len(Script[ans[cur]])
    BY <1>3, <2>1
  <2>3. Script[ans[cur]][opass + 1] \in Token
    BY <2>1, <2>2
  <2> QED
    BY <1>1, <2>3 DEF Token
<1>5. /\ opass = 0 => \A k \in DOMAIN got : got[k].r < cur
      /\ opass > 0 /\ ~left => /\ opass <= Len(got) /\ got[Len(got)].r = cur
                               /\ Begins(Len(got), opass)
  <2>1. CASE pc = "headed"
    BY <2>1 DEF IInv, InWork, Before
  <2>2. CASE pc = "relay"
    <3>1. opass > 0
      BY <2>2 DEF IInv, InWork
    <3> QED
      BY <2>2, <3>1 DEF IInv, Sent
  <2> QED
    BY <1>1, <2>1, <2>2
<1>6. /\ got' \in Seq(Entry) /\ cok' \in BOOLEAN
      /\ \A k \in DOMAIN got' : got'[k].r <= cur
      /\ ~left => /\ opass' > 0 /\ opass' <= Len(got')
                  /\ got'[Len(got')].r = cur
                  /\ Begins(Len(got), opass)'
      /\ Faithful'
  BY <1>1, <1>2, <1>3, <1>4, <1>5, RelayedToken DEF IInv
<1>7. TypeOK'
  BY <1>1, <1>3, <1>6 DEF IInv, TypeOK, Entry
<1>8. InWork'
  <2>1. Script[ans[cur]][1] # "junk"
    <3>1. CASE RelayHead
      BY <3>1 DEF RelayHead
    <3>2. CASE Relay
      BY <3>2 DEF Relay, IInv, InWork
    <3> QED
      BY <3>1, <3>2
  <2>2. opass' > 0
    BY <1>1, Current DEF IInv
  <2> QED
    BY <1>1, <1>2, <2>1, <2>2 DEF InWork, Forwarded
<1>9. Before' /\ Sent'
  BY <1>1, <1>6 DEF Before, Sent
<1> QED
  BY <1>6, <1>7, <1>8, <1>9 DEF IInv

LEMMA Preserved == IInv /\ [Next]_vars => IInv'
<1> SUFFICES ASSUME IInv, [Next]_vars
             PROVE  IInv'
  OBVIOUS
<1>1. ASSUME NEW k \in Asks, Ask(k) PROVE IInv'
  BY <1>1, ClientPreserves
<1>2. CASE SendBody \/ Leave
  BY <1>2, ClientPreserves
<1>3. CASE OriginSends \/ OriginCloses
  BY <1>3, OriginPreserves
<1>4. CASE \/ Top \/ ReadEof \/ Connect \/ DialFail \/ Upload \/ UploadSpins
           \/ ReadHeadEof \/ BadChunk \/ RelayUntilClose \/ RelaySpins \/ ShutDown
  BY <1>4, QuietStepsPreserve
<1>5. ASSUME NEW n \in 1 .. MaxReq, ReadRequest(n) PROVE IInv'
  BY <1>5, ReadRequestPreserves
<1>6. ASSUME NEW k \in Possible, Dial(k) PROVE IInv'
  BY <1>6, DialPreserves
<1>7. CASE BadRequest \/ AnswerSelf \/ Stop \/ ServerError \/ ReadHeadLeftover
  BY <1>7, OwnAnswersPreserve
<1>8. ASSUME NEW n \in 1 .. 3, ReadHead(n) \/ Load(n) PROVE IInv'
  BY <1>8, LoadsPreserve
<1>9. CASE RelayHead \/ Relay
  BY <1>9, RelayPreserves
<1>10. CASE UNCHANGED vars
  <2>1. UNCHANGED <<tls, asks, owes, left, got, taken, pc, cur, cok, up, ans, osent,
                    oread, opass>>
    BY <1>10 DEF vars, client, origin, relay
  <2>2. TypeOK' /\ InWork'
    BY <2>1 DEF IInv, TypeOK, InWork, Forwarded
  <2> QED
    BY <2>1, <2>2, Quiet
<1>11. \A n \in 1 .. 2 : n \in 1 .. 3
  OBVIOUS
<1> QED
  BY <1>1, <1>2, <1>3, <1>4, <1>5, <1>6, <1>7, <1>8, <1>9, <1>10, <1>11
     DEF Next, Handler

-----------------------------------------------------------------------------
\* The inductive invariant of the request loop.
THEOREM Invariance == Spec => []IInv
<1> QED
  BY Initially, Preserved, PTL DEF Spec

\* Every variable of the loop keeps its type, and the memory of an origin's
\* connection never gives out more than it took from the socket.
THEOREM TypeCorrect == Spec => []TypeOK
<1>1. IInv => TypeOK
  BY DEF IInv
<1> QED
  BY <1>1, Invariance, PTL

\* Whatever the client pipelines and however the origins answer: what the
\* client receives are answers in the order of its requests, each from its
\* head on and without a gap, or one answer of the handler's own.
THEOREM AnswersFaithful == Spec => []Faithful
<1>1. IInv => Faithful
  BY DEF IInv
<1> QED
  BY <1>1, Invariance, PTL
=============================================================================
