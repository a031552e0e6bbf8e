-------------------------------- MODULE Doh ---------------------------------
(***************************************************************************)
(* One resolution over HTTPS (dns.cpp:80, dns/dnshttps.cc): the coroutine  *)
(* asks every configured provider in turn for the A records of a host and  *)
(* makes endpoints of all it was told.  This is the Resolver step of       *)
(* module SlowDns, which caches the result or fails with the exception.    *)
(*                                                                         *)
(* A body arrives in Parts pieces that make up its Content-Length; its     *)
(* bytes are parsed once all are there.                                    *)
(***************************************************************************)
EXTENDS DohProvider

CONSTANTS
  Hosts,      \* hosts asked for
  Providers,  \* number of dns_provider entries
  Parts       \* bound: pieces of a body

ASSUME DohAssumption ==
  Hosts \subseteq Seq(Byte) /\ Providers \in Nat /\ Parts \in Nat \ {0}

VARIABLES
  host,     \* hedp.first
  kind,     \* what each provider answers
  head,     \* its answer's head: "length", or "other" and closing without one
  cut,      \* it closes inside its body
  provider, \* the loop's position
  pc,       \* "connect", "ask", "head", "body", "done", "thrown"
  asked,    \* the dns parameter of the request
  cli,      \* pieces of the body read
  ips,      \* rdata collected
  el        \* the endpoints returned

choices == <<host, kind, head, cut>>
vars == <<choices, provider, pc, asked, cli, ips, el>>

P == 1 .. Providers
Address(rd) == [type |-> "A", bytes |-> rd]
Text(rd) == [type |-> "text", bytes |-> rd]

Init ==
  /\ host \in Hosts
  /\ kind \in [P -> Kinds]
  /\ head \in [P -> {"length", "other"}]
  /\ cut \in [P -> BOOLEAN]
  /\ \A p \in P : /\ head[p] # "length" => kind[p] = "one" /\ ~cut[p]
                  /\ cut[p] => kind[p] = "one"
  /\ provider = 1
  /\ pc = "connect"
  /\ asked = <<>>
  /\ cli = 0
  /\ ips = {}
  /\ el = {}

-----------------------------------------------------------------------------
(* parse_rfc8484                                                           *)

\* Variant: every A record counts.
IsOwnAny(name, fqdn) == TRUE

\* fqdns holds only the host: the loop that collects its aliases is off.
IsOwn(name, fqdn) == lcs(name) = fqdn

\* The rdata of the answers from index start on.  An answer that is not
\* understood ends the loop; what was found before stays in the result.  The
\* type of a query is always A, so NS and MX records are skipped.
Answers(msg, fqdn, start) ==
  LET from[idx \in Nat] ==
        LET name == qname2host(msg, idx)
            fix == idx + name.used
            type == Short(msg, fix)
            rdlen == Short(msg, fix + 8)
            rd == Bytes(msg, fix + 10, rdlen)
        IN
        IF idx >= Len(msg) \/ ~name.ok \/ fix + 10 >= Len(msg) THEN {}
        ELSE IF \/ fix + 10 + rdlen > Len(msg) \/ rdlen = 0
                \/ Short(msg, fix + 2) # ClassIN
          THEN {}
        ELSE IF type = TypeA /\ IsOwn(name.name, fqdn)
          THEN IF rdlen # 4 THEN {}
               ELSE {Address(rd)} \cup from[fix + 10 + rdlen]
        ELSE IF type = TypeAAAA /\ IsOwn(name.name, fqdn)
          THEN IF rdlen # 16 THEN {}
               ELSE {Text(rd)} \cup from[fix + 10 + rdlen]
        ELSE IF type = TypeCNAME
          THEN LET cname == qname2host(msg, fix + 10) IN
               IF ~cname.ok \/ cname.name = <<>> THEN {}
               ELSE {Text(host2qname(cname.name))} \cup from[fix + 10 + rdlen]
        ELSE from[fix + 10 + rdlen]
  IN from[start]

\* The header must be that of an answer without error, the question the
\* host's; its result code is not looked at by get.
parse_rfc8484(name, msg) ==
  LET q == qname2host(msg, Question) IN
  IF \/ Len(msg) < 12 + 5 \/ At(msg, 2) \div 128 # 1 \/ At(msg, 3) % 16 # 0
     \/ q.used <= 0 \/ Question + q.used + 4 >= Len(msg)
     \/ lcs(name \o <<DOT>>) # lcs(q.name)
  THEN {}
  ELSE Answers(msg, lcs(q.name), Question + q.used + 4)

-----------------------------------------------------------------------------
(* resolve and dnshttps::get                                               *)

\* After the last provider: make_address throws for what is no address.
Finish ==
  /\ pc = "connect" /\ provider > Providers
  /\ IF \A i \in ips : i.type = "A"
     THEN pc' = "done" /\ el' = {i.bytes : i \in ips}
     ELSE pc' = "thrown" /\ el' = el
  /\ UNCHANGED <<choices, provider, asked, cli, ips>>

Connect ==
  /\ pc = "connect" /\ provider <= Providers
  /\ pc' = "handshake"
  /\ UNCHANGED <<choices, provider, asked, cli, ips, el>>

Handshake ==
  /\ pc = "handshake"
  /\ pc' = "ask"
  /\ UNCHANGED <<choices, provider, asked, cli, ips, el>>

\* Either throws, whatever other providers have said.
ConnectFail ==
  /\ pc = "handshake" \/ (pc = "connect" /\ provider <= Providers)
  /\ pc' = "thrown"
  /\ UNCHANGED <<choices, provider, asked, cli, ips, el>>

\* Variant: a provider that said nothing is asked again.
OverRetries(answers) ==
  /\ ips' = ips \cup answers
  /\ provider' = IF answers = {} THEN provider ELSE provider + 1
  /\ cli' = 0
  /\ pc' = "connect"

\* get returns, with or without answers.
Over(answers) ==
  /\ ips' = ips \cup answers
  /\ provider' = provider + 1
  /\ cli' = 0
  /\ pc' = "connect"

Ask ==
  /\ pc = "ask"
  /\ IF valid_name(host)
     THEN /\ asked' = make_query(host, <<0, 0>>)
          /\ pc' = "head"
          /\ UNCHANGED <<provider, cli, ips>>
     ELSE Over({}) /\ asked' = asked
  /\ UNCHANGED <<choices, el>>

\* n pieces of the body are there.
Got(n) ==
  IF n = Parts
  THEN Over(parse_rfc8484(host, Message(Decoded(asked), host,
                                        kind[provider], provider)))
  ELSE pc' = "body" /\ cli' = n /\ UNCHANGED <<provider, ips>>

\* async_load_until brings the head and what of the body came with it; a
\* head without Content-Length, or none, is given up.
ReadHead(n) ==
  /\ pc = "head"
  /\ IF head[provider] = "length" THEN Got(n) ELSE n = 0 /\ Over({})
  /\ cut[provider] => n < Parts
  /\ UNCHANGED <<choices, asked, el>>

\* Variant: the loop also runs when all was read.
BodyReadsOn(n) ==
  /\ pc = "body"
  /\ cli + n <= Parts
  /\ cut[provider] => n = 0
  /\ cli' = cli + n
  /\ UNCHANGED <<choices, asked, el, provider, ips, pc>>

\* async_load_some; from a provider that has closed it brings nothing, and
\* the loop goes on.
ReadBody(n) ==
  /\ pc = "body"
  /\ IF cut[provider] THEN n = 0 ELSE n > 0
  /\ cli + n <= Parts
  /\ Got(cli + n)
  /\ UNCHANGED <<choices, asked, el>>

Next ==
  \/ Finish
  \/ Connect
  \/ Handshake
  \/ ConnectFail
  \/ Ask
  \/ \E n \in 0 .. Parts : ReadHead(n)
  \/ \E n \in 0 .. Parts : ReadBody(n)

\* The coroutine waits for a provider that has not finished the handshake, or
\* the head of its answer.  Nothing in the exchange has a timeout.
Silent == pc \in {"handshake", "head"}

(* The coroutine runs when it can, connecting ends one way or the other, and *)
(* a provider that has sent a head sends its body unless it closes.  It need *)
(* not finish the handshake nor send a head: this is WF_vars(~Silent /\ Next) *)
(* with its ENABLED, which is Moves, written out.                          *)
Moves == pc \in {"connect", "ask"} \/ (pc = "body" /\ ~cut[provider])
Fairness == <>[]Moves => []<><<~Silent /\ Next>>_vars

Spec == Init /\ [][Next]_vars /\ Fairness

-----------------------------------------------------------------------------
IPs == [type : {"A", "text"}, bytes : Seq(Byte)]

TypeOK ==
  /\ host \in Hosts
  /\ kind \in [P -> Kinds]
  /\ head \in [P -> {"length", "other"}]
  /\ cut \in [P -> BOOLEAN]
  /\ provider \in 1 .. Providers + 1
  /\ pc \in {"connect", "handshake", "ask", "head", "body", "done", "thrown"}
  /\ asked \in Seq(0 .. 63)
  /\ cli \in 0 .. Parts - 1
  /\ ips \subseteq IPs
  /\ el \subseteq Seq(Byte)

\* What a provider reads from the request is a query for the A records of the
\* host: header, name and type survive the encoding, whatever its length.
Understood ==
  (pc \in {"head", "body"} /\ InDns(host)) =>
    Decoded(asked) = <<0, 0, 1, 0, 0, 1, 0, 0, 0, 0, 0, 0>>
                       \o Spelled(host) \o <<0, TypeA, 0, ClassIN>>

\* All the provider p has to say of the host.
Says(p) == IF head[p] = "length" THEN Addresses(host, kind[p], p) ELSE {}

\* A resolution yields addresses of this host only, for messages in which no
\* pointer goes beyond byte 255: of a longer one only the low byte is used,
\* and the record of another name can become the host's.
OnlyOwn ==
  pc = "done" /\ (\A p \in P : Near(host, kind[p])) => el \subseteq UNION {Says(p) : p \in P}

\* A resolution that returns has all addresses that providers gave with a
\* Content-Length, for names the DNS can hold and within the same reach:
\* records of other types behind them, other spellings and compression lose
\* none.
AllFound ==
  pc = "done" /\ InDns(host) /\ valid_name(host) =>
    \A p \in P : Near(host, kind[p]) => Says(p) \subseteq el

\* A resolution returns or throws, whatever the providers answer, refuse or
\* tear, unless one closes inside its body: there get reads nothing for ever
\* (dnshttps.cc:474); or one stays silent for ever in the handshake or before
\* its head (dns.cpp:106, dnshttps.cc:439).  Then the entry of the host in
\* slow_dns is never freed.
DohEnds ==
  \/ <>(pc \in {"done", "thrown"})
  \/ <>[](pc = "body" /\ cut[provider])
  \/ <>[]Silent

\* "first of all, find all CNAMEs for desired name" (dnshttps.cc:597): a host
\* whose providers answer with its alias and the alias's address resolves.
AliasResolves ==
  (\A p \in P : kind[p] = "alias") /\ InDns(host) =>
    ~(pc = "thrown" /\ provider > Providers)
=============================================================================
