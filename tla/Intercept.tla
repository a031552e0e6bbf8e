----------------------------- MODULE Intercept ------------------------------
(***************************************************************************)
(* What the rules of the configuration do to a request: config_to          *)
(* (config.cpp) builds the table of the http_handler, http_do              *)
(* (httpserver.cpp) finds the settings of the host a request names, may    *)
(* replace the host, and hands host and settings to the keeper or tunnel   *)
(* that connects to it; the host is resolved by slow_dns, of which this    *)
(* module takes only what it promises (DnsService).                        *)
(*                                                                         *)
(* A name is the sequence of its labels.  A rule has the number of "*." in *)
(* front of its name.                                                      *)
(***************************************************************************)
EXTENDS Integers, Sequences, SequencesExt

CONSTANTS
  Configs,   \* proxy_service_: sequences of rules
  Conns,     \* connections of clients
  Names,     \* hosts clients ask for, rules name or replace
  Ports,
  MaxReq,    \* bound: requests of a connection
  Edps,      \* what resolving may find
  NoAnswer

NoName == <<>>
NoPort == ""

\* The rule "*" is made "*.", which only a name with an empty last label
\* matches: stars 1, name <<"">>.
Rule == [stars : Nat, name : Seq(STRING), url : Names \cup {NoName},
         mitm : BOOLEAN, doh : BOOLEAN]

\* InterceptSet{} and the null pointer: nothing is asked for.
NoSet == [url |-> NoName, mitm |-> FALSE, doh |-> FALSE]
SetOf(rule) == [url |-> rule.url, mitm |-> rule.mitm, doh |-> rule.doh]

ASSUME InterceptAssumption ==
  /\ MaxReq \in Nat
  /\ NoName \notin Names /\ NoPort \notin Ports
  /\ \A c \in Configs : c \in Seq(Rule)

VARIABLES
  rules,    \* the configuration
  pc,       \* http_do of each connection, and make_socket in it
  n,        \* requests read
  ask,      \* the last one: method, host, port
  host,     \* host, svc and is, the locals of http_do
  svc,
  is,
  via,      \* how the last request goes on
  outcome, asked, doh, answer, known, busy    \* slow_dns (DnsService)

dns == <<outcome, asked, doh, answer, known, busy>>
local == <<ask, host, svc, is, via>>
vars == <<rules, pc, n, local, dns>>

Calls == Conns \X (1 .. MaxReq)
Endpoints == Names \X Ports

Dns == INSTANCE DnsService WITH
         Hosts <- Endpoints, Requests <- Calls, EdpLists <- Edps,
         NoHost <- NoName

Init ==
  /\ rules \in Configs
  /\ pc = [c \in Conns |-> "read"]
  /\ n = [c \in Conns |-> 0]
  /\ ask = [c \in Conns |-> [method |-> "none", host |-> NoName, port |-> NoPort]]
  /\ host = [c \in Conns |-> NoName]
  /\ svc = [c \in Conns |-> NoPort]
  /\ is = [c \in Conns |-> NoSet]
  /\ via = [c \in Conns |-> "none"]
  /\ Dns!Init

-----------------------------------------------------------------------------
(* The table: config_to and find                                           *)

\* emplace: of the rules that name a host the first counts.
direct_filter ==
  {i \in DOMAIN rules :
     /\ rules[i].stars = 0
     /\ \A j \in 1 .. (i - 1) :
          ~(rules[j].stars = 0 /\ rules[j].name = rules[i].name)}

\* The size of the match less two: the groups of the expression, not the stars
\* of the host.
nstar(rule) == 1

\* insert: of the wildcard rules with the same key the first stays.
star_map ==
  {i \in DOMAIN rules :
     /\ rules[i].stars > 0
     /\ \A j \in 1 .. (i - 1) :
          rules[j].stars > 0 => nstar(rules[j]) # nstar(rules[i])}

\* regex_match: ".+\." for every "*.", then the name, compared here label by
\* label.  Left out: only the dots of the stars are escaped (config.cpp:128), one
\* inside the name also matches any other character of a host.
Matches(rule, h) ==
  /\ Len(h) >= rule.stars + Len(rule.name)
  /\ IsSuffix(rule.name, h)

\* find: a rule that names the host, else the first in the map that matches.
find(h) ==
  LET exact == {i \in direct_filter : rules[i].name = h}
      wild == {i \in star_map : Matches(rules[i], h)}
      first(S) == CHOOSE i \in S : \A j \in S :
                    nstar(rules[i]) <= nstar(rules[j])
  IN IF exact # {} THEN SetOf(rules[CHOOSE i \in exact : TRUE])
     ELSE IF wild # {} THEN SetOf(rules[first(wild)])
     ELSE NoSet

-----------------------------------------------------------------------------
(* http_do                                                                 *)

\* Variant: the host is replaced whether the rule says by what or not.
ReplacedAlways(h, s) == s.url

\* Where a request for h goes when its settings are s.
Replaced(h, s) == IF s.url = NoName THEN h ELSE s.url

Via(m, s) ==
  IF m # "CONNECT" THEN "origin" ELSE IF s.mitm THEN "mitm" ELSE "tunnel"

\* Variant: the settings are looked up once for the connection.
RequestOnce(c, m, h, p) ==
  LET s == IF host[c] # NoName THEN is[c] ELSE find(h) IN
  /\ pc[c] = "read" /\ n[c] < MaxReq
  /\ n' = [n EXCEPT ![c] = @ + 1]
  /\ ask' = [ask EXCEPT ![c] = [method |-> m, host |-> h, port |-> p]]
  /\ is' = [is EXCEPT ![c] = s]
  /\ host' = [host EXCEPT ![c] = Replaced(h, s)]
  /\ svc' = [svc EXCEPT ![c] = p]
  /\ via' = [via EXCEPT ![c] = Via(m, s)]
  /\ \E k \in {"dial", "read"} : pc' = [pc EXCEPT ![c] = k]
  /\ UNCHANGED <<rules, dns>>

\* A request goes on with the settings of the last one when it names the host
\* that one went to, else with those the table has for the host.  With a bad
\* head it goes no further: the settings are looked up before the head is read.
Request(c, m, h, p) ==
  LET s == IF h = host[c] /\ p = svc[c] THEN is[c] ELSE find(h) IN
  /\ pc[c] = "read" /\ n[c] < MaxReq
  /\ n' = [n EXCEPT ![c] = @ + 1]
  /\ ask' = [ask EXCEPT ![c] = [method |-> m, host |-> h, port |-> p]]
  /\ is' = [is EXCEPT ![c] = s]
  /\ host' = [host EXCEPT ![c] =
                IF h = host[c] /\ p = svc[c] THEN h ELSE Replaced(h, s)]
  /\ svc' = [svc EXCEPT ![c] = p]
  /\ via' = [via EXCEPT ![c] = Via(m, s)]
  /\ \E k \in {"dial", "read"} : pc' = [pc EXCEPT ![c] = k]
  /\ UNCHANGED <<rules, dns>>

\* A request that names no host is answered by the handler itself.
AskSelf(c) ==
  /\ pc[c] = "read" /\ n[c] < MaxReq
  /\ n' = [n EXCEPT ![c] = @ + 1]
  /\ ask' = [ask EXCEPT ![c] = [method |-> "none", host |-> NoName,
                                port |-> NoPort]]
  /\ is' = [is EXCEPT ![c] = NoSet]
  /\ host' = [host EXCEPT ![c] = NoName]
  /\ svc' = [svc EXCEPT ![c] = NoPort]
  /\ via' = [via EXCEPT ![c] = "none"]
  /\ UNCHANGED <<rules, pc, dns>>

-----------------------------------------------------------------------------
(* make_socket, for http_svc_keeper::wait, socket_tunnel::wait and         *)
(* mitm_svc::make_memory                                                   *)

\* Variant: nor does mitm_svc.
use_doh_origin(c) == via[c] = "origin" /\ is[c].doh

\* socket_tunnel does not pass the settings on.
use_doh(c) == via[c] # "tunnel" /\ is[c].doh

Ask(c) ==
  LET r == <<c, n[c]>>
      h == <<host[c], svc[c]>>
  IN
  /\ pc[c] = "dial"
  /\ \/ Dns!Ask(r, h, use_doh(c))
     \/ \E a \in Dns!Answers : Dns!AskKnown(r, h, use_doh(c), a)
  /\ pc' = [pc EXCEPT ![c] = "dialling"]
  /\ UNCHANGED <<rules, n, local>>

\* Connected: the loop goes on to the next request, a CONNECT does not.
Answered(c) ==
  /\ pc[c] = "dialling" /\ outcome[<<c, n[c]>>] = "answered"
  /\ pc' = [pc EXCEPT ![c] = IF via[c] = "origin" THEN "read" ELSE "over"]
  /\ UNCHANGED <<rules, n, local, dns>>

\* Not resolved, or not connected: every caller gives its client up.
Failed(c) ==
  /\ pc[c] = "dialling" /\ outcome[<<c, n[c]>>] \in {"answered", "threw"}
  /\ pc' = [pc EXCEPT ![c] = "over"]
  /\ UNCHANGED <<rules, n, local, dns>>

Resolve == Dns!Resolution /\ UNCHANGED <<rules, pc, n, local>>

Next ==
  \/ \E c \in Conns, m \in {"CONNECT", "GET"}, h \in Names, p \in Ports :
       Request(c, m, h, p)
  \/ \E c \in Conns : AskSelf(c)
  \/ \E c \in Conns : Ask(c)
  \/ \E c \in Conns : Answered(c)
  \/ \E c \in Conns : Failed(c)
  \/ Resolve

Spec == Init /\ [][Next]_vars
-----------------------------------------------------------------------------
TypeOK ==
  /\ rules \in Configs
  /\ pc \in [Conns -> {"read", "dial", "dialling", "over"}]
  /\ n \in [Conns -> 0 .. MaxReq]
  /\ ask \in [Conns -> [method : {"none", "CONNECT", "GET"},
                       host : Names \cup {NoName}, port : Ports \cup {NoPort}]]
  /\ host \in [Conns -> Names \cup {NoName}]
  /\ svc \in [Conns -> Ports \cup {NoPort}]
  /\ is \in [Conns -> [url : Names \cup {NoName}, mitm : BOOLEAN, doh : BOOLEAN]]
  /\ via \in [Conns -> {"none", "origin", "tunnel", "mitm"}]
  /\ outcome \in [Calls -> {"idle", "pending", "answered", "threw"}]
  /\ asked \in [Calls -> Endpoints \cup {NoName}]
  /\ doh \in [Calls -> BOOLEAN]
  /\ answer \in [Calls -> Dns!Answers \cup {NoAnswer}]
  /\ known \in [Endpoints -> SUBSET Dns!Answers]
  /\ busy \in SUBSET Endpoints

\* The settings the configuration has for a host: those of the first rule that
\* names it, or else of the first rule with a star, if that matches.  All other
\* rules with a star are without effect.
Configured(h) ==
  LET least(S) == CHOOSE i \in S : \A j \in S : i <= j
      named == {i \in DOMAIN rules : rules[i].stars = 0 /\ rules[i].name = h}
      wild == {i \in DOMAIN rules : rules[i].stars > 0}
  IN IF named # {} THEN SetOf(rules[least(named)])
     ELSE IF wild # {} /\ Matches(rules[least(wild)], h)
          THEN SetOf(rules[least(wild)])
     ELSE NoSet

\* The hosts whose requests go to host t.
LeadingTo(t) == {h \in Names : Replaced(h, Configured(h)) = t}

\* Whatever a connection was used for before, a request goes where the
\* configuration sends the host it names, with the settings of that host; or
\* it goes to the host it names, with the settings of one that is replaced by
\* it and that an earlier request of the connection named: the exception that
\* comparing with the replaced host makes (httpserver.cpp:44-59).
OwnSettings ==
  \A c \in Conns : via[c] # "none" =>
    \E h \in LeadingTo(host[c]) :
      /\ is[c] = Configured(h)
      /\ via[c] = Via(ask[c].method, Configured(h))
      /\ h = ask[c].host \/ host[c] = ask[c].host

\* A host that is looked up with DoH and intercepted, under every name that
\* leads to it, is only ever connected to at endpoints that DoH found, although
\* the cache and the running resolutions of slow_dns do not tell who asked for
\* what (dns.cpp:239, 280).
DohKept ==
  \A c \in Conns, k \in 1 .. MaxReq :
    LET r == <<c, k>> IN
    /\ outcome[r] = "answered"
    /\ \A h \in LeadingTo(asked[r][1]) : Configured(h).doh /\ Configured(h).mitm
    => answer[r].doh

\* Settings that ask for DoH get it: "looks the address of the host up with
\* DoH" (intercept.h:15).
DohAsConfigured ==
  \A c \in Conns :
    pc[c] = "dialling" /\ outcome[<<c, n[c]>>] = "answered" /\ is[c].doh
      => answer[<<c, n[c]>>].doh
=============================================================================
