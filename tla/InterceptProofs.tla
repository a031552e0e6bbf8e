-------------------------- MODULE InterceptProofs ---------------------------
(***************************************************************************)
(* Proofs about Intercept for every configuration, any set of names and    *)
(* ports and any number of connections and requests.                       *)
(*                                                                         *)
(* IInv adds to OwnSettings what carries the wish for DoH through slow_dns:*)
(* calls for a host that wants it ask for it (Wished), so do results known *)
(* of the host (Known), and what a call gets is known (Given).             *)
(***************************************************************************)
EXTENDS Intercept, WellFoundedInduction, TLAPS

WantsDoh(t) ==
  \A h \in LeadingTo(t) : Configured(h).doh /\ Configured(h).mitm

Progress ==
  \A c \in Conns :
    /\ via[c] = "none" => host[c] = NoName
    /\ pc[c] \in {"dial", "dialling"} =>
         via[c] # "none" /\ n[c] \in 1 .. MaxReq /\ <<host[c], svc[c]>> \in Endpoints

Wished ==
  \A r \in Calls : asked[r] \in Endpoints /\ WantsDoh(asked[r][1]) => doh[r]
Known ==
  \A h \in Endpoints : \A a \in known[h] : WantsDoh(h[1]) => a.doh
Given ==
  \A r \in Calls : outcome[r] = "answered" =>
    asked[r] \in Endpoints /\ answer[r] \in known[asked[r]]
AskedOnce ==
  \A r \in Calls : outcome[r] # "idle" => asked[r] \in Endpoints

IInv ==
  /\ TypeOK
  /\ OwnSettings
  /\ Progress
  /\ Wished
  /\ Known
  /\ Given
  /\ AskedOnce

-----------------------------------------------------------------------------
(* The table                                                               *)

\* A set of numbers that is not empty has a least one.
LEMMA Least ==
  ASSUME NEW S, S \subseteq Nat, S # {}
  PROVE  \E i \in S : \A j \in S : i <= j
<1> DEFINE LT == OpToRel(<, Nat)
<1>1. PICK x \in S : \A y \in S : ~(<<y, x>> \in LT)
  BY WFMin, NatLessThanWellFounded
<1>2. \A y \in S : ~(y < x)
  BY <1>1 DEF OpToRel
<1> QED
  BY <1>2

\* find is the rule of the configuration that comes first among those that name
\* the host, else the first with a star if it matches.
LEMMA FindIsConfigured ==
  ASSUME TypeOK, NEW h
  PROVE  find(h) = Configured(h)
<1> DEFINE named == {i \in DOMAIN rules : rules[i].stars = 0 /\ rules[i].name = h}
           wild == {i \in DOMAIN rules : rules[i].stars > 0}
           least(S) == CHOOSE i \in S : \A j \in S : i <= j
           exact == {i \in direct_filter : rules[i].name = h}
           match == {i \in star_map : Matches(rules[i], h)}
           first == CHOOSE i \in match : \A j \in match : nstar(rules[i]) <= nstar(rules[j])
<1>1. rules \in Seq(Rule)
  BY InterceptAssumption DEF TypeOK
<1>2. named \subseteq Nat /\ wild \subseteq Nat /\ DOMAIN rules = 1 .. Len(rules)
  BY <1>1
<1>3. \A i \in DOMAIN rules : rules[i].stars \in Nat
  <2>1. \A i \in DOMAIN rules : rules[i] \in Rule
    BY <1>1, <1>2
  <2> QED
    BY <2>1 DEF Rule
<1>4. ASSUME named # {}
      PROVE  exact = {least(named)}
  <2>1. least(named) \in named /\ \A j \in named : least(named) <= j
    BY <1>2, <1>4, Least
  <2>2. \A i \in named : i \in exact <=> i = least(named)
    BY <1>2, <2>1 DEF direct_filter
  <2>3. exact \subseteq named
    BY DEF direct_filter
  <2> QED
    BY <2>1, <2>2, <2>3
<1>5. ASSUME wild # {}
      PROVE  star_map = {least(wild)}
  <2>1. least(wild) \in wild /\ \A j \in wild : least(wild) <= j
    BY <1>2, <1>5, Least
  <2>2. \A i \in wild : i \in star_map <=> i = least(wild)
    BY <1>2, <1>3, <2>1 DEF star_map, nstar
  <2>3. star_map \subseteq wild
    BY DEF star_map
  <2> QED
    BY <2>1, <2>2, <2>3
<1>6. named = {} => exact = {}
  BY DEF direct_filter
<1>7. wild = {} => star_map = {}
  BY DEF star_map
<1>8. find(h) = IF exact # {} THEN SetOf(rules[CHOOSE i \in exact : TRUE])
                ELSE IF match # {} THEN SetOf(rules[first]) ELSE NoSet
  BY DEF find
<1>9. Configured(h) =
        IF named # {} THEN SetOf(rules[least(named)])
        ELSE IF wild # {} /\ Matches(rules[least(wild)], h)
             THEN SetOf(rules[least(wild)]) ELSE NoSet
  BY DEF Configured
<1>10. CASE named # {}
  BY <1>4, <1>8, <1>9, <1>10
<1>11. CASE named = {} /\ wild # {} /\ Matches(rules[least(wild)], h)
  <2>1. match = {least(wild)}
    BY <1>5, <1>11
  <2>2. first = least(wild)
    BY <2>1 DEF nstar
  <2> QED
    BY <1>6, <1>8, <1>9, <1>11, <2>1, <2>2
<1>12. CASE named = {} /\ ~(wild # {} /\ Matches(rules[least(wild)], h))
  <2>1. match = {}
    BY <1>5, <1>7, <1>12
  <2> QED
    BY <1>6, <1>8, <1>9, <1>12, <2>1
<1> QED
  BY <1>10, <1>11, <1>12

LEMMA ConfiguredType ==
  ASSUME TypeOK, NEW h
  PROVE  Configured(h) \in [url : Names \cup {NoName}, mitm : BOOLEAN, doh : BOOLEAN]
<1>1. rules \in Seq(Rule)
  BY InterceptAssumption DEF TypeOK
<1>2. DOMAIN rules = 1 .. Len(rules) /\ \A i \in DOMAIN rules : rules[i] \in Rule
  BY <1>1
<1>3. \A i \in DOMAIN rules :
        SetOf(rules[i]) \in [url : Names \cup {NoName}, mitm : BOOLEAN, doh : BOOLEAN]
  BY <1>2 DEF Rule, SetOf
<1> DEFINE named == {i \in DOMAIN rules : rules[i].stars = 0 /\ rules[i].name = h}
           wild == {i \in DOMAIN rules : rules[i].stars > 0}
           least(S) == CHOOSE i \in S : \A j \in S : i <= j
<1>4. named # {} => least(named) \in named
  <2>1. named \subseteq Nat
    BY <1>2
  <2> QED
    BY <2>1, Least
<1>5. wild # {} => least(wild) \in wild
  <2>1. wild \subseteq Nat
    BY <1>2
  <2> QED
    BY <2>1, Least
<1>6. NoSet \in [url : Names \cup {NoName}, mitm : BOOLEAN, doh : BOOLEAN]
  BY DEF NoSet
<1>7. Configured(h) =
        IF named # {} THEN SetOf(rules[least(named)])
        ELSE IF wild # {} /\ Matches(rules[least(wild)], h)
             THEN SetOf(rules[least(wild)]) ELSE NoSet
  BY DEF Configured
<1> QED
  BY <1>3, <1>4, <1>5, <1>6, <1>7

-----------------------------------------------------------------------------
(* The invariant                                                           *)

LEMMA InitIInv == Init => IInv
<1> SUFFICES ASSUME Init PROVE IInv
  OBVIOUS
<1> USE InterceptAssumption DEF Init, Dns!Init
<1>1. TypeOK
  BY DEF TypeOK, NoSet, Calls, Endpoints
<1>2. OwnSettings /\ Progress
  BY DEF OwnSettings, Progress
<1>3. \A r \in Calls : asked[r] = NoName /\ outcome[r] = "idle"
  OBVIOUS
<1>4. NoName \notin Endpoints
  BY DEF NoName, Endpoints
<1>5. Wished /\ Given /\ AskedOnce
  BY <1>3, <1>4 DEF Wished, Given, AskedOnce
<1>6. Known
  BY DEF Known
<1> QED
  BY <1>1, <1>2, <1>5, <1>6 DEF IInv

\* The configuration does not change, nor does what follows from it alone.
LEMMA SameTable ==
  ASSUME UNCHANGED rules
  PROVE  /\ \A h : Configured(h)' = Configured(h)
         /\ \A t : LeadingTo(t)' = LeadingTo(t)
         /\ \A t : WantsDoh(t)' = WantsDoh(t)
  BY DEF Configured, Matches, LeadingTo, Replaced, WantsDoh

\* OwnSettings of a connection is about its settings and the configuration.
LEMMA SameSettings ==
  ASSUME OwnSettings, UNCHANGED <<rules, local>>
  PROVE  OwnSettings'
<1> SUFFICES ASSUME NEW d \in Conns, via'[d] # "none"
             PROVE  \E g \in LeadingTo(host[d])' :
                      /\ is'[d] = Configured(g)'
                      /\ via'[d] = Via(ask'[d].method, Configured(g)')
                      /\ g = ask'[d].host \/ host'[d] = ask'[d].host
  BY DEF OwnSettings, Via
<1> QED
  BY SameTable DEF OwnSettings, local

LEMMA RequestIInv ==
  ASSUME IInv, NEW c \in Conns, NEW m \in {"CONNECT", "GET"}, NEW h \in Names,
         NEW p \in Ports, Request(c, m, h, p)
  PROVE  IInv'
<1> DEFINE same == h = host[c] /\ p = svc[c]
           s == IF same THEN is[c] ELSE Configured(h)
           to == IF same THEN h ELSE Replaced(h, s)
<1> USE InterceptAssumption
<1>1. /\ pc[c] = "read" /\ n[c] < MaxReq
      /\ n' = [n EXCEPT ![c] = @ + 1]
      /\ ask' = [ask EXCEPT ![c] = [method |-> m, host |-> h, port |-> p]]
      /\ is' = [is EXCEPT ![c] = s]
      /\ host' = [host EXCEPT ![c] = to]
      /\ svc' = [svc EXCEPT ![c] = p]
      /\ via' = [via EXCEPT ![c] = Via(m, s)]
      /\ \E k \in {"dial", "read"} : pc' = [pc EXCEPT ![c] = k]
      /\ UNCHANGED <<rules, dns>>
  BY FindIsConfigured DEF Request, IInv
<1>2. s \in [url : Names \cup {NoName}, mitm : BOOLEAN, doh : BOOLEAN]
  BY ConfiguredType DEF IInv, TypeOK
<1>3. to \in Names
  BY <1>2 DEF Replaced
<1>4. Via(m, s) \in {"origin", "tunnel", "mitm"}
  BY DEF Via
<1>5. \E g \in LeadingTo(to) :
        s = Configured(g) /\ (g = h \/ to = h)
  <2>1. CASE same
    <3>1. via[c] # "none"
      BY <2>1 DEF IInv, Progress
    <3> QED
      BY <2>1, <3>1 DEF IInv, OwnSettings
  <2>2. CASE ~same
    BY <2>2 DEF LeadingTo
  <2> QED
    BY <2>1, <2>2
<1> HIDE DEF s, to, same
<1>6. TypeOK'
  BY <1>1, <1>2, <1>3, <1>4 DEF IInv, TypeOK, dns
<1>7. OwnSettings'
  <2> SUFFICES ASSUME NEW d \in Conns, via'[d] # "none"
               PROVE  \E g \in LeadingTo(host[d])' :
                        /\ is'[d] = Configured(g)'
                        /\ via'[d] = Via(ask'[d].method, Configured(g)')
                        /\ g = ask'[d].host \/ host'[d] = ask'[d].host
    BY DEF OwnSettings, Via
  <2>1. CASE d = c
    BY <1>1, <1>5, <2>1, SameTable DEF IInv, TypeOK
  <2>2. CASE d # c
    BY <1>1, <2>2, SameTable DEF IInv, TypeOK, OwnSettings
  <2> QED
    BY <2>1, <2>2
<1>8. Progress'
  BY <1>1, <1>3, <1>4 DEF IInv, TypeOK, Progress, Endpoints
<1>9. Wished' /\ Known' /\ Given' /\ AskedOnce'
  BY <1>1, SameTable DEF IInv, Wished, Known, Given, AskedOnce, dns
<1> QED
  BY <1>6, <1>7, <1>8, <1>9 DEF IInv

LEMMA AskSelfIInv ==
  ASSUME IInv, NEW c \in Conns, AskSelf(c)
  PROVE  IInv'
<1> USE InterceptAssumption
<1>1. TypeOK'
  BY DEF IInv, TypeOK, AskSelf, NoSet, dns
<1>2. OwnSettings'
  <2> SUFFICES ASSUME NEW d \in Conns, via'[d] # "none"
               PROVE  \E g \in LeadingTo(host[d])' :
                        /\ is'[d] = Configured(g)'
                        /\ via'[d] = Via(ask'[d].method, Configured(g)')
                        /\ g = ask'[d].host \/ host'[d] = ask'[d].host
    BY DEF OwnSettings, Via
  <2>1. d # c
    BY DEF AskSelf, IInv, TypeOK
  <2> QED
    BY <2>1, SameTable DEF AskSelf, IInv, TypeOK, OwnSettings
<1>3. Progress'
  BY DEF IInv, TypeOK, Progress, AskSelf
<1>4. Wished' /\ Known' /\ Given' /\ AskedOnce'
  BY SameTable DEF IInv, Wished, Known, Given, AskedOnce, AskSelf, dns
<1> QED
  BY <1>1, <1>2, <1>3, <1>4 DEF IInv

\* What is asked of slow_dns for a host that wants DoH asks for it.
LEMMA AsksAsWanted ==
  ASSUME IInv, NEW c \in Conns, pc[c] = "dial"
  PROVE  /\ <<c, n[c]>> \in Calls /\ <<host[c], svc[c]>> \in Endpoints
         /\ use_doh(c) \in BOOLEAN
         /\ WantsDoh(host[c]) => use_doh(c)
<1>1. via[c] # "none" /\ <<c, n[c]>> \in Calls /\ <<host[c], svc[c]>> \in Endpoints
  BY DEF IInv, Progress, Calls
<1>2. PICK h \in LeadingTo(host[c]) :
        is[c] = Configured(h) /\ via[c] = Via(ask[c].method, Configured(h))
  BY <1>1 DEF IInv, OwnSettings
<1>3. WantsDoh(host[c]) => use_doh(c)
  BY <1>2 DEF WantsDoh, use_doh, Via
<1>4. use_doh(c) \in BOOLEAN
  BY DEF use_doh, IInv, TypeOK
<1> QED
  BY <1>1, <1>3, <1>4

LEMMA AskIInv ==
  ASSUME IInv, NEW c \in Conns, Ask(c)
  PROVE  IInv'
<1> DEFINE r == <<c, n[c]>>
           h == <<host[c], svc[c]>>
<1> USE InterceptAssumption
<1>1. pc[c] = "dial" /\ pc' = [pc EXCEPT ![c] = "dialling"] /\ UNCHANGED <<rules, n, local>>
  BY DEF Ask
<1>2. /\ r \in Calls /\ h \in Endpoints /\ use_doh(c) \in BOOLEAN
      /\ WantsDoh(host[c]) => use_doh(c)
  BY <1>1, AsksAsWanted
<1>3. /\ outcome[r] = "idle"
      /\ asked' = [asked EXCEPT ![r] = h]
      /\ doh' = [doh EXCEPT ![r] = use_doh(c)]
      /\ UNCHANGED <<known, busy>>
      /\ \/ outcome' = [outcome EXCEPT ![r] = "pending"] /\ UNCHANGED answer
         \/ \E a \in Dns!Answers :
              /\ a \in known[h]
              /\ outcome' = [outcome EXCEPT ![r] = "answered"]
              /\ answer' = [answer EXCEPT ![r] = a]
  BY DEF Ask, Dns!Ask, Dns!AskKnown
<1> HIDE DEF r, h
<1>4. TypeOK'
  BY <1>1, <1>2, <1>3 DEF IInv, TypeOK, local
<1>5. OwnSettings' /\ Progress'
  <2>1. OwnSettings'
    BY <1>1, SameSettings DEF IInv
  <2>2. Progress'
    BY <1>1 DEF IInv, TypeOK, Progress, local
  <2> QED
    BY <2>1, <2>2
<1>6. Wished'
  <2> SUFFICES ASSUME NEW q \in Calls, asked'[q] \in Endpoints, WantsDoh(asked'[q][1])
               PROVE  doh'[q]
    BY SameTable, <1>1 DEF Wished
  <2>1. CASE q = r
    BY <1>2, <1>3, <2>1 DEF IInv, TypeOK, h
  <2>2. CASE q # r
    BY <1>3, <2>2 DEF IInv, TypeOK, Wished
  <2> QED
    BY <2>1, <2>2
<1>7. Known'
  BY <1>1, <1>3, SameTable DEF IInv, Known
<1>8. Given' /\ AskedOnce'
  BY <1>2, <1>3 DEF IInv, TypeOK, Given, AskedOnce
<1> QED
  BY <1>4, <1>5, <1>6, <1>7, <1>8 DEF IInv

\* A step of a connection that asks slow_dns nothing and keeps its settings.
LEMMA MoveIInv ==
  ASSUME IInv, NEW c \in Conns, NEW k \in {"read", "over"},
         pc' = [pc EXCEPT ![c] = k], UNCHANGED <<rules, n, local, dns>>
  PROVE  IInv'
<1>1. TypeOK'
  BY DEF IInv, TypeOK, local, dns
<1>2. OwnSettings' /\ Progress'
  <2>1. OwnSettings'
    BY SameSettings DEF IInv
  <2>2. Progress'
    BY DEF IInv, TypeOK, Progress, local
  <2> QED
    BY <2>1, <2>2
<1>3. Wished' /\ Known' /\ Given' /\ AskedOnce'
  BY SameTable DEF IInv, Wished, Known, Given, AskedOnce, dns
<1> QED
  BY <1>1, <1>2, <1>3 DEF IInv

LEMMA ResolveIInv ==
  ASSUME IInv, Resolve
  PROVE  IInv'
<1> USE InterceptAssumption
<1>1. UNCHANGED <<rules, pc, n, local>> /\ UNCHANGED <<asked, doh>>
  BY DEF Resolve, Dns!Resolution, Dns!Start, Dns!Finish, Dns!Learn, Dns!Reply,
         Dns!Throw
<1>2. OwnSettings' /\ Progress' /\ Wished'
  <2>1. OwnSettings'
    BY <1>1, SameSettings DEF IInv
  <2>2. Progress'
    BY <1>1 DEF IInv, Progress, local
  <2>3. Wished'
    BY <1>1, SameTable DEF IInv, Wished
  <2> QED
    BY <2>1, <2>2, <2>3
<1>3. CASE \E h \in Endpoints : Dns!Start(h) \/ Dns!Finish(h)
  <2>1. UNCHANGED <<outcome, answer, known>> /\ busy' \in SUBSET Endpoints
    BY <1>3 DEF IInv, TypeOK, Dns!Start, Dns!Finish
  <2>2. TypeOK'
    BY <1>1, <2>1 DEF IInv, TypeOK, local
  <2>3. Known' /\ Given' /\ AskedOnce'
    BY <1>1, <2>1, SameTable DEF IInv, Known, Given, AskedOnce
  <2> QED
    BY <1>2, <2>2, <2>3 DEF IInv
<1>4. CASE \E h \in Endpoints, a \in Dns!Answers : Dns!Learn(h, a)
  <2>1. PICK h \in Endpoints, a \in Dns!Answers : Dns!Learn(h, a)
    BY <1>4
  <2>2. /\ known' = [known EXCEPT ![h] = @ \cup {a}]
        /\ UNCHANGED <<outcome, answer, busy>>
    BY <2>1 DEF Dns!Learn
  <2>3. WantsDoh(h[1]) => a.doh
    BY <2>1 DEF Dns!Learn, IInv, Wished
  <2>4. TypeOK'
    BY <1>1, <2>1, <2>2 DEF IInv, TypeOK, local
  <2>5. Known'
    BY <1>1, <2>2, <2>3, SameTable DEF IInv, TypeOK, Known
  <2>6. Given' /\ AskedOnce'
    BY <1>1, <2>1, <2>2 DEF IInv, TypeOK, Given, AskedOnce
  <2> QED
    BY <1>2, <2>4, <2>5, <2>6 DEF IInv
<1>5. CASE \E r \in Calls, a \in Dns!Answers : Dns!Reply(r, a)
  <2>1. PICK r \in Calls, a \in Dns!Answers : Dns!Reply(r, a)
    BY <1>5
  <2>2. /\ outcome[r] = "pending" /\ a \in known[asked[r]]
        /\ outcome' = [outcome EXCEPT ![r] = "answered"]
        /\ answer' = [answer EXCEPT ![r] = a]
        /\ UNCHANGED <<known, busy>>
    BY <2>1 DEF Dns!Reply
  <2>3. TypeOK'
    BY <1>1, <2>1, <2>2 DEF IInv, TypeOK, local
  <2>4. Known' /\ Given' /\ AskedOnce'
    BY <1>1, <2>1, <2>2, SameTable DEF IInv, TypeOK, Known, Given, AskedOnce
  <2> QED
    BY <1>2, <2>3, <2>4 DEF IInv
<1>6. CASE \E r \in Calls : Dns!Throw(r)
  <2>1. PICK r \in Calls : Dns!Throw(r)
    BY <1>6
  <2>2. /\ outcome[r] = "pending"
        /\ outcome' = [outcome EXCEPT ![r] = "threw"]
        /\ UNCHANGED <<answer, known, busy>>
    BY <2>1 DEF Dns!Throw
  <2>3. TypeOK'
    BY <1>1, <2>1, <2>2 DEF IInv, TypeOK, local
  <2>4. Known' /\ Given' /\ AskedOnce'
    BY <1>1, <2>1, <2>2, SameTable DEF IInv, TypeOK, Known, Given, AskedOnce
  <2> QED
    BY <1>2, <2>3, <2>4 DEF IInv
<1> QED
  BY <1>3, <1>4, <1>5, <1>6 DEF Resolve, Dns!Resolution

LEMMA StepIInv == IInv /\ [Next]_vars => IInv'
<1> SUFFICES ASSUME IInv, [Next]_vars PROVE IInv'
  OBVIOUS
<1>1. CASE \E c \in Conns, m \in {"CONNECT", "GET"}, h \in Names, p \in Ports :
             Request(c, m, h, p)
  BY <1>1, RequestIInv
<1>2. CASE \E c \in Conns : AskSelf(c)
  BY <1>2, AskSelfIInv
<1>3. CASE \E c \in Conns : Ask(c)
  BY <1>3, AskIInv
<1>4. CASE \E c \in Conns : Answered(c)
  BY <1>4, MoveIInv DEF Answered
<1>5. CASE \E c \in Conns : Failed(c)
  BY <1>5, MoveIInv DEF Failed
<1>6. CASE Resolve
  BY <1>6, ResolveIInv
<1>7. CASE UNCHANGED vars
  <2>1. TypeOK' /\ Progress'
    BY <1>7 DEF vars, local, dns, IInv, TypeOK, Progress
  <2>2. OwnSettings'
    BY <1>7, SameSettings DEF vars, IInv
  <2>3. Wished' /\ Known' /\ Given' /\ AskedOnce'
    BY <1>7, SameTable DEF vars, dns, IInv, Wished, Known, Given, AskedOnce
  <2> QED
    BY <2>1, <2>2, <2>3 DEF IInv
<1> QED
  BY <1>1, <1>2, <1>3, <1>4, <1>5, <1>6, <1>7 DEF Next

\* The invariant holds of every reachable state.
THEOREM Invariance == Spec => []IInv
  BY InitIInv, StepIInv, PTL DEF Spec

-----------------------------------------------------------------------------
\* Type correctness: every variable keeps its type, however the connections and
\* slow_dns interleave.
THEOREM TypeCorrect == Spec => []TypeOK
<1>1. IInv => TypeOK
  BY DEF IInv
<1> QED
  BY <1>1, Invariance, PTL

\* Under any configuration a request has the settings of the host it names, or
\* those of one that is replaced by it (httpserver.cpp:44-59).
THEOREM SettingsAreOwn == Spec => []OwnSettings
<1>1. IInv => OwnSettings
  BY DEF IInv
<1> QED
  BY <1>1, Invariance, PTL

\* A host that every rule wants looked up with DoH and intercepted is never
\* connected to at an address found otherwise, whoever else asks slow_dns for
\* what (dns.cpp:239, 280).
THEOREM DohIsKept == Spec => []DohKept
<1>1. IInv => DohKept
  BY DEF IInv, DohKept, Known, Given, Calls, WantsDoh
<1> QED
  BY <1>1, Invariance, PTL
=============================================================================
