----------------------------- MODULE DnsService -----------------------------
(***************************************************************************)
(* What slow_dns promises to its callers (dns.h, dns.cpp): a request for a *)
(* host ends with a result that a resolution of that very host produced,   *)
(* in a way that some request for the host has asked for, or with an       *)
(* exception; and a host is never resolved twice at the same time, however *)
(* many callers ask for it.                                                *)
(***************************************************************************)
CONSTANTS Hosts, Requests, EdpLists, NoHost, NoAnswer

\* Endpoints, and whether DNS over HTTPS found them.
Answers == [edps : EdpLists, doh : BOOLEAN]

VARIABLES
  outcome,   \* outcome[r]: "idle", "pending", "answered" or "threw"
  asked,     \* asked[r]: the host the request names
  doh,       \* doh[r]: it asks for DNS over HTTPS
  answer,    \* answer[r]: what it was given
  known,     \* known[h]: every result a resolution of h ever produced
  busy       \* the hosts a resolution is in progress for

vars == <<outcome, asked, doh, answer, known, busy>>

Init ==
  /\ outcome = [r \in Requests |-> "idle"]
  /\ asked = [r \in Requests |-> NoHost]
  /\ doh = [r \in Requests |-> FALSE]
  /\ answer = [r \in Requests |-> NoAnswer]
  /\ known = [h \in Hosts |-> {}]
  /\ busy = {}

Ask(r, h, d) ==
  /\ outcome[r] = "idle"
  /\ outcome' = [outcome EXCEPT ![r] = "pending"]
  /\ asked' = [asked EXCEPT ![r] = h]
  /\ doh' = [doh EXCEPT ![r] = d]
  /\ UNCHANGED <<answer, known, busy>>

\* A cached result is returned at once.
AskKnown(r, h, d, a) ==
  /\ outcome[r] = "idle"
  /\ a \in known[h]
  /\ outcome' = [outcome EXCEPT ![r] = "answered"]
  /\ asked' = [asked EXCEPT ![r] = h]
  /\ doh' = [doh EXCEPT ![r] = d]
  /\ answer' = [answer EXCEPT ![r] = a]
  /\ UNCHANGED <<known, busy>>

Start(h) ==
  /\ h \notin busy
  /\ busy' = busy \cup {h}
  /\ UNCHANGED <<outcome, asked, doh, answer, known>>

\* Whoever asked may have gone meanwhile.
Learn(h, a) ==
  /\ h \in busy
  /\ \E r \in Requests : asked[r] = h /\ doh[r] = a.doh
  /\ known' = [known EXCEPT ![h] = @ \cup {a}]
  /\ UNCHANGED <<outcome, asked, doh, answer, busy>>

Finish(h) ==
  /\ h \in busy
  /\ busy' = busy \ {h}
  /\ UNCHANGED <<outcome, asked, doh, answer, known>>

Reply(r, a) ==
  /\ outcome[r] = "pending"
  /\ a \in known[asked[r]]
  /\ outcome' = [outcome EXCEPT ![r] = "answered"]
  /\ answer' = [answer EXCEPT ![r] = a]
  /\ UNCHANGED <<asked, doh, known, busy>>

Throw(r) ==
  /\ outcome[r] = "pending"
  /\ outcome' = [outcome EXCEPT ![r] = "threw"]
  /\ UNCHANGED <<asked, doh, answer, known, busy>>

\* What happens to a request once it was made, and to the hosts.
Resolution ==
  \/ \E h \in Hosts : Start(h) \/ Finish(h)
  \/ \E h \in Hosts, a \in Answers : Learn(h, a)
  \/ \E r \in Requests, a \in Answers : Reply(r, a)
  \/ \E r \in Requests : Throw(r)

Next ==
  \/ \E r \in Requests, h \in Hosts, d \in BOOLEAN : Ask(r, h, d)
  \/ \E r \in Requests, h \in Hosts, d \in BOOLEAN, a \in Answers :
       AskKnown(r, h, d, a)
  \/ Resolution

Spec == Init /\ [][Next]_vars
=============================================================================
