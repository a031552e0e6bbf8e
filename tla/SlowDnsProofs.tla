--------------------------- MODULE SlowDnsProofs ---------------------------
(***************************************************************************)
(* Proofs about SlowDns for every set of hosts, requests and endpoint      *)
(* lists.  IInv is the inductive strengthening: who may sit in an entry    *)
(* (Registered), where values come from (Provenance), and the invariants   *)
(* the runs check.                                                         *)
(***************************************************************************)
EXTENDS SlowDns, TLAPS

Called ==
  \A r \in Requests :
    /\ pc[r] # "idle" => hedp[r] \in Hosts
    /\ pc[r] = "idle" => task[r] = "none"
    /\ pc[r] = "idle" => channel[r] = NoEntry
    /\ task[r] \in {"none", "spawned"} => channel[r] = NoEntry

\* Only the host's own joined and resolving callers are in its entry.
Registered ==
  \A h \in Hosts : \A r \in resolve_running[h] :
    /\ hedp[r] = h
    /\ Resolving(r) \/ task[r] = "joined"

\* Every value on its way to a caller was resolved for the host it names.
Provenance ==
  /\ \A h \in Hosts : edp_cache[h] \in known[h] \cup {NoEntry}
  /\ \A r \in Requests : channel[r] # NoEntry => channel[r] \in known[hedp[r]]
  /\ \A r \in Requests :
       task[r] \in {"inserting", "publishing"} => el[r] \in known[hedp[r]]

IInv ==
  /\ TypeOK
  /\ Called
  /\ Registered
  /\ SingleFlight
  /\ EntryHasResolver
  /\ Provenance
  /\ Coherent
  /\ NoLostWakeup

\* A caller registers in the entry of the host it names and nowhere else, so
\* a task that touches one host's entry leaves the others' callers alone.
LEMMA InitIInv == Init => IInv
  BY NoEntryAssumption, NoHostAssumption
  DEF Init, IInv, TypeOK, Called, Registered, SingleFlight,
      EntryHasResolver, Provenance, Coherent, NoLostWakeup, Resolving, Answer

LEMMA HitIInv ==
  ASSUME IInv, NEW r \in Requests, NEW h \in Hosts,
         NEW d \in BOOLEAN, Hit(r, h, d)
  PROVE  IInv'
<1> USE NoEntryAssumption, NoHostAssumption
    DEF IInv, TypeOK, Answer, Hit
<1>1. TypeOK' /\ Called'
  BY DEF Called, Resolving
<1>2. Registered' /\ SingleFlight'
  BY DEF Registered, Called, SingleFlight, Resolving
<1>3. EntryHasResolver'
  BY DEF Registered, Called, SingleFlight,
         EntryHasResolver, Resolving
<1>4. Provenance'
  BY DEF Provenance, Registered, Called, Resolving
<1>5. Coherent'
  BY DEF Coherent, Called, SingleFlight, Registered, Provenance, Resolving
<1>6. NoLostWakeup'
  BY DEF NoLostWakeup, Called, Registered, Provenance, Resolving
<1> QED
  BY <1>1, <1>2, <1>3, <1>4, <1>5, <1>6 DEF IInv

LEMMA MissIInv ==
  ASSUME IInv, NEW r \in Requests, NEW h \in Hosts,
         NEW d \in BOOLEAN, Miss(r, h, d)
  PROVE  IInv'
<1> USE NoEntryAssumption, NoHostAssumption
    DEF IInv, TypeOK, Answer, Miss
<1>1. TypeOK' /\ Called'
  BY DEF Called, Resolving
<1>2. Registered' /\ SingleFlight'
  BY DEF Registered, Called, SingleFlight, Resolving
<1>3. EntryHasResolver'
  <2>1. \A q \in Requests : Resolving(q)' <=> Resolving(q)
    BY DEF Called, Resolving
  <2>2. \A q \in Requests : Resolving(q) => hedp'[q] = hedp[q]
    BY DEF Called, Resolving
  <2> QED
    BY <2>1, <2>2 DEF EntryHasResolver
<1>4. Provenance'
  BY DEF Provenance, Registered, Called, Resolving
<1>5. Coherent'
  BY DEF Coherent, Called, SingleFlight, Registered, Provenance, Resolving
<1>6. NoLostWakeup'
  BY DEF NoLostWakeup, Called, Registered, Provenance, Resolving
<1> QED
  BY <1>1, <1>2, <1>3, <1>4, <1>5, <1>6 DEF IInv

LEMMA ReceiveIInv ==
  ASSUME IInv, NEW r \in Requests, Receive(r)
  PROVE  IInv'
<1> USE NoEntryAssumption, NoHostAssumption
    DEF IInv, TypeOK, Answer, Receive
<1>1. TypeOK' /\ Called'
  BY DEF Called, Resolving
<1>2. Registered' /\ SingleFlight'
  BY DEF Registered, Called, SingleFlight, Resolving
<1>3. EntryHasResolver'
  BY DEF Registered, Called, SingleFlight,
         EntryHasResolver, Resolving
<1>4. Provenance'
  BY DEF Provenance, Registered, Called, Resolving
<1>5. Coherent'
  BY DEF Coherent, Called, SingleFlight, Registered, Provenance, Resolving
<1>6. NoLostWakeup'
  BY DEF NoLostWakeup, Called, Registered, Provenance, Resolving
<1> QED
  BY <1>1, <1>2, <1>3, <1>4, <1>5, <1>6 DEF IInv

LEMMA TimeoutIInv ==
  ASSUME IInv, NEW r \in Requests, Timeout(r)
  PROVE  IInv'
<1> USE NoEntryAssumption, NoHostAssumption
    DEF IInv, TypeOK, Answer, Timeout
<1>1. TypeOK' /\ Called'
  BY DEF Called, Resolving
<1>2. Registered' /\ SingleFlight'
  BY DEF Registered, Called, SingleFlight, Resolving
<1>3. EntryHasResolver'
  BY DEF Registered, Called, SingleFlight,
         EntryHasResolver, Resolving
<1>4. Provenance'
  BY DEF Provenance, Registered, Called, Resolving
<1>5. Coherent'
  BY DEF Coherent, Called, SingleFlight, Registered, Provenance, Resolving
<1>6. NoLostWakeup'
  BY DEF NoLostWakeup, Called, Registered, Provenance, Resolving
<1> QED
  BY <1>1, <1>2, <1>3, <1>4, <1>5, <1>6 DEF IInv

LEMMA ConnectOkIInv ==
  ASSUME IInv, NEW r \in Requests, ConnectOk(r)
  PROVE  IInv'
<1> USE NoEntryAssumption, NoHostAssumption
    DEF IInv, TypeOK, Answer, ConnectOk
<1>1. TypeOK' /\ Called'
  BY DEF Called, Resolving
<1>2. Registered' /\ SingleFlight'
  BY DEF Registered, Called, SingleFlight, Resolving
<1>3. EntryHasResolver'
  BY DEF Registered, Called, SingleFlight,
         EntryHasResolver, Resolving
<1>4. Provenance'
  BY DEF Provenance, Registered, Called, Resolving
<1>5. Coherent'
  BY DEF Coherent, Called, SingleFlight, Registered, Provenance, Resolving
<1>6. NoLostWakeup'
  BY DEF NoLostWakeup, Called, Registered, Provenance, Resolving
<1> QED
  BY <1>1, <1>2, <1>3, <1>4, <1>5, <1>6 DEF IInv

LEMMA ConnectFailIInv ==
  ASSUME IInv, NEW r \in Requests, ConnectFail(r)
  PROVE  IInv'
<1> USE NoEntryAssumption, NoHostAssumption
    DEF IInv, TypeOK, Answer, ConnectFail
<1>1. TypeOK' /\ Called'
  BY DEF Called, Resolving
<1>2. Registered' /\ SingleFlight'
  BY DEF Registered, Called, SingleFlight, Resolving
<1>3. EntryHasResolver'
  BY DEF Registered, Called, SingleFlight,
         EntryHasResolver, Resolving
<1>4. Provenance'
  BY DEF Provenance, Registered, Called, Resolving
<1>5. Coherent'
  BY DEF Coherent, Called, SingleFlight, Registered, Provenance, Resolving
<1>6. NoLostWakeup'
  BY DEF NoLostWakeup, Called, Registered, Provenance, Resolving
<1> QED
  BY <1>1, <1>2, <1>3, <1>4, <1>5, <1>6 DEF IInv

LEMMA JoinOrResolveIInv ==
  ASSUME IInv, NEW r \in Requests, JoinOrResolve(r)
  PROVE  IInv'
<1> USE NoEntryAssumption, NoHostAssumption
    DEF IInv, TypeOK, Answer, JoinOrResolve, Role, WaitList
<1>1. TypeOK' /\ Called'
  BY DEF Called, Resolving
<1>2. Registered' /\ SingleFlight'
  BY DEF Registered, Called, SingleFlight, Resolving
<1>3. EntryHasResolver'
  BY DEF Registered, Called, SingleFlight,
         EntryHasResolver, Resolving
<1>4. Provenance'
  BY DEF Provenance, Registered, Called, Resolving
<1>5. Coherent'
  BY DEF Coherent, Called, SingleFlight, Registered, Provenance, Resolving
<1>6. NoLostWakeup'
  BY DEF NoLostWakeup, Called, Registered, Provenance, Resolving
<1> QED
  BY <1>1, <1>2, <1>3, <1>4, <1>5, <1>6 DEF IInv

LEMMA ResolveOkIInv ==
  ASSUME IInv, NEW r \in Requests, NEW e \in EdpLists, ResolveOk(r, e)
  PROVE  IInv'
<1> USE NoEntryAssumption, NoHostAssumption
    DEF IInv, TypeOK, Answer, ResolveOk
<1>1. TypeOK' /\ Called'
  BY DEF Called, Resolving
<1>2. Registered' /\ SingleFlight'
  BY DEF Registered, Called, SingleFlight, Resolving
<1>3. EntryHasResolver'
  BY DEF Registered, Called, SingleFlight,
         EntryHasResolver, Resolving
<1>4. Provenance'
  BY DEF Provenance, Registered, Called, Resolving
<1>5. Coherent'
  BY DEF Coherent, Called, SingleFlight, Registered, Provenance, Resolving
<1>6. NoLostWakeup'
  BY DEF NoLostWakeup, Called, Registered, Provenance, Resolving
<1> QED
  BY <1>1, <1>2, <1>3, <1>4, <1>5, <1>6 DEF IInv

LEMMA ResolveFailIInv ==
  ASSUME IInv, NEW r \in Requests, ResolveFail(r)
  PROVE  IInv'
<1> USE NoEntryAssumption, NoHostAssumption
    DEF IInv, TypeOK, Answer, ResolveFail
<1>1. TypeOK' /\ Called'
  BY DEF Called, Resolving
<1>2. Registered' /\ SingleFlight'
  BY DEF Registered, Called, SingleFlight, Resolving
<1>3. EntryHasResolver'
  BY DEF Registered, Called, SingleFlight,
         EntryHasResolver, Resolving
<1>4. Provenance'
  BY DEF Provenance, Registered, Called, Resolving
<1>5. Coherent'
  BY DEF Coherent, Called, SingleFlight, Registered, Provenance, Resolving
<1>6. NoLostWakeup'
  BY DEF NoLostWakeup, Called, Registered, Provenance, Resolving
<1> QED
  BY <1>1, <1>2, <1>3, <1>4, <1>5, <1>6 DEF IInv

LEMMA InsertIInv ==
  ASSUME IInv, NEW r \in Requests, Insert(r)
  PROVE  IInv'
<1> USE NoEntryAssumption, NoHostAssumption
    DEF IInv, TypeOK, Answer, Insert
<1>0. hedp[r] \in Hosts
  BY DEF Called
<1>1. TypeOK' /\ Called'
  <2>1. TypeOK'
    BY <1>0
  <2>2. Called'
    BY <1>0 DEF Called, Registered, Resolving
  <2> QED
    BY <2>1, <2>2
<1>2. Registered' /\ SingleFlight'
  BY DEF Registered, Called, SingleFlight, Resolving
<1>3. EntryHasResolver'
  BY DEF Registered, Called, SingleFlight,
         EntryHasResolver, Resolving
<1>4. Provenance'
  BY SMTT(30) DEF Provenance, Registered, Called, Resolving
<1>5. Coherent'
  BY DEF Coherent, Called, SingleFlight, Registered, Provenance, Resolving
<1>6. NoLostWakeup'
  BY DEF NoLostWakeup, Called, Registered, Provenance, Resolving
<1> QED
  BY <1>1, <1>2, <1>3, <1>4, <1>5, <1>6 DEF IInv

LEMMA PublishIInv ==
  ASSUME IInv, NEW r \in Requests, Publish(r)
  PROVE  IInv'
<1> USE NoEntryAssumption, NoHostAssumption
    DEF IInv, TypeOK, Answer, Publish
<1>0. hedp[r] \in Hosts
  BY DEF Called
<1>1. TypeOK' /\ Called'
  <2>1. TypeOK'
    BY <1>0
  <2>2. Called'
    BY <1>0 DEF Called, Registered, Resolving
  <2> QED
    BY <2>1, <2>2
<1>2. Registered' /\ SingleFlight'
  BY DEF Registered, Called, SingleFlight, Resolving
<1>3. EntryHasResolver'
  BY DEF Registered, Called, SingleFlight,
         EntryHasResolver, Resolving
<1>4. Provenance'
  BY DEF Provenance, Registered, Called, Resolving
<1>5. Coherent'
  BY DEF Coherent, Called, SingleFlight, Registered, Provenance, Resolving
<1>6. NoLostWakeup'
  BY DEF NoLostWakeup, Called, Registered, Provenance, Resolving
<1> QED
  BY <1>1, <1>2, <1>3, <1>4, <1>5, <1>6 DEF IInv

LEMMA StutterIInv ==
  ASSUME IInv, UNCHANGED vars
  PROVE  IInv'
BY DEF IInv, vars, TypeOK, Called, Registered, SingleFlight,
       EntryHasResolver, Provenance, Coherent, NoLostWakeup, Resolving

LEMMA StepIInv == IInv /\ [Next]_vars => IInv'
<1> SUFFICES ASSUME IInv, [Next]_vars
             PROVE  IInv'
  OBVIOUS
<1>1. CASE \E r \in Requests, h \in Hosts, d \in BOOLEAN : Hit(r, h, d)
  BY <1>1, HitIInv
<1>2. CASE \E r \in Requests, h \in Hosts, d \in BOOLEAN : Miss(r, h, d)
  BY <1>2, MissIInv
<1>3. CASE \E r \in Requests : Receive(r)
  BY <1>3, ReceiveIInv
<1>4. CASE \E r \in Requests : Timeout(r)
  BY <1>4, TimeoutIInv
<1>5. CASE \E r \in Requests : ConnectOk(r)
  BY <1>5, ConnectOkIInv
<1>6. CASE \E r \in Requests : ConnectFail(r)
  BY <1>6, ConnectFailIInv
<1>7. CASE \E r \in Requests : JoinOrResolve(r)
  BY <1>7, JoinOrResolveIInv
<1>8. CASE \E r \in Requests, e \in EdpLists : ResolveOk(r, e)
  BY <1>8, ResolveOkIInv
<1>9. CASE \E r \in Requests : ResolveFail(r)
  BY <1>9, ResolveFailIInv
<1>10. CASE \E r \in Requests : Insert(r)
  BY <1>10, InsertIInv
<1>11. CASE \E r \in Requests : Publish(r)
  BY <1>11, PublishIInv
<1>12. CASE UNCHANGED vars
  BY <1>12, StutterIInv
<1> QED
  BY <1>1, <1>2, <1>3, <1>4, <1>5, <1>6, <1>7, <1>8, <1>9, <1>10,
     <1>11, <1>12 DEF Next

-----------------------------------------------------------------------------
\* The strengthening holds in every reachable state.
THEOREM Invariance == Spec => []IInv
  BY InitIInv, StepIInv, PTL DEF Spec

\* Type correctness.
THEOREM TypeCorrect == Spec => []TypeOK
<1>1. IInv => TypeOK
  BY DEF IInv
<1> QED
  BY <1>1, Invariance, PTL

\* One resolution per host, whose entry is there when it publishes, and no
\* entry without one: the find at dns.cpp:336 may be dereferenced untested.
THEOREM OneResolutionPerHost ==
  Spec => [](SingleFlight /\ EntryHasResolver)
<1>1. IInv => SingleFlight /\ EntryHasResolver
  BY DEF IInv
<1> QED
  BY <1>1, Invariance, PTL

\* A publisher sends what the cache holds unless the entry was removed.
THEOREM PublisherCoherent == Spec => []Coherent
<1>1. IInv => Coherent
  BY DEF IInv
<1> QED
  BY <1>1, Invariance, PTL

\* No waiter is forgotten, except by a resolution that failed.
THEOREM NoWakeupLost == Spec => []NoLostWakeup
<1>1. IInv => NoLostWakeup
  BY DEF IInv
<1> QED
  BY <1>1, Invariance, PTL

\* No step replaces a cached result by another.
THEOREM CacheStable == Spec => EntryStable
<1>1. IInv /\ [Next]_vars =>
        [\A h \in Hosts :
           edp_cache[h] # NoEntry =>
             edp_cache'[h] \in {edp_cache[h], NoEntry}]_vars
  BY DEF IInv, TypeOK, Called, Next, vars, Hit, Miss, Receive, Timeout,
         ConnectOk, ConnectFail, JoinOrResolve, Role, WaitList, ResolveOk,
         ResolveFail, Insert, Publish
<1> QED
  BY <1>1, Invariance, PTL DEF EntryStable, Spec

-----------------------------------------------------------------------------
(* SlowDns implements DnsService: what each action is to its callers.      *)

LEMMA InitService == Init => Service!Init
  BY DEF Init, Service!Init, Outcome

LEMMA HitService ==
  ASSUME IInv, NEW r \in Requests, NEW h \in Hosts,
         NEW d \in BOOLEAN, Hit(r, h, d)
  PROVE  Service!AskKnown(r, h, d, edp_cache[h])
<1>1. Outcome(r) = "idle"
  BY DEF Outcome, Hit
<1>2. [q \in Requests |-> Outcome(q)]' =
        [[q \in Requests |-> Outcome(q)] EXCEPT ![r] = "answered"]
  BY DEF IInv, TypeOK, Outcome, Hit
<1>3. UNCHANGED {k \in Hosts : resolve_running[k] # {}}
  BY DEF Hit
<1> QED
  BY <1>1, <1>2, <1>3, NoEntryAssumption
  DEF IInv, TypeOK, Called, Registered, Provenance, Hit, Service!AskKnown

LEMMA MissService ==
  ASSUME IInv, NEW r \in Requests, NEW h \in Hosts,
         NEW d \in BOOLEAN, Miss(r, h, d)
  PROVE  Service!Ask(r, h, d)
<1>1. Outcome(r) = "idle"
  BY DEF Outcome, Miss
<1>2. [q \in Requests |-> Outcome(q)]' =
        [[q \in Requests |-> Outcome(q)] EXCEPT ![r] = "pending"]
  BY DEF IInv, TypeOK, Outcome, Miss
<1>3. UNCHANGED {k \in Hosts : resolve_running[k] # {}}
  BY DEF Miss
<1> QED
  BY <1>1, <1>2, <1>3, NoEntryAssumption
  DEF IInv, TypeOK, Called, Registered, Provenance, Miss, Service!Ask

LEMMA ReceiveService ==
  ASSUME IInv, NEW r \in Requests, Receive(r)
  PROVE  Service!Reply(r, channel[r])
<1>1. Outcome(r) = "pending"
  BY DEF Outcome, Receive
<1>2. [q \in Requests |-> Outcome(q)]' =
        [[q \in Requests |-> Outcome(q)] EXCEPT ![r] = "answered"]
  BY DEF IInv, TypeOK, Outcome, Receive
<1>3. UNCHANGED {k \in Hosts : resolve_running[k] # {}}
  BY DEF Receive
<1> QED
  BY <1>1, <1>2, <1>3, NoEntryAssumption
  DEF IInv, TypeOK, Called, Registered, Provenance, Receive, Service!Reply

LEMMA TimeoutService ==
  ASSUME IInv, NEW r \in Requests, Timeout(r)
  PROVE  Service!Throw(r)
<1>1. Outcome(r) = "pending"
  BY DEF Outcome, Timeout
<1>2. [q \in Requests |-> Outcome(q)]' =
        [[q \in Requests |-> Outcome(q)] EXCEPT ![r] = "threw"]
  BY DEF IInv, TypeOK, Outcome, Timeout
<1>3. UNCHANGED {k \in Hosts : resolve_running[k] # {}}
  BY DEF Timeout
<1> QED
  BY <1>1, <1>2, <1>3, NoEntryAssumption
  DEF IInv, TypeOK, Called, Registered, Provenance, Timeout, Service!Throw

LEMMA ConnectOkService ==
  ASSUME IInv, NEW r \in Requests, ConnectOk(r)
  PROVE  UNCHANGED Service!vars
BY NoEntryAssumption, NoHostAssumption
DEF IInv, TypeOK, Called, Registered, Provenance,
    SingleFlight, Resolving, Outcome, ConnectOk,
    Service!vars

LEMMA ConnectFailService ==
  ASSUME IInv, NEW r \in Requests, ConnectFail(r)
  PROVE  UNCHANGED Service!vars
BY NoEntryAssumption, NoHostAssumption
DEF IInv, TypeOK, Called, Registered, Provenance,
    SingleFlight, Resolving, Outcome, ConnectFail,
    Service!vars

LEMMA JoinOrResolveService ==
  ASSUME IInv, NEW r \in Requests, JoinOrResolve(r)
  PROVE  \/ \E h \in Hosts : Service!Start(h)
         \/ UNCHANGED Service!vars
<1>1. PICK h \in Hosts : h = hedp[r]
  BY DEF IInv, Called, JoinOrResolve
<1>2. Service!Start(h) \/ UNCHANGED Service!vars
  BY <1>1, NoEntryAssumption, NoHostAssumption
  DEF IInv, TypeOK, Called, Registered, Provenance,
      SingleFlight, Resolving, Outcome, JoinOrResolve, Role, WaitList,
      Service!Start, Service!vars
<1> QED
  BY <1>2

LEMMA ResolveOkService ==
  ASSUME IInv, NEW r \in Requests, NEW e \in EdpLists, ResolveOk(r, e)
  PROVE  Service!Learn(hedp[r], [edps |-> e, doh |-> doh[r]])
BY NoEntryAssumption, NoHostAssumption
DEF IInv, TypeOK, Called, Registered, Provenance,
    SingleFlight, Resolving, Outcome, ResolveOk,
    Service!Learn, Answer

LEMMA ResolveFailService ==
  ASSUME IInv, NEW r \in Requests, ResolveFail(r)
  PROVE  \E h \in Hosts : Service!Finish(h)
<1>1. PICK h \in Hosts : h = hedp[r]
  BY DEF IInv, Called, ResolveFail
<1>2. Service!Finish(h)
  BY <1>1, NoEntryAssumption, NoHostAssumption
  DEF IInv, TypeOK, Called, Registered, Provenance,
      SingleFlight, Resolving, Outcome, ResolveFail, Service!Finish
<1> QED
  BY <1>2

LEMMA InsertService ==
  ASSUME IInv, NEW r \in Requests, Insert(r)
  PROVE  UNCHANGED Service!vars
BY NoEntryAssumption, NoHostAssumption
DEF IInv, TypeOK, Called, Registered, Provenance,
    SingleFlight, Resolving, Outcome, Insert,
    Service!vars

LEMMA PublishService ==
  ASSUME IInv, NEW r \in Requests, Publish(r)
  PROVE  \E h \in Hosts : Service!Finish(h)
<1>1. PICK h \in Hosts : h = hedp[r]
  BY DEF IInv, Called, Publish
<1>2. Service!Finish(h)
  BY <1>1, NoEntryAssumption, NoHostAssumption
  DEF IInv, TypeOK, Called, Registered, Provenance,
      SingleFlight, Resolving, Outcome, Publish, Service!Finish
<1> QED
  BY <1>2

LEMMA StepService == IInv /\ [Next]_vars => [Service!Next]_(Service!vars)
<1> SUFFICES ASSUME IInv, [Next]_vars
             PROVE  Service!Next \/ UNCHANGED Service!vars
  OBVIOUS
<1> USE DEF Service!Next, Service!Resolution, Service!Answers, Answer
<1>1. CASE \E r \in Requests, h \in Hosts, d \in BOOLEAN : Hit(r, h, d)
  <2>1. PICK r \in Requests, h \in Hosts, d \in BOOLEAN : Hit(r, h, d)
    BY <1>1
  <2>2. edp_cache[h] \in Answer
    BY <2>1 DEF IInv, TypeOK, Hit
  <2> QED
    BY <2>1, <2>2, HitService
<1>2. CASE \E r \in Requests, h \in Hosts, d \in BOOLEAN : Miss(r, h, d)
  BY <1>2, MissService
<1>3. CASE \E r \in Requests : Receive(r)
  <2>1. PICK r \in Requests : Receive(r)
    BY <1>3
  <2>2. channel[r] \in Answer
    BY <2>1 DEF IInv, TypeOK, Receive
  <2> QED
    BY <2>1, <2>2, ReceiveService
<1>4. CASE \E r \in Requests : Timeout(r)
  BY <1>4, TimeoutService
<1>5. CASE \E r \in Requests : ConnectOk(r)
  BY <1>5, ConnectOkService
<1>6. CASE \E r \in Requests : ConnectFail(r)
  BY <1>6, ConnectFailService
<1>7. CASE \E r \in Requests : JoinOrResolve(r)
  BY <1>7, JoinOrResolveService
<1>8. CASE \E r \in Requests, e \in EdpLists : ResolveOk(r, e)
  <2>1. PICK r \in Requests, e \in EdpLists : ResolveOk(r, e)
    BY <1>8
  <2>2. hedp[r] \in Hosts /\ [edps |-> e, doh |-> doh[r]] \in Answer
    BY <2>1 DEF IInv, TypeOK, Called, Answer, ResolveOk
  <2> QED
    BY <2>1, <2>2, ResolveOkService
<1>9. CASE \E r \in Requests : ResolveFail(r)
  BY <1>9, ResolveFailService
<1>10. CASE \E r \in Requests : Insert(r)
  BY <1>10, InsertService
<1>11. CASE \E r \in Requests : Publish(r)
  BY <1>11, PublishService
<1>12. CASE UNCHANGED vars
  BY <1>12 DEF vars, Service!vars, Outcome
<1> QED
  BY <1>1, <1>2, <1>3, <1>4, <1>5, <1>6, <1>7, <1>8, <1>9, <1>10,
     <1>11, <1>12 DEF Next

\* slow_dns keeps its promise to its callers: a result for the host they
\* asked, or an exception, out of one resolution of the host at a time.
THEOREM Implementation == Spec => ImplementsService
  BY InitService, StepService, Invariance, PTL
  DEF Spec, ImplementsService, Service!Spec

=============================================================================
