------------------------------ MODULE SlowDns ------------------------------
(***************************************************************************)
(* slow_dns (dns.cpp) and its caller make_socket (socket_wrap.cpp).        *)
(*                                                                         *)
(* A request is one call of make_socket.  It looks the host up in          *)
(* edp_cache_, and on a miss spawns async_resolve on any thread of the     *)
(* io_context and waits for its channel or for the 8 s timer.  The spawned *)
(* task joins the running resolution of the host or becomes it.  Every     *)
(* action below is one stretch of code that holds one of the two locks, or *)
(* one completion between two suspension points: the threads interleave    *)
(* exactly there.  The endpoints of a host are an element of EdpLists.     *)
(***************************************************************************)
CONSTANTS
  Hosts,      \* host_edp values, the keys of both maps
  Requests,   \* calls of make_socket, each made once
  EdpLists,   \* what a resolution may return
  NoHost,     \* hedp of a request not made yet
  NoEntry     \* no value: a missing cache entry, an empty channel

\* A result remembers whether DoH produced it.
Answer == [edps : EdpLists, doh : BOOLEAN]

ASSUME NoEntryAssumption == NoEntry \notin Answer
ASSUME NoHostAssumption == NoHost \notin Hosts

VARIABLES
  edp_cache,        \* host -> result, NoEntry when the key is absent
  resolve_running,  \* host -> channels waiting, {} when the key is absent
  pc,               \* where the call of make_socket stands
  task,             \* where the async_resolve it spawned stands
  hedp,             \* the host the request names
  doh,              \* use_doh of the request
  el,               \* el, the local of the async_resolve it spawned
  channel,          \* the channel of capacity 1 it waits on
  host_list,        \* what resolve returned to make_socket
  known,            \* history: every result a resolution of the host gave
  abandoned         \* history: waiters whose list a failed resolution erased

vars == <<edp_cache, resolve_running, pc, task, hedp, doh, el, channel,
          host_list, known, abandoned>>

Init ==
  /\ edp_cache = [h \in Hosts |-> NoEntry]
  /\ resolve_running = [h \in Hosts |-> {}]
  /\ pc = [r \in Requests |-> "idle"]
  /\ task = [r \in Requests |-> "none"]
  /\ hedp = [r \in Requests |-> NoHost]
  /\ doh = [r \in Requests |-> FALSE]
  /\ el = [r \in Requests |-> NoEntry]
  /\ channel = [r \in Requests |-> NoEntry]
  /\ host_list = [r \in Requests |-> NoEntry]
  /\ known = [h \in Hosts |-> {}]
  /\ abandoned = {}

-----------------------------------------------------------------------------
(* The caller: make_socket and slow_dns_imp::resolve                       *)

\* The lookup under the shared lock finds the key: the result is returned.
Hit(r, h, d) ==
  /\ pc[r] = "idle"
  /\ edp_cache[h] # NoEntry
  /\ hedp' = [hedp EXCEPT ![r] = h]
  /\ doh' = [doh EXCEPT ![r] = d]
  /\ host_list' = [host_list EXCEPT ![r] = edp_cache[h]]
  /\ pc' = [pc EXCEPT ![r] = "connecting"]
  /\ UNCHANGED <<edp_cache, resolve_running, task, el, channel, known,
                 abandoned>>

\* It does not: the timer is armed, async_resolve spawned, the call waits.
Miss(r, h, d) ==
  /\ pc[r] = "idle"
  /\ edp_cache[h] = NoEntry
  /\ hedp' = [hedp EXCEPT ![r] = h]
  /\ doh' = [doh EXCEPT ![r] = d]
  /\ task' = [task EXCEPT ![r] = "spawned"]
  /\ pc' = [pc EXCEPT ![r] = "waiting"]
  /\ UNCHANGED <<edp_cache, resolve_running, el, channel, host_list, known,
                 abandoned>>

\* cc->async_receive() wins.
Receive(r) ==
  /\ pc[r] = "waiting"
  /\ channel[r] # NoEntry
  /\ host_list' = [host_list EXCEPT ![r] = channel[r]]
  /\ channel' = [channel EXCEPT ![r] = NoEntry]
  /\ pc' = [pc EXCEPT ![r] = "connecting"]
  /\ UNCHANGED <<edp_cache, resolve_running, task, hedp, doh, el, known,
                 abandoned>>

\* Variant: the timer's branch is taken for an answer.
TimeoutAnswers(r) ==
  /\ pc[r] = "waiting"
  /\ pc' = [pc EXCEPT ![r] = "connecting"]
  /\ UNCHANGED <<edp_cache, resolve_running, task, hedp, doh, el, channel,
                 host_list, known, abandoned>>

\* Variant: the call waits for its channel alone.
NoTimeout(r) == FALSE /\ UNCHANGED vars

\* t.async_wait() wins, whatever the spawned task is doing.
Timeout(r) ==
  /\ pc[r] = "waiting"
  /\ pc' = [pc EXCEPT ![r] = "threw"]
  /\ UNCHANGED <<edp_cache, resolve_running, task, hedp, doh, el, channel,
                 host_list, known, abandoned>>

ConnectOk(r) ==
  /\ pc[r] = "connecting"
  /\ pc' = [pc EXCEPT ![r] = "connected"]
  /\ UNCHANGED <<edp_cache, resolve_running, task, hedp, doh, el, channel,
                 host_list, known, abandoned>>

\* Variant: remove_svc empties the list and keeps the key.
ConnectFailEmpties(r) ==
  /\ pc[r] = "connecting"
  /\ edp_cache' = [edp_cache EXCEPT ![hedp[r]] =
                     [edps |-> {}, doh |-> doh[r]]]
  /\ pc' = [pc EXCEPT ![r] = "refused"]
  /\ UNCHANGED <<resolve_running, task, hedp, doh, el, channel, host_list,
                 known, abandoned>>

\* async_connect fails: remove_svc erases the key, whatever it holds by now.
ConnectFail(r) ==
  /\ pc[r] = "connecting"
  /\ edp_cache' = [edp_cache EXCEPT ![hedp[r]] = NoEntry]
  /\ pc' = [pc EXCEPT ![r] = "refused"]
  /\ UNCHANGED <<resolve_running, task, hedp, doh, el, channel, host_list,
                 known, abandoned>>

-----------------------------------------------------------------------------
(* The detached task: async_resolve                                        *)

\* Variant: nobody looks for a running resolution.
RoleAlways(h) == "resolving"

\* Whoever finds no entry resolves; whoever finds one has joined it.
Role(h) == IF resolve_running[h] = {} THEN "resolving" ELSE "joined"

\* Variant: the entry is assigned, not extended.
WaitListAlone(r, h) == {r}

\* The channels of the entry after r registered.
WaitList(r, h) == resolve_running[h] \cup {r}

\* Under rmutex_: join the list of the host's resolution, or open one.
JoinOrResolve(r) ==
  LET h == hedp[r] IN
  /\ task[r] = "spawned"
  /\ resolve_running' = [resolve_running EXCEPT ![h] = WaitList(r, h)]
  /\ task' = [task EXCEPT ![r] = Role(h)]
  /\ UNCHANGED <<edp_cache, pc, hedp, doh, el, channel, host_list, known,
                 abandoned>>

ResolveOk(r, e) ==
  LET a == [edps |-> e, doh |-> doh[r]] IN
  /\ task[r] = "resolving"
  /\ el' = [el EXCEPT ![r] = a]
  /\ known' = [known EXCEPT ![hedp[r]] = @ \cup {a}]
  /\ task' = [task EXCEPT ![r] = "inserting"]
  /\ UNCHANGED <<edp_cache, resolve_running, pc, hedp, doh, channel,
                 host_list, abandoned>>

\* Variant: the exception leaves the entry where it is.
ResolveFailKeeps(r) ==
  /\ task[r] = "resolving"
  /\ task' = [task EXCEPT ![r] = "ended"]
  /\ UNCHANGED <<edp_cache, resolve_running, pc, hedp, doh, el, channel,
                 host_list, known, abandoned>>

\* The catch block: the entry goes, the channels in it are told nothing.
ResolveFail(r) ==
  LET h == hedp[r] IN
  /\ task[r] = "resolving"
  /\ abandoned' = abandoned \cup resolve_running[h]
  /\ resolve_running' = [resolve_running EXCEPT ![h] = {}]
  /\ task' = [task EXCEPT ![r] = "ended"]
  /\ UNCHANGED <<edp_cache, pc, hedp, doh, el, channel, host_list, known>>

\* Variant: insert_or_assign, the late resolution wins.
InsertAssigns(r) ==
  /\ task[r] = "inserting"
  /\ edp_cache' = [edp_cache EXCEPT ![hedp[r]] = el[r]]
  /\ task' = [task EXCEPT ![r] = "publishing"]
  /\ UNCHANGED <<resolve_running, pc, hedp, doh, el, channel, host_list, known,
                 abandoned>>

\* Variant: a failed insert is ignored.
InsertIgnores(r) ==
  LET h == hedp[r] IN
  /\ task[r] = "inserting"
  /\ edp_cache' = [edp_cache EXCEPT ![h] = IF @ = NoEntry THEN el[r] ELSE @]
  /\ task' = [task EXCEPT ![r] = "publishing"]
  /\ UNCHANGED <<resolve_running, pc, hedp, doh, el, channel, host_list, known,
                 abandoned>>

\* Under smutex_: insert, or take over the entry that is there already.
Insert(r) ==
  LET h == hedp[r] IN
  /\ task[r] = "inserting"
  /\ IF edp_cache[h] = NoEntry
     THEN /\ edp_cache' = [edp_cache EXCEPT ![h] = el[r]]
          /\ UNCHANGED el
     ELSE /\ el' = [el EXCEPT ![r] = edp_cache[h]]
          /\ UNCHANGED edp_cache
  /\ task' = [task EXCEPT ![r] = "publishing"]
  /\ UNCHANGED <<resolve_running, pc, hedp, doh, channel, host_list, known,
                 abandoned>>

\* Under rmutex_: try_send to every channel of the entry, then erase it.  A
\* full channel would refuse; one nobody waits on any more buffers in vain.
Publish(r) ==
  LET h == hedp[r] IN
  /\ task[r] = "publishing"
  /\ channel' = [q \in Requests |->
                   IF q \in resolve_running[h] /\ channel[q] = NoEntry
                   THEN el[r] ELSE channel[q]]
  /\ resolve_running' = [resolve_running EXCEPT ![h] = {}]
  /\ task' = [task EXCEPT ![r] = "ended"]
  /\ UNCHANGED <<edp_cache, pc, hedp, doh, el, host_list, known, abandoned>>

-----------------------------------------------------------------------------
Next ==
  \/ \E r \in Requests, h \in Hosts, d \in BOOLEAN : Hit(r, h, d)
  \/ \E r \in Requests, h \in Hosts, d \in BOOLEAN : Miss(r, h, d)
  \/ \E r \in Requests : Receive(r)
  \/ \E r \in Requests : Timeout(r)
  \/ \E r \in Requests : ConnectOk(r)
  \/ \E r \in Requests : ConnectFail(r)
  \/ \E r \in Requests : JoinOrResolve(r)
  \/ \E r \in Requests, e \in EdpLists : ResolveOk(r, e)
  \/ \E r \in Requests : ResolveFail(r)
  \/ \E r \in Requests : Insert(r)
  \/ \E r \in Requests : Publish(r)

(* The io_context runs every handler that is ready and the system resolver *)
(* answers or fails; DoH has no timeout anywhere, so nothing makes a DoH   *)
(* resolution end, and nothing makes a caller call.                        *)
ResolveEnds(r) == (\E e \in EdpLists : ResolveOk(r, e)) \/ ResolveFail(r)
PlainResolveEnds(r) == ~doh[r] /\ ResolveEnds(r)

Fairness ==
  \A r \in Requests :
    /\ WF_vars(JoinOrResolve(r))
    /\ WF_vars(PlainResolveEnds(r))
    /\ WF_vars(Insert(r))
    /\ WF_vars(Publish(r))
    /\ WF_vars(Receive(r))
    /\ WF_vars(Timeout(r))
    /\ WF_vars(ConnectOk(r) \/ ConnectFail(r))

Spec == Init /\ [][Next]_vars /\ Fairness

-----------------------------------------------------------------------------
(* Properties                                                              *)

TypeOK ==
  /\ edp_cache \in [Hosts -> Answer \cup {NoEntry}]
  /\ resolve_running \in [Hosts -> SUBSET Requests]
  /\ pc \in [Requests -> {"idle", "waiting", "connecting", "connected",
                          "refused", "threw"}]
  /\ task \in [Requests -> {"none", "spawned", "joined", "resolving",
                            "inserting", "publishing", "ended"}]
  /\ hedp \in [Requests -> Hosts \cup {NoHost}]
  /\ doh \in [Requests -> BOOLEAN]
  /\ el \in [Requests -> Answer \cup {NoEntry}]
  /\ channel \in [Requests -> Answer \cup {NoEntry}]
  /\ host_list \in [Requests -> Answer \cup {NoEntry}]
  /\ known \in [Hosts -> SUBSET Answer]
  /\ abandoned \in SUBSET Requests

Resolving(r) == task[r] \in {"resolving", "inserting", "publishing"}

\* Two tasks never resolve the same host at once (dns.cpp:276-293): whoever
\* looks while a resolution runs joins it.  And the iterator that the publisher
\* dereferences at dns.cpp:343 without a test is never end(): the entry it
\* opened is still there, with itself in it, after the unlocked resolution and
\* the insertion under the other lock.
SingleFlight ==
  /\ \A q, r \in Requests :
       Resolving(q) /\ Resolving(r) /\ hedp[q] = hedp[r] => q = r
  /\ \A r \in Requests : Resolving(r) => r \in resolve_running[hedp[r]]

\* An entry of resolve_running_ always has a task that will erase it: none
\* is left behind to make every later caller of the host wait in vain.
EntryHasResolver ==
  \A h \in Hosts : resolve_running[h] # {} =>
    \E r \in resolve_running[h] : hedp[r] = h /\ Resolving(r)

\* What the publisher is about to send is what the cache holds, unless a
\* failed connection removed the entry meanwhile (dns.cpp:326-332): callers
\* that join and callers that hit never get different endpoints.
Coherent ==
  \A r \in Requests : task[r] = "publishing" =>
    edp_cache[hedp[r]] \in {el[r], NoEntry}

\* A caller that waits after its task registered is in the list of a running
\* resolution, or its result is in its channel, or the resolution it joined
\* failed: no interleaving of registration and publication loses the wake-up.
NoLostWakeup ==
  \A r \in Requests :
    pc[r] = "waiting" /\ task[r] # "spawned" =>
      \/ r \in resolve_running[hedp[r]]
      \/ channel[r] # NoEntry
      \/ r \in abandoned

\* An entry of the cache is only ever removed, never replaced by another: a
\* second resolution that ends late does not overwrite (dns.cpp:328-331).
EntryStable ==
  [][\A h \in Hosts :
       edp_cache[h] # NoEntry => edp_cache'[h] \in {edp_cache[h], NoEntry}]_vars

\* slow_dns as its callers see it: each gets a result for the host it asked
\* or an exception, from one resolution of the host at a time.
Outcome(r) ==
  CASE pc[r] = "idle" -> "idle"
    [] pc[r] = "waiting" -> "pending"
    [] pc[r] = "threw" -> "threw"
    [] OTHER -> "answered"
Service ==
  INSTANCE DnsService WITH
    EdpLists <- EdpLists, NoAnswer <- NoEntry,
    outcome <- [r \in Requests |-> Outcome(r)],
    asked <- hedp, doh <- doh, answer <- host_list, known <- known,
    busy <- {h \in Hosts : resolve_running[h] # {}}
ImplementsService == Service!Spec

\* A call ends although DoH may hang: the timer, not the resolver, bounds it
\* ("unfinished requests fail by timeout in time", dns.cpp:255).
RequestEnds ==
  \A r \in Requests :
    pc[r] = "waiting" ~> pc[r] \in {"connected", "refused", "threw"}

\* A plain resolution, whether it succeeds or throws, always frees its host
\* for the next caller (dns.cpp:322, 344).
HostFreed ==
  \A r \in Requests, h \in Hosts :
    Resolving(r) /\ hedp[r] = h /\ ~doh[r] ~> resolve_running[h] = {}
=============================================================================
