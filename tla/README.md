# hcpp in TLA+

hcpp is an HTTP proxy written with C++20 coroutines on asio. It forwards plain
HTTP requests, tunnels `CONNECT`, and for hosts named in its configuration it
terminates TLS itself with a certificate signed by a CA of its own (MITM), so
that it can resolve the host over HTTPS (DoH) and omit or fake the SNI.

This directory holds TLA+ modules of the parts of hcpp in which something can
go wrong between two steps, the TLC configurations that check them on small
instances, and TLAPS proofs for every instance of what matters most.
`PROJECT.json` lists components, runs, the source lines behind every
definition, the hazards of the code and the theorems.

Paths below are relative to the repository, `dns.cpp:280` standing for
`src/dns.cpp` line 280.

    tlc -workers 2 -config MCSlowDns.cfg MCSlowDns     # check
    tlapm SlowDnsProofs.tla                            # prove


## 1. The system

### 1.1 Parts and how they interact

    client --> wait_http --> http_do ---- plain --> make_socket --> origin
                                |                       |
                                |                    slow_dns --> getaddrinfo
                                |                       +-------> DoH providers
                                +-- CONNECT --> socket_tunnel --> origin
                                |
                                +-- CONNECT, mitm --> channel_tunnel
                                                        | socket_channel (10)
                    http_do (tls) <-- init_ <-- wait_c <+      (second server,
                         |              |                        one thread)
                       origin   server_subject_map, CA files

| part | state | operations | calls, shares |
|---|---|---|---|
| `slow_dns` (`dns.cpp`) | `edp_cache_` under `smutex_`, `resolve_running_` (host to waiting channels) under `rmutex_` | `resolve`, `async_resolve`, `remove_svc` | every thread, through `make_socket` |
| `dnshttps` (`dns/dnshttps.cc`) | one exchange with each provider | `get`, `parse_rfc8484`, name codecs | called by `resolve` in `dns.cpp` |
| `socket_memory`, `ssl_sock_mem` | blocks `buffs_`, `read_index_`, `write_index_`, `read_ok_`, `write_ok_` | loads, `get_some`, `remove_some`, `merge_some`, `reset`, writes | every reader and writer of a connection |
| `socket_tunnel` (`http/tunnel.cpp`) | two memories, their flags, two pumps | `make_tunnel`, `bind_read`, `bind_write` | two or three coroutines on any threads |
| `http_handler::http_do` (`httpserver.cpp`) | host and settings of the last request, client memory | the loop of one client | keepers, parsers, tunnels |
| `transfer_mem*`, `KMP` (`hmemory.h`, `untrust/kmp.h`) | search state carried over pieces | relay by length, by chunk, to an empty line | `http_do` |
| `mimt_https_server`, `mitm_svc` | `server_subject_map`, `socket_channel` | `wait_c`, `init_`, `make_memory`, `make` | fed by `channel_tunnel` on other threads |
| `config_to(mimt_https_server&)` | two files | load, or make and store the CA | once at every start |
| intercept table (`httpserver.cpp`, `config.cpp`) | exact and wildcard rules; per connection the host last asked for and its settings | `config_to`, `add_intercept`, `find` | read by `http_do`, decides who resolves how |
| `certificate/`, TLS setup, `os/`, lsf | none of their own | OpenSSL and library calls | |

### 1.2 What is hard, and what correct means

- **Name resolution.** Requests for one host arrive on every thread. There are
  two maps under two locks that are never held together, a detached task, an
  8 second timer, exceptions, and callers that remove a cached entry when a
  connection fails. Correct: one resolution per host at a time; nobody who
  joined it is forgotten; no cached result is overwritten by a late one; every
  call ends; a failure leaves nothing behind.
- **The read buffer.** Header parsing, body relay and pipelining load, consume
  part, merge and reset in any order. Correct: the reader sees the stream.
- **The tunnel.** Two pumps end each other by setting flags on shared objects
  while each may be suspended with a chunk in hand. Correct: bytes stay in
  order, are lost only when something failed, and both pumps end. The code does
  not keep the second for what came with the `CONNECT`: those bytes are always
  lost.
- **The request loop.** Either side may close at any suspension; answers end
  by length, by chunk or by closing. Correct: the client receives the answer
  of its own request, in order, and every request is answered or its
  connection ends. The code leaves requests unanswered in several ways, and
  waits for ever for an origin that says nothing (section 4).
- **MITM.** A socket changes hands between two servers through a bounded
  channel; coroutines race for one certificate. Correct: the socket is never
  dropped or shared, no certificate is shown before the origin was verified,
  and no stuck peer holds up another client. The code keeps the last for the
  handshakes, not for a shutdown: there one silent peer stops the thread that
  all intercepted clients share.
- **The CA files.** Two files are written one after the other and may be cut
  anywhere. Correct: a key is not used with a foreign certificate, and a stored
  pair stays.
- **DoH.** Bytes from a provider are decoded by hand. Correct: only the host's
  own addresses, all of them, from a query a provider understands; and an end,
  which the code does not reach with a provider that says nothing.
- **Chunked bodies.** Size lines and the end of a body arrive in any pieces and
  are searched across them. Correct: the relay follows the chunks, neither
  losing nor adding a byte nor waiting for one that will not come.
- **Settings.** What a host asks for (interception, DoH, another name) is kept
  from one request of a connection to the next, through a cache shared by all.
  Correct: a request is treated as its own host's rule says.

`PROJECT.json` lists under `hazards` each of these places at its line with the
properties that cover it, and says why where none does.


## 2. Modules and plan

The most shared state came first. The modules in the order they were written:

| # | module | models | depends on | proofs |
|---|---|---|---|---|
| 1 | `DnsService` | what `slow_dns` promises (abstract) | | |
| 2 | `SlowDns` | `slow_dns` and `make_socket` | refines `DnsService` | `SlowDnsProofs` |
| 3 | `SocketMemory` | the read buffer | refines `ByteStream` | `SocketMemoryProofs` |
| 4 | `Tunnel` | `socket_tunnel` | | `TunnelProofs` |
| 5 | `HttpDo` | the request loop, both flavours | | `HttpDoProofs` |
| 6 | `CaStore` | the CA files | | `MitmProofs` |
| 7 | `Mitm` | hand-over, handshakes, certificate cache | | `MitmProofs` |
| 8 | `DnsName`, `DohProvider`, `Doh` | DoH, byte by byte | `Doh` extends both | `DohProofs` |
| 9 | `ChunkRelay` | `transfer_chunk`, `transfer_mem`, `transfer_mem_until`, `KMP` | | `ChunkRelayProofs` |
| 10 | `Intercept` | rules, `find`, settings of a connection, who is resolved how | composes with `DnsService` | `InterceptProofs` |
| 11 | `ByteStream` | a FIFO of bytes (abstract) | | |

`Intercept` takes of `slow_dns` only what `DnsService` promises, and `SlowDns`
is proved to keep that promise, so what holds for `Intercept` does not depend
on how the cache is done. What could come next is a module for the text of
heads (`parser_header` keeps one of two headers of the same name) and one for
shutdown.

Every module takes its sizes as CONSTANTS with a named ASSUME, has one action
per operation or stretch between two suspension points, and states invariants
as named conjuncts. `Variant:` operators beside a definition are plausible
faults of it; each property of a passing run is violated by one of them (the
`mutants` of `PROJECT.json`).


## 3. The modules

### 3.1 SlowDns and DnsService

A *request* is one call of `make_socket` (`http/socket_wrap.cpp:180`). `pc[r]`
is where that call stands, `task[r]` where the `async_resolve` it spawned
stands. Each action is one lock scope or one completion:

| action | code |
|---|---|
| `Hit`, `Miss` | lookup under the shared lock, `dns.cpp:235-260`; a miss spawns and waits |
| `JoinOrResolve` | under `rmutex_`, `dns.cpp:276-293`: add the channel to the host's list, or open one and resolve |
| `ResolveOk`, `ResolveFail` | end of `resolve`; the catch block erases the list and tells nobody |
| `Insert` | under `smutex_`, `dns.cpp:326-332`: insert, or take over what is there |
| `Publish` | under `rmutex_`, `dns.cpp:334-345`: send to all channels, erase |
| `Receive`, `Timeout` | `async_receive() \|\| t.async_wait()`; after a timeout the channel stays in the list |
| `ConnectOk`, `ConnectFail` | the failed connection calls `remove_svc` |

`load_hm` and `save_hm` return at once because `dns_path_` is never assigned.
History variables `known` and `abandoned` remember what was resolved and who
was in the list of a failed resolution.

`DnsService` is what a caller may rely on: a request ends with a result of some
resolution of its own host, made in a way (plainly or over HTTPS) that some
request for the host asked for, or with an exception; and a host is in at most
one resolution. It does not say that a request for DoH gets what DoH found: the
cache and the running resolutions do not tell. `ImplementsService` maps
`resolve_running` to `busy`, `host_list` to `answer`.

### 3.2 SocketMemory

A byte is its position in the peer's stream, a block a begin index and the set
of positions it holds. Loads add a block, `RemoveSome` erases consumed blocks
from the front, `MergeSome` joins, `Reset` forgets. `Holds` narrows the lookup
key to a signed int as the comparators do (`socket_wrap.cpp:18-23`). Each call
is one action because a memory is used by one coroutine at a time
(`socket_wrap.h:17`).

`ByteStream` is what the reader should see of it: bytes arrive in order, some
beginning of the unread ones is shown, the reader takes beginnings of that.
`ImplementsByteStream` maps the union of the blocks to `unread` and `get_some` to
`front`. Only a `load_until` that ends in EOF may lose bytes, and it says so.

### 3.3 Tunnel

`maker` is `make_tunnel`, `pump[d]` the pump of direction d. A pump checks
`ok()` (the flags of *both* memories), loads at most `MaxChunk` bytes, writes
them, and repeats; a failed load is noted and its empty result written like
any other. `early` are the client's bytes that came with its CONNECT and stay
in the buffer: `InOrder` counts from behind them, and `OnlyEarlyLost` says that
without a failure they are lost and nothing else is. Peers send, half-close and
reset whenever they like.

### 3.4 HttpDo

The loop of one client connection, for the plain proxy (`tls = FALSE`) and
behind a MITM handshake (`tls = TRUE`). A message is a few tokens: a head,
units of body, the last chunk. `Script` names the kinds of answers: without a
body, with a length, cut short, chunked, with a bad chunk, ended by closing,
without a valid head, with a length and no body (HEAD, 304), after an interim
1xx, none at all. The origin sends token by token and a read
returns any number of them. `spin` is a `transfer_mem` or `transfer_chunk`
whose source has ended.

An empty write ends a TLS connection: `PutNothing` sends a close_notify and
goes to `closing`, where `ssl_sock_->shutdown()` waits for the client's, as in
`closingup` for the origin's when a client leaves in the middle of a body.
`ShutDown` is its return or its exception. `Leftover` is what a head that did
not parse leaves in the memory of an origin's connection: behind a MITM the next
request meets the end of stream, parses the remains again and gets a second 500
(`ReadHeadLeftover`), on a connection that stays.

### 3.5 Mitm

From the 200 line of an intercepted CONNECT to the loop above. `cc` follows
the socket, `chan` is the `socket_channel`, `coro` the coroutine that `wait_c`
spawned, `cache` is `server_subject_map`. `stuck` is chosen at the start and
says which peer of a client, if any, never answers: its origin or itself in the
handshake, or the side a close_notify is sent to later. The coroutines of the
MITM server share one thread. `EmptyWrite` is the moment a served connection
ends in `ssl_sock_->shutdown()`, which blocks that thread until `ShutDown`;
meanwhile no lookup or handshake goes on (`ThreadFree`). The handlers and
`wait_c` itself run on the threads of the proxy.

### 3.6 CaStore

A file is the pair it belongs to and how much of it was written; opening
truncates. `End` is an exit or a kill anywhere. `torn` remembers a write that
was cut (nobody looks at the stream), `orphan` that a user removed a key from
under its certificate.

### 3.7 ChunkRelay

A chunked body as bytes: hexadecimal digits, CR, LF and x for any other, in
every division into pieces. `LoadLine`, `ReadSize` and `NoLine` are the loop of
`transfer_chunk` over the line with a size (at most 18 bytes, `LineMax`);
`MoveBuffered` and `LoadData` are `transfer_mem`; `Until` and `LoadRest` are
`transfer_mem_until`, whose search object (`kmp`) survives from piece to piece.
`hex_str_to` reads what `hex_reg` matches, with its zeros; `GoesOn` and `Cut`
compute in `size_t`. `Fronts` are the beginnings of the body up to each chunk
and `Starts` their lengths: the places where chunks begin.

### 3.8 DnsName, Doh, DohProvider

`DnsName` has the codecs of `dnshttps.cc`: `host2qname`, `qname2host`,
`b64url_encode`, `make_query`. `Doh` has one resolution: `resolve` of `dns.cpp`
connects to each provider, shakes hands (`Handshake`) and asks, `get` reads head
and body, `parse_rfc8484` collects.
`DohProvider` is not hcpp: it decodes the query by the RFCs and builds messages
from records, so that what a message says is known without decoding it.
A `Doh` behaviour is one `ResolveOk` or `ResolveFail` of `SlowDns` with `doh`.

### 3.9 Intercept

`rules` is the configuration, `direct_filter` and `star_map` are the two tables
`config_to` makes of it, `find` is the lookup. `host`, `svc` and `is` are the
locals of `http_do` that outlive a request: `Request` looks the settings up only
when host or port differ from those the last request *went to*, after the rule
had replaced the host. `via` says who connects: the keeper, a tunnel, or the
MITM. `Ask` is `make_socket`, from there on the steps are those of `DnsService`.


## 4. The runs

States are distinct states found by TLC.

| run | states | bounds | shows |
|---|---|---|---|
| `dns` | 278 485 | 1 host, 3 requests, 2 results | `SingleFlight`, `Coherent`, `NoLostWakeup`, `EntryStable`, refinement of `DnsService`, `RequestEnds`, `HostFreed` |
| `memory_safety` | 2 490 | 7 bytes | `AlwaysInserted`, refinement of `ByteStream` |
| `tunnel` | 54 594 | 2 bytes up, 3 down, chunks of 2, 1 early | `InOrder`, `OnlyEarlyLost`, `Released` |
| `http` | 120 771 | 2 requests, 6 kinds of request, 12 of answer, both flavours | `Faithful`, `AnsweredOrEnded`, `Released` |
| `ca_store` | 1 006 | 4 pairs | `NeverMixed`, `WholeUnlessTorn`, `PairStays` |
| `mitm` | 66 929 | 3 clients, 2 hosts, channel of 1 | `OneOwner`, `VerifiedFirst`, `CacheStays`, `NotHeldUp` |
| `chunked` | 33 375 | up to 2 chunks of 7 kinds, 6 bytes behind the last line, pieces of up to 5, lines of up to 4 | `KmpExact`, `Framed`, `RelayEnds` |
| `doh` | 21 794 | 2 providers, 11 kinds of answer, 9 hosts, bodies in 2 pieces | `Understood`, `OnlyOwn`, `AllFound`, `DohEnds` |
| `intercept` | 1 667 048 | 2 connections, 2 requests each, 3 names, 1 port, 4 configurations | `OwnSettings`, `DohKept` |

Why the bounds are enough:

- *dns.* Three requests are a publisher, a waiter and a late comer that may
  open a second resolution while the first is between its two locks. Hosts are
  different keys of the same maps; no action touches two. Two results tell a
  stale one from a fresh one. The proofs remove the bounds for safety.
- *memory.* Seven bytes make three blocks of which one is partly consumed,
  before and after a merge and a reset. `IntMax` is above the stream; the
  proofs need exactly that assumption.
- *tunnel.* With two chunks in one direction a pump can be in every place of
  its loop with the other's failure falling before, between and after.
- *http.* The state of the loop that outlives a request is what the second
  request meets; scripts have up to three tokens, so a read ends between any
  two parts.
- *ca_store.* A pair, its replacement cut short, and another one need three.
- *mitm.* Two clients race for one host while the third is stuck in a handshake
  or has stopped the thread; one place makes senders wait, as ten do with eleven
  clients. The run begins with one of all choices that differ in the names of
  clients and hosts only (`MCInit`); with all of them it has 520 318 states.
- *chunked.* Six bytes behind the last line hold a plain end, one with a
  trailer of a letter, and every cut within the pattern; two chunks, one after
  the other, are what shifts when a position is off by one. Lines of four bytes
  fit two digits and CR LF as eighteen fit sixteen, and one of the chunks has a
  line that is too long. A size above two adds nothing: no byte of data is
  looked at, but for those that look like a line, which the chunks have.
- *intercept.* Two requests are one that leaves settings behind and one that
  meets them; two connections share what `slow_dns` knows. Three names are one
  that is replaced, what it is replaced by, and one that a wildcard matches.
  Two ports are two hosts to every comparison; the proofs remove these bounds.
- *doh.* One provider cannot show what a second one's failure does to the
  first one's answers. The hosts are on each side of what the codecs tell apart:
  refused, of one label and more, in capitals, with a dot at the end, with labels
  of more than 63 bytes, one that differs from the other name in the messages by
  case only, and one behind whose question no pointer reaches.

Deadlock is not checked: all these systems may come to rest (all calls made,
all peers gone).

### Where code and documents disagree

Three runs expect a violation, one property each:

| run | property | what TLC finds |
|---|---|---|
| `tunnel_writers` | `OneWriter` | a pump writes to the client while `make_tunnel` still writes the 200 line (`socket_wrap.h:17`: not thread-safe) |
| `doh_alias` | `AliasResolves` | a CNAME among the answers is taken for an address and the resolution throws (`dnshttps.cc:597`) |
| `intercept_doh` | `DohAsConfigured` | a `CONNECT` to a host with DoH and without interception is resolved plainly: the tunnel does not get the settings (`intercept.h:15`) |

### What the passing properties leave out, and why

Several properties hold with exceptions that are written into them. They are
behaviours of the code:

- `HttpDo!Unanswered`: a request is left without an answer on a connection
  that stays open when it came in one read with the one before (`reset()` at
  the head of the loop), when it could not be parsed (the 400 announces 16
  bytes and carries 12), when its answer does not begin with a head (the 500 has
  no length) and, behind a MITM, when it comes after such a one: what is left of
  the bad head is parsed again (`http_svc_keeper.cpp:322`) and the request gets a
  500 of the same kind (`httpserver.cpp:184`). On the plain proxy also when the
  origin closes at once, ends its body by closing (the `co_return` at
  `httpserver.cpp:151` is commented out), or sends an interim head first, which is
  taken for the final one.
- `AnsweredOrEnded` and `Released` except a transfer whose source has ended
  (`spin`): `transfer_mem` and `transfer_chunk` loop for ever when an origin
  closes inside its body, or after the head of an answer to HEAD. The
  comparison with a short transfer at `httpmsg.cpp:114` is not reached.
- They also except an origin that is silent for ever (`[]Silent`): one that does
  not begin its answer (`httpserver.cpp:104`), or does not answer the
  close_notify of an upload the client left (`ssl_socket_wrap.cpp:98`). The loop
  has no timeout and does not watch the client while it waits, so a client that
  goes meanwhile does not end it.
- `Tunnel!InOrder` and `OnlyEarlyLost` count from `early`: no pump looks into the
  buffer that the header was read into, so what a client sends right behind its
  `CONNECT` is lost although nothing failed (`tunnel.cpp:115`), against
  `hmemory.h:34`. `OnlyEarlyLost` states this loss and that there is no other.
- `Mitm!NotHeldUp` excepts `ThreadStuck`: the shutdown of a served connection is
  synchronous (`ssl_socket_wrap.cpp:98`) and on the thread of all intercepted
  clients; while its other side neither answers nor closes, all of them wait,
  against `httpserver.cpp:280`. A peer that is stuck in a handshake holds up
  nobody.
- `Mitm!VerifiedFirst` is about the host the `CONNECT` went to. A rule with
  `url_` has replaced the host before (`httpserver.cpp:49`), so the client may
  be shown a certificate of another host than it named.
- `Tunnel` has no promise for a half-close alone: the `shutdown` calls are
  commented out (`tunnel.cpp:71`), so the other side is not told.
- `CaStore`: after a key alone was removed, the new key is stored in front of
  the old certificate; a kill in that moment leaves a mixed pair (`orphan`).
  An empty certificate file left by a kill is loaded at every later start
  (`torn`).
- `ChunkRelay!Framed` is exact for an `Ordinary` body: sizes without zeros in
  front, lines of up to 18 bytes with no CR LF inside, the end `0 CRLF CRLF`. A size sent as `0a` is
  read as 0 (`httpmsg.cpp:58`); with trailers, more zeros or an extension
  `KMP::search` may return a position it noted before, which `hmemory.h:149` and
  `160` take for a match: the rest is cut. Its last conjunct, `KmpExact` and
  `TypeOK` are about every body that ends with an empty line.
- `Doh!OnlyOwn` and `AllFound` exclude messages with pointers beyond byte 255
  (`Near`), of which `qname2host` uses the low byte only (`dnshttps.cc:180`).
  For a host of more than 237 bytes that is every pointer to an answer. The
  proof of `Completeness` found that case, and the runs now have such a host.
- `Doh!DohEnds` excepts providers that close inside their body, where `get`
  loops for ever (`dnshttps.cc:474`), and those that stay silent in the TLS
  handshake (`dns.cpp:106`) or before the head of their answer
  (`dnshttps.cc:439`): no step of the exchange has a timeout.
- `Intercept!OwnSettings` lets a request that names a host directly go there
  with the settings of another host that is replaced by it, if an earlier
  request of the connection named that one (`httpserver.cpp:44-59`).
- `Intercept!Configured` has one wildcard rule, the first: `star_map` is keyed
  by the number of groups of a match (`config.cpp:115`), which is always the
  same, so that the other wildcard rules are lost is not caught by
  `OwnSettings`. The rule `*` becomes a pattern for names that end with a dot.
- `Intercept!Matches` compares labels. Only the dots of the stars are escaped in
  the expression (`config.cpp:128`): a dot inside the name of a rule also matches
  any other character of a host. `find` and `Configured` use the same operator, so
  no property tells.
- `SocketMemory!RemoveSome` takes at most what `get_some` shows. The code has no
  such check; its callers keep to it but for the pumps of a tunnel, which
  remove what they loaded (`tunnel.cpp:118`) with the early bytes still in
  front. No pump uses `get_some`, so nobody reads the buffer after that.
- `Intercept!DohKept` is about hosts that are intercepted and have DoH under
  every name that leads to them; another request for the same host puts what
  it found plainly into the cache that all share.
- `host2qname` splits a label of more than 63 bytes, but not the last one,
  although the comment at `dnshttps.cc:64` speaks of all; `Understood` is about
  names the DNS can hold.
- `SlowDns`: the waiters of a resolution that throws sit out their 8 seconds
  (`abandoned` in `NoLostWakeup`).

`socket_wrap.cpp:89` has an assertion that is commented out with the remark
that it sometimes fails. `AlwaysInserted` is that assertion and is proved for
one user at a time, so a failure must come from two coroutines in one memory
(compare `OneWriter`) or from a stream longer than an int.

Read and not modelled: a server's greeting that comes with the client's hello
is lost at `mitm_svc.cpp:194`; `hardware_concurrency() % 32` leaves a machine of
32 cores with the main thread alone; of two headers of one name, and of a folded
one, `parser_header` keeps one line (`httpmsg.cpp:35`).


## 5. Fairness

Safety properties need none. For liveness each module states which steps are
taken when they stay possible, and why:

- A coroutine that can run is run: the `io_context` threads run every handler
  that is ready (weak fairness on the steps of the program).
- `SlowDns`: the system resolver answers or fails, so `ResolveEnds` is fair for
  plain requests only. A DoH exchange has no timeout, and gets no fairness:
  `RequestEnds` holds all the same because the timer is fair; `HostFreed` is
  claimed for plain resolutions only.
- `Tunnel`: an operation that can complete does. Nothing makes a peer send or
  close.
- `HttpDo`: an origin that has begun an answer (`osent > 0`) goes on with it and
  closes behind it if it is one to close; it need not begin one. A client sends
  the body it announced, unless it leaves. Peers that stay read what they are
  sent. Nobody need answer a close_notify: `ShutDown` is only fair when the other
  side has closed its socket.
- `Mitm`: strong fairness on `Send`, since the channel serves waiting senders
  in their order; peers answer unless they are `stuck`. Lookups and handshakes
  are fair while the thread is free: each connection occupies it once, for a
  finite time unless `stuck`, so that weak fairness on them is enough. A served
  connection need not end (`EmptyWrite` is not fair).
- `ChunkRelay`: the origin sends or closes.
- `Doh`: connecting ends one way or the other, and a provider that has sent a
  head sends its body unless it closes inside it. It need not finish the
  handshake nor send a head (`Silent`). This is `WF_vars(~Silent /\ Next)` with
  its ENABLED written out (`Moves`), which TLC evaluates much faster.
- `CaStore` and `Intercept` have no liveness property.


## 6. The proofs

| module | theorems | for every |
|---|---|---|
| `SlowDnsProofs` | `TypeCorrect`, `OneResolutionPerHost`, `PublisherCoherent`, `NoWakeupLost`, `CacheStable`, `Implementation`, `Invariance` | set of hosts, requests, results |
| `SocketMemoryProofs` | `TypeCorrect`, `InsertionNeverFails`, `Implementation` | stream and load of any length; streams up to `IntMax` |
| `TunnelProofs` | `TypeCorrect`, `DeliveredInOrder`, `OnlyEarlyBytesLost`, `Invariance` | stream, chunk and early bytes of any length |
| `HttpDoProofs` | `TypeCorrect`, `AnswersFaithful`, `Invariance` | number and kind of requests and answers |
| `MitmProofs` | of `Mitm`: `TypeCorrect`, `SocketHasOneOwner`, `NeverShownUnverified`, `CertificateStays`, `Invariance` | set of clients and hosts, channel size |
| | of `CaStore`: `CaTypeCorrect`, `PairsMatch`, `CrashHeals`, `StoredPairStays`, `CaInvariance` | number of pairs |
| `ChunkRelayProofs` | `TypeCorrect`, `SearchIsExact`, `RelayIsFramed` | body: number, sizes and bytes of chunks; division into pieces |
| `DohProofs` | `TypeCorrect`, `Comprehension`, `Ownership`, `Completeness`, `Invariance` | set of hosts (sequences of bytes of any length), number of providers and of pieces of a body |
| `InterceptProofs` | `TypeCorrect`, `FindIsConfigured`, `SettingsAreOwn`, `DohIsKept`, `Invariance` | configuration, set of connections, names and ports |

Each has an inductive invariant `IInv`, a lemma per action that the action
preserves it, and a temporal theorem that combines them.

**SlowDns.** Assumptions: `NoEntry` is no result, `NoHost` no host. The checked
invariants are not inductive: that the publisher finds its entry needs that
only callers of the same host are ever in an entry and are still joined or
resolving (`Registered`), and that a caller which has not called has neither a
task nor a message (`Called`). `EntryHasResolver`, that no entry is without a
task that will erase it, gives `SingleFlight`: whoever finds an entry joins.
Refinement needs where values come from (`Provenance`): all that is in the
cache, in a channel or about to be published was resolved for that host.
Every step then maps to a step of `DnsService` or to a stutter; `Implementation`
is the refinement itself, with no liveness on the abstract side.

**SocketMemory.** Assumption: `StreamLen <= IntMax`, without which the lookup
fails. `IInv` says that blocks are non-empty intervals at their own place
(`Shaped`), end after the read index (`Live`), are disjoint (`Disjoint`) and
cover what is unread (`Covered`). Disjointness is what makes erasing from the
front up to the first live block erase the consumed blocks and no others, and
what makes the union of a merge an interval. In the refinement, `Covered` and
`Live` make the union of the blocks the unread interval, of which `get_some`
shows the first block: every operation maps to a step of `ByteStream` or to a
stutter (a reset of an empty buffer).

**Tunnel.** Assumption: `LengthAssumption`, the lengths are naturals and a chunk
has at least a byte. The order of what was delivered is not inductive: what is
written next must be the byte after the last. `IInv` therefore says where every
byte of a direction is. A pump has bytes in hand only between its load and its
write, and they are the last it took (`InHand`); delivered and in hand are
together all that was taken, unless a write of this direction failed
(`Accounted`), after which the pump loads no more. `Reasons` gives every failed
load a reset or a clean end of stream, and every ended pump a failure, from
which `OnlyEarlyLost` follows: a pump that ended though nothing but its own load
failed saw a clean end of stream, so all that was sent was taken and, by
`Accounted`, delivered, but for the early bytes, which `load_until` had taken.

**HttpDo.** Assumption: `HttpAssumption`. `Faithful` is not inductive: while an
answer is relayed, the next token must go behind exactly the ones written
before. `Sent` says that what the client received last are the first `opass`
tokens of the answer in work, unless it has left; `Before`, that nothing was
received for the request in work before its answer is read, so that a token or
an answer of the handler's own starts a new entry; `InWork`, that a request
which was forwarded keeps one answer, and that a relay never passes what was
sent. Answers to earlier requests keep their entries because `Dial` chooses an
answer for the request in work only.

**CaStore.** Assumption: `MaxGen` is a natural number. `CaIInv` says for each point
of the program what the files may hold: a certificate exists only behind a key
of its own pair (`Behind`) because a pair is made only when there is none
(`NoneWhileMaking`), and generations grow (`Fresh`).

**Mitm.** Assumption: `MitmAssumption`, the channel has room for one and `NoCert`
is no certificate. That a socket has one owner needs that a client is in the
channel at most once, sent by its handler and not yet taken (`Queued`), and that
only what was sent gets a coroutine (`Spawned`). That a client is shown a
certificate of its host needs that the cache files each under its own host
(`Filed`), and that what a coroutine found there is still there when its
handshakes are over (`Found`), which is where `CacheStays` comes in.

**Intercept.** Assumption: `InterceptAssumption`. That `find`, which asks the two
tables, gives the settings `Configured` reads off the rules is a lemma of its
own (`FindIsConfigured`): `emplace` keeps the first rule of a host, the map the
first with a star. `OwnSettings` is then inductive with what the locals of a
connection mean between requests. For `DohKept` the invariant says that what is
known of a host was learned in a way somebody asked for, and that all who ask
for a host all of whose names have DoH and interception ask with DoH.

**ChunkRelay.** Assumption: `RelayAssumption`. A 0 and its CR LF fit in a line
(18 bytes in the code), and a body ends with an empty line, as every chunked
body does; an origin that sends less has closed, which is `closed` at any
point. Bodies are sequences of bytes of any length. Two kinds of argument meet:

- What the recursive functions compute. The library's induction theorems take an
  operator, so the module has its own (`Least`, `Induct`, `Recursion`), which
  take a set: a set of numbers that holds 0 and is handed on holds all, and a
  function defined from its value one place before exists. With them `LongestIs`,
  `LpsIs` and `StepIs` say what the failure table does with a byte, `SearchIs`
  what a call of `search` does with a piece, `SizeIs` that a size that begins
  with another digit than 0 is above 0, `FrontIsFront`, `ChunkIs` and `EndIs`
  where a chunk stands in its body.
- What the steps keep. `KmpExact` needs that the search has seen exactly the
  bytes from `from` on (`Searching`) and, of them, the longest partial match
  (`Partial`, in positions of the stream; `SuffixIs` translates). `Framed` is not
  inductive: before a size is read the line must be what comes next, all that is
  buffered or `LineMax` bytes of it (`LineNext`); while a chunk is moved,
  `relayed + left` must be a start (`Following`); and while the end is looked
  for, `from` is the place of the last line, the stale position is 1 and the
  bytes seen are one more than the match, which is why `Found` answers 1 and
  `GoesOn` goes on with 3 or 4 of the 5 bytes and with no other number. At a
  start `AtStart` says that there is a line whose size leads to the next start,
  or the end. That the search never goes on when all is there needs that the
  last line has a digit and CR LF (`LastLine`): with three bytes the first is
  no LF, with four or more the end would have been found.

**Doh.** Assumption: `DohAssumption`, hosts are sequences of bytes. `IInv` is
small: while an answer is awaited, what was asked is the query of the host
(`Asked`), and what is collected is what the parser makes of the messages of the
providers before this one (`Collected`). The work is in what the codecs compute
for every input, by the inductions described for `ChunkRelay` (here `Least`,
`Induct`, `Descent` and `Unrolled`):

- `RoundTrip`: decoding undoes `b64url_encode`, for any sequence of bytes.
  `QnameIs`: for a name the DNS can hold `host2qname` puts the length of each
  label where its dot was. With both a provider decodes what was meant (`Comprehension`).
- `NameRead`, `NamePointed`, `NameChained`, `NameSpelled`: wherever such a name
  stands in a message, `qname2host` gives it back with a dot behind each label
  and the number of bytes it takes there, be it written out (also in capitals),
  pointed at, or pointed at through another name. `qname2host` jumps back in the
  message, so the induction is over how deep it is and how much is left.
- `RecordPasses`, `RecordTorn`, `RecordAlias`, `RecordAdditional`: what one
  record adds and where the next is read. `WithinReach`: a message of each kind
  whose pointers are `Near` tells all and only what it says (`Exact`), or holds
  something no endpoint can be made of, and then the resolution does not
  return (`Spoilt`).
- `MustFit`: a host that the DNS cannot hold (a label too long or empty) is asked
  for under other labels than its own. If the question that a record points to
  were read back as the host's name all the same, the labels would be those of
  the host and so of the right lengths; hence no record is taken for the host's,
  and `Ownership` needs no condition on names. `Completeness` is about names the
  DNS can hold.

Checked by TLC only: every liveness property (`RequestEnds`, `HostFreed`, the
`Released` of `Tunnel` and `HttpDo`, `AnsweredOrEnded`, `NotHeldUp`, `RelayEnds`,
`DohEnds`), since fairness and ENABLED are beyond the prover. Every invariant and
action property of a passing run is stated by a theorem.


## 7. Not modelled

- `svc_cache`, `service_worker`, `endpoint_cache` (`http_svc_keeper.cpp:61-320`):
  not reached; their only use is commented out.
- `certificate/cert.cpp`, TLS contexts, `os/`: calls of OpenSSL without state of
  their own. What a handshake decides is an outcome in `Mitm`.
- JSON and the rest of `config.cpp`: done before anything runs. The destructor
  clears what it would save.
- The text of heads (request line, headers, folding): one outcome in `HttpDo`,
  a host and a method in `Intercept`. One message leaves no state for the next.
- An interim 1xx answer behind a MITM: the head of the final answer is loaded
  behind what is left in the buffer, and what is consumed is counted from there
  (`http_svc_keeper.cpp:350`); what comes out is no sequence of tokens.
- Startup and shutdown in `main.cpp`, tests, documents, build scripts.
- Memory orderings inside asio, the allocator, and what the kernel buffers.
