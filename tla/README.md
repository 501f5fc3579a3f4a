# curlPro: TLA+ specifications

curlPro is an HTTP client that presents a browser's network fingerprint. This
directory holds TLA+ models of its stateful parts, the TLC configurations that
check them, and theorems about them checked by TLAPS. The reference is the Go
and Python source; every definition that models code is listed in `PROJECT.json`
under `map` with the lines it stands for.

    tlc -workers 2 -config PoolNames.cfg MCConnPool     # a run
    tlapm ConnPoolSafety.tla                            # the proofs of a module

## 1. The system

    Python (ctypes) -> lib/ (C ABI) -> internal/client (Session)
                                         |- pool.go, conn.go   HTTP/1.1 and HTTP/2 connections
                                         |- internal/h3        HTTP/3 over uquic
                                         |- cache, cookies, preflight, redirects, retries
                                         `- uTLS, fhttp (vendored)

Components, the state each keeps, what works on it, and what makes it correct:

| Component | State | Operations | Hard behaviour | Correct when |
|---|---|---|---|---|
| Connection pool (`client/pool.go`, `conn.go`) | `Session.conns`, `dialing`, `aliases`, `orphans`, `closed`; per connection `busy`, `dead`, `handed`, `idleWatch`, `lastUsed` | conn, pinnedConn, release, evict, sweep, limiter, Close | every request, dial attempt and closer is a goroutine; the mutex is released around every dial, lookup, wait and close | an HTTP/1.1 connection serves one request, nothing in use is closed, nothing leaks, nothing enters a closed pool |
| Dial groups (`pool.go`) | `dialGroup`: waiting, started, running, won, claimed, err, changed | joinGroupLocked, dialAttempt, waitGroupLocked | joins, give-ups and ends in any order; two handshakes finishing together | no lost wake-up, one HTTP/2 preface per burst, a give-up hurts nobody else |
| Request path (`client.go`, `stream.go`, `retry.go`, `redirect.go`) | a request's attempt, deadline, hop, body | send, attempt, DoStream, drain, resend, retry | a connection dying under a request; what may be sent twice | at most one silent resend, only of what had no answer; a connection goes back exactly once |
| QUIC/TCP race and Alt-Svc (`race.go`, `altsvc.go`, `http3.go`) | `altSvc`, broken-until, round-trip times | raceH3, noteAltSvc, markAltSvcBroken | two dials, late verdicts after the request went on | the loser goes back or is called off; a failing upgrade is left alone for a while |
| HTTP/3 transport (`internal/h3`) | map of clients with shared dials and use counts | RoundTripOpt, Connect, getClient, removeClient, Close | shared dials, removal by hostname | one live client per host, a failed one is replaced, an idle one can be closed |
| Asynchronous calls (`lib/async.go`, `readyevent.go`) | pending calls, ready queue (1024), event | request_start, result_wait, result_take, request_cancel | cancel against completion, event lowered against number queued | each result taken or discarded once; no finished call unannounced |
| Completions (`python/curlpro/_completions.py`, `aio.py`) | waiters, ready results, reaper thread | register, forget, _reap, _settle | completion before registration, a closed loop | every registered future is settled once |
| Streamed bodies (`bodypipe.go`, `lib/bodystream.go`) | pipe, pending trailers, ended; table by call number | Write, End, Abort, Read; registerBody, dropBody | writer and transport end it from both sides | trailers published before the end, nobody blocked for ever |
| HTTP cache (`cache.go`), cookies (`cookies.go`, `samesite.go`), preflights (`preflight.go`, `mode.go`) | stores under mutexes | look up, revalidate, store at EOF, undo of a retried attempt | concurrent requests to one entry | never serves what it should not, undo leaves what others stored |
| Proxies (`proxy.go`, `proxyh2.go`, `proxyh3.go`, `h2tunnel.go`, `socks5udp.go`) | shared proxy connections, MASQUE links | dial through, share, replace a broken one | one proxy connection made by many | made once, replaced when broken, closed with the session |
| WebSocket and upgrades (`websocket.go`, `upgrade.go`) | read and write locks, closing state | send, receive, close | closing handshake from both sides | one close frame, nothing after it |
| QPACK decoder (`internal/qpack`) | dynamic table, blocked sections | insert, decode, wait | encoder stream against header blocks | a block is decoded with the table it names |
| HTTP/1.1 exchange (`conn.go`) | one connection's buffer, deadline, body | roundTrip, awaitContinue, body read and close | cancellation by deadline, early answers, reuse | no request reads what was sent to another |
| Reading a response (`stream.go`, `idle.go`, `decompress.go`) | the body, its idle clock, pooled decoders | Read, Close, Do | a close beside a read | one body per decoder, a body told of is whole |
| DNS and ECH (`dns.go`, `internal/dnsrr`, `client.go`, `http3.go`) | record cache, queries under way, dropped public names | resolve, dialWith, markECHBroken | dials sharing a query, fallback on rejection or silence | one query at a time, ECH given up only for cause |
| Headers and hints (`headers.go`, `hints.go`, `blinkmap.go`) | asked hints and policies per origin | buildHeaders, wireOrder, noteAcceptCH | two ways to one order; two reads of one memory | the wire has the order that was built; hints go with leave |
| Profiles (`internal/profile`) | registry of deltas | register, load, bundle, resolve | batches, rollbacks, chains | all of a batch or none; a folded profile is coherent |
| C ABI handles (`lib/`) | tables of sessions, streams, sockets | open, register, read, close, cancel | opens given up, sessions closed meanwhile | what an open took can be given back |
| Python session with a solver (`session.py`, `solvers.py`) | locks by site, generations, a kept browser | request, _through_challenge, solve, close | several requests meeting one challenge | no site solved twice in vain; a solve's own clearance |
| Bindings, command-line and capture tools | handles, files | thin | none beyond the above | outside the models |

How they interact: Python starts a call through the C ABI, which runs
`Session.Do` in a goroutine; `send` takes a connection from the pool (or wins a
race for one), does the exchange, and the caller's `Stream.Close`, much later,
gives it back. The pool's one mutex, `Session.mu`, is the meeting point of all
requests of a session.

## 2. The plan

Order: the pool first, because every request of every protocol but HTTP/3 goes
through it and because most of its states cannot be produced by a test; then
what crosses threads and languages, the request path, and the other components
by how much of their behaviour is an order of events.

| # | Module | What | Status |
|---|---|---|---|
| 1 | `ConnPool` | pool, dial groups, the request path as far as it touches a connection | done |
| 2 | `ConnPoolProofs`, `ConnPoolSafety` | type correctness and safety, proved | done |
| 3 | `OneResult`, `AsyncCalls`, `Completions` | the C ABI's calls, the Python thread, and what they implement | done |
| 4 | `RequestPath` | attempts, hops, race, fallback, retry | done |
| 5 | `H3Transport`, `H3Settings`, `H3Control`, `H3Stream`, `QpackDecoder` | HTTP/3 | done |
| 6 | `H1Exchange`, `BodyPipe`, `BodyReader` | bytes in and out of one exchange | done |
| 7 | `HttpCache`, `CookieJar`, `FetchChain`, `ClientHints`, `HeaderOrder` | what a session remembers and says | done |
| 8 | `ProxyDial`, `H2Proxy`, `MasqueProxy`, `EchDial`, `WebSocket` | proxies, ECH, sockets | done |
| 9 | `Handles`, `ProfileRegistry`, `ChallengeSolve` | tables of the library, the solver | done |
| 10 | `ConnPoolBooks`, `CompletionsProofs`, `RequestPathProofs`, `WireProofs`, `SessionProofs` | the books of the pool, the calls and what they implement and the registry of profiles, the request path with its dials and its reading of bodies, what goes over one connection, what a session keeps between calls, proved | done |
| 11 | `Inductions` | induction over numbers and the folds that run by it, for the proofs about sequences of any length | done |
| 12 | DoH's transports and the address lookup, the eviction of the disk cache, load_page | | later |

How they compose. `Completions` extends `AsyncCalls`, whose host it is, and both
are shown to implement `OneResult` (`OneCallOneResult`, an `INSTANCE ... WITH`).
`RequestPath` sees of `ConnPool` what a request sees (a kept connection, a new
one, none) and of the H3 modules an exchange that answers or fails. The rest
share no state: they are connected through one request's sequence of calls, and
each is checked from its own environment. TLC checks these together,
in `MCParts` and `MCFlows`: the initial state chooses `part`, only that module's
actions are taken, and the others keep their initial values. That is a
disjoint union of the state spaces, not a product: nothing is hidden and nothing
interferes. Fairness in `MCFlows` is conditional on the part that moves.

## 3. The models

### `ConnPool`

One action is one critical section of `Session.mu`, with everything the code
does before it unlocks, or one step taken outside the lock (the counter of
`release`, closing a socket, the end of the idle watch). Goroutines interleave
freely between them.

| Model | Code |
|---|---|
| `pool` (a set), `conn[c].key` | `Session.conns`: a connection is always listed under its own key |
| `lastUsed` | `conn.lastUsed`, as ranks among the pooled connections: the limiter only compares. `expired` is the comparison with the idle timeout |
| `doomed` | locals such as `victims`, `over`, `drop`: out of the pool, still to be closed outside the lock |
| `orphans` | `Session.orphans`, each with its `shutdownOrphan` |
| `dialing`, `group` | `Session.dialing`, `dialGroup`; `dialing`, `preface`, `spare` in a group count its attempt goroutines by how far they are, `running` is the code's own counter |
| `conn[c].st` | `open`; `gone`: the HTTP/1.1 server gave it up and nobody has read that; `draining`: takes no new request; `dead`: known lost; `closed` |
| `conn[c].watch` | `on`: `idleWatch` set; `taken`: a request has taken the channel and must wait for the pending read |
| `req[r].pc` | `conn` (the loop of `conn()` or `pinnedConn`), `lookup` (`ipPooled`), `wait`, `dial`, `unwatch` (`endIdleWatch`), `exchange` (`roundTrip`), `body`, `release`/`released`/`closing` (before, under and after the lock in `release`), `evict`, `done` |

`req[r].mode` says how the connection is asked for: `pooled`, `fresh`
(`NewConnection`), `pinned` (`ConnectionID`), and `resend` once `send` repeats
itself with `freshConn`. A request that was resent is always fresh, so it is not
resent twice: that falls out of `Resendable`, which needs a reused connection.

The address lookup, DNS answers and certificates are the relation `Covers`; which
protocol a server negotiates is `Protos`. The sweep is throttled by the clock, so
a turn of `conn()` sweeps or does not. Identities of connections and groups that
nothing refers to any more are used again; that keeps the state space finite and
hides nothing the program compares.

Actions: `Start`; `ConnRefused`, `PickConn`, `PickNothing`, `LookupHit`,
`LookupMiss`, `WaitEnds`, `GiveUp` (conn's loop and the group's wait);
`DialFails`, `DialLate`, `DialRedundant`, `DialUp` (its own dial); `PinConn`,
`PinFails`; `EndIdleWatch`; `HandBack`, `Respond`, `ExchangeFails`, `CloseBody`,
`DrainOverflow`; `Release`, `Released`, `ReleaseCloses`, `Evict`; `Claim` and the
`Attempt...` actions (a group's goroutines); `OrphanDone`, `OrphanTimeout`,
`CloseDoomed`, `SessionClose`; and the outside: `ServerGone`, `Goaway`,
`Dropped`, `WatchFires`, `Expires`.

Left out on purpose: proxies and ECH inside a dial (a dial takes its time and
ends); upgrades and WebSockets, which take a connection out of HTTP for good;
the partition fields of a key in `pinnedConn`, which compares less than the key
(pinned requests are checked over keys that differ in more).

### Asynchronous calls: `AsyncCalls`, `Completions`, `OneResult`

`AsyncCalls` is `lib/async.go` and `readyevent.go`: `call[c]` is the entry of
`asyncPending` together with its goroutine (`Work`, `Finish`, `Discard`, `Queue`,
`Signal`), `ready` the channel of finished numbers, `event` the handle. The event loop
looks at the queue, lowers the event and looks again (`Poll`, `Lower`, `Recheck`), and
takes an interim response before the result. `Completions` is the other host, the
Python thread of `_completions.py` and the loop it serves: each step of `_reap`
outside its lock is an action (`Reaper...`), callbacks run in their order
(`SettleLate`, `Settle`, `Resume`), and a task may be cancelled at any moment, also
when its settling is already due (`CancelTask`; `spilt` marks what `SettleLate` then
takes and drops). `WithInterims` are the calls that may get 1xx responses. `OneResult`
is what a caller is promised, and the two are shown to implement it by the projection
of `call[c]` onto `outcome` and `handle`.

### `RequestPath`

One request from `DoStream` to the stream: `r[i]` is its goroutine (attempt,
hop, way, what it holds), `kept` and `lent` what it sees of the pool, `adv`,
`broken`, `quicWorks` the memory of Alt-Svc, `late` the goroutines a decided race
leaves behind. The select loop of `raceH3` is one action per case; the fallback
from a guess, the resend of a request whose kept connection died, the held
response of a retried status, `drain`, `discard` and the limits are there. Which
attempt is "unprocessed" follows the code, by hop and not by attempt. Kinds of
request are `get`, `post`, and `upload` (a body that cannot be sent twice), and
`h2`, `h3`, which demand that protocol or fail.

### HTTP/3: `H3Transport`, `H3Settings`, `H3Control`, `H3Stream`, `QpackDecoder`

- `H3Transport`: the client map and the connections, the shared dial, the two
  looks at GOAWAY's limit around opening a stream, `onStreamsEmpty`, the use
  count, removal and `Close`.
- `H3Settings`: the goroutine that opens control and QPACK streams, and the
  setting it writes into the transport's shared map.
- `H3Control`: unidirectional streams, the frames of the control stream, and the
  datagram queue of a stream with its token channel.
- `H3Stream`: one exchange with its three goroutines: the head, 1xx responses,
  frames of the body, the declared length, trailers, uploads that end or fail,
  the context.
- `QpackDecoder`: insertions and evictions, blocked sections woken by broadcast,
  Required Insert Counts modulo twice the capacity, acknowledgements, whose
  count and whose write are two steps.

### One exchange: `H1Exchange`, `BodyPipe`, `BodyReader`

`H1Exchange` is one kept-alive connection: bytes are tagged with the request they
belong to, the server may answer early, late, twice or leave, cancellation is a
deadline in the past that the code puts back. A reply to Expect is read in two places
of the code, and so here: `await` is the wait for its first byte, which the context
watch ends, and `reply` the rest of it (a head in pieces, a 1xx that is not 100),
where the watch has been stopped and the deadline reset. `BodyPipe` is `io.Pipe`
between the caller's threads and the transport, with the register by call number; End
finds a body and takes it out of the register in two steps (`EndFinds`, `EndLeaves`).
`BodyReader` is a stream's `Read` against `Close` and the idle timer, and the pooled
decoders that pass between streams.

### What a session remembers: `HttpCache`, `CookieJar`, `FetchChain`, `ClientHints`, `HeaderOrder`

`HttpCache`: one key; the disk store's file and table are two steps. `CookieJar`:
one cookie name over partitions and two copies of it (the jar and the record
beside it), written one after the other, with the undo log of a request.
`FetchChain`: the hops of a chain and the cache of preflight answers.
`ClientHints`: what origins asked for and what policies delegate, read at two
moments. `HeaderOrder`: `reorder`, `expandOrder`, `pageOrder` with Blink's hash
map, and `wireOrder` with its forward pass over what was built (`CustomNames`);
hashes and ranks are constants, chosen to collide and wrap.

### Ways out: `ProxyDial`, `H2Proxy`, `MasqueProxy`, `EchDial`, `WebSocket`

`ProxyDial`: CONNECT with its repeats on the same and on a new connection,
SOCKS5, the UDP association until the session's close. `H2Proxy`: tunnels'
claims against the idle timer's function and the sweep. `MasqueProxy`: the link
two dials may open at once, its flows and inner connections, and the close.
`EchDial`: the shared HTTPS query, and hellos by TCP and QUIC in every world
(network drops ECH, server dead, re-keys, refuses). `WebSocket`: the write lock
and the flags under `closeMx` through both closing handshakes, with compression
or without as the handshake agreed.

### Tables: `Handles`, `ProfileRegistry`, `ChallengeSolve`

`Handles`: an open from its call to its number, given, abandoned or cancelled;
reads and closes by that number; the session's end. `ProfileRegistry`: batches
that register file by file and roll back; chains as sequences from the leaf to
the root, folded (no recursion). `ChallengeSolve`: the per-site locks and
generations of `session.py`, the solver's browser of `solvers.py`.

## 4. The properties

Every property has a mutant in `PROJECT.json`, a plausible slip in the code that
TLC catches by that property. Each module has one type invariant; `PartsTypeOK`
and `FlowsTypeOK` say that of the part that moves, and `NothingIsLost` contains
`Completions`'.

Pool (`ConnPool`):

- `H1Exclusive`: no two requests on one HTTP/1.1 connection.
- `RightConnection`: a request holds a connection for its key or one whose
  certificate covers it, whatever the aliases said and however old they are.
- `PoolBooks`: the bookkeeping everything else goes by: `busy` is the number of
  holders, what the sweep and the limiter take out nobody uses, an idle pooled
  HTTP/1.1 connection has its pending read, the group's counters are right, and
  parallel dials keep the browser's limit.
- `NoLeakedSocket`: every open socket has someone left to close it.
- `NoStrandedWaiter`: no request waits on a group that runs nothing without
  having been woken. `OnePreface`: an attempt past its claim and a winner exclude
  each other. `ClosedStaysEmpty`: nothing enters a closed session's pool.
- `EveryRequestServed`, `CloseDrains` (liveness): a request in `conn()` gets a
  connection or an error though no other request finishes; after `Close` all
  sockets come to be closed but those still in use outside the pool.

Calls (`AsyncCalls`, `Completions`):

- `NothingIsLost`: on either host, a call is announced once, its result kept until
  taken or freed, what a given-up await was handed closed by its closer alone, and
  an open handle has an owner. Two handles of the Python host have none and are
  excepted by name (`PythonHandlesOwned`): one the thread sets aside for a call that
  was just forgotten (`stash`), and one `_settle` takes for a future already cancelled
  (`spilt`). `HandleHasOwner` excepts nothing, and the run `AsyncLeaks` refutes it.
- `OneCallOneResult`: `OneResult`'s specification.
- `ResultsArrive`, `EveryAwaitSettles` (liveness): no wake-up is lost between
  lowering the event and queueing a number, nor between a call's completion, its
  registration and the end of the thread.

Requests (`RequestPath`):

- `EveryConnectionOwned`: a connection whose busy count was raised has exactly
  one owner that will release it, through hops, held responses and lost races.
- `NoBlindRepeat`: a POST that an attempt's last exchange left in doubt is not
  retried; one that died on a kept connection goes out again once in its hop and on a
  new connection; and a streamed body goes out at most once over all attempts, hops
  and races. It says nothing of a doubt from earlier in the attempt:
  `RetryOnlyUnprocessed` does, and the run `RetryChain` refutes that.
- `EveryRequestEnds` (liveness).

Exchanges: `OwnAnswer` (no request reads a byte sent to another), `CancelReaches`
(a cancellation ends the read it meets, but for the rest of a reply to Expect that
has begun), `WriterReturns` (a dropped body's writer returns, but for one whose End
was refused), `GoneAwayCloses` (a connection told GOAWAY closes), `SectionDecodes`,
`BlockedWakes` (QPACK), `EndsAreTrue` (neither side of an HTTP/3 exchange is told
of an end that is none), `NoDatagramSleepsOver`, `BodiesReadRight` (one body per
decoder; a body `Do` tells of is whole).

Session: `CacheAnswersRight`, `CookiesInPlace` (partitions kept apart; an undo
alone restores both copies), `ChainIsTrue` (method, Authorization, Origin and
Sec-Fetch-Site of each hop are true of the whole chain, and a hop that needs a
preflight goes only by an answer that covers it), `HintsWithLeave`, `WireAsBuilt`
(the transport's list has every header once and gives the order `buildHeaders`
made; where `reorder` and `wireOrder` find different anchors (not `OneGap`), the
orders of the family's headers and of the caller's, each among themselves).

Ways out: `DialEndsRight` (nothing left behind; the error's stage is true, but for a
redial that fails after the target was named),
`NoTunnelCut`, `MasqueClosed`, `EchInOrder` (one query at a time; ECH given up
only for cause), `CloseFrameLast`.

Tables: `NothingLeftOpen`, `RegistryHolds` (all of a batch or none, for a call
nobody interferes with; a folded profile's anchors belong to its hello and its
kind to its pool), `SolvesRight` (no site solved twice in vain; a solve sends its
own clearance).

## 5. The runs

| Run | Instance | Shows | Distinct states, time |
|---|---|---|---|
| `PoolNames` | 2 requests, 2 keys (one of either protocol and covering the other), pooled and pinned, spares after the preface, limit 1, one fault of any kind | sharing, coalescing, the books | 0.96 M, 60 s |
| `PoolLive` | 2 requests, an HTTP/2 and an HTTP/1.1 key, 3 connections, spares before the preface, one failing dial, fairness | no leak, nobody stranded, one preface, closed stays empty; both liveness properties | 0.1 M, 30 s |
| `Parts` | 18 modules, one moving | their safety | 1.06 M, 2-4 min |
| `Flows` | 6 modules, one moving, fairness; of the calls 2, one that opens a stream, one with a 1xx, queue of 1, either host | their liveness and safety | 0.2 M, 75 s |
| `PoolPoison` | 2 requests, no fault | refutes `NobodyElsesCancel` | < 1 s |
| `PoolStarves` | 2 keys, limit 1, no fault, fairness | refutes `EveryRequestServed` in a full pool | 20 s |
| `PoolCuts` | 3 requests, one failing server | refutes `NeighbourNotCut` | 10 s |
| `AsyncError` | 2 calls that may fail | refutes `WaiterIsReachable` | < 5 s |
| `AsyncLeaks` | 2 calls, one that opens a stream | refutes `HandleHasOwner` | < 5 s |
| `RetryChain` | one POST, one hop, one retry | refutes `RetryOnlyUnprocessed` | < 5 s |
| `DeadQuic` | 2 requests, one connection | refutes `RetryDialsAnew` | < 5 s |
| `TwoGreases` | 2 connections of one transport | refutes `GreaseIsItsOwn` | < 5 s |

Bounds. In the pool, two requests make every pair of steps meet; the third in
`PoolCuts` is the neighbour. Two attempts are the least that can finish together.
Two groups per key are needed: a won group lives on while its successor starts.
Two connections (three where two keys keep one each while a third is made) let
one be in the pool while another is closing; a dial waits for a free identity,
which `Forgotten` provides. `MaxConnsPerHost` and `MaxIdleConns` are small so that
they are reached. `MaxFaults` and `Faulty` bound how often and where the outside
fails; failures that follow from the program itself are not bounded.

In `Flows` the queue holds one number, so that senders block on it. In
`Parts` and `Flows` each component has the two or three actors its hazards need:
two requests on one cache key and two versions of the resource; two pages of
different sites over one cookie; chains of two redirects over three origins, two
requests one after the other, so that the second meets the first one's
preflight answer; two dials of one name; two senders, a receiver and a closer of
a socket, with two frames; two tunnels over two proxy connections of two streams;
two MASQUE dials and three links, the third after the close; a datagram queue of
two; two capacities of the QPACK table so that counts wrap and entries are
evicted; three profiles in a chain longer than the depth allowed; two requests
of one or two sites with two clearances; a decoder for each of two bodies and
none to spare. Requests are made once or a bounded number of times, so systems
come to rest: deadlock is not checked.

`NothingLeftOpen` and `NoDatagramSleepsOver`, among others, are also proved for any
size, so `Parts` runs them on one open and a queue of two. Symmetry (requests) is used
in pool safety runs only.

Fairness stands for goroutines and threads that run, and for the limits the code sets:
a dial ends at its connect limit, a handshake at its timeout, an exchange at its
request's limit; callbacks of an event loop run in turn. Servers, callers, timers and
cancellations get none. Strong fairness is assumed only of the senders blocked on the
ready queue, together: some one of them is served whenever there may be room, and as
each sends a bounded number of times all are. In `MCFlows` each condition is
restricted to the part that moves. A liveness property of a state that must not last
is stated `[]<>~P` (`P` is left again and again), one of a state that must come and
stay `<>[]P`. In `PoolLive` failing dials are bounded: with endless failures a request
may be sent round for ever, because a group's error is lost when a newcomer starts
another attempt before the waiters wake, and each wait starts its connect limit anew.

What the refuted properties show, each at the line given in `PROJECT.json`:

1. `NobodyElsesCancel` (`pool.go:291`). The last waiter's give-up cancels the
   group, which stays in `Session.dialing` until its attempts return; a request
   that comes in between joins it and ends with the cancellation.
2. `EveryRequestServed` in `PoolStarves` (`pool.go:250`). The winner enters the
   pool idle and the limiter runs in the same critical section; in a pool full of
   busy connections it is the one to go, again and again.
3. `NeighbourNotCut` (`pool.go:645`). `release` acts on a zero it counted before
   it had the lock.
4. `WaiterIsReachable` (`_completions.py:119`). The thread takes the error of a
   call nobody has registered for yet, and drops it.
5. `HandleHasOwner` (`_completions.py:119`). A cancelled call's number is on its way:
   the thread, or a settling already due in the loop (`_completions.py:140`), takes the
   result after that and drops it, and the stream it opened is nobody's to close.
6. `RetryOnlyUnprocessed` (`client.go:1717`). An attempt is unprocessed by whatever
   failed last in it. Three routes repeat a POST that may have been processed: the
   fallback from a guess cannot dial (the run's trace), the resend of one that died on
   a kept connection cannot dial (`client.go:1773`), or the target of its redirect
   cannot be dialled (`stream.go:340`).
7. `RetryDialsAnew` (`h3/transport.go:264`). A dead QUIC connection stays in the
   map, and the next request gets it.
8. `GreaseIsItsOwn` (`h3/fingerprint.go:69`). Connections write their GREASE
   setting into a map they share.

Divergences met while modelling that have no run of their own:

- Pool and race: dead and idle HTTP/1.1 connections count against
  `maxConnsPerHost` until swept (`pool.go:503`); the fallback from a guess
  repeats any method (`client.go:1698`); the back-off ignores the caller's context
  (`stream.go:230`); the broken interval of Alt-Svc is never reset by a success
  (`altsvc.go:163`).
- QPACK (`decoder.go:239`, `:466`): `acked` is raised under the lock and the
  instruction written without it; a section's acknowledgement can overtake an
  increment that counts the same insertions, and the encoder is told of more
  than was sent. `SectionDecodes` therefore excludes a misled encoder.
- Registry (`profile.go:992`): two registrations at once can roll back each
  other's acknowledged profiles. `AllOrNothing` is about a call left alone, and no
  property is about the other case.
- Proxy: the stage is "dial" when the redial after a 407 or a hang-up fails, though
  the target was named on the connection before and `errors.go:103-104` says it was
  never asked for; `StageIsTrue` excepts that end by name (`told`). A close in the
  middle of an answer counts as a dead kept connection and the CONNECT is repeated
  (`proxy.go:524`).
- Headers: `wireOrder` looks for its anchor among the names of the order and `reorder`
  among the headers there are. In the fetch table of Firefox 155 and 156 Cookie stands
  between the anchors Origin and Sec-Fetch-Dest: on a GET with a cookie a header of
  the caller's goes out before Cookie (the place kept for Content-Length), where
  `reorder` put it after, though `headers.go:570-571` says "exactly where reorder
  placed them". `WireAsBuilt` excepts such orders by name (`OneGap`).
- HTTP/1.1: while the rest of a reply to Expect is read (`conn.go:382-395`) the context
  watch is stopped and only the context's own deadline is on the socket: a
  cancellation waits for the server. `CancelReaches` excepts it.
- Streamed bodies: End with a forbidden trailer marks the body ended and takes it out
  of the register without closing the pipe (`bodypipe.go:77-81`); a thread then in
  a write is left in it. `WriterReturns` excepts it.
- Cookies: the jar and the record are written in two steps, so that an undo beside
  another request may take back a half of what that one wrote (`UndoPutsBack` is for a
  request that was alone; no property is about the other case). What the solver's
  `again()` stores is in no undo log (`session.py:1311`).
- Reading: a held response handed out after its retries has no idle limit, no
  trailers, no timing (`stream.go`); an HTTP/3 body shorter than declared ends as a
  clean end of file (`EndsAreTrue` is about longer ones and cuts); a request body
  shorter than declared ends with FIN.
- `curlpro_stream_close` may report an error its own close provoked
  (`lib/stream.go:211`); `closeConn` never reports a stored one.
- WebSocket: concurrent compressed sends may go out in another order than they
  were compressed (`websocket.go:539`); a second closer shuts the socket before the
  first one's Close frame (`websocket.go:785`).
- Preflights: `preflightHit` takes "*" for a credentialed request, `corsCheck` does
  not. Hints: of two navigations at once only the first restarts
  (`hints.go:99`). ECH: one unanswered hello marks a public name for the process.

## 6. The proofs

For any finite sets of requests and connections, any keys, groups, `Protos`,
`Covers`, limits and policies that satisfy `ConstantsAssumption`:

- `ConnPoolProofs`: `TypeCorrect`, `Spec => []TypeOK`. `TypeOK` is not inductive:
  a pc tells which of a request's fields are set (a request that dials has a key,
  one that exchanges has a connection, one that waits has a group). `WellPlaced`
  says that, and `TypeInv == TypeOK /\ WellPlaced` is shown to be kept by every
  action.
- `ConnPoolSafety`: from `ConnInv`, which adds to it what the three properties
  need of each other: a connection with a holder is not free, an HTTP/1.1
  connection with a holder has `busy = 1` and one holder, an alias names an
  HTTP/2 connection whose certificate covers the key, holders suit their
  connection, and the identity of a connection still referred to is not used
  again. `H1NeverShared`, `AlwaysRightConnection` and `ClosedPoolEmpty` follow.
  The steps are grouped by what they do to holders: they let go, they take one
  (`TakesOn`), they make a connection, or they leave them alone.
  Its second half rests on `GroupInv`, four facts about the dial groups. In every
  group `running` is the number of its attempts wherever they are (`Counted`:
  dialing, past the claim, or waiting as a spare); with `SpareBeforePreface` an
  attempt past its claim is alone and nobody has won (`OneClaim`); the group a
  key dials by runs something and is that key's (`Linked`); and a request only
  looks up another name's connection when attempts are allowed at all
  (`LooksToJoin`). `NobodyStranded` needs all four: joining relies on `Linked` for
  the group it finds and on `LooksToJoin` for the one it makes, and an attempt's
  end wakes the waiters only when `Counted` says it was the last. `SinglePreface`
  follows from `OneClaim`.

What the proofs about sequences of any length rest on:

- `Inductions`: induction over the numbers up to a bound, over a set instead of
  a predicate (`UpTo`), from the library's well-founded minimum (`FirstNumber`,
  `LastNumber`). The library's own induction theorems take a predicate as a
  parameter, which the installed provers cannot instantiate; a set of numbers is
  a value, and they can. Then folds: `FoldLeft` is in the end a recursive function
  over sets of positions, which is known by its equation only once it is shown that
  such a function exists (`FoldExists`, by `UpTo`); after that a fold runs step by
  step (`RunsInOrder`), and a fact about every prefix follows by `UpTo`.

For any set of opens, requests, origins, hints, policies and dials, and any number
of versions and lapses (`HcAssumption` also asks for one language at least):

- `SessionProofs`: one theorem for each of seven modules.
  - `HandlesAreReturned`: what a handle has at each stage (`Before`), that a
    registered handle is open and in no close (`Kept`), and that a read's failure is
    stored with the handle (`Explained`); each action keeps the three.
  - `CacheIsRight`: nothing broken off is in the store (`StoreIsWhole`), and a
    request holds what suits it wherever it stands (`HcKept`): the entry its
    validators come from is its variant, and what it puts is what was confirmed.
    Nothing is asked of the store between a lookup and its answer.
  - `HintsHaveLeave`: asking is for good (`AnswerKeeps`), so what a request took
    down at its first look is still asked for at its second, and what the policy of
    that moment gives it of that is allowed at that moment (`LeaveKept`).
  - `EchIsInOrder`: the query in flight is some dial's (`AskedByOne`); a dial past
    its record is told no other, unless it went without; and a hello in the clear
    after others has a dropped one before it (`ListKept`), which a world that lets
    ECH through never brings about.
  - `ChainsAreTrue`: what a hop carries is true of its chain (`HopIsTrue`), where the
    chain's taint is remembered and not computed again, and an answer that a hop goes
    by covers it (`Covered`), kept or new: the key it was kept under and the check it
    passed then are as much as the hop needs now.
  - `CookiesKeepTheirPlace`: what lies in the jar, in the record and in every log of
    changes to undo lies where the family's partitioning lets it (`MayLie`,
    `InPlace`), so that even an undo puts it nowhere else; and the log of a request
    that was alone leads back to what it found, each partition by its first change
    (`Retraces`).
  - `SolvesAreRight`: an argument in numbers (`CsInv`). Clearances are numbered as they
    are earned. Who is in a browser started it or has the solver's lock
    (`BrowserOwned`), so what is in it was earned there and later than the jar's
    (`CookiesOwn`), and the jar never goes back behind a site's last success
    (`JarAhead`). Who was challenged with less was overtaken, and the clock says so by
    the time the site's lock is free (`ShownFresh`). That a set of numbers has a last
    one, which numbering and `Latest` rest on, is `LastNumber`.

For the same constants as the pool's other proofs:

- `ConnPoolBooks`: `BooksBalance` and `EverySocketOwned`, from `AllBooks`, which is
  `TypeInv`, `ConnInv`, `GroupInv`, the groups' waiters (`WaitingOf`) and `BooksInv`.
  The properties are not inductive one by one: `Counts` (`busy` is the number of
  holders) is what makes a swept or evicted connection unused (`VictimUnheld`); a
  failed HTTP/1.1 exchange must have lost its connection (`FailedIsLost`), or
  somebody could take it between its release and its eviction; and that an idle
  pooled connection is watched (`WatchedIdle`) needs to know who took a watch
  (`WatchPlaced`). One frame rule carries most of the proof: a connection is
  `Aside` when a step leaves it and its requests as they were, or takes it out of
  the pool idle, and what is aside keeps its books. `HostLimit` is kept because a
  connection enters the pool only in a section that compares with the limit.

For any calls, any length of the ready queue, any number of interim responses, on
either host (`AsyncAssumption`):

- `CompletionsProofs`: `NothingGetsLost`, from `CompletionsInv`. What a call's fields
  are is settled by its pc (`CallPlaced`, `EventPlaced`, `TaskPlaced`); `Counted` is
  the heart: the numbers of a call that are about -- in the queue, in a goroutine's
  hand, in the loop's, as interim responses -- are as many as its entry has to report,
  so that the first completion is announced and none is announced twice.
  `NoSilentResult` ties the event to the queue, `ResumedOnce` the callbacks to the
  awaits; on the Python host `PyFits` follows each number from the queue to the
  callback, and a result from the table to its owner. Then `CallsHaveOneResult`: the
  initial states of the detailed specification are initial states of `OneResult`, and
  every step is one of its steps or leaves the projection `Shown` alone.

For any files, batches, calling threads and depth of inheritance (`PrAssumption`):

- `CompletionsProofs` again, of what threads share in the registry:
  `RegistryAlwaysHolds`. `PrInv` says of a call that was alone that everybody else is
  outside, that the registry is what the call found with its batch entered
  (`AfterBatch`), that `previous` has for each name of the batch what it stood for
  before (`Remembers`), and that every file already looked at stands (`StandsTo`);
  putting back what is remembered is then putting back what was found, however often
  a name comes in the batch. That files entered one by one come to `AfterBatch` is
  `EntersAllIs`, by induction over the batch. `FoldsTogether` needs no invariant but
  the types: a chain is a sequence of files folded from its root, what a fold has
  come to is what the last file to set it brought, by induction over its prefixes
  (`FoldIs`), and the last one counted from the root is the nearest counted from the
  leaf (`Mirrored`).

For any requests, retry policy, number of hops and of attempts:

- `RequestPathProofs`: `ConnectionsAreOwned` and `LastDoubtEndsPosts`, from `RPInv`: the
  types (`RequestsAreTyped`), and `Fit`, which says what a request may own where it
  stands (`HoldsByPlace`), what may have come of its POST there (`DoubtIsFailed`),
  that one sent again after a kept connection died is on a new one (`KeptIsFresh`),
  and when its body may have gone out (`StreamedOnce`). Owners are counted
  by three sets of requests (what a hop, a held response and a race own: `OnHop`,
  `OfHeld`, `OfRace`), so that a step adds or removes one element of one of them.
  Then `DialsEndRight`, for any set of schemes and any number of connections, from
  `PdInv`: what a dial has open at each stage (`AtStart`, `AtConnect`, `AtSocks`,
  `OverRelay`, `AtEnd`), that of its sockets only the last may be open
  (`SocksInOrder`), which is what a repeated dial could break, and that a dial which
  named its target before is marked so (`StageOfLast`). And `BodiesAreRead`,
  for any responses, decoders and limit, from `BrInv`: a decoder goes with
  the reader that took the body's lock (`DecoderInPlace`), no two bodies have the same
  one nor one that is in the pool (`DecodersApart`), what was read is what was
  delivered (`Counted`), and each failure and answer has its cause (`FailureIsSo`,
  `AnswerIsSo`).

For any number of senders, closers, tunnels, dials, links, requests, insertions,
any capacity and any length of a queue:

- `WireProofs`: one theorem for each of seven modules.
  - `DatagramsAreHeard`: the token in `hasData` is left behind by whoever queues
    last, and the reader that takes it looks again.
  - `NothingFollowsClose`: whoever writes holds the write lock from its look at the
    flags on, one closer at most is at the Close frame, and once that is out the
    flag is up and nobody is past its look.
  - `MasqueIsClosed`: a link that lives is the kept one or some dial's (the link has
    an owner), and so has an open flow.
  - `TunnelsAreSafe`: `H2pInv` counts the tunnels on a connection (`ConnKept`), holds
    the lock for whoever sweeps or claims (`TunnelKept`), and keeps undialled
    connections out of the pool.
  - `SectionsDecode`: what the decoder has was said by the encoder in that order,
    what the encoder evicts nobody refers to, and `CountComesBack`: a Required
    Insert Count sent as a remainder modulo twice the capacity is rebuilt exactly
    when it is within one capacity of what the decoder has.
  - `AnswersAreOwn`: `H1Inv` orders what has come in and is unread (a 100, the head,
    the body, all of the present request, then the 408), allows one unread request
    head on the way out, and knows that a connection handed back before its answer
    was read to the end is dead.
  - `EndsAreHonest`: in `H3sInv` the bytes of the data frames that came (`Carried`, a
    fold over all frames so far) are what the caller got and what is left of the
    frame it reads (`Measured`), so that a body as long as its head said leaves
    nothing behind it; before the answer's head only early responses have come, and
    trailers are the last frame; an upload never sends more than it declared, and only
    one whose source ended finishes its direction.

Only model-checked: `WireAsBuilt`, which is about the tables of headers its run is
given (for other tables it need not hold); `PartsTypeOK` and `FlowsTypeOK`, which
join the type invariants of the modules that TLC runs together (each proof above has
the types it needs in its own invariant); all liveness (fairness and ENABLED are out
of the prover's reach); and all refutations.

## 7. Not modelled

`components` in `PROJECT.json` says for each part what is left out. In short: wire
formats (frames, Huffman, header syntax, masks), fingerprints and hello building,
which are data the repository tests against captures; configuration and its
validation; freshness arithmetic and sizes of the cache; TLS handshakes and
tickets (uTLS); command-line and capture tools; the bindings, thin over the C
ABI; vendored libraries. Inside a dial, the address lookup and its carriage over
UDP, TCP and HTTPS are a step that ends. Upgrades leave the pool in `ConnPool`'s
sense and are `Handles`'. `pinnedConn` compares less than a key; pinned requests
are checked over keys that differ in more.
