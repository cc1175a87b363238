# A verification of hola-proxy in TLA+

hola-proxy is a standalone client for the Hola VPN service: a local HTTP proxy
that obtains credentials and an endpoint from the service's API, rotates the
credentials while it runs, and forwards the requests of its clients to the
endpoint. This directory holds TLA+ models of its parts, the TLC
configurations that check them on small instances, and proofs for TLAPS.
`PROJECT.json` lists components, runs, seeded faults, the lines each
definition stands for, hazards and theorems.

## Inventory

| Component | State | Operations | Talks to |
|---|---|---|---|
| Startup (`main.go` `run`, `retryPolicy`) | flags, stage, attempt | the stages of `run`, each retried; exit codes | API, credentials service, server |
| Credentials service (`credservice.go`) | `auth_header`, mutex, ticker | first transaction, rotation on each tick, `auth()` | transactions; read by all handlers |
| API transactions (`holaapi.go`) | `cachedFBC` and its mutex | `EnsureTransaction`, `GetFallbackProxies`, `Tunnels`, `background_init`, `zgettunnels` | the API, directly or over agents |
| CONNECT handler (`handler.go`) | per request | `ServeHTTP`, `HandleTunnel` | rescue dialer, relay |
| Rescue dialer (`retry.go`) | per call | `DialContext`: dial, resolve and dial again if blocked | upstream dialer, resolver |
| Upstream dialer (`upstream.go`) | one connection per call | dial, TLS, CONNECT exchange | `auth()`, upstream proxy |
| Racing resolver (`resolver.go`) | goroutine per upstream | `LookupNetIP` | DNS upstreams |
| Relay (`utils.go`) | two connections, three goroutines | `proxy`, `proxyh2` | client, upstream |
| Plain requests (`handler.go`, `plaintext.go`) | the standard transport's pool | `HandleRequest` | `auth()`, endpoint |
| Log writer (`logwriter.go`) and leveled logger (`condlog.go`) | bounded channel, one goroutine | `Write`, `loop`, `Close`; the comparison with `-verbosity` | every logger, stderr |
| Pure functions (`utils.go`, `holaapi.go`, `resolver.go`, `upstream.go`) | none | `get_endpoint`, decoding and dating of the configuration, `FromURL`, `ProxyDialerFromURL` | startup |
| Version discovery (`chromever.go`, `extver.go`) | none | `GetChromeVer`, `GetExtVer` | one service each, under `retryPolicy` |
| Listings (`utils.go`) | none | `print_countries`, `print_proxies` | API, standard output |
| Randomness, country table | none | adapter of `crypto/rand`; constants | |

What is hard about them, and what makes each correct:

- **Credentials.** The login and the key of a header are assigned by a closure
  that runs once per attempt, also for attempts that fail. A header must pair
  the login and the key of one grant; a failed rotation must change nothing; a
  rotation must not tear the header under a reader.
- **Transactions.** The failover must try every agent, once, and use a
  configuration that was live during this transaction, although it may expire at
  any moment between its check and the use of its last agent.
- **CONNECT.** A client may be told 200 only about a tunnel that was granted;
  the rescue must try what it can and then stop.
- **Resolver.** Answers race with each other and with the end of the request;
  no goroutine may be left behind on an unbuffered channel.
- **Relay.** Four events end it (two peers, a reset, the context), in any order;
  data must not be cut off by the relay's own closing. A client that does not
  wait for its answer meets the moment at which its connection is taken over.
- **Startup.** Each stage has a retry loop of its own; every return of `run` must
  have a code that tells what happened, and must flush the reason first; what
  the flags say must be in force before the first thing that depends on it.
- **Transactions in time.** The backoff may exceed its deadline by one attempt
  and no more; nothing checks the flags, and a negative initial interval defeats
  the deadline.
- **Answer of the upstream.** The head is read byte by byte so that the tunnel
  behind it is left alone, with a buffer that is used again after a failed read.
- **Plain requests.** They share connections: none may be lost when handshakes,
  exchanges and bodies fail or clients leave; each carries current credentials.
- **Log writer.** It may lose messages but not reorder, double or corrupt them,
  must never make a logger wait, and must not keep the process from ending.

## Modules

| Module | Models | State and actions |
|---|---|---|
| `CredRegister` | the promise of the credentials service | a register of grants: `Publish` a newer one, `Read` the current one |
| `CredService` | `CredService`, `EnsureTransaction`, `GetFallbackProxies`, the outcomes of `Tunnels`, `retryPolicy` around it, `auth()` | `pc` is the program counter of the one thread that runs transactions: `main` first, the rotating goroutine later |
| `FastResolver` | `FastResolver.LookupNetIP` | `gpc` per goroutine, `pc` for the caller, the derived context |
| `Tunnel` | `ServeHTTP` (CONNECT), `HandleTunnel`, `RetryDialer`, `ProxyDialer` | `attempts` lists the dials of the request with the upstream's verdict and whether our end is open; `dests` are those still to dial |
| `Relay` | `HandleTunnel` from the grant on, `proxy`, `proxyh2` | per side what the peer sent, what was read and what was passed on; what the server had read before; the three goroutines and the handler |
| `LossyLog` | the promise of the log writer | accepted and written messages, refusals, the end of a close |
| `LogWriter` | `LogWriter` | the channel, the loop, `Close` with its timer |
| `RescueCredentials` | `Tunnel` composed with `CredRegister`: `auth()` in each dial of a rescue | the header of every attempt, rotations in between |
| `ReadResponse` | `readResponse` | the one-byte buffer, what was appended, what was taken from the connection |
| `Backoff` | the retries of `Tunnels` in time | elapsed time, interval and pause of one call |
| `PlainRequests` | `ServeHTTP` (plain), `HandleRequest`, `PlaintextDialer`, composed with `CredRegister` | per handler its stage, fields, connection and body; the transport's pool |
| `StartupFunctions` | `get_endpoint`, `ProxyDialerFromURL`, `FromURL`, `FastResolverFromURLs`, `GetChromeVer`, `GetExtVer` | operators |
| `ApiFunctions` | `fetchFallbackConfig`, `FallbackConfig`, `VPNCountries`, the filter of `print_proxies` | operators |
| `Startup` | `run`, `retryPolicy`, `CondLogger`, composed with `LossyLog` | `stage` is where `run` is, `attempt` the counter of the current `retryPolicy` |
| `MCCredService`, `MCFastResolver`, `MCTunnel`, `MCLogWriter`, `MCRescueCredentials`, `MCBackoff`, `MCPlainRequests`, `MCStartup` | | the instances for TLC; `MCStartup` also compares the functions with what is documented of them |
| `CredServiceProofs`, `FastResolverProofs`, `RelayProofs`, `LogWriterProofs`, `PlainRequestsProofs`, `StartupProofs` | | theorems about the module each is named after |
| `TunnelProofs` | | theorems about `Tunnel`, `RescueCredentials` and `ReadResponse` |
| `BackoffProofs` | | theorems about `Backoff` and `ApiFunctions` |

In every module an operator that only exists to be put in the place of another
one (`NoUnlock` for `Unlock`, say) is a seeded fault: it shows that a property
of a run can fail, and is used by no specification.

### CredService

A user ID is a number, in the order of generation. A header is the pair of the
user ID in its login and the user ID for which the key was granted; the empty
string is the pair of zeros. `result` holds the two variables the closure of a
transaction assigns (`tunnels` and `user_uuid`), with exactly what each failing
path of `Tunnels` leaves in them: a failed `background_init` returns the user ID
and no tunnels, a failed `zgettunnels` returns neither. Every answer of the API
that ends an attempt (error, undecodable answer, ban, empty list) is one
nondeterministic outcome; an error that the backoff retries changes nothing here
and is a stuttering step. A shuffled configuration is any list of
`ConfigLists`. `GetFallbackProxies` is three steps, because it looks at the clock
once: the check of the cached configuration (`CheckFallbackConfig`), the fetch of
another one with its own check (`FetchFallbackConfig`), and the copy of its list
(`CloneFallbackConfig`). A configuration expires at any moment after it was
fetched, also between these steps (`ConfigExpires`). Its `life` remembers
whether that was before the current transaction began ("stale") or since
("lapsed"), which the code does not tell apart but `AgentsWereLive` does. A
`nil` `cachedFBC` is handled by the code exactly as an expired one and so it is
in the model. `fbcMux` is not modelled: after the start only the rotating
goroutine enters it. From `BootCommit` on, `main` serves requests: the choice of
the endpoint in between belongs to Startup.

### Backoff

`CredService` leaves out how long an attempt takes; `Backoff` is one call of
`Tunnels` in time. `background_init` runs once, outside the retries. The unit of
time is that of the library, in which -1 is its `Stop`; the randomized interval
is any whole number of units in its range, and the deadline is compared where
the library does it, after an attempt failed, with the pause included. A
deadline of 0 means none. The three flags are durations that nothing checks, so
each may be negative: with a negative timeout every call fails at once, a
negative deadline allows one attempt, and a negative initial interval is
multiplied like a positive one, but never meets `MaxInterval`. It ends at `Least`,
the least duration of the machine, to which the library's conversion from
floating point clips it. The pauses are then never positive, and the deadline
test, which adds the pause to the elapsed time, ever harder to fail: this is why
`DeadlineBound` and `TunnelsEnds` are restricted to `initial >= 0`. At the other
end the model needs no limit: an interval that large is cut to `MaxInterval`
after one pause, and a first pause of more than a century is not modelled.

### Tunnel

The requests are independent: each has a goroutine of its own, and the dialers
keep no state. The model is one request, with a request line that is complete or
not, with or without a port. `Protocols` lists the versions of HTTP a server in
front of the handler may speak; `main` uses `ListenAndServe`, which hands a
CONNECT only of HTTP/1 to it, and the other branches are checked because the
handler has them. A write or read error, a bad certificate and a status other
than 200 are the verdict "refused". The code never closes the connection of an
exchange that failed, nor the granted one of a client that could not be told of
it; they stay open until the runtime's finalizer closes them (`Collect`). No
property is stated about these connections, since nothing promises more. What a
client sends before it is answered is the business of `Relay`.

### RescueCredentials

`auth()` is called by each dial after its connection was made and before the
lazy TLS handshake. `CredRegister`, which `CredService` implements, stands for
the service; a rotation may come between any two steps of the request. The run
`tunnel` checks the properties of `Tunnel` in this composition, with the fairness
of `Tunnel` and an `auth()` that returns (which `cred_live` shows).

### ReadResponse

A read returns a byte, a byte and an error, or an error; the error of a
connection stays. The code appends its buffer after every read, so that a read
without a byte appends the previous one once more (`Appended`), and it looks at
the error only from the fourth byte on (`Outcome`). `consumed` is what was
really taken from the connection: the property compares the two.

### PlainRequests

`http.Transport` is external: it is modelled by what the handler relies on,
namely that it dials with `PlaintextDialer` or takes an idle connection, keeps a
connection whose body was read to its end, closes one whose body was not, and
ends with the request's context. Header fields are names; only
`Proxy-Authorization` has values, because the code *adds* its own to what the
client sent. It is not among the `hopHeaders`, so that the client's own value
stays in front of it. A body is a number of chunks, and may break. The fields of
a response are left out: the transport asks for compressed bodies by itself
(`DisableCompression` is not set at `handler.go:24`) and removes Content-Length
from those it expands, so that a broken body can go out as a complete one, of
which the repository says nothing. `GetConn` may fail even with a free
connection (the dial fails), and `MCConns` has one connection more than handlers
so that an idle one and two used ones can exist.

### Startup

One action per stage of `run`. A network stage is tried (`Try`) under the loop
of `retryPolicy`: an attempt counts, and the stage ends with its success or
with `GiveUp`. `flag.Parse` may end the process itself, with 2 for a command line
it cannot take and 0 for `-h`. What an attempt does on the network is a record in `sent`: who
dialled, through which dialer, with which user agent and extension version. The
fallback of a transaction over agents is the business of `CredService`. The log
is `LossyLog`, which `LogWriter` is shown and proved to implement; a message
is dropped when it is full. The actions use the operators of `StartupFunctions`,
with URLs, answers and tunnels of every kind the code tells apart; whether the
constructors of go-dns accept the URL of a DoH or DoT resolver is a property of
the URL (`taken`).

### Relay

A chunk is what one read returns. A connection that is closed by us fails all
reads and writes; a peer can end with an EOF, or with a reset, which loses what
was not read yet. `http2` chooses between the two functions: `proxyh2` has no
way to close the client's stream, which the handler's return ends.

The model begins with the grant, before `HandleTunnel` takes over the client's
connection. The server reads ahead on a connection of HTTP/1 (`ServerReads`), and
`handler.go:56` drops the reader that `Hijack` returns, so that what it had read
(`early`) is lost: the copier reads only what came after it (`Discarded`). The
body of an HTTP/2 request loses nothing.

### LogWriter

The `accepted`, `written`, `refused` and `due` variables are history, and are
the state of `LossyLog`. The logger's own mutex makes its calls of `Write`
sequential; the three loggers of `main` share the writer.

## Runs

| Run | Instance | What it shows |
|---|---|---|
| `cred_safety` | 2 handlers, 2 agents in all orders, 2 boot attempts, 2 ticks | the header is always a complete grant; mutual exclusion; exhaustive failover; no agents of a configuration that was over before; refinement of `CredRegister` |
| `cred_live` | the same with one agent and unlimited retries | transactions end, ticks are served, `auth()` returns |
| `resolver` | 3 upstreams | results are justified; the caller returns as soon as it can; no goroutine is left |
| `tunnel` | up to 3 addresses, HTTP/1, 2 and 3, 1 rotation | 200 only for granted tunnels; order and completeness of the rescue; every request is answered; every attempt sends a complete grant that is no older than its connection |
| `tunnel_timeout` | the same, without rotations | violated, see Findings |
| `relay` | 2 chunks each way, up to 2 of them read by the server before the relay | complete delivery but for these, nothing left behind, the relay ends |
| `log` | 2 loggers, a queue of 2, 3 messages each | refinement of `LossyLog`, order, progress; the timeout bounds `Close` with an output that is stuck |
| `read_response` | answers of up to 7 bytes over 4 symbols | the head is exact, the loop ends |
| `backoff` | deadlines -1, 0, 1 and 9, initial intervals -5 to 5, timeouts -1 and 3 | the deadline bounds the call and the call ends, unless the initial interval is negative |
| `plain` | 2 handlers, 3 connections, 1 idle one kept, 1 rotation | no connection lost, current credentials |
| `startup` | 684 command lines, a log of 1 message | exit codes are explained, reasons reported, settings in force; the functions agree with what is documented |
| `startup_base` | the same | violated, see Findings |

The assumptions of `MCStartup` are checked with `startup`: `EndpointAsWanted`
compares `get_endpoint` with a table of ports, `ResolversAsDocumented` the
resolvers with the schemes the README names, `UnscramblesFiles` and
`ExpiresWithItsTTL` the decoding and dating of a configuration, and
`ListingsAsWanted` the listings with their definitions.

Bounds. Two handlers and the rotator are the smallest set in which two readers
and a writer compete for the mutex; two agents are the smallest list with a
first, a next and a last agent; with two ticks a second rotation starts from the
leftovers of a first one that failed half-way, and a tick can arrive during a
rotation. Two boot attempts meet the limit of the retry loop and one before it.
Three upstreams give an early error, an early success and a silent one at once.
Three addresses are a first, a middle and a last one, and one rotation among
four dials separates the attempts before it from those after it. A queue of two with six
messages overflows before, during and after a close. Two chunks put one in
flight and one in the buffer when a peer closes. Seven bytes hold a line, its
end and an empty line with two bytes of the tunnel behind it, and every prefix
of these. The intervals of the backoff reach `MaxInterval` (4) from each of the
positive ones, and `Least` (-40) from the negative ones; `MaxElapsed` (20) cuts off
calls without a deadline and those with a negative interval, because the longest
other call ends within 12. Limits of 0, 1 and 2 retries are
none, the smallest, and one with an attempt in between; `MaxAttempts` (2) cuts
off the unlimited loop. Verbosities 20, 45 and 60 let all, only critical, and no
messages through. A log of one message refuses the next. Two plain requests
with one idle connection kept meet a pool that is empty, taken from and full.
The functions on configurations run with `Half` = 128 in place of 2^63 and
`Scale` = 3 in place of 10^6, so that products wrap. `CHECK_DEADLOCK FALSE` is set
where the program stops (exit code 4, a request that is over) or a bound is
reached.

Symmetry is used only in `cred_safety`, where handlers and agents are merely
compared and no liveness is checked.

## Fairness

- Goroutines that can run do run: weak fairness of their steps.
- API calls end, because `do_req` runs under `context.WithTimeout`; the backoff
  ends because `-backoff-deadline` is positive by default (with 0 it does not,
  and nothing below about liveness holds for that setting).
- `sync.Mutex` passes to a waiter that has waited for a millisecond: strong
  fairness for acquiring it.
- A sender blocked on a channel gets the slot that the next receive frees.
- An upstream resolver must return once its context is done, and nothing more.
- `net.Dialer` has a timeout of 30 seconds, so a dial ends (with `-proxy` the
  dial of the endpoint is itself a CONNECT exchange, for which this does not
  hold).
- `Answered` also needs an upstream and a resolver that answer: `PeerFairness`,
  kept apart from `ProgramFairness` because the code cannot enforce it.
- `RelayReturns` needs peers that read what they are sent, and a handler that goes
  on after the grant.
- `AcceptedIsWritten` and the second half of `CloseReturns` have the condition
  `OutputProgresses` in the formula: the first half of `CloseReturns` is checked
  for outputs that are stuck.
- `ResponseEnds`: a connection that failed goes on failing without delay; the
  upstream need not send anything.
- `TunnelsEnds`: API calls end with their context, timers fire.
- `SendPill` is strongly fair, because the runtime queues the senders of a full
  channel in the order in which they came.
- `Startup` states safety only, and no fairness.
- Nothing is assumed to make requests, ticks, expiries or closes happen.

## Findings

`tunnel_timeout`: `README.md:158` and `main.go:134` call `-timeout` the "timeout
for network operations". It bounds the calls of the API. The TLS handshake and
the CONNECT exchange with the upstream proxy (`upstream.go:149`) run with no
deadline and without the context of the request, so that a silent upstream holds
the handler for ever, also when its client has left: TLC shows the behaviour in
which nothing happens after the CONNECT request was sent.

`startup_base`: `README.md:154` and `main.go:148` say of `-proxy` that it "sets
base proxy to use for all dial-outs". The resolvers made by
`FastResolverFromURLs` have dialers of their own (`resolver.go:136`), so the
lookup that rescues a blocked destination goes out directly. TLC shows a start
with a base proxy that serves and then resolves. `ServesConfigured`, which holds,
says that this is the only exception.

## Proofs

The theorems hold for all values of the constants that satisfy the assumptions
stated in the modules: any handlers, agents and configurations, any number of
retries, any finite set of upstreams, any list of addresses.

- `CredServiceProofs`. `TypeCorrect` first; everything else is relative to it.
  `MutualExclusion`: `HeaderNeverTorn` is inductive as it stands.
  `HeadersGranted`: the property itself is not inductive, because it does not
  say what `user_uuid`, `session` and `result` hold while a transaction runs.
  `GrantInv` adds that they belong to one grant from the answer of
  `background_init` to the commit, and that this grant is newer than the
  header. `RegisterImplemented` uses the same invariant: a commit is a
  `Publish`, `AuthReturn` a `Read`, and any other step stutters.
  `GivesUpOnlyWhenSpent` rests on the bound of the retry loop.
  `FailoverIsExhaustive` rests on `FailoverInv`: what was tried followed by what
  is left is always the direct client followed by the whole configuration.
  `AgentsOfThisTransaction`: from the check on, the configuration at hand is not
  stale until the transaction ends, because only the next transaction ages one
  that lapsed meanwhile.
- `FastResolverProofs`. `RaceInv` says that the errors counted are those of
  goroutines that have ended (so that their number is the loop's counter), and
  that the lookup's own context is live while it collects. `RaceNeverStuck` is
  the safety that `CallerReturns` and `NoGoroutineLeak` rest on: with unbuffered
  channels, whoever sends must have a receiver or a context that is done, and
  whoever receives a sender. `EndedInv` adds why: a caller cancels as it
  returns, and a goroutine that ended before that has been counted.
- `RelayProofs`. `RelayTypeCorrect` needs `ChunkInv`: a copier that writes holds
  exactly one chunk, the next one. `RelayLeavesNothing` needs `StageInv`, which
  orders the stages of the three goroutines and of the handler.
  `RelayDeliversAll` needs `CauseInv`: every closed connection is closed because
  one of the copiers ended or because the context of the request is done, so
  that a direction that ends early has one of the causes the property names;
  what the server had read of the client before never reaches a copier, and is
  all that is missing.
  `RelayNeverStuck` is the safety of `RelayReturns`: what the relay has closed
  wakes its readers, and the handler and the waiting goroutine meet.
- `TunnelProofs`. `TunnelInv` has three parts. `DestsInv`: the destinations still
  to dial continue those dialled, along the host and the resolved addresses.
  `AttemptsInv`: what is known of the attempts at each stage of the handler; in
  particular the current attempt is undecided during an exchange, so that a
  first attempt that is blocked has no resolved addresses yet and the rescue
  starts only once. `ReplyInv`: what the client was told. There is one lemma for
  each action, and one (`FailedAttempt`) for the end of a dial that failed, which
  both `Dial` and `Exchange` use. `TunnelAnswersOnce` follows from what
  `ReplyInv` says of the stages at which nothing has been answered.
- `TunnelProofs`, on `RescueCredentials`. `RescueImplementsTunnel`: with its
  headers a request still is one of `Tunnel`, because a rotation leaves the
  request alone; so all theorems above hold during rotations. `RescueAuthorized`
  needs `HeadersInv`: no connection was made and no header sent with a grant
  newer than the current one, no header is older than its connection, and only the
  connection of the current exchange can be without a header. `RescueUsesRegister`, `PlainUsesRegister` and, on the side of
  the service, `RegisterImplemented` together justify the composition: the two
  kinds of requests rely on what `CredService` is proved to promise, and on no more.
- `TunnelProofs`, on `ReadResponse`. `HeadInv`: until a read fails, what was
  appended is what was consumed and its last byte is the one in the buffer; after
  that the loop only goes on with fewer than four bytes. A byte appended twice
  cannot complete an empty line, in which neighbours differ.
- `LogWriterProofs`. `TypeInv` adds that the loop never writes the nil message.
  `OrderInv` is `InOrder` with the nil message at a place that is known:
  with `StageInv` (once the loop has received the nil message, everything accepted
  before it is written) and `PillInv` (the nil message is where `due.upto` says and
  nowhere else) it gives `LossyLogImplemented`: a close that ends through the done
  channel has written all of them. `LogNeverStuck` is the safety of
  `CloseReturns`: a `Close` that waits has a loop that drains or a timer that runs.
- `BackoffProofs`. `DeadlineInv` says at which stage how much time can have
  passed, from an initial interval that is not negative: before an attempt no
  more than the deadline, after it one timeout more. `BackoffNegativeNeverPauses`
  is what happens with a negative one: no pause is ever positive.
  `ConfigExpires` and `ConfigOverBeforeItBegan` are about `Expired`, for any width
  of the integers: a configuration expires with its TTL if the TTL fits them in
  nanoseconds, and one whose TTL does not fit, but by less than the width, has
  expired as soon as it was published. `FileIsUnscrambled`: decoding brings back a
  file of any length.
- `PlainRequestsProofs`. `ConnInv` says at which stages a handler has exactly one
  connection, or none; `HeaderInv` which fields and values it has.
- `StartupProofs`. `ProcessInv` is the inductive invariant. `StageInv`: in the
  order of `run`, the stages ahead of the current one have made no calls and have
  not succeeded, and the calls of the current one are in `attempt`; without it a
  code at the end tells nothing of the way there, and `ExitExplained` alone is not
  inductive. `SettingsInv`: the user agent, the extension version and the two
  dialers at each stage, and what was sent with them. `LogInv` (the lossy log
  keeps what it accepted, and a close that flushed has put out everything due)
  is an invariant of `LossyLog` alone, and holds of the process because
  `StartupUsesLossyLog` proves it a user of that log. `ReasonInv`: the log stays open
  as long as `run` does, and from its return on the reason is in the log, refused
  by it, or below `-verbosity`. `StartupRetriesBounded` follows from `StageInv` and the
  limit of `retryPolicy`, for any limit.

Every safety invariant and every action property that a passing run checks is
also proved. Only model-checked:

- Liveness (`TransactionEnds`, `TickServed`, `AuthReturns`, `CallerReturns`,
  `NoGoroutineLeak`, `Answered`, `RelayReturns`, `AcceptedIsWritten`,
  `CloseReturns`, `ResponseEnds`, `TunnelsEnds`): the proof
  system does not support reasoning from fairness, nor ENABLED. The `NeverStuck`
  theorems prove the safety that some of them rest on.
- The two properties that are violated.
- The functions of `StartupFunctions` and the listings of `ApiFunctions`, with the
  assumptions of `MCStartup`: they are tables and filters, for which the bounded
  inputs meet every case.

## Plan

Done: the core (credentials, resolver, tunnels, relay, log), startup, the byte
loop, the backoff, the functions, plain requests, rotations during a rescue, and
the proofs listed above. What is left, most useful first:

1. The transactions of `CredService` in time, composed with `Backoff`: how long a
   failover over all agents can last against `-rotate`.
2. The safety that the liveness of plain requests rests on, as the `NeverStuck`
   theorems state it for the resolver, the relay and the log.

## Not modelled

- The TLS settings (no server name in the handshake, verification of the chain
  against the name) and certificates: they configure a library, and whether a
  certificate is good is one of the outcomes of an exchange.
- The HTTP transport and server of the standard library, the DNS library, the
  backoff library's clock: external, modelled by what the code relies on.
- The construction of requests (`do_req`, the parameters of the API) and the JSON
  fields of answers; an answer that cannot be used is an error outcome.
- The layout of the listings and of log lines.
- `csrand.go`: an adapter; shuffles and random choices are nondeterministic.
- `iso3166.go`: a constant table.
- Build and packaging files.
