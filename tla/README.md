# A verification of nvx-go-middleware

TLA+ modules that model the HTTP middleware of this repository, TLC
configurations that check them on small instances, and proofs, checked by
TLAPS, that hold for every number of requests, routes and limits.

## 1. The system

A Go service gives `New` a configuration and gets a `Manager`, which builds
*chains*: stacks of `func(http.Handler) http.Handler` around the service's
handlers. net/http runs every request in a goroutine of its own, down through
the layers until one of them answers, and back up through whatever was deferred.

| component | source | state it keeps | operations |
|---|---|---|---|
| chains | `chain.go` | none: the order of layers, fixed when a chain is built | `PublicChain`, `PublicAuthChain`, `PublicAPIKeyChain`, `InternalChain`, `AdminChain`, `PreSignChain`, `WebhookChain`; `HeartbeatMiddleware`, `ApplyMiddleware` |
| layers | `middleware.go` | the request's NVX headers, the response | `CORS`, `Recoverer`, `TrustProxy`, `Ensure*`, `Logger`, `SecureHeaders`, `RemoveHeaders`, `MaxBodySize`, `MethodOnly`, `PreSignHandler`, `ReadAndRestoreBody` |
| response writers | `response_writer.go`, `middleware.go:235-250` | one response: status, header map, body; the recorder's own status; the cleaner's flag | `WriteHeader`, `Write`, `Status`, `writeJSON` |
| throttle | `chi.go:68-73` | two channels of tokens per route (in chi) | enter, wait, time out, leave |
| rate limiter | `chi.go:76-239` | the counters of a window (in httprate or `ConfigLimiter.Counter`), the rate-key header | hooks, `rateKeyInjector`, admit, deny, counter error |
| audit trail | `middleware.go:74-171`, `store.go`, `model/audit_log.go` | one entry per request, a save goroutine per entry | deferred `LogStore.Save` |
| presign | `middleware.go:623-713`, `model/presign.go` | none | `EnsurePreSignHeaders`, `PreSignHandler` |
| body reading | `middleware.go:353-411, 596-621` | the request's body, and the cap of its reader | `ReadAndRestoreBody`, `MaxBodySize` |
| gRPC | `grpc.go` | one audit entry per call or stream | unary and stream interceptors |
| WebSocket | `ws.go` | `hijacked` flag, one audit entry | upgrade chain |
| GraphQL | `graphql.go` | one audit entry, the parsed body | depth limit, introspection block, chain |
| configuration | `config.go`, `manager.go`, `constants/` | `Config`, read only once serving | `New`, `Config`, `SetHeaderAuthType` |
| operator's log | `logger.go` | none | an adapter to zerolog |

**How they interact.** A chain is built outside in as

    (MethodOnly) CORS  Recoverer  (Throttle)  (Timeout)  TrustProxy      outer chain
    (Ensure)  SetHeaderAuthType  (RateLimit)                             the gates
    Logger  SecureHeaders  RemoveHeaders  MaxBodySize  (AdminCheck)  App inner chain

with the layers in brackets only in some chains. Layers talk through three
things: headers they set on the request (NVX-IP by TrustProxy, the
authentication type and the rate key before the limiter), the one header map
all response writers share, and the panic that may be in flight while deferred
functions run. Requests meet in the throttle and in the counters. The save
goroutines of audit entries outlive their requests.

**What is hard.** A request leaves a layer in many ways: passed on, refused, a
handler that returns without having written, a panic from the handler or from a
callback of the application, a deadline that has passed meanwhile. Deferred
functions of four layers run on each of these ways, in an order fixed by the
nesting, over a response that may be started or not. Gates have to be in the
right order to be worth anything. Tokens and quotas are shared. Saves happen
later and may fail. `PROJECT.json` lists these hazards at their lines.

**What makes each component correct.**

- *Throttle*: no more than the limit run, no more than limit and backlog are
  inside, every token goes back, nobody waits for ever.
- *Rate limiter*: no client over its quota in a window, only genuine requests
  are charged, a bucket belongs to one client. A client is an address with a
  User-Agent and an app ID, or a token with an app ID, as the key is built.
- *Audit trail*: exactly one entry for each request let in, none for a refused
  one, the status that was sent, settled at most once and at last.
- *Response*: the first status wins, CORS and security headers are on every
  answer that promises them, removed headers are not, a panic ends in 500.
- *gRPC, WebSocket, GraphQL*: the audited status agrees with the answer, the
  entry of a call is made on every way out, and a panic is contained.
- *Body reading*: the handler sees the bytes the client sent and some layer
  judged, within the limit, or it is told that it does not.
- *Presign*: a signature dies with its timestamp, and not before.

## 2. The modules

| module | models | extends |
|---|---|---|
| `Requests` | the requests and routes all modules speak of | |
| `Throttle` | chi's ThrottleBacklog as `ChiThrottle*` installs it | `Requests` |
| `RateLimit` | the keys of `chi.go`, httprate's window | `Requests` |
| `ResponseWriter` | the three stacked writers of a response | |
| `TrustedProxy` | which address `TrustProxy` takes for the client's | |
| `Chain` | all chains of `chain.go` with their layers | `Throttle`, `RateLimit`, `ResponseWriter`, `TrustedProxy` |
| `AuditTrail` | the abstract specification of the audit trail | |
| `ChainProperties` | the properties of the chain, the refinement mapping | `Chain`, an instance of `AuditTrail` |
| `Calls` | what the chains of other protocols share: a handler, deferred functions, a panic, an entry | `ResponseWriter`, `TrustedProxy` |
| `QueryDepth` | the brace counter of `graphql.go` and a reference definition of nesting | |
| `GraphQLChain`, `WebSocketChain`, `GrpcInterceptors` | one protocol each | `Calls`; GraphQL also `QueryDepth` |
| `Protocols` | the three side by side, their properties, the refinement mapping | the three, an instance of `AuditTrail` |
| `Bodies` | a request's body on its way through all the layers that read it | |
| `Presign` | presign endpoint, gate, clocks and a network that delays and repeats | |
| `MCChain`, `MCProtocols`, `MCBodies`, `MCPresign` | instances for TLC | |
| `ThrottleProofs`, `ResponseWriterProofs`, `ChainProofs`, `AnswerProofs`, `GateProofs` (gates, quotas and the trail), `ProtocolProofs`, `BodyProofs`, `PresignProofs` | theorems | `TLAPS` |

`Chain`, `Bodies` and `Presign` look at the same layers at three grains.
In `Chain` a body and a signature are of one of a few classes, and what matters
is the order of layers; `Bodies` gives the classes of bodies their meaning byte
by byte, `Presign` those of timestamps and signatures. They share no variables.

### Correspondence with the code

*Control.* `at[r]` is the depth of the layer the goroutine of `r` entered last
or unwound to last, `mode[r]` whether it is on its way down, on its way up,
unwinding with a panic, or done. `Depth` is the nesting and `Layers(rt)` what
the chain of a route has of it, both read off `buildInnerChain`,
`buildOuterChain` and the seven chain constructors. Each layer is one action,
which does everything the layer does before it calls `next` or answers;
`Reaches(r, l)` says that `l` is the next layer of the chain. What a layer does
after `next` has returned is an action of its own (`LeaveLogger`,
`LeaveTimeout`, `LeaveThrottle`, `Recover`, `Finish`), since other requests run
in between. Those that are deferred fire with a panic in flight as well.

*Requests.* `input[r]` is fixed: method, origin, credentials, body, claimed
NVX-IP, who the client is (`from`), who opened the connection (`peer`), the
X-Forwarded-For list it came with, User-Agent, app ID, token. Credentials and
bodies are classes, exactly the ones some layer tells apart: a header missing or
malformed, a timestamp out of its window, a wrong signature, a missing token; a
body that fits, one over its limit with or without a Content-Length, an upload
over its limit, a content type that is not allowed. `EnsureStatus` is the one
place that knows which kind of chain looks at which of these: the public chains
check age and signature, the internal ones the token and the signature without
the body, the presign chain only the headers. `ClientIP` is `TrustProxy`: the
peer, or the leftmost element of the list if the peer is a trusted proxy and the
element is an address. A proxy that overwrites the list, or starts it, puts the
client there; one that appends leaves in front what the client wrote. The model
has both, and `Attested` tells them apart in the properties; `DirectAssumption`
says that a peer which is no trusted proxy is the client itself.

*Responses.* `resp[r]` is what net/http has committed (`code`, `sent`), the live
header map (`hdr`), whose bytes are in the body, what the recorder remembers
(`rec`) and the cleaner's flag. `RawHeader`, `RecorderHeader` and
`CleanerHeader` are `WriteHeader` of the three writers; which of them a layer
calls depends on where in the nesting it stands. `writeJSON` and `http.Error`
(`RawError`, `CleanerAnswer`) put the Content-Type into the live header map
before the status, where it stays if the status comes too late. `by` is a
history variable: which writer's status, stated or implied, was the first; it
tells a 200 the handler stated from one that net/http filled in. A 1xx status is
sent and forgotten by net/http (`Informational`) and remembered by recorder and
cleaner; `early` says that there was one, for it counts as the cleaner's
stripping status.

*Throttle.* The channels are the sets `running[rt]` and `waiting[rt]`. There is
one throttler per route, as `ChiThrottleBacklog` is called once for every use of
a chain. The timer of the backlog is a request that may give up at any time.

*Rate limiter.* No counter is stored: a bucket is the set of requests charged
to its key. A charge is in the current window, in the previous one, or past;
`Tick` moves it on. httprate weighs the previous window by the share of it that
is still in view, so between admission on the current count alone and refusal
on the sum of both either may happen. Admission and charge are one step, as in
httprate's in-process counter, which holds a lock.

The key is a record of what `buildRateKey*` writes into it: route, zone, app ID,
and the address with the User-Agent or else the token. The two hooks run before
and after the limiter: a request that is charged is at the second one. A hook has
the writer the chain was given, so what it writes goes past `Logger`'s recorder
(`HookCalls`), and it may then go on, stop or panic (`HookStops`); `HookSpoke`
says that the answer on the wire is a hook's.

*Audit.* `audit[r]` is the sequence of entries handed to save goroutines,
each pending, saved or lost. `Save` is the goroutine; an error, a panic in
`Save` and a process that exits are all "lost".

*Other protocols.* A call of `Calls` has a stack `defers[c]` of deferred
functions, fixed by the order in which the code registers them, and the chains
differ in that order: GraphQL and WebSocket make the entry before they recover,
the gRPC interceptors recover first, so that the entry is made of the error the
panic became. `ctx[c]` is the transaction ID in the context the handler was
given, which for a stream is the one `wrappedServerStream` returns. `ip[c]` is
the NVX-IP header, corrected by `TrustProxy` in the HTTP chains and left as the
client's metadata has it in gRPC. A GraphQL
document is a sequence of braces and names, and braces inside strings or
comments are tokens of their own, because the counter of `graphqlQueryDepth`
cannot tell them from others. The gRPC server's conversion of errors
(`ClientCode`) is external. `wsResponseWriter` has neither `Hijack` nor
`Unwrap`, so the handler of the model can write a 101 but not take the
connection over: the entry's status is guessed from the status alone.

*Bodies.* Bytes are counted: `body[r]` is an interval of what the client sent,
with a flag for a connection that breaks and the cap of a `MaxBytesReader`.
`ReadAndRestoreBody` reads at most `Wrap(limit + 1)` bytes, with the sum taken
in a machine integer; a read of no bytes or fewer is an end of file at once. The
layers ahead are a sequence (`layers`), so that every order in which the chains
and the GraphQL middlewares can be nested is an instance of one specification.

*Presign.* `Described` is the list `PreSignHandler` signs, `Canonical` the one
`validateSignaturePublicHeaders` rebuilds; a signature is its list, which is to
take HMAC-SHA256 for injective. `Fresh` is `checkTimestamp` with both products
as Durations of two's complement. Every check reads a clock of its own that is
off by up to `Drift`, since endpoint and gate may be different processes.

*The application.* The handler and `adminCheck` make any sequence of calls on the
writer they were given, before and after the response has started: `WriteHeader`
of the statuses in `AppStatus`, `Write`, and changes of the header map, where
every header in `AppHeader` may be set or deleted each time (`HeaderChange`).
Then they return or panic; `adminCheck` may call the handler instead, at most
once and with the writer it got, and does nothing after that. Limiter hooks make
the same calls on the raw writer and then return true or false or panic.
ContextInjector panics or does not. It is assumed of hooks and injector that they
leave the request's own NVX headers alone, on which the key is built. Handlers
of the other protocols write statuses and bytes; their changes of headers are
left out, since no property there is about headers.

*External code* (chi's throttle, httprate, net/http) is modelled from how the
code here uses it, and its map entries say so.

Operators named `Bad...` are seeded faults, each one a plausible slip in the
definition it stands before: a dropped guard, two layers swapped, a header
trusted, a defer that forgets panics. No specification uses them. They record,
for every property, an error that the property finds: with the fault in place
of the definition the same run reports a violation.

## 3. What is checked

| run | instance | question | states |
|---|---|---|---|
| `chain_one` | one request, seven routes, one of each kind, inputs of every class; statuses 103, 200 and 201, and two headers, that the application may use at any time | what one answer and its audit entry look like on every way through | 402 437 |
| `chain_pair` | two requests, two routes with a limit of 1, backlogs 1 and 0, quotas of 1; direct clients, clients behind a proxy that overwrites or appends, two user agents, two app IDs, two tokens | what requests can do to each other | 551 069 |
| `chain_live` | two requests for one slot, fair goroutines | is everybody answered, does the chain implement the audit trail with its fairness | 15 348 |
| `protocols` | one call: 517 of GraphQL, over all documents of up to five braces, of up to four if some are in strings or comments, and a few longer ones; 16 of WebSocket, 4 of gRPC | which calls reach a handler, what becomes of a panic, what the entry says | 98 707 |
| `bodies` | one request, bodies of 0 to 5 bytes of which any part arrives, six chains, limits 2 and 7 of four-bit integers, 4 for uploads | what of a body do handlers get | 30 084 |
| `presign` | two signatures, eight ticks of time, skews of 1, 2, 8 and 12 seconds of two ticks in Durations of five bits | what does a signature let in, and when | 262 976 |

Properties (`ChainProperties`, `Protocols`, `Bodies`, `Presign`):

- `chain_one`: `TypeOK`; `AuditTruthful` (an entry with a status has the one
  that was sent); `HeadersAudited` (an entry without a status has every header
  the client gets later, but for the Content-Type of the error after a panic, and
  one with a status lacks only what was deleted after the commit);
  `CorsOnEveryAnswer`; `SecuredIfLogged`; `StrippedWhenStated` (no removed header
  goes out with a status stated below `RemoveHeaders`, a 200 as little as
  another, unless a 1xx came first); `PanicContained`; `NoPollution` (nobody gets
  to the handler or the audit store without passing signature, timestamp and
  quota); `SlotDiscipline` (a token is held exactly below the throttler, also
  when a hook stops, answers or panics); `AnsweredOnce` (an action property: what one layer answered no further
  layer sees, changes or adds to); `TrailSpec`, the refinement of `AuditTrail`.
- `chain_pair`: `SlotDiscipline` again, with two requests for one slot;
  `HandlersBounded` (no more handlers of a route run than its limit);
  `OnlyGenuinePay`; `QuotaKept` (per address, user agent and app ID, or per token
  and app ID, whatever NVX-IP or authentication type the client claims);
  `BucketPrivacy` (requests share a bucket only if they are one client's). The
  last two are about clients that connect directly, and those behind a proxy
  that puts their true address first. Whoever sits behind a proxy that only
  appends writes the leftmost element itself, and gets the bucket of any
  address it names: the code decides to believe it, and the properties say so.
- `chain_live`: `AllAnswered`; `TrailLive`, the refinement of `AuditTrail` with
  its fairness.
- `protocols`: `TypeOK`; `HandlersGated` (in particular, no document whose
  nesting is over the limit passes the brace counter, if no closing brace is in
  a string or a comment; see section 4 for what such a brace does); `GrpcOutcome` and
  `HttpOutcome` (the entry against what the client got); `PanicsStayInside` (no
  handler's panic reaches the server; what each protocol tells its client then,
  which for WebSocket is nothing but net/http's empty 200); `TrailSpec`, the
  refinement of `AuditTrail` with its fairness, through one mapping for all three
  protocols.
- `bodies`: `TypeOK`; `ServedAsJudged` (what was verified, logged or measured
  is what the handler reads); `WholeOrTold` (a handler that is told of no error
  has the whole body, with the two exceptions the code makes, spelled out);
  `BodiesCapped`; `NoFalseRefusal` (a body of exactly the limit is within it; the
  largest integer as a limit apart, at which `limit + 1` wraps, bodies read as
  empty and a signed one is refused).
- `presign`: `TypeOK`; `Lifetime` (twice the skew and the drift, also where the
  skew overflows, is the longest a signature is of use); `StaysUsable` (the skew
  less twice the drift is the shortest, for a timestamp of an honest clock).

**Bounds and why they are enough.** Layers do not look at other requests except
through tokens and buckets, so one request shows everything about a single
answer; `chain_one` therefore spends its states on kinds of chains and inputs.
Two requests are what it takes to fill a slot, a backlog place or a quota of
one, to be refused or to wait, and to share a bucket. Their inputs are chosen so
that each of these can happen for a good and for a bad reason: the same client
directly and through a trusted proxy, another client behind the proxy that names
the first one's address, a forged request, two user agents, tokens and app IDs.
In `chain_pair` and `chain_live` the application writes bodies but states no
status and has no headers of its own, and no route there has
hooks or an injector: what one request's application code can do is the other
run's subject, `SlotDiscipline` included. In `chain_one` the two headers it sets and deletes are one that
`RemoveHeaders` removes and the Content-Type, which the layers set too. The
number of entries, depths and windows is bounded by the model itself: an entry
per request, fifteen layers, three ages of a charge. Requests are symmetric in
`chain_pair` and their permutations are used as symmetry, where no liveness is
checked. What the instances leave open, more requests and larger limits, the
theorems below cover for the properties that depend on it.

Calls of `protocols` share nothing but the store, so one at a time is enough;
five braces are what it takes to go over a limit of 2 after a brace that closes
nothing, the case in which a counter is easily wrong, and four to go over a
limit of 1 with a brace in a string on the way. In `bodies` the limit 2 is met
exactly, exceeded by one, which is what the extra byte is read for, and by more,
so that a rest is left; 7 is the largest integer, where the sum wraps; and the
six chains have `Logger` and both GraphQL layers first as well as behind others
that read; `Ensure` is always the outermost. In `presign` a skew of 1 second and
one of 2 fit a Duration, 8 seconds are the smallest negative Duration, which is
its own negation, and 12 are a negative one; the clock runs past the end of the
window of 1 second, where `Lifetime` bites, while for the larger skews the run
shows what is still let in and the theorem says for how long. With 2 seconds,
four ticks, the drift leaves a signature two ticks in which `StaysUsable`
promises something, and at the end of them a reading that meets the end of the
window exactly. Two signatures are what it takes to confuse one with another;
the two URIs are symmetric. `MaxIssued` and `MaxClock` are the bounds in guards.

Deadlock is checked in every run. A chain stops in `Settled`, with every request
answered and every entry settled, as do calls; bodies stop in `Finished`, and
presigning when its clock ends.

**Fairness.** `WF(Handle(r))`: Go's scheduler runs a goroutine that can run;
handlers and hooks return or panic at last; and a request in the backlog can
always go on, because its timer fires. Nothing says it gets the slot.
`WF(Save(r))`: the goroutine is scheduled and `LogStore.Save` returns. Nothing
is assumed of the clock of the limiter. `Protocols` assumes the same two of its
calls. A handler may write again and again, but only finitely many of its writes
change a response, so that a fair goroutine comes to its end. It could set and
delete a header for ever, which is why `chain_live` has none it may change: that
the application's code comes to its end is assumed, as of any server.

## 4. Where the code and its words differ

Each is a run of its own that ends in a counterexample.

- `audit_status`: `AuditLog.StatusCode` is documented as the response's status.
  `Logger` is inside `Recoverer` and the timeout and reads the recorder, so after
  a panic, a deadline or a handler that wrote nothing the entry says 0 while
  the client got 500, 504 or 200. `AuditTruthful` is what does hold.
- `strip_headers`: `RemoveHeaders` is to strip headers before the response
  reaches the client. Only its `WriteHeader` does; a handler that just writes,
  and the answers of outer layers, send them. `StrippedWhenStated` is what holds.
- `started_response`: `Recoverer` is to abort when the response has started. It
  looks for wrappers that are inside it, so on a plain server the check never
  fires and the error body is appended. `PanicContained` says what holds, and
  that a chain wrapped by `WrapWithChiWriter` is as documented.
- `restored_body`: `ReadAndRestoreBody` is to restore the body so that subsequent
  handlers can read it again. A body over the limit it leaves without its first
  `limit + 1` bytes, and the GraphQL layers, which do not stop at the error, let
  the handler read the rest to a regular end. `WholeOrTold` says where this can
  happen; a chain whose layers refuse at the error is not affected.
- `safe_approximation`: counting braces is to be a safe approximation of the
  depth. The counter takes a closing brace in a string argument for one that
  closes: `{ a(x: "}") { b { c } } }` counts as one level less than it has, and
  passes a limit it is over. An opening brace in a string only makes the count
  too high. `HandlersGated` is what holds.

One difference needs no run: `TestLogger` (`src/middleware_test.go:148`) expects
two entries for a logged request, one per phase; `Logger` makes one, from its
deferred function, which is what `TrailSpec` says.

## 5. What is proved

The theorems about chains are for every finite set of requests, arbitrary
routes, addresses and tokens, every configuration of every route, every set of
inputs, and all limits and quotas. They rest on `RequestAssumption` (finitely
many requests are in the system, and sizes of sets of them make sense),
`ThrottleAssumption`, `RateLimitAssumption` and `ChainAssumption`, which give
the constants their types, and, where the headers of answers are concerned, on
`HeaderAssumption`: the headers to be removed are none that CORS or
`SecureHeaders` sets. Those about clients rest on `DirectAssumption`, too: a
connection that is no trusted proxy's is its client's own.
Those about bodies hold for every body, limit, machine integer and sequence of
layers, those about presigning for every skew, drift, width of a Duration and
set of requests, under `BodiesAssumption` and `PresignAssumption`, which are types
again. That a signature determines what was signed is part of the model.
Those about the other protocols are for any set of calls, whatever they ask, and
documents of any length, under `CallsAssumption` and `GrpcAssumption`: a handler
states a status from 100 to 999, since net/http panics at any other, and a code
of gRPC's own, from 1 to 16. The second is needed: 200 and 500 are statuses of
the entry, and a code of 200 would be mistaken for success.

| theorem | statement | argument |
|---|---|---|
| `TypeCorrect` | `Spec => []TypeOK` | each action has one of a few *shapes* (`Step`): it moves one request, gives it one next response, changes its entries, its token or its charge; the shapes keep the types |
| `ChainThrottles` | `Spec => ThrottleSpec` | the same shapes: the chain uses the throttler as an environment of `Throttle` |
| `AnswersFinal` | `Spec => AnsweredOnce` | `AnswerInv`: on the way down only the application has anything on the wire (`OpenUntilApp`: adminCheck and the handler, or a hook, whose answers are excepted), so a layer that is reached finds an open response; every writer's operation `Follows` the response before it (`ResponseWriterProofs`) |
| `EntriesTruthful`, `EntriesComplete`, `CorsAnswers`, `LoggedSecured`, `StatedStripped`, `PanicsContained` | `Spec => []P` for `AuditTruthful`, `HeadersAudited`, `CorsOnEveryAnswer`, `SecuredIfLogged`, `StrippedWhenStated`, `PanicContained` | `TaleInv`, see below |
| `TokensReturned` | `Spec => []SlotDiscipline` | `SlotInv`: with the places of requests come the places of tokens; every advance goes to the next layer, so nobody gets past `Throttle` without `Start`, and no unwinding passes it without `Release` (`HandleControl`) |
| `HandlersThrottled` | `Spec => []HandlersBounded` | `SlotInv` and the bounds of the throttler (`ThrottleInv`, inductive on its own, carried over to the chain by `ChainThrottles`): whoever is in the handler is below the throttler and holds a token |
| `AuditTrailImplemented` | `Spec => TrailSpec` | `AuditInv`: nothing is logged before `Logger` is left, and at most one entry; each step maps to a step or a stutter of `AuditTrail` |
| `StoreUnpolluted` | `Spec => []NoPollution` | `GateInv`: beyond `Ensure` a request is genuine, beyond the limiter it is charged, and a logged one was beyond both |
| `GenuinePay` | `Spec => []OnlyGenuinePay` | `GateInv` |
| `BucketsPrivate` | `Spec => []BucketPrivacy` | `GateInv`: beyond `TrustProxy` the NVX-IP is what the proxy says, beyond `SetHeaderAuthType` the type is the chain's, so a charged request has the key its input determines; for clients whose address is attested that is their own (`TrueAddress`), and then keys are equal exactly if clients are (`KeyIsClient`) |
| `QuotasKept` | `Spec => []QuotaKept` | `QuotaInv`, `GateInv` with a bound on the bucket of every key: a charge adds to one bucket that had room, a tick empties it, and all requests of a client meet in one bucket (`OneBucket`) |
| `BodiesTypes`, `JudgedIsServed`, `BodiesStayCapped` | `Spec => []P` for `TypeOK`, `ServedAsJudged`, `BodiesCapped` of `Bodies` | `BodyInv`: a body that was judged once is `Intact`, that is, in memory from its first byte and within the limit, so that reading it again neither fails nor moves it (`ReadAgain`); the cap of `MaxBytesReader` only shrinks |
| `NobodyRefusedInVain` | `Spec => []NoFalseRefusal` | `Unhurt`: while layers are ahead, a body within the limit is whole and cannot fail |
| `ReadersWholeOrTold` | `Spec => []WholeOrTold` | `Told`, for bodies nobody judged too: a body either breaks, and goes on breaking until the handler meets the error, or still ends where the client ended and is unread, or lacks the first `limit + 1` bytes because a layer in `Careless` went on, or is empty because the limit wrapped round |
| `DepthSafe` | `Nesting(q) <= GraphqlQueryDepth(q)` for every `q` in which no closing brace is in a string or a comment | the counter after token `j` is at least the levels of any stretch that ends at `j`: by induction on `j`, see below |
| `DepthExact` | `GraphqlQueryDepth(q) = Nesting(q)` for every `q` with no brace in a string or a comment | the counter after token `j` is also attained by a stretch: the one since it was last 0 |
| `ProtocolsGated` | `Spec => []HandlersGated` | `CallInv`, and `DepthSafe` for the documents |
| `ProtocolTypes`, `GrpcTold`, `HttpTold`, `PanicsCaught` | `Spec => []P` for `TypeOK`, `GrpcOutcome`, `HttpOutcome`, `PanicsStayInside` of `Protocols` | `CallInv`, see below |
| `ProtocolTrailImplemented` | `Spec => Trail!SafeSpec` | `CallInv`: the audit function is on the stack exactly while there is no entry of a served call, so each step of a call maps to a step or a stutter of `AuditTrail` |
| `PresignTypes`, `SignaturesExpire`, `SignaturesLast` | `Spec => []P` for `TypeOK`, `Lifetime`, `StaysUsable` of `Presign` | `PresignInv`: a signature was given out while its timestamp was fresh; a wrapped Duration is never larger than the product it stands for, so both ends of the lifetime are within the window of the timestamp; one that fits is exactly the product, so that a reading within the window less the drift finds an honest timestamp fresh |

The nesting matters to these proofs in one place, `Depth`: `AdvanceBy` says that
a request that advances to a layer had passed all layers of its chain before it,
and from there on the proofs speak of *inside* and *outside*.

`TaleInv` is the invariant about a single answer. `Tale(p, m, w, log, ...)` says
what a response `w` and the entries can look like when a goroutine is at depth
`p` in mode `m`, in three parts. `StatusTale`: who can have committed by then, and
what the recorder and net/http know of each other (`Coherent`: they have one
status, or net/http committed without the recorder's knowledge). `HeaderTale`:
which headers are in the live map, and what was sent of them; the map is the
application's to change after the commit, so that what was sent is no longer in
it says only that the header is one the application or `RemoveHeaders` deletes.
`Recounts`: what an entry says of the answer so far. None of the six properties
is inductive: that an entry agrees with what was sent, for instance, takes that
nobody outside `Logger` can still commit another status, which takes that the
recorder's status is on the wire already, unless a hook's is. The proof has one
lemma per kind of step, layers that pass, refuse, answer, panic and unwind, each
about `Tale` alone (`TalePasses`, `TaleRefuses`, ...) and one that connects it
with the actions (`PassTold`, `RefuseTold`, ...). That every writer's operation
keeps `Coherent` is in `ResponseWriterProofs`.

`CallInv` is the invariant about a call of another protocol. It says that a call
is in one of three *phases*: `Fresh`, nothing has happened; `Refused`, on its way
out without having had a transaction ID in its context; or `Served`, with the
deferred functions that are still registered being all, the last one or none of
those of its protocol. None of the properties is inductive without it: that an
entry agrees with what the client got is a statement about the time between two
deferred functions, and needs to be known which of them has run, whether the
panic it may find was caught, and what was answered by then (`Answered`, `Told`;
for WebSocket `Framed`: the handler has answered, or nothing has been sent, or
net/http's empty 200 has).
The three chains differ in the order of these functions, so `CallInv` speaks of
`AuditAwaited` and `RecoveryAwaited` and the order is looked up once. The proof
has one lemma per kind of step (arriving, returning early, the handler's steps,
each deferred function, leaving, saving) and one that says that a step of a call
leaves the other calls alone.

*Induction.* The brace counter is a recursive function, and what it computes is
proved by induction over the document. The library's induction theorems take a
predicate, which the provers cannot instantiate; `SetInduction` takes the *set*
of the lengths for which the statement holds instead, and rests on the least
member of a set of naturals (`LeastNat`), which the library's theorem on
well-founded relations gives without a predicate.

**Only model-checked**: liveness (`AllAnswered`, `TrailLive`, the fairness of
`Trail!Spec` in `Protocols`), since fairness and ENABLED are out of the prover's
reach. Every invariant and every action property of a passing run is a theorem.

## 6. What is not modelled

- `LimiterHook`: it replaces the limiter, and then no quota is promised. The
  NVX-RateLimit headers that httprate adds to responses.
- A `Counter` shared by several processes, which reads and increases in two
  steps: both the counter and who updates it are outside the repository.
- Compress, StripSlashes, RealIP and other wrappers that delegate to chi:
  they change no status, header or decision that is modelled.
- `WithActivityContext`, the transaction ID of the HTTP chains, and the fields
  of an entry but its status, headers, and for other protocols its address and
  transaction ID: data that is passed on. That the last two are the ones the
  handler saw holds by the shape of the code, so no property is about them.
- The recorder's bounded copy of the body, which only the entry's text shows.
- Paths: a route is an atom, and `/a` and `/a/` are two. IPv6 spellings and CIDR
  matching: `TrustedProxies` is the set of peers that match.
- Hooks and injectors that change the request's own NVX headers, and handlers of
  the other protocols that change headers of the response.
- `Config()`, which shares slices with its caller: no part of the library
  writes them. Configuration is read and checked once, before any request.
- Shutdown: the library has none. Nobody waits for save goroutines, and nothing
  bounds their number; an entry that is lost is a `Save` that failed.
- `HeartbeatMiddleware`, `ApplyMiddleware`, the operator's log, constants and the
  example programs: no state, or no behaviour of the library.

## 7. Plan

The order is by what matters most to a service that uses the library.

1. *Done*: throttle, rate limiter, response writers, trusted proxies, chains,
   audit trail; the application's code free to write whatever it likes.
2. *Done*: GraphQL, WebSocket and gRPC, against the same abstract trail.
3. *Done*: bodies, presigned requests, with machine integers.
4. *Done*: every safety property of the chains as a theorem; bodies and presign.
5. *Done*: every safety property of `Protocols`, the brace counter against
   `Nesting`, and `WholeOrTold`: no invariant of a run is without its theorem.
6. Next: that `Chain` treats a body the way `Bodies` does, and a signature the way
   `Presign` does, class by class, as lemmas that tie the three grains together.
7. The recorder's bounded copy of the body.
