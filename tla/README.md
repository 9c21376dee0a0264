# opencost-ai gateway: TLA+ models and proofs

This directory holds specifications of the opencost-ai gateway (`src/cmd`,
`src/internal`, `src/pkg`), the TLC configurations that model-check them, and
theorems about them checked by TLAPS. Every definition is a translation of the
Go code; `PROJECT.json` (`map`) names the lines of each one.

    tlc -config token_fresh.cfg MCTokenSource      # any run: its .cfg and module
    tlapm TokenSourceProofs.tla                    # any proof module

## 1. The system

The gateway is one Go process with two HTTP listeners. Callers POST questions
about cluster cost to `/v1/ask`; the gateway authenticates, limits and audits
them and passes them to a *bridge* (ollama-mcp-bridge), which talks to a model
and its tools. Answers come back as one JSON document or as a stream of
Server-Sent Events.

| component (source) | state | operations | talks to |
|---|---|---|---|
| token source (`internal/auth/source.go`) | cached token, (mtime, size) it was loaded under, `loaded`; a `sync.RWMutex` | `Validate`, `reloadIfChanged` | the token file, rewritten by an operator or the kubelet at any time |
| auth middleware (`internal/auth/middleware.go`) | none | `extractBearer`, the 401/503/500 answers | token source, then the handler |
| request path (`internal/server/server.go`, `middleware.go`, `handlers.go`) | per request: status writer, decided status | `metricsMiddleware`, `ask`, `tools`, `models`, `mapBridgeError`, `logAudit`, counters | all of the below |
| streaming ask (`internal/server/stream.go`) | locals of `askStream`, the connection, its write deadline | connect, loop over chunks, frames, done or error, audit | bridge stream, client |
| bridge client (`internal/bridge`) | an open response body, a line buffer | `Chat`, `Models`, `ChatStream`, `Next`, `Close` | the bridge over HTTP |
| rate limiter (`internal/ratelimit`) | a token bucket per caller, a mutex around their map | `Allow` | the clock |
| audit log (`internal/audit`) | a mutex around the sink | `Log`, `CallerIdentity` | stdout |
| metrics (`internal/metrics`) | counters, a gauge, histograms | increments, exposition | Prometheus |
| configuration (`internal/config`) | none | `Load`, `Validate` | environment |
| lifecycle (`cmd/gateway/main.go`) | two servers, result channel, signal context | start, select, shutdown under one deadline | everything |
| request ids (`internal/requestid`) | none | `Middleware`, `validCallerID` | response header, context |
| wire types (`pkg/apiv1`) | none | none | |

Not part of the running gateway: the Helm chart, the air-gap scripts, the CI
workflows, the legacy Flask prototype. Outside it: the bridge, Ollama, OpenCost.

### What is hard about it

* **Token source.** Requests stat, reload and compare concurrently while the
  file is replaced under them: contents filed under the stat of another
  version, an older token put back by a slow reload, a lock kept on an error
  path, rotations that a stat cannot tell apart. Correct: an answer was right
  at some moment of the call; rotation is never missed or undone; every call
  returns.
* **Rate limiter.** First calls of one caller race to create its bucket; a
  bucket is filled only when somebody looks at it; a full bucket and the refill
  fall into one window. Correct: one bucket per caller, a bounded rate in every
  window, and no refusal before the quota is spent.
* **Request path.** Every handler has a dozen early returns, and three records
  of its outcome (metrics, audit log, the answer) which it writes in an order
  that differs from path to path, between the steps of other requests and
  around a crash. The header is parsed twice by two copies of the code, and the
  body twice by two calls of `Decode` over a reader that has a limit. Correct:
  the records agree; whoever holds an answer is in the log; each caller pays
  for itself; nothing passes the middleware without a token; a body is judged
  as a whole.
* **Streaming ask.** Three parties that each may stop at any moment, a write
  that blocks, a deferred drain that blocks, errors that are thrown away.
  Correct: frames arrive in order and once, exactly one terminal frame, exactly
  one audit line that agrees with what was streamed, and the handler returns.
* **Bridge client.** Lines cut out of bytes that come in any pieces, with a
  buffer they may exceed, and a body that ends, breaks off or stays open at any
  byte. Correct: chunks are the lines; a break is never an end; a refusal keeps
  its status; bodies are closed; calls end.
* **Lifecycle.** Two listeners that may fail before, during and after the
  signal, one channel, one deadline for two drains. Correct: it stops, it does
  not stay up with one listener, and exit status 0 means that it was asked to
  stop and cut nobody off.

`PROJECT.json` lists each hazard at its line with the properties that cover it.

## 2. Modules

    TokenOracle <--(refines)-- TokenSource <-- MCTokenSource
                                    ^--- TokenSourceProofs <-- TokenSourceRefinement
    QuotaOracle <--(refines)-- RateLimiter <-- MCRateLimiter
                                    ^--- RateLimiterProofs (theorems and refinement)
    AskDecode <-- Gateway <-- MCGateway          Gateway <-- GatewayProofs
    StreamSession <-- MCStreamSession            StreamSession <-- StreamSessionProofs
    BridgeCall                                   BridgeCall <-- BridgeCallProofs
    Config <-- Lifecycle <-- MCLifecycle         Lifecycle <-- LifecycleProofs
    SequenceFacts <-- StreamSessionProofs, BridgeCallProofs, GatewayProofs (lemmas only)

(`<--` is EXTENDS.) The definitions marked `Mutant:` are not used by the
specifications: each is a plausible bug, put in place of the definition that
follows it to show that a property notices.

### TokenSource, TokenOracle

A *version* numbers the contents of the token file; `body[v]` and `mtime[v]`
describe it. The fields of `Source` are represented by the version they came
from: `held` for `s.token`, `keyed` for `s.mtime` and `s.size` (0: not loaded).
Each call of `Validate` is a process with a `pc`: `Stat`, `Check` (under
`RLock`), `Lock` (with the re-check), `Read` or `ReadFails`, `Store`, `Compare`,
and `Cached` after a failed stat. `Write` and `SetAccess` are the operator. A
write may leave the mtime where it was unless `FineClock` holds. `floor`,
`known` and `outage` are history: what the answer of a call may rest on.

`TokenOracle` is what callers of a `Source` may rely on: at each moment it
serves one version of the file, only ever moves forward, and answers a call
from that version; a call that saw the file readable throughout is answered
from a version no older than the one it began with. `TokenSource` refines it
with `served <- held`.

### RateLimiter, QuotaOracle

`New` chooses the quota (`perMinute`, with the truncating division that makes
the interval between tokens); each goroutine in `Allow` goes through
`Disabled`, or `Lock`, `Find` or `Insert`, `Unlock`, and then takes a token or
is refused outside the mutex. `limiters` is the map (caller to bucket), and a
bucket is the pair `credit`, `at` of `rate.Limiter`: what it held when it was
last looked at, in clock units. `rate.Limiter` is external and atomic.
`admitted` records when each caller was let through. A quota whose interval
truncates to zero is `Unlimited`, as `rate.Every(0)` is.

`QuotaOracle` has no mutex, no map and no lazy filling: every caller has a
bucket from the start, `Tick` fills it, and a call is decided in one step. The
refinement maps a caller without a bucket to a full one, and a bucket to what
it holds *now*.

### AskDecode, Gateway

`AskDecode` is what the gateway makes of the bytes of a request: the two
readings of the Authorization header (`extractBearer` of the middleware,
`parseBearerToken` of the handler), the content type, and the two calls of
`Decode` on a body behind `http.MaxBytesReader`. A body is a sequence of
symbols, of which the limits count bytes: the braces that begin and end an
object, blanks, bytes of the query, and what makes a request illegal.

`Gateway` is the way of concurrent requests from `metricsMiddleware` through
the auth middleware, the decoding steps, the limiter and the bridge to the
deferred function of the metrics middleware. Every access to state that
requests share (gauge, counters, buckets, audit log), every call of the bridge
and every commitment of a status to the caller is one step; `After` is the
table of the order in which each ending (`answered`, `chat_failed`,
`open_failed`, `streamed`, `cut`, `limited`, `plain`) does its metrics, its
audit line and its answer. `secret` is the token the Source serves (justified
by the refinement of `TokenOracle`: a `Validate` is one atomic answer from one
served version, or `no_token` while the file cannot be read); `Allow` is one
step (justified by the refinement of `QuotaOracle`), and time is a `Refill`;
the inside of `stream` is `StreamSession`, that of `chat` and `models` is
`BridgeCall`. A `Crash` takes the metrics and the buckets and leaves the audit
log.

### StreamSession

One `POST /v1/ask` with `stream: true`, from the call of the bridge to the
return of `askStream`. `inbox` is what the bridge sent and `Next` did not yet
return, `out` the frames of the chunk at hand that wait to be written, `wire`
the send buffer, `received` what the client read. A full send buffer blocks
`WriteFrame`; a broken connection turns it into `WriteFails`, which, as in the
code, only loses the frame. `wrapper` is the writer `askStream` is given, chosen
at the start: net/http's own, or the `statusWriter` of the metrics middleware,
through which `http.ResponseController` cannot set a write deadline. In the
gateway it is always the latter. `Drain` and `Close` are the deferred
`ChatStream.Close`. A line that cannot be decoded or is too long is one value,
`BadLine`: which lines those are is the business of `BridgeCall`.

### BridgeCall

One call of the client: `await` (the request is out), `decide` (on the status),
then `snippet` (an error body), `decode` (`Chat`, `Models`) or `next` and
`close` (`ChatStream`). The bridge sends a byte, ends the body or breaks it off
at any moment; `Cancel` and `Timeout` come at any moment. A byte is one of two
braces, CR and LF; a JSON text is the two braces with white space around them.
`NextLine`, `NextFragment`, `NextTooLong`, `NextEof` and `NextReadFails` are
the ways through `Next`, over a buffer of `MaxLine + 1` bytes. `Kind`,
`bridgeErrorStatus` and `mapBridgeError` are what the server makes of a failure.

### Config, Lifecycle

`Config` is `Load` and `Validate` on the *kinds* of value a variable may have:
the parsers of the standard library are tables. `Lifecycle` is the goroutine of
`run` (`LoadConfig`, `ValidateConfig`, `WireUp`, the `select`, two
`Shutdown`s of two steps each, `Finish`), the goroutines of the two listeners
(`Bind`, `ServeFails`, `ServeStops`, `SendResult`), the channel of room two, the
signal, the parent context, the timer, and the connections, each `new` until it
has sent a request, then `active`. `Route` is the two muxes.

## 3. Runs

| run | question | bounds | result |
|---|---|---|---|
| `token_fresh` | are answers current, tokens never put back, and does the Source implement the oracle? | 2 goroutines, 3 versions of the file, 2 tokens | holds |
| `token_coarse` | is (mtime, size) enough for rotations between calls with contents of different sizes, on a clock that may stand still? does every call return? | 2 goroutines, 2 versions, a blank file, outages | holds |
| `token_same_tick` | does the old token stop working when two tokens of one length share a tick? | 2 versions | violated (finding) |
| `token_unreadable` | does a cached token survive a failed read? | 2 versions | violated (finding) |
| `ratelimit` | one bucket per caller, a bounded rate, fair refusals, and the oracle's decisions? | 2 goroutines, 2 callers, a minute of 3 ticks, 4 ticks, quotas -1, 2 and 4 | holds |
| `gateway_safe` | do metrics, log and answers agree, also after a crash; does each caller pay for itself; does the middleware hold; are bodies judged whole? | 2 of 12 kinds of request, 1 token a minute, 1 refill, 1 rotation, 1 crash | holds |
| `gateway_live` | is a request answered although the audit sink fails and another request hangs for ever in its stream or its answer? | 2 requests | holds |
| `gateway_failed_ask` | is every ask that reaches the bridge audited? | 2 asks | violated (finding) |
| `stream` | are frames, audit line and metrics right? does the session end, does a hang-up release it from a silent bridge, does a deadline that reaches the connection bound a stall? | 3 lines of 4 kinds or bad, a send buffer of 2, both writers | holds |
| `stream_stalled` | is a stall bounded behind `statusWriter`? | 2 lines, a send buffer of 1 | violated (finding) |
| `bridge` | framing, failures, closing and termination of one call | bodies of up to 5 bytes, lines of 3, snippets and drains of 2 | holds |
| `lifecycle` | does it stop, with the right status, having cut nobody off when it says so, in every environment? | every variable with each kind of value, occupied ports, a shared port, a stream, a probe and a scrape | holds |

Deadlock is checked in every run; where a system has legitimately stopped
(`Exited`, `Returned`, `Over`), an explicit stuttering step says so, and where
it has not, a goroutine that waits for ever is an error.

Why the bounds are enough to be interesting.

* *Token.* A lost or undone rotation needs two goroutines in one reload and two
  versions after the first; three versions give a reload that is late by two.
* *Rate limiter.* Two goroutines race on one caller's first call, or on two
  callers' buckets; four ticks are more than a minute of three, so the whole
  quota can be spent, refilled and spent again; of the quotas one disables the
  limiter, one does not divide the minute (the refill drops a remainder), one
  exceeds it (the interval truncates to zero).
* *Gateway.* Every shared counter is touched by two requests at once on every
  pair of endings; two asks at one token exhaust a bucket, or exhaust it again
  after a refill; two tokens and one rotation give two callers, the second of
  which can only be let through from a bucket of its own. Bodies fit the limit
  of 4 exactly, exceed it inside the value, and exceed it behind it.
* *Stream.* One chunk of each branch of the loop, one that takes several
  branches at once, room for fewer frames than one chunk makes (so a write waits
  in the middle of a chunk), and as many lines as it takes to follow a done
  chunk by another.
* *Bridge.* Five bytes hold two lines, a blank line and a fragment; a line of
  exactly the limit, and one longer by a byte, each with the end before, in or
  after the buffer; a limit of 2 for snippets and drains is met in the middle of
  a body.
* *Lifecycle.* Each variable by itself takes every kind of value that its block
  of `Load` or its line of `Validate` tells apart; all of them together are set
  to values of their own. Each listener can fail before, during and after the
  signal, and each server has a connection that can outlast the deadline.

Every property of a passing run has a mutant of the code (`PROJECT.json`,
`mutants`) which violates it under the same configuration.

### Findings

Each violation run states what a comment or a document says and shows that the
code does otherwise; `PROJECT.json` (`findings`) quotes both.

* `stream_stalled`: the write deadline of `askStream` is never set, because
  `http.NewResponseController` is given a `statusWriter` that has neither
  `SetWriteDeadline` nor `Unwrap`, and the error is discarded. `stream` shows the
  counterpart: over net/http's own writer the same handler is bounded
  (`DeadlineBoundsStall`).
* `gateway_failed_ask`: a non-streaming ask that the bridge fails leaves no
  audit line.
* `token_same_tick`: two rotations within one mtime tick to a token of the same
  length are missed.
* `token_unreadable`: a reload whose read fails answers `no_token` although a
  token is cached.

Smaller disagreements met while modelling, which have no run of their own:

* `handlers.go:316`: a failed `/v1/models` (and `/v1/tools`) is in no
  `upstream_errors_total`, whose help text (`metrics.go:95`) says "upstream
  bridge errors by operation".
* `main.go:158` says that an early return of a listener is fatal; if the signal
  arrives before its result is received, the `select` may take the signal, and
  the process exits with 0. `OnlyASignalStopsCleanly` states what does hold.
* `config.go:137` says a set-but-empty variable is rejected for every string and
  numeric field; an empty `OPENCOST_AI_RATE_LIMIT_PER_MIN` counts as unset.
* `config.go:95` speaks of a cap on requests per minute; a full bucket and the
  refill let nearly twice as many through in the first minute. `RateIsBounded`
  states the exact bound.
* `ratelimit.go:52-55` calls the conversion exact; the division truncates.
* `bridge/stream.go:33-35` says the buffer is full exactly when a line reaches
  the maximum without a newline; it is full a byte later, and a line of exactly
  the maximum is taken.
* `api.md:329` gives 413 for a body over the limit; one whose value is complete
  within the limit is refused with 400.

### Fairness

* `TokenSource.FairSpec`: strong fairness of the steps of a running call. A
  step waits only for `s.mu`; Go's `sync.RWMutex` blocks new readers once a
  writer waits and lets readers through between writers, so nobody that wants
  it for ever is passed over for ever.
* `StreamSession.FairSpec`: only the handler and net/http (its background read,
  its deadlines) run. What is assumed of the others is the antecedent of the
  property that needs it: `SessionEnds` assumes a bridge that answers and ends
  some day and a client that reads on or hangs up; `HangUpReleases` and
  `DeadlineBoundsStall` assume nothing of either.
* `BridgeCall.Spec`: the client's own steps, and the timer of the
  `http.Client` where it has one. Nothing is assumed of the bridge.
* `Lifecycle.Spec`: `run`, the two listener goroutines, the timer, and handlers
  that wait for nobody (health, metrics, the mux). Nothing is assumed of
  clients, signals, or requests behind the bridge.
* `Gateway.FairSpec`: weak fairness of each request's steps, except where it
  waits for somebody whom no timeout hurries (`Waiting`): the bridge call of a
  stream (its `http.Client` has no timeout, `client.go:66`), the stream itself,
  and the write of an answer (`WriteTimeout` is 0, `main.go:109`). Reading a body
  is bounded by the server's `ReadTimeout`, a call of `Chat` or `Models` by the
  client's `Timeout` (`CallsEnd` of `bridge`). `RequestsEnd` assumes of a
  request's own caller and stream, in its antecedent (`NotLeftWaiting`), that
  they do not leave it waiting, and nothing of those of other requests. That a
  write to the audit sink returns, with an error or without, is assumed.

## 4. Theorems

All proofs are for every value of the constants, under the named ASSUMEs of the
modules (what the comments at the CONSTANTS say: tokens and contents are what
they are called, bounds are numbers, `Requests` is finite, `NoProc`, `Nobody`
and `NoToken` are nobody's). Three statements have a further hypothesis in the
open: `FineClock` (token freshness and its refinement) and `~SinkFails`
(`AuditHolds`, `RecordsTellOneStory`).

**TokenSourceProofs, TokenSourceRefinement.**

* `TypeCorrect`; `OneReloader` and `KeyBehindToken`: `LockHeldByReloader` and
  `KeyNeverAhead`. Neither is inductive. `SourceInv` adds what each step of a
  reload has seen: a stat is of an existing version and not older than the call
  (`StatInv`), and between the read and the store the stat is not newer than
  what was read, nor is what is cached (`StoreInv`); the last part needs the
  lock.
* `NoOlderToken`: `[][held' >= held]_held`, from `SourceInv`.
* `Fresh` (`AnswersAreCurrent`), assuming `FineClock`. `ClockInv` says that two
  versions have two mtimes; therefore a stat that equals the key is of the
  version the key came from, so what is cached is at least that version
  (`UnchangedMeansCurrent`). `ReadyInv` carries it to the comparison, and
  `HistoryInv` knows which calls met an outage. Without an assumption it is
  false: `token_same_tick` is the counterexample.
* `FreshBySize` (the same invariant) for a clock that may stand still, where the
  size in the key has to do: assuming that contents of one size hold one token
  (`SizesTell`) and that no write falls into a running call (`QuietWrites`). Then
  what is cached is always filed under its own stat (`OneVersion`), and an
  unchanged stat means an equal token (`UnchangedMeansSame`). `token_coarse` is
  an instance. The second assumption is necessary too: with a write
  between the stat and the read of a reload, and a third write on the same tick
  that brings the first contents back, the stat is unchanged and the token is
  that of the second.
* `ImplementsOracle`: `Spec => Oracle!Spec`, assuming `FineClock`, one step
  of the oracle (or a stutter) per action: `Store` is `Advance`, `Compare` is
  `Answer`, `ReadFails` and an uncached `Cached` are `GiveUp`.

**RateLimiterProofs.** `Inv` (types, what each goroutine holds, the mutex,
ownership of buckets) gives `TypeCorrect`, `MutexSafe` and `BucketsAreOwned`.
The two quantitative theorems rest on a `Ledger` of each bucket: what it holds
now, plus what was paid since any earlier admission, is at most a full bucket
and what the clock has given since (`AtMost`), and at least what the clock has
given since, or else a full bucket (`AtLeast`). The first half gives
`RateBounded` (n admissions in a row span the time it takes to give n minus the
quota back), the second `RefusalsAreFair` (whoever is refused was admitted a
whole quota's worth of times within the last minute). `KeepsTheQuotaAlways` is
the refinement: `Insert` is a stutter because a missing bucket is a full one,
`Tick` fills what the code only fills when it looks.

**GatewayProofs.** `Fits` says which endings and codes go with which phase, and
`Committed` that what was sent is what was decided: the *route* of a request.
Types need the gauge (`Leave` subtracts from it, so that it is a natural number
only because somebody is being served), and the gauge needs the route; the
three are proved together (`InvHolds`). From there:
`GaugeExact` and `TotalsExact` (each step moves at most one request into or out
of the set that is counted), `AuthHolds` (`Barred`: whoever was not let in is at
the door or on the way out, and what is let in had a token that was the secret
at that moment), `AuditHolds` (`OneLine` and `AuditedFirst`: on each ending of
the table an audit line precedes the answer, and it comes once),
`EveryCallerPays` (`Account`: bucket and admissions of a caller add up to what
it was given; it uses that the two parsers of the header agree),
`RecordsTellOneStory` (`Books`: each counter is the size of the set of requests
past `count` on its ending, the log has one line per request past `audit`),
`BodiesJudged` (`Judged`: whatever is behind the decoding steps has an
`AskStatus` of 0, and 413 is only given to a body over the limit; the lemma
`JudgedWhole` is the part about bodies: if both `Decode`s and the validation let
a body through, its first closing brace is its only one and nothing but blanks
follows it). `LegalIsAccepted` is the converse of that lemma, so that
`IsAskRequest` says exactly what is let through.

**SequenceFacts.** What follows is about chunks, frames, bytes and lines of any
number. The induction is not over a property but over a set of numbers
(`InductionOnSet`: a set with 0 that has `n + 1` with each `n` is `Nat`), which
follows from the well-foundedness of `<` in the library. With it come the facts
about `FlattenSeq`, the one recursive definition (in the community modules, as a
recursive function) that the properties use: its type, what it makes of an
appended sequence and of a concatenation. `Gather(h, s)` is what a function makes
of the elements of `s` one after the other, `UpTo(g, n)` what it makes of 1 to n.

**StreamSessionProofs.** `Control`, `Tallies`, `Incoming` and `Buffered` are the
type; `Audited` ties the audit line to the place of the handler, the error
counter and the status, which gives `OneAuditLine`; `Framed` says that every
frame before the last is none of the terminal kinds, that the frames still to be
written are the handler's, and that the session's outcome is that of the last,
which gives `OneLastFrame`. `InOrder` compares the frames that went out with the
frames of the chunks `Next` has returned: as long as the connection is whole,
those that went out and those still to be written are all of them, and
afterwards they are a prefix; it is inductive, and gives `FramesInOrder`.
`Accounted` says that the locals of the loop are what the chunks so far come to
(the last usage, all tool calls, the text if the query is logged), `Recorded`
that the done frame, the audit line and the metrics are taken from those locals
and from nothing later; with `InOrder` they give `AuditIsTheStream`.

**BridgeCallProofs.** `Orderly` says what is known at each point of a call
(whether there is a response, whether its body is open, whether its status is
good, under what name it failed), `Bytes` that the read position never passes
what was sent. They give `TypeCorrect`, `BodyGetsClosed`, `FailureHasItsName`.
The reference for the framing looks at the body from its end: `TextBefore(i)` is
the text of the line that ends before byte i, if one does. `Cut` says that at
`next` the client stands behind a newline (or at the start) and has returned the
texts up to there, or has taken what is behind the last newline of a body that
has ended. Each way through `Next` keeps it: up to the newline it found there is
no other (`LineIs`, `TextsGoOn`), taking off a CRLF leaves the line
(`Stripping`), and one more byte from the bridge changes no line that has ended
(`LinesStay`, `TextsStay`). That gives `ChunksAreLines`. `Reason` keeps, for a
stream that has failed, what is in its body: a line that is no JSON, or a start
of a line with a whole buffer and no newline behind it, which is longer than
`MaxLine` wherever it ends (`LongLineIsTooLong`). That gives `StreamFailures`;
what `Decodes` takes for JSON does not matter to it.

**LifecycleProofs.** `NobodyCut` from `Drained` (a server that was shut down
without an error has no active connection, and never gets one again: no new
ones are taken); `SignalStopsCleanly` from `Told` (before the first `Shutdown`
nobody's result is a clean one); `ConfigWires` from `Configured`.

Only model-checked: all liveness, which is outside the prover's reach
(`CallsReturn`, `SessionEnds`, `HangUpReleases`, `DeadlineBoundsStall`,
`StopsInTime`, `NoHalfGateway`, `CallsEnd`, `RequestsEnd`), the absence of
deadlocks, and the four runs that expect a violation. Every invariant, every
action property and both refinements that the passing runs check have a theorem.

## 5. Abstractions

* Token contents are compared by version or by an opaque value; the
  constant-time comparison is a comparison. Answers other than ok, invalid and
  no_token do not exist in `Source`, so the 500 of the auth middleware is left
  out.
* `rate.Limiter` is one atomic external step, on integers: its floating point
  is left out.
* A chunk is a record of the fields the loop looks at. Frames are written whole
  or not at all. The bytes of bodies are symbols; JSON is matched braces.
* A body of `/v1/ask` has one query, one conversation id that may be illegal, and
  one kind of unknown field. (That the query is valid UTF-8 is checked by the
  code although `encoding/json` has already made it so; the branch is left out.)
* The histograms, and all label values except endpoint, status and operation,
  are left out, as are logs, headers and the texts of problem documents. Counters
  are atomic, as those of client_golang are. `Gateway.usage` counts the answers
  that are handed to `observeTokens` and `observeToolCalls`; that these skip
  amounts of zero is left out (`StreamSession` has the amounts).
* That the options of `bridge.New` are applied before `CheckRedirect` is set is
  not modelled as steps: what comes of it, a client that follows no redirect, is
  the definition `refuseRedirects`.
* A line of the audit log is appended in one step, as its mutex makes it; the
  time stamps, which are taken before the mutex is, are left out, and so is a
  sink that writes half a line.
* `CallerIdentity` is a function from tokens to pseudonyms; nothing depends on
  its being injective; `MCGateway` gives two callers.
* http.Server is external: `Shutdown` closes the listener, then looks at the
  connections before it looks at its context.

## 6. Not modelled

* *Request ids*: one request chooses an id by itself and touches nothing shared;
  a test of one character class says all there is to say.
* *Wire types*: types and JSON tags.
* *Exposition, histograms* of the metrics, and the JSON of an audit line: format.
* *Helm chart, air-gap scripts, CI, legacy prototype*: not in the process.
* *Bridge, Ollama, OpenCost*: external, known only by their answers, silences
  and failures.

What could follow: `Log` with a sink that writes part of a line; `Gateway` with
`TokenOracle` and `QuotaOracle` in the place of `secret` and `bucket` as
instances, where their refinements now justify an atomic step; `StreamSession`
over the lines that `BridgeCall` cuts.
