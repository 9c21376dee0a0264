------------------------------ MODULE Gateway ------------------------------
(***************************************************************************)
(* The request path of the public listener: what server.New (server.go)    *)
(* wires around a request,                                                 *)
(*                                                                         *)
(*   requestid -> metricsMiddleware -> auth.Middleware -> handler          *)
(*                                                                         *)
(* and what the concurrent requests of all callers do to the state they    *)
(* share: the metrics registry, the rate limiter's buckets, the audit log. *)
(* A handler's local work is part of the step that ends it; every access   *)
(* to shared state, every call of the bridge and every commitment of a     *)
(* status to the caller is a step of its own.                              *)
(*                                                                         *)
(* Once a handler knows how its request ends, the rest of it is straight   *)
(* line code: `path` names the ending, `code` the status it decided on,    *)
(* and After the order of what is left to do.  The frames of a stream are  *)
(* the business of StreamSession, the token file that of TokenSource:      *)
(* `secret` is the token the Source serves at the moment.                  *)
(*                                                                         *)
(* The process may crash: the registry and the buckets live in its memory, *)
(* the audit log is outside it.                                            *)
(***************************************************************************)
EXTENDS AskDecode, FiniteSets

CONSTANTS
    Requests,       \* the requests that may arrive
    Tokens,         \* bearer tokens
    CallerIdentity, \* token -> the pseudonym of its callers
    PerMinute,      \* RateLimitPerMin; 0 disables the limiter
    SinkFails,      \* a write to the audit sink may fail
    MaxArrivals,    \* bound: requests that arrive
    MaxRefills,     \* bound: tokens that time gives back to each bucket
    MaxRotations,   \* bound: changes of the configured token
    MaxCrashes      \* bound: crashes of the process

Endpoints == {"ask", "tools", "models"}

ASSUME RequestsAssumption ==
    \A r \in Requests :
        /\ r.endpoint \in Endpoints
        /\ r.header.spaces \in Nat /\ r.header.token \in Tokens \cup {NoToken}
        /\ r.stream \in BOOLEAN /\ r.body \in Seq(Symbols)
ASSUME RequestsFinite == IsFiniteSet(Requests)
ASSUME NoTokenAssumption == NoToken \notin Tokens
ASSUME CallersAssumption == DOMAIN CallerIdentity = Tokens
ASSUME LimitAssumption == PerMinute \in Nat /\ SinkFails \in BOOLEAN
ASSUME GatewayBounds ==
    /\ MaxArrivals \in Nat /\ MaxRefills \in Nat
    /\ MaxRotations \in Nat /\ MaxCrashes \in Nat

\* audit.CallerIdentity.
IdentityOf(t) == IF t = NoToken THEN "anonymous" ELSE CallerIdentity[t]

Callers == {IdentityOf(t) : t \in Tokens \cup {NoToken}}

VARIABLES
    \* the requests
    phase,      \* where each request is
    path,       \* how it ends, once that is decided
    code,       \* the status its handler decided on
    wire,       \* the status committed to its caller (0: none)
    \* shared by the requests
    secret,     \* the token the auth.Source serves
    bucket,     \* Limiter.limiters: whole tokens in each caller's bucket
    inFlight,   \* requests_in_flight
    total,      \* requests_total, by endpoint and status
    rateLimited,    \* rate_limited_total
    upstreamErrors, \* upstream_errors_total, by operation
    usage,      \* answers handed to observeTokens and observeToolCalls
    auditLog,   \* the lines written to the audit sink
    \* history and bounds
    secrets,    \* every token that was ever configured
    refilled,   \* tokens given back to each bucket since the process started
    rotations, crashes

requestVars == <<phase, path, code, wire>>
metricVars  == <<inFlight, total, rateLimited, upstreamErrors, usage>>
boundVars   == <<secrets, refilled, rotations, crashes>>
vars == <<requestVars, secret, bucket, metricVars, auditLog, boundVars>>

Statuses  == {200, 400, 401, 413, 415, 429, 502, 503}
Ops       == {"chat", "chat_stream"}

ZeroTotal  == [e \in Endpoints |-> [s \in Statuses |-> 0]]
ZeroErrors == [op \in Ops |-> 0]

\* The token the middleware validates.
TokenOf(r) == extractBearer(r.header)

\* Who the handler takes the caller for.
CallerOf(r) == IdentityOf(parseBearerToken(r.header))

\* The limiter keeps its buckets by caller identity.
BucketOf(r) == CallerOf(r)

-----------------------------------------------------------------------------
(* The order in which a handler finishes, by the way it ends: its metrics, *)
(* its audit line, its answer.  (A stream's answer was committed before.)  *)

\* Mutant: the answer is written first, and audited when it is out.
AfterAnswering ==
    [limited     |-> [count |-> "audit", audit |-> "reply", reply |-> "leave"],
     answered    |-> [count |-> "reply", reply |-> "audit", audit |-> "leave"],
     chat_failed |-> [count |-> "reply", reply |-> "leave"],
     open_failed |-> [count |-> "reply", reply |-> "audit", audit |-> "leave"],
     streamed    |-> [count |-> "audit", audit |-> "leave"],
     cut         |-> [count |-> "audit", audit |-> "leave"],
     plain       |-> [reply |-> "leave"]]

\* Mutant: a request over the limit is turned away before it is audited.
AfterNoLimitAudit ==
    [limited     |-> [count |-> "reply", reply |-> "leave"],
     answered    |-> [count |-> "audit", audit |-> "reply", reply |-> "leave"],
     chat_failed |-> [count |-> "reply", reply |-> "leave"],
     open_failed |-> [count |-> "reply", reply |-> "audit", audit |-> "leave"],
     streamed    |-> [count |-> "audit", audit |-> "leave"],
     cut         |-> [count |-> "audit", audit |-> "leave"],
     plain       |-> [reply |-> "leave"]]

After ==
    [limited     |-> [count |-> "audit", audit |-> "reply", reply |-> "leave"],
     answered    |-> [count |-> "audit", audit |-> "reply", reply |-> "leave"],
     chat_failed |-> [count |-> "reply", reply |-> "leave"],
     open_failed |-> [count |-> "reply", reply |-> "audit", audit |-> "leave"],
     streamed    |-> [count |-> "audit", audit |-> "leave"],
     cut         |-> [count |-> "audit", audit |-> "leave"],
     plain       |-> [reply |-> "leave"]]

Paths == DOMAIN After

Outcome == [limited |-> "rate_limited", answered |-> "ok", streamed |-> "ok",
            open_failed |-> "error", cut |-> "error"]

Goto(r, ph) == phase' = [phase EXCEPT ![r] = ph]

\* The handler of r has decided how r ends, and goes on at ph.
Decide(r, p, st, ph) ==
    /\ Goto(r, ph)
    /\ path' = [path EXCEPT ![r] = p]
    /\ code' = [code EXCEPT ![r] = st]

-----------------------------------------------------------------------------
(* The way in.                                                             *)

Arrived == {r \in Requests : phase[r] # "idle"}

\* metricsMiddleware counts the request in.
Arrive(r) ==
    /\ phase[r] = "idle"
    /\ Cardinality(Arrived) < MaxArrivals
    /\ Goto(r, "auth")
    /\ inFlight' = inFlight + 1
    /\ UNCHANGED <<path, code, wire, secret, bucket, total, rateLimited, upstreamErrors,
                   usage, auditLog, boundVars>>

\* Where the handler of an endpoint begins.
Entry == [ask |-> "decode", tools |-> "reply", models |-> "models"]

\* Mutant: a gateway without a token lets everybody in.
PassesOpen(r) == TokenOf(r) # NoToken /\ secret \in {TokenOf(r), NoToken}

\* Validate finds the token of the header equal to the one that is served.
Passes(r) == TokenOf(r) # NoToken /\ TokenOf(r) = secret

\* tools has nothing to decide.
Pass(r) ==
    /\ phase[r] = "auth" /\ Passes(r)
    /\ IF r.endpoint = "tools" THEN Decide(r, "plain", 200, Entry["tools"])
       ELSE Goto(r, Entry[r.endpoint]) /\ UNCHANGED <<path, code>>
    /\ UNCHANGED <<wire, secret, bucket, metricVars, auditLog, boundVars>>

\* No header, or not the token: 401.  No token configured, or the token file
\* cannot be read at the moment: 503.
Deny(r) ==
    /\ phase[r] = "auth"
    /\ \/ (TokenOf(r) = NoToken \/ secret \notin {TokenOf(r), NoToken}) /\ Decide(r, "plain", 401, "reply")
       \/ TokenOf(r) # NoToken /\ Decide(r, "plain", 503, "reply")
    /\ UNCHANGED <<wire, secret, bucket, metricVars, auditLog, boundVars>>

-----------------------------------------------------------------------------
(* ask.                                                                    *)

\* The body is refused for what it is; or the connection is lost while it is
\* read, which looks like invalid JSON.
RejectBody(r) ==
    /\ phase[r] = "decode"
    /\ \/ /\ AskStatus(r.contentType, r.body) # 0
          /\ Decide(r, "plain", AskStatus(r.contentType, r.body), "reply")
       \/ requireJSON(r.contentType) = 0 /\ Decide(r, "plain", 400, "reply")
    /\ UNCHANGED <<wire, secret, bucket, metricVars, auditLog, boundVars>>

AcceptBody(r) ==
    /\ phase[r] = "decode" /\ AskStatus(r.contentType, r.body) = 0
    /\ Goto(r, "limit")
    /\ UNCHANGED <<path, code, wire, secret, bucket, metricVars, auditLog, boundVars>>

LimiterEnabled == PerMinute > 0

\* Mutant: the token is taken without looking whether there is one.
AllowRegardless(r) ==
    /\ phase[r] = "limit"
    /\ bucket' = [bucket EXCEPT ![BucketOf(r)] = @ - 1]
    /\ Goto(r, IF r.stream THEN "open" ELSE "chat")
    /\ UNCHANGED <<path, code, wire, secret, metricVars, auditLog, boundVars>>

\* limiter.Allow consumes a token of the caller's bucket.
Allow(r) ==
    /\ phase[r] = "limit"
    /\ IF LimiterEnabled
       THEN bucket[BucketOf(r)] > 0 /\ bucket' = [bucket EXCEPT ![BucketOf(r)] = @ - 1]
       ELSE UNCHANGED bucket
    /\ Goto(r, IF r.stream THEN "open" ELSE "chat")
    /\ UNCHANGED <<path, code, wire, secret, metricVars, auditLog, boundVars>>

Limit(r) ==
    /\ phase[r] = "limit"
    /\ LimiterEnabled /\ bucket[BucketOf(r)] = 0
    /\ Decide(r, "limited", 429, "count")
    /\ UNCHANGED <<wire, secret, bucket, metricVars, auditLog, boundVars>>

\* bridgeErrorStatus and mapBridgeError: 503 for a bridge that says 503, and 502
\* for any other answer, no answer, a timeout, or a caller that went away.
BridgeErrorStatuses == {502, 503}

Chat(r) ==
    /\ phase[r] = "chat"
    /\ \/ Decide(r, "answered", 200, "count")
       \/ \E st \in BridgeErrorStatuses : Decide(r, "chat_failed", st, "count")
    /\ UNCHANGED <<wire, secret, bucket, metricVars, auditLog, boundVars>>

OpenFails(r) ==
    /\ phase[r] = "open"
    /\ \E st \in BridgeErrorStatuses : Decide(r, "open_failed", st, "count")
    /\ UNCHANGED <<wire, secret, bucket, metricVars, auditLog, boundVars>>

\* The stream is open: its status is committed before its first frame.
OpenStream(r) ==
    /\ phase[r] = "open"
    /\ Goto(r, "stream")
    /\ wire' = [wire EXCEPT ![r] = 200]
    /\ UNCHANGED <<path, code, secret, bucket, metricVars, auditLog, boundVars>>

EndStream(r) ==
    /\ phase[r] = "stream"
    /\ \/ Decide(r, "streamed", 200, "count")
       \/ Decide(r, "cut", 502, "count")
    /\ UNCHANGED <<wire, secret, bucket, metricVars, auditLog, boundVars>>

Models(r) ==
    /\ phase[r] = "models"
    /\ \E st \in {200} \cup BridgeErrorStatuses : Decide(r, "plain", st, "reply")
    /\ UNCHANGED <<wire, secret, bucket, metricVars, auditLog, boundVars>>

-----------------------------------------------------------------------------
(* The way out.                                                            *)

\* RateLimited().Inc, recordUpstreamError, observeTokens and observeToolCalls.
Count(r) ==
    /\ phase[r] = "count"
    /\ rateLimited' = IF path[r] = "limited" THEN rateLimited + 1 ELSE rateLimited
    /\ upstreamErrors' =
           CASE path[r] = "chat_failed" -> [upstreamErrors EXCEPT !["chat"] = @ + 1]
             [] path[r] \in {"open_failed", "cut"} ->
                    [upstreamErrors EXCEPT !["chat_stream"] = @ + 1]
             [] OTHER -> upstreamErrors
    /\ usage' = IF path[r] \in {"answered", "streamed"} THEN usage + 1 ELSE usage
    /\ Goto(r, After[path[r]].count)
    /\ UNCHANGED <<path, code, wire, secret, bucket, inFlight, total, auditLog, boundVars>>

AuditLine(r) ==
    [request |-> r, caller |-> CallerOf(r), status |-> code[r], outcome |-> Outcome[path[r]]]

\* Mutant: the handler retries until its audit line is written.
LogRetries(r) ==
    /\ phase[r] = "audit"
    /\ IF SinkFails THEN UNCHANGED <<phase, auditLog>>
       ELSE auditLog' = Append(auditLog, AuditLine(r)) /\ Goto(r, After[path[r]].audit)
    /\ UNCHANGED <<path, code, wire, secret, bucket, metricVars, boundVars>>

\* logAudit: a failed write is logged, and the request goes on.
LogAudit(r) ==
    /\ phase[r] = "audit"
    /\ \/ auditLog' = Append(auditLog, AuditLine(r))
       \/ SinkFails /\ UNCHANGED auditLog
    /\ Goto(r, After[path[r]].audit)
    /\ UNCHANGED <<path, code, wire, secret, bucket, metricVars, boundVars>>

\* writeJSON or writeProblem, through the statusWriter.
Reply(r) ==
    /\ phase[r] = "reply"
    /\ wire' = [wire EXCEPT ![r] = code[r]]
    /\ Goto(r, After[path[r]].reply)
    /\ UNCHANGED <<path, code, secret, bucket, metricVars, auditLog, boundVars>>

\* Mutant: a handler that failed skips the decrement.
LeaveUncounted(r) ==
    /\ phase[r] = "leave"
    /\ inFlight' = IF path[r] = "chat_failed" THEN inFlight ELSE inFlight - 1
    /\ Goto(r, "tally")
    /\ UNCHANGED <<path, code, wire, secret, bucket, total, rateLimited, upstreamErrors,
                   usage, auditLog, boundVars>>

\* The deferred function of metricsMiddleware: the gauge, then the total.
Leave(r) ==
    /\ phase[r] = "leave"
    /\ inFlight' = inFlight - 1
    /\ Goto(r, "tally")
    /\ UNCHANGED <<path, code, wire, secret, bucket, total, rateLimited, upstreamErrors,
                   usage, auditLog, boundVars>>

\* Mutant: the label is what the handler decided, not what was sent.
DecidedStatus(r) == code[r]

\* statusWriter.status: the status that was committed.
StatusLabel(r) == wire[r]

Tally(r) ==
    /\ phase[r] = "tally"
    /\ total' = [total EXCEPT ![r.endpoint][StatusLabel(r)] = @ + 1]
    /\ Goto(r, "done")
    /\ UNCHANGED <<path, code, wire, secret, bucket, inFlight, rateLimited, upstreamErrors,
                   usage, auditLog, boundVars>>

-----------------------------------------------------------------------------
(* Operators, time, crashes.                                               *)

\* The served token changes: to another one, or to none.
Rotate(t) ==
    /\ rotations < MaxRotations /\ t # secret
    /\ secret' = t
    /\ secrets' = secrets \cup ({t} \ {NoToken})
    /\ rotations' = rotations + 1
    /\ UNCHANGED <<requestVars, bucket, metricVars, auditLog, refilled, crashes>>

\* Time gives a token back to a bucket that is not full.
Refill(c) ==
    /\ refilled[c] < MaxRefills /\ bucket[c] < PerMinute
    /\ bucket' = [bucket EXCEPT ![c] = @ + 1]
    /\ refilled' = [refilled EXCEPT ![c] = @ + 1]
    /\ UNCHANGED <<requestVars, secret, metricVars, auditLog, secrets, rotations, crashes>>

Ended == {"done", "past", "lost"}

\* The process dies and is started again: requests that were being served are
\* lost; those that were done belong to the past.
Crash ==
    /\ crashes < MaxCrashes
    /\ phase' = [r \in Requests |-> CASE phase[r] \in {"idle", "past", "lost"} -> phase[r]
                                      [] phase[r] = "done" -> "past"
                                      [] OTHER -> "lost"]
    /\ bucket' = [c \in Callers |-> PerMinute]
    /\ refilled' = [c \in Callers |-> 0]
    /\ inFlight' = 0 /\ total' = ZeroTotal /\ rateLimited' = 0
    /\ upstreamErrors' = ZeroErrors /\ usage' = 0
    /\ crashes' = crashes + 1
    /\ UNCHANGED <<path, code, wire, secret, auditLog, secrets, rotations>>

-----------------------------------------------------------------------------

Init ==
    /\ phase = [r \in Requests |-> "idle"]
    /\ path = [r \in Requests |-> "plain"]
    /\ code = [r \in Requests |-> 0]
    /\ wire = [r \in Requests |-> 0]
    /\ secret \in Tokens \cup {NoToken}
    /\ secrets = {secret} \ {NoToken}
    /\ bucket = [c \in Callers |-> PerMinute]
    /\ inFlight = 0 /\ total = ZeroTotal /\ rateLimited = 0
    /\ upstreamErrors = ZeroErrors /\ usage = 0
    /\ auditLog = <<>>
    /\ refilled = [c \in Callers |-> 0]
    /\ rotations = 0 /\ crashes = 0

Serve(r) ==
    \/ Pass(r) \/ Deny(r)
    \/ RejectBody(r) \/ AcceptBody(r) \/ Allow(r) \/ Limit(r)
    \/ Chat(r) \/ OpenFails(r) \/ OpenStream(r) \/ EndStream(r) \/ Models(r)
    \/ Count(r) \/ LogAudit(r) \/ Reply(r) \/ Leave(r) \/ Tally(r)

Idle == (\A r \in Requests : phase[r] \in {"idle"} \cup Ended) /\ UNCHANGED vars

Next ==
    \/ \E r \in Requests : Arrive(r) \/ Serve(r)
    \/ \E t \in Tokens \cup {NoToken} : Rotate(t)
    \/ \E c \in Callers : Refill(c)
    \/ Crash
    \/ Idle

Spec == Init /\ [][Next]_vars

\* Where a request waits for somebody whom no timeout hurries: the client of a
\* stream has none, and neither has a write to the caller.
Waiting(r) == phase[r] \in {"open", "stream", "reply"}

\* A goroutine runs, and a body arrives or the server's ReadTimeout ends it, and
\* a Chat or Models call returns or the http.Client's Timeout ends it.
FairSpec == Spec /\ \A r \in Requests : WF_vars(~Waiting(r) /\ Serve(r))

\* Assumed of r's caller and of the bridge that streams to it: what r waits for
\* happens some day (for a stream, as StreamSession's SessionEnds assumes).
NotLeftWaiting(r) == WF_vars(Waiting(r) /\ Serve(r))

-----------------------------------------------------------------------------
(* Properties.                                                             *)

Phases == {"idle", "auth", "decode", "limit", "chat", "open", "stream", "models",
           "count", "audit", "reply", "leave", "tally"} \cup Ended

TypeOK ==
    /\ phase \in [Requests -> Phases]
    /\ path \in [Requests -> Paths]
    /\ code \in [Requests -> Statuses \cup {0}]
    /\ wire \in [Requests -> Statuses \cup {0}]
    /\ secret \in Tokens \cup {NoToken} /\ secrets \subseteq Tokens
    /\ bucket \in [Callers -> 0..PerMinute]
    /\ inFlight \in Nat /\ rateLimited \in Nat /\ usage \in Nat
    /\ total \in [Endpoints -> [Statuses -> Nat]]
    /\ upstreamErrors \in [Ops -> Nat]
    /\ auditLog \in Seq([request : Requests, caller : Callers, status : Statuses,
                         outcome : {"ok", "error", "rate_limited"}])
    /\ refilled \in [Callers -> Nat] /\ rotations \in Nat /\ crashes \in Nat

NotServed == {"idle", "tally"} \cup Ended

\* requests_in_flight is the number of requests between the two ends of the
\* metrics middleware, whatever way each of them goes.
GaugeIsExact == inFlight = Cardinality({r \in Requests : phase[r] \notin NotServed})

\* requests_total counts every finished request of this life of the process
\* once, under the status its caller was sent.
TotalsMatchResponses ==
    \A e \in Endpoints, st \in Statuses :
        total[e][st] = Cardinality({r \in Requests :
            phase[r] = "done" /\ r.endpoint = e /\ wire[r] = st})

LinesOf(r) == {i \in DOMAIN auditLog : auditLog[i].request = r}

Principal(r) == IdentityOf(TokenOf(r))

\* A caller who holds the answer of a non-streaming ask, or a 429 to any ask, is
\* in the audit log: once, with the status it was sent, under the identity of the
\* token the auth middleware let in, even if the process has crashed since.
AnswersAreAudited ==
    \A r \in Requests :
        /\ Cardinality(LinesOf(r)) <= 1
        /\ r.endpoint = "ask" /\ (wire[r] = 429 \/ (wire[r] = 200 /\ ~r.stream)) =>
               \E i \in LinesOf(r) :
                   auditLog[i].status = wire[r] /\ auditLog[i].caller = Principal(r)

Settled == \A r \in Requests : phase[r] \in {"idle"} \cup Ended

Sent(st) == Cardinality({r \in Requests : wire[r] = st})

Logged(outcome) == Cardinality({i \in DOMAIN auditLog : auditLog[i].outcome = outcome})

\* The metrics, the audit log and what callers were sent tell the same story.
\* Of a refusal by the limiter the metric runs ahead of the audit log, which
\* runs ahead of the caller; and when nobody is being served, each refusal,
\* each answer and each failed stream is in the metrics and in the audit log
\* equally often.
RecordsAgree ==
    crashes = 0 =>
        /\ Logged("rate_limited") <= rateLimited
        /\ Sent(429) <= Logged("rate_limited")
        /\ Settled =>
              /\ Sent(429) = rateLimited /\ Logged("rate_limited") = rateLimited
              /\ Logged("ok") = usage
              /\ Logged("error") = upstreamErrors["chat_stream"]

AskPaths == {"answered", "chat_failed", "open_failed", "streamed", "cut"}

\* The requests of c the limiter has let through since the process started.
Admitted(c) ==
    {r \in Requests : /\ phase[r] \notin {"idle", "past", "lost"}
                      /\ phase[r] \in {"chat", "open", "stream"} \/ path[r] \in AskPaths
                      /\ Principal(r) = c}

\* Every admitted ask has paid one token of its own caller's bucket, nothing
\* else draws on a bucket (not a request that is denied or malformed), and a
\* caller is refused only after it has used up its own minute, however
\* busy its neighbours are.
CallersPayForThemselves ==
    LimiterEnabled =>
        \A c \in Callers :
            /\ bucket[c] + Cardinality(Admitted(c)) = PerMinute + refilled[c]
            /\ (\E r \in Requests : phase[r] \notin {"past", "lost"} /\ path[r] = "limited"
                                       /\ Principal(r) = c) =>
                   Cardinality(Admitted(c)) >= PerMinute

\* A request whose token was never the configured one touches nothing behind
\* the auth middleware, whatever the token file goes through: it gets no
\* answer but 401 and 503, and never reaches a handler.
NothingBehindAuthWithoutToken ==
    \A r \in Requests :
        TokenOf(r) \notin secrets =>
            /\ phase[r] \in {"idle", "auth", "reply", "leave", "tally"} \cup Ended
            /\ wire[r] \in {0, 401, 503}
            /\ LinesOf(r) = {}

\* One object with a query of legal length, and nothing else but blanks.
IsAskRequest(body) ==
    /\ Len(body) <= MaxRequestBytes
    /\ Cardinality({i \in DOMAIN body : body[i] = "q"}) \in 1..MaxQueryBytes
    /\ \E first, last \in DOMAIN body :
           /\ first < last /\ body[first] = "begin" /\ body[last] = "end"
           /\ \A i \in DOMAIN body \ {first, last} :
                  body[i] \in IF i \in first..last THEN {"q", "blank"} ELSE {"blank"}

\* An ask costs its caller something, or reaches the bridge, only if its whole
\* body is one legal request within the limit, wherever the limit cuts it; and
\* what fits is never refused as too large.
BodiesAreJudgedWhole ==
    \A r \in Requests :
        /\ phase[r] \in {"limit", "chat", "open", "stream"} \/ path[r] \in AskPaths \cup {"limited"}
              => IsAskRequest(r.body)
        /\ code[r] = 413 => Len(r.body) > MaxRequestBytes

\* A request is answered and leaves if its own caller takes the answer and, where
\* it is a stream, its own bridge call ends; a failing audit sink, a bridge that
\* is silent to a non-streaming call, and requests that hang elsewhere for ever
\* hold it up no more than the limit and the timeouts allow.
RequestsEnd ==
    \A r \in Requests : NotLeftWaiting(r) => (phase[r] = "auth" ~> phase[r] \in Ended)

\* docs/security.md: every authenticated request is audited as a single JSON
\* line.  Here of the asks that reached the bridge.
EveryAskIsAudited ==
    \A r \in Requests : phase[r] = "done" /\ path[r] \in AskPaths => LinesOf(r) # {}
=============================================================================
