----------------------------- MODULE Lifecycle -----------------------------
(***************************************************************************)
(* cmd/gateway: the goroutine of run, from the environment to the status   *)
(* the process exits with, the two goroutines that serve a listener each,  *)
(* the channel they report on, and the requests the listeners have taken.  *)
(*                                                                         *)
(* http.Server is external.  Shutdown(ctx) closes the listener, then waits *)
(* until no connection is active (a connection that sent nothing is closed *)
(* as idle) or ctx is done; it looks at the connections before it looks at *)
(* ctx.  ListenAndServe returns ErrServerClosed as soon as Shutdown was    *)
(* called, even before it has bound its port.                              *)
(***************************************************************************)
EXTENDS Config, Sequences

CONSTANTS
    Environments,   \* the environments the process may be started in
    Requests        \* [listener, method, path]: requests that may be made

ASSUME EnvironmentsAssumption == \A e \in Environments : DOMAIN e = Fields
ASSUME LifecycleRequestsAssumption == \A r \in Requests : r.listener \in {"api", "metrics"}

Servers == {"api", "metrics"}

VARIABLES
    env, cfg,   \* the environment; the Config, once it is loaded
    occupied,   \* ports other processes listen on
    pc,         \* where run is
    cause,      \* why it stops: "none", "failure" or "signal"
    shutdownErr,\* whether a Shutdown has returned an error
    serve,      \* each goroutine: "off", "binding", "serving", "failed",
                \* "stopped" (it has its result to send), "done"
    results,    \* the channel: results that nobody has received
    closed,     \* servers on which Shutdown was called
    timer,      \* the deadline of shutdownCtx: "off", "running", "expired"
    signalled,  \* sigCtx is done
    parent,     \* the context run was given: "live", "cancelled"
    conn,       \* each request: "none", "new", "active", "done", "cut"
    result      \* what run returned: "none", "ok", or the error it wraps

runVars == <<cfg, pc, cause, shutdownErr, result>>
vars == <<env, occupied, runVars, serve, results, closed, timer, signalled, parent, conn>>

NoConfig == <<>>

AddrOf(s) == IF s = "api" THEN cfg.ListenAddr ELSE cfg.MetricsListenAddr

Other(s) == CHOOSE t \in Servers : t # s

ConnsOf(s, states) == {r \in Requests : r.listener = s /\ conn[r] \in states}

-----------------------------------------------------------------------------
(* run, up to the select.                                                  *)

\* run returns, and main exits: what is still being served is cut off.
Return(how) ==
    /\ result' = how
    /\ pc' = "returned"
    /\ conn' = [r \in Requests |-> IF conn[r] = "active" THEN "cut" ELSE conn[r]]

LoadConfig ==
    /\ pc = "load"
    /\ IF LoadFails(env) THEN Return("load config") /\ UNCHANGED cfg
       ELSE cfg' = Load(env) /\ pc' = "validate" /\ UNCHANGED <<result, conn>>
    /\ UNCHANGED <<env, occupied, cause, shutdownErr, serve, results, closed, timer,
                   signalled, parent>>

ValidateConfig ==
    /\ pc = "validate"
    /\ IF Validate(cfg) THEN pc' = "wire" /\ UNCHANGED <<result, conn>>
       ELSE Return("validate config")
    /\ UNCHANGED <<env, occupied, cfg, cause, shutdownErr, serve, results, closed, timer,
                   signalled, parent>>

\* The constructors, the signal handler, and the two goroutines.
WireUp ==
    /\ pc = "wire"
    /\ IF BridgeNew(cfg) /\ ServerNew(cfg)
       THEN /\ pc' = "select"
            /\ serve' = [s \in Servers |-> "binding"]
            /\ UNCHANGED <<result, conn>>
       ELSE Return("wire") /\ UNCHANGED serve
    /\ UNCHANGED <<env, occupied, cfg, cause, shutdownErr, results, closed, timer,
                   signalled, parent>>

-----------------------------------------------------------------------------
(* The goroutines of the listeners.                                        *)

PortTaken(s) ==
    LET port == PortOf[AddrOf(s)]
    IN  \/ port \in occupied
        \/ serve[Other(s)] = "serving" /\ Other(s) \notin closed /\ PortOf[AddrOf(Other(s))] = port

Becomes(s, state) ==
    /\ serve' = [serve EXCEPT ![s] = state]
    /\ UNCHANGED <<env, occupied, runVars, results, closed, timer, signalled, parent, conn>>

Bind(s) ==
    /\ serve[s] = "binding"
    /\ Becomes(s, IF s \in closed THEN "stopped" ELSE IF PortTaken(s) THEN "failed" ELSE "serving")

\* Accept fails for good.
ServeFails(s) == serve[s] = "serving" /\ s \notin closed /\ Becomes(s, "failed")

ServeStops(s) == serve[s] = "serving" /\ s \in closed /\ Becomes(s, "stopped")

ResultRoom == 2

\* Mutant: no return after the error is sent.
SendBoth(s) ==
    /\ serve[s] \in {"failed", "stopped"}
    /\ results' = results \o (IF serve[s] = "failed" THEN <<[name |-> s, err |-> TRUE]>> ELSE <<>>)
                          \o <<[name |-> s, err |-> FALSE]>>
    /\ serve' = [serve EXCEPT ![s] = "done"]
    /\ UNCHANGED <<env, occupied, runVars, closed, timer, signalled, parent, conn>>

SendResult(s) ==
    /\ serve[s] \in {"failed", "stopped"} /\ Len(results) < ResultRoom
    /\ results' = Append(results, [name |-> s, err |-> serve[s] = "failed"])
    /\ serve' = [serve EXCEPT ![s] = "done"]
    /\ UNCHANGED <<env, occupied, runVars, closed, timer, signalled, parent, conn>>

-----------------------------------------------------------------------------
(* run, from the select on.                                                *)

Stop(why) ==
    /\ cause' = why
    /\ timer' = "running"
    /\ pc' = "api"
    /\ UNCHANGED <<env, occupied, cfg, shutdownErr, serve, closed, signalled, parent, conn, result>>

\* Mutant: the error of a listener is logged, and run shuts down as if asked to.
SelectForgets ==
    /\ pc = "select" /\ results # <<>>
    /\ results' = Tail(results)
    /\ Stop("signal")

\* Mutant: only the public listener is essential.
SelectApiOnly ==
    /\ pc = "select" /\ results # <<>>
    /\ results' = Tail(results)
    /\ IF Head(results).name = "api" THEN Stop(IF Head(results).err THEN "failure" ELSE "signal")
       ELSE UNCHANGED <<env, occupied, runVars, serve, closed, timer, signalled, parent, conn>>

\* Nobody has called Shutdown yet: a listener that returns has failed.
SelectResult ==
    /\ pc = "select" /\ results # <<>>
    /\ results' = Tail(results)
    /\ Stop(IF Head(results).err THEN "failure" ELSE "signal")

SelectSignal ==
    /\ pc = "select" /\ signalled
    /\ Stop("signal")
    /\ UNCHANGED results

\* Mutant: the drain waits for as long as it takes.
Patient == FALSE

ShutdownExpired == timer = "expired" \/ parent = "cancelled"

\* Shutdown closes the listener of s.
BeginShutdown(s) ==
    /\ pc = s /\ s \notin closed
    /\ closed' = closed \cup {s}
    /\ UNCHANGED <<env, occupied, runVars, serve, results, timer, signalled, parent, conn>>

\* Mutant: the error of the second Shutdown overwrites that of the first.
LastError(err) == err

\* The first error is kept.
FirstError(err) == shutdownErr \/ err

\* Shutdown returns: every connection was idle and is closed, or the deadline
\* has passed.
EndShutdown(s) ==
    /\ pc = s /\ s \in closed
    /\ \/ /\ ConnsOf(s, {"active"}) = {}
          /\ shutdownErr' = FirstError(FALSE)
          /\ conn' = [r \in Requests |-> IF r \in ConnsOf(s, {"new"}) THEN "none" ELSE conn[r]]
       \/ /\ ConnsOf(s, {"new", "active"}) # {} /\ ShutdownExpired
          /\ shutdownErr' = FirstError(TRUE)
          /\ UNCHANGED conn
    /\ pc' = IF s = "api" THEN "metrics" ELSE "wait"
    /\ UNCHANGED <<env, occupied, cfg, cause, serve, results, closed, timer, signalled, parent, result>>

\* wg.Wait, and what is left in the channel is thrown away.
Finish ==
    /\ pc = "wait" /\ \A s \in Servers : serve[s] = "done"
    /\ results' = <<>>
    /\ Return(IF cause = "failure" THEN "listener" ELSE IF shutdownErr THEN "shutdown" ELSE "ok")
    /\ UNCHANGED <<env, occupied, cfg, cause, shutdownErr, serve, closed, timer, signalled, parent>>

-----------------------------------------------------------------------------
(* Requests.                                                               *)

\* Paths of the subtree "/v1/".
V1Paths == {"/v1/ask", "/v1/tools", "/v1/models", "/v1/health"}

\* newMux and newMetricsMux.
Route(r) ==
    LET probe == r.path = "/v1/health" /\ r.method = "GET"
    IN  CASE r.listener = "metrics" /\ r.path = "/metrics" -> "metrics"
          [] r.listener = "api" /\ probe -> "health"
          [] r.listener = "api" /\ ~probe /\ r.path \in V1Paths -> "api"
          [] OTHER -> "none"

Conn(r, from, to) ==
    /\ conn[r] = from /\ pc # "returned"
    /\ conn' = [conn EXCEPT ![r] = to]
    /\ UNCHANGED <<env, occupied, runVars, serve, results, closed, timer, signalled, parent>>

Connect(r) == serve[r.listener] = "serving" /\ r.listener \notin closed /\ Conn(r, "none", "new")

Begin(r) == Conn(r, "new", "active")

\* healthHandler, the metrics handler and the mux itself wait for nobody.
Serves(r) == Route(r) # "api" /\ Conn(r, "active", "done")

\* What is behind the authenticated handler ends when the bridge lets it.
ApiServes(r) == Route(r) = "api" /\ Conn(r, "active", "done")

-----------------------------------------------------------------------------
(* The outside.                                                            *)

Running == pc \in {"select", "api", "metrics", "wait"}

Signal ==
    /\ Running /\ ~signalled
    /\ signalled' = TRUE
    /\ UNCHANGED <<env, occupied, runVars, serve, results, closed, timer, parent, conn>>

CancelParent ==
    /\ Running /\ parent = "live"
    /\ parent' = "cancelled"
    /\ signalled' = TRUE
    /\ UNCHANGED <<env, occupied, runVars, serve, results, closed, timer, conn>>

TimerExpires ==
    /\ timer = "running" /\ pc # "returned"
    /\ timer' = "expired"
    /\ UNCHANGED <<env, occupied, runVars, serve, results, closed, signalled, parent, conn>>

Init ==
    /\ env \in Environments /\ cfg = NoConfig
    /\ occupied \in SUBSET {"8080", "9090"}
    /\ pc = "load" /\ cause = "none" /\ shutdownErr = FALSE /\ result = "none"
    /\ serve = [s \in Servers |-> "off"] /\ results = <<>> /\ closed = {}
    /\ timer = "off" /\ signalled = FALSE /\ parent = "live"
    /\ conn = [r \in Requests |-> "none"]

Run ==
    \/ LoadConfig \/ ValidateConfig \/ WireUp
    \/ SelectResult \/ SelectSignal
    \/ \E s \in Servers : BeginShutdown(s) \/ EndShutdown(s)
    \/ Finish

Listener(s) == Bind(s) \/ ServeStops(s) \/ SendResult(s)

Exited == pc = "returned" /\ UNCHANGED vars

Next ==
    \/ Run
    \/ \E s \in Servers : Listener(s) \/ ServeFails(s)
    \/ \E r \in Requests : Connect(r) \/ Begin(r) \/ Serves(r) \/ ApiServes(r)
    \/ Signal \/ CancelParent \/ TimerExpires
    \/ Exited

\* Goroutines run and timers fire; nothing is assumed of clients, of the bridge
\* behind a request, or of signals.
Spec ==
    /\ Init /\ [][Next]_vars
    /\ WF_vars(Run) /\ WF_vars(TimerExpires)
    /\ \A s \in Servers : WF_vars(Listener(s))
    /\ \A r \in Requests : WF_vars(Serves(r))

-----------------------------------------------------------------------------
(* Properties.                                                             *)

TypeOK ==
    /\ cfg = NoConfig \/ DOMAIN cfg = Fields
    /\ pc \in {"load", "validate", "wire", "select", "api", "metrics", "wait", "returned"}
    /\ cause \in {"none", "failure", "signal"} /\ shutdownErr \in BOOLEAN
    /\ serve \in [Servers -> {"off", "binding", "serving", "failed", "stopped", "done"}]
    /\ results \in Seq([name : Servers, err : BOOLEAN]) /\ Len(results) <= 2
    /\ closed \subseteq Servers /\ timer \in {"off", "running", "expired"}
    /\ signalled \in BOOLEAN /\ parent \in {"live", "cancelled"}
    /\ conn \in [Requests -> {"none", "new", "active", "done", "cut"}]
    /\ result \in {"none", "ok", "load config", "validate config", "wire", "listener", "shutdown"}

\* A Config that Validate lets pass is one that bridge.New and server.New take:
\* no misconfiguration gets as far as the wiring.
ValidatedConfigWires == result # "wire"

\* Exit status 0 means that nobody's request was cut off, on either listener,
\* whichever of them the shared deadline ran out on.
CleanExitCutsNobody == result = "ok" => \A r \in Requests : conn[r] # "cut"

\* Without a signal the gateway stops for a failed listener only, and then it
\* does not exit with status 0.
OnlyASignalStopsCleanly == result = "ok" => signalled

\* A signal or a failed listener ends the process, however long the streams it
\* is serving go on and whatever the other listener is doing at the moment.
StopsInTime == signalled \/ (\E s \in Servers : serve[s] = "failed") ~> pc = "returned"

\* A gateway that cannot have both its ports does not stay up: one of them, or
\* both, are somebody else's, or its two listeners want the same.
NoHalfGateway ==
    [](pc = "select" /\ (PortOf[AddrOf("api")] = PortOf[AddrOf("metrics")]
                         \/ \E s \in Servers : PortOf[AddrOf(s)] \in occupied)
       => <>(pc = "returned"))
=============================================================================
