--------------------------- MODULE LifecycleProofs ---------------------------
(***************************************************************************)
(* Theorems about Lifecycle, for any set of environments, with any strings *)
(* in them, and any set of requests.                                       *)
(***************************************************************************)
EXTENDS Lifecycle, TLAPS

\* The two servers, and what a step does to the control of run.
LEMMA Two == Other("api") = "metrics" /\ Other("metrics") = "api"
  BY DEF Other, Servers

Result == [name : Servers, err : BOOLEAN]

Control ==
    /\ pc \in {"load", "validate", "wire", "select", "api", "metrics", "wait", "returned"}
    /\ cause \in {"none", "failure", "signal"} /\ shutdownErr \in BOOLEAN
    /\ timer \in {"off", "running", "expired"} /\ closed \subseteq Servers
    /\ signalled \in BOOLEAN /\ parent \in {"live", "cancelled"}
    /\ result \in {"none", "ok", "load config", "validate config", "wire", "listener", "shutdown"}
    /\ cfg = NoConfig \/ DOMAIN cfg = Fields

Channel ==
    /\ serve \in [Servers -> {"off", "binding", "serving", "failed", "stopped", "done"}]
    /\ results \in Seq(Result) /\ Len(results) <= 2

Connections == conn \in [Requests -> {"none", "new", "active", "done", "cut"}]

LEMMA TypeParts ==
    /\ TypeOK <=> Control /\ Channel /\ Connections
    /\ TypeOK' <=> Control' /\ Channel' /\ Connections'
  BY DEF TypeOK, Control, Channel, Connections, Result

LEMMA InitTypes == Init => TypeOK
<1> SUFFICES ASSUME Init PROVE Control /\ Channel /\ Connections
  BY TypeParts
<1>1. <<>> \in Seq(Result) /\ Len(<<>>) <= 2
  OBVIOUS
<1>2. results = <<>>
  BY DEF Init
<1>3. Channel
  BY <1>1, <1>2 DEF Init, Channel
<1> QED
  BY <1>3 DEF Init, Control, Connections

\* What run and the process it belongs to have is what they had.
LEMMA SameControl ==
    ASSUME Control, UNCHANGED <<cfg, pc, cause, shutdownErr, result>>,
           UNCHANGED <<timer, signalled, parent>>, closed' \subseteq Servers
    PROVE  Control'
<1>1. pc' = pc /\ cause' = cause /\ shutdownErr' = shutdownErr
  OBVIOUS
<1>2. cfg' = cfg /\ result' = result /\ timer' = timer
  OBVIOUS
<1>3. signalled' = signalled /\ parent' = parent
  OBVIOUS
<1>4. /\ pc' \in {"load", "validate", "wire", "select", "api", "metrics", "wait", "returned"}
      /\ cause' \in {"none", "failure", "signal"} /\ shutdownErr' \in BOOLEAN
  BY <1>1 DEF Control
<1>5. /\ result' \in {"none", "ok", "load config", "validate config", "wire", "listener", "shutdown"}
      /\ timer' \in {"off", "running", "expired"}
  BY <1>2 DEF Control
<1>6. cfg' = NoConfig \/ DOMAIN cfg' = Fields
  BY ONLY <1>2, Control DEF Control
<1>7. signalled' \in BOOLEAN /\ parent' \in {"live", "cancelled"}
  BY <1>3 DEF Control
<1> QED
  BY <1>4, <1>5, <1>6, <1>7 DEF Control

LEMMA StepControl == TypeOK /\ [Next]_vars => Control'
<1> SUFFICES ASSUME Control, Channel, Connections, [Next]_vars PROVE Control'
  BY TypeParts
<1> USE DEF Control
<1>1. CASE LoadConfig
  BY <1>1 DEF LoadConfig, Return, Load
<1>2. CASE ValidateConfig
  BY <1>2 DEF ValidateConfig, Return
<1>3. CASE WireUp
  BY <1>3 DEF WireUp, Return
<1>4. CASE SelectResult \/ SelectSignal
  BY <1>4 DEF SelectResult, SelectSignal, Stop
<1>5. ASSUME NEW s \in Servers, BeginShutdown(s) PROVE Control'
  <2>1. UNCHANGED <<cfg, pc, cause, shutdownErr, result>> /\ UNCHANGED <<timer, signalled, parent>>
    BY ONLY <1>5 DEF BeginShutdown, runVars
  <2>2. closed' \subseteq Servers
    BY ONLY <1>5, Control DEF BeginShutdown, Control
  <2> QED
    BY ONLY Control, <2>1, <2>2, SameControl
<1>6. ASSUME NEW s \in Servers, EndShutdown(s) PROVE Control'
  BY <1>6 DEF EndShutdown, FirstError
<1>7. CASE Finish
  BY <1>7 DEF Finish, Return
<1>8. ASSUME NEW s \in Servers, Listener(s) \/ ServeFails(s) PROVE Control'
  <2>1. UNCHANGED runVars /\ UNCHANGED <<timer, signalled, parent>> /\ closed' = closed
    BY ONLY <1>8 DEF Listener, Bind, ServeStops, ServeFails, Becomes, SendResult
  <2>2. UNCHANGED <<cfg, pc, cause, shutdownErr, result>>
    BY ONLY <2>1 DEF runVars
  <2>3. closed' \subseteq Servers
    BY ONLY <2>1, Control DEF Control
  <2> QED
    BY ONLY Control, <2>1, <2>2, <2>3, SameControl
<1>9. ASSUME NEW r \in Requests, Connect(r) \/ Begin(r) \/ Serves(r) \/ ApiServes(r) PROVE Control'
  BY <1>9 DEF Connect, Begin, Serves, ApiServes, Conn, runVars
<1>10. CASE Signal \/ CancelParent \/ TimerExpires
  BY <1>10 DEF Signal, CancelParent, TimerExpires, runVars
<1>11. CASE Exited \/ UNCHANGED vars
  BY <1>11 DEF Exited, vars, runVars
<1> QED
  BY <1>1, <1>2, <1>3, <1>4, <1>5, <1>6, <1>7, <1>8, <1>9, <1>10, <1>11 DEF Next, Run

\* What a step does to the channel and to the goroutines that write to it.
LEMMA StepChannel == TypeOK /\ [Next]_vars => Channel'
<1> SUFFICES ASSUME Control, Channel, Connections, [Next]_vars PROVE Channel'
  BY TypeParts
<1>1. CASE UNCHANGED <<serve, results>>
  BY <1>1 DEF Channel
<1>2. CASE WireUp
  BY <1>2 DEF WireUp, Channel
<1>3. CASE SelectResult
  <2>1. results # <<>> /\ results' = Tail(results) /\ serve' = serve
    BY <1>3 DEF SelectResult, Stop
  <2> QED
    BY <2>1 DEF Channel
<1>4. ASSUME NEW s \in Servers, Bind(s) \/ ServeStops(s) \/ ServeFails(s) PROVE Channel'
  BY <1>4 DEF Bind, ServeStops, ServeFails, Becomes, Channel
<1>5. ASSUME NEW s \in Servers, SendResult(s) PROVE Channel'
  <2> DEFINE x == [name |-> s, err |-> serve[s] = "failed"]
  <2>1. Len(results) < 2 /\ results' = Append(results, x) /\ serve' = [serve EXCEPT ![s] = "done"]
    BY <1>5 DEF SendResult, ResultRoom
  <2>2. x \in Result
    BY DEF Result
  <2> HIDE DEF x
  <2> QED
    BY <2>1, <2>2 DEF Channel
<1>6. CASE Finish
  <2>1. results' = <<>> /\ serve' = serve
    BY <1>6 DEF Finish
  <2>2. <<>> \in Seq(Result) /\ Len(<<>>) <= 2
    OBVIOUS
  <2> QED
    BY <2>1, <2>2 DEF Channel
<1>7. CASE LoadConfig \/ ValidateConfig \/ SelectSignal \/ Signal \/ CancelParent \/ TimerExpires
  BY <1>1, <1>7 DEF LoadConfig, ValidateConfig, SelectSignal, Stop, Signal, CancelParent, TimerExpires
<1>8. ASSUME NEW s \in Servers, BeginShutdown(s) \/ EndShutdown(s) PROVE Channel'
  BY <1>1, <1>8 DEF BeginShutdown, EndShutdown
<1>9. ASSUME NEW r \in Requests, Connect(r) \/ Begin(r) \/ Serves(r) \/ ApiServes(r) PROVE Channel'
  BY <1>1, <1>9 DEF Connect, Begin, Serves, ApiServes, Conn
<1>10. CASE Exited \/ UNCHANGED vars
  BY <1>1, <1>10 DEF Exited, vars
<1> QED
  BY <1>2, <1>3, <1>4, <1>5, <1>6, <1>7, <1>8, <1>9, <1>10 DEF Next, Run, Listener

LEMMA StepConnections == TypeOK /\ [Next]_vars => Connections'
<1> SUFFICES ASSUME Control, Channel, Connections, [Next]_vars PROVE Connections'
  BY TypeParts
<1> USE DEF Connections
<1>1. CASE LoadConfig \/ ValidateConfig \/ WireUp \/ Finish
  BY <1>1 DEF LoadConfig, ValidateConfig, WireUp, Finish, Return
<1>2. ASSUME NEW s \in Servers, EndShutdown(s) PROVE Connections'
  BY <1>2 DEF EndShutdown
<1>3. ASSUME NEW r \in Requests, Connect(r) \/ Begin(r) \/ Serves(r) \/ ApiServes(r)
      PROVE  Connections'
  BY <1>3 DEF Connect, Begin, Serves, ApiServes, Conn
<1>4. ASSUME NEW s \in Servers, BeginShutdown(s) \/ Listener(s) \/ ServeFails(s)
      PROVE  Connections'
  BY <1>4 DEF BeginShutdown, Listener, Bind, ServeStops, ServeFails, Becomes, SendResult
<1>5. CASE SelectResult \/ SelectSignal \/ Signal \/ CancelParent \/ TimerExpires
  BY <1>5 DEF SelectResult, SelectSignal, Stop, Signal, CancelParent, TimerExpires
<1>6. CASE Exited \/ UNCHANGED vars
  BY <1>6 DEF Exited, vars
<1> QED
  BY <1>1, <1>2, <1>3, <1>4, <1>5, <1>6 DEF Next, Run

\* Every variable has its type, whatever the environment says.
THEOREM TypeCorrect == Spec => []TypeOK
<1>1. TypeOK /\ [Next]_vars => TypeOK'
  BY StepControl, StepChannel, StepConnections, TypeParts
<1> QED
  BY <1>1, InitTypes, PTL DEF Spec

-----------------------------------------------------------------------------
(* Who gets which step: the control of run changes in run only, and so on. *)

Environmental ==
    \/ Signal \/ CancelParent \/ TimerExpires
    \/ Exited \/ UNCHANGED vars

LEMMA Steps ==
    ASSUME [Next]_vars
    PROVE  \/ Run
           \/ \E s \in Servers : Listener(s) \/ ServeFails(s)
           \/ \E r \in Requests : Connect(r) \/ Begin(r) \/ Serves(r) \/ ApiServes(r)
           \/ Environmental
  BY DEF Next, Environmental

LEMMA ListenerKeeps ==
    ASSUME NEW s \in Servers, Listener(s) \/ ServeFails(s)
    PROVE  UNCHANGED <<env, cfg, pc, cause, shutdownErr, result, closed, signalled, conn>>
<1>1. UNCHANGED runVars /\ UNCHANGED <<env, closed, signalled, conn>>
  BY DEF Listener, Bind, ServeStops, ServeFails, Becomes, SendResult
<1> QED
  BY <1>1 DEF runVars

LEMMA RequestKeeps ==
    ASSUME NEW r \in Requests, Connect(r) \/ Begin(r) \/ Serves(r) \/ ApiServes(r)
    PROVE  /\ UNCHANGED <<env, cfg, pc, cause, shutdownErr, result, closed, signalled, serve, results>>
           /\ pc # "returned"
           /\ \E to \in {"new", "active", "done"} :
                  /\ conn' = [conn EXCEPT ![r] = to]
                  /\ to = "new" => r.listener \notin closed
                  /\ to = "active" => conn[r] = "new"
<1>1. UNCHANGED runVars /\ UNCHANGED <<env, closed, signalled, serve, results>> /\ pc # "returned"
  BY DEF Connect, Begin, Serves, ApiServes, Conn
<1>2. \E to \in {"new", "active", "done"} :
          /\ conn' = [conn EXCEPT ![r] = to]
          /\ to = "new" => r.listener \notin closed
          /\ to = "active" => conn[r] = "new"
  BY DEF Connect, Begin, Serves, ApiServes, Conn
<1> QED
  BY <1>1, <1>2 DEF runVars

LEMMA EnvironmentKeeps ==
    ASSUME TypeOK, Environmental
    PROVE  /\ UNCHANGED <<env, cfg, pc, cause, shutdownErr, result, closed, serve, results, conn>>
           /\ signalled => signalled'
<1>1. UNCHANGED runVars /\ UNCHANGED <<env, closed, serve, results, conn>>
  BY DEF Environmental, Signal, CancelParent, TimerExpires, Exited, vars
<1>2. signalled => signalled'
  BY DEF Environmental, Signal, CancelParent, TimerExpires, Exited, vars
<1> QED
  BY <1>1, <1>2 DEF runVars

-----------------------------------------------------------------------------
(* The drain.                                                              *)

\* Nothing is left of the requests of s.
Empty(s) == \A r \in Requests : r.listener = s => conn[r] \notin {"new", "active"}

Before == {"load", "validate", "wire", "select"}

\* A listener that was shut down without an error stays empty.
Drained ==
    /\ \A r \in Requests : conn[r] = "cut" => pc = "returned"
    /\ result # "none" <=> pc = "returned"
    /\ pc \in {"metrics", "wait"} => "api" \in closed /\ (shutdownErr \/ Empty("api"))
    /\ pc = "wait" => "metrics" \in closed /\ (shutdownErr \/ Empty("metrics"))
    /\ CleanExitCutsNobody

LEMMA StepDrained == TypeOK /\ Drained /\ [Next]_vars => Drained'
<1> SUFFICES ASSUME TypeOK, Drained, [Next]_vars PROVE Drained'
  OBVIOUS
<1> USE DEF Drained, Empty, CleanExitCutsNobody
<1>0. /\ conn \in [Requests -> {"none", "new", "active", "done", "cut"}] /\ shutdownErr \in BOOLEAN
      /\ closed \subseteq Servers
  BY DEF TypeOK
<1>1. CASE LoadConfig
  BY <1>0, <1>1 DEF LoadConfig, Return
<1>2. CASE ValidateConfig \/ WireUp
  BY <1>0, <1>2 DEF ValidateConfig, WireUp, Return
<1>3. CASE SelectResult \/ SelectSignal
  BY <1>0, <1>3 DEF SelectResult, SelectSignal, Stop
<1>4. ASSUME NEW s \in Servers, BeginShutdown(s) PROVE Drained'
  BY <1>0, <1>4 DEF BeginShutdown, runVars, Servers
<1>5. ASSUME NEW s \in Servers, EndShutdown(s) PROVE Drained'
  <2>1. /\ pc = s /\ s \in closed /\ closed' = closed /\ result' = result
        /\ pc' = IF s = "api" THEN "metrics" ELSE "wait"
        /\ \A r \in Requests : conn'[r] = conn[r] \/ conn'[r] = "none"
        /\ shutdownErr => shutdownErr'
    BY <1>0, <1>5 DEF EndShutdown, FirstError
  <2>2. shutdownErr' \/ \A r \in Requests : r.listener = s => conn'[r] \notin {"new", "active"}
    BY <1>0, <1>5 DEF EndShutdown, FirstError, ConnsOf
  <2> QED
    BY <1>0, <2>1, <2>2 DEF Servers
<1>6. CASE Finish
  <2>1. /\ pc = "wait" /\ pc' = "returned" /\ closed' = closed
        /\ \A r \in Requests : conn'[r] = IF conn[r] = "active" THEN "cut" ELSE conn[r]
        /\ result' \in {"listener", "shutdown", "ok"} /\ (result' = "ok" => ~shutdownErr)
    BY <1>0, <1>6 DEF Finish, Return
  <2>2. ASSUME result' = "ok" PROVE \A r \in Requests : conn'[r] # "cut"
    BY <1>0, <2>1, <2>2, LifecycleRequestsAssumption
  <2> QED
    BY <2>1, <2>2
<1>7. ASSUME NEW s \in Servers, Listener(s) \/ ServeFails(s) PROVE Drained'
  BY <1>7, ListenerKeeps
<1>8. ASSUME NEW r \in Requests, Connect(r) \/ Begin(r) \/ Serves(r) \/ ApiServes(r) PROVE Drained'
  BY <1>0, <1>8, RequestKeeps
<1>9. CASE Environmental
  BY <1>9, EnvironmentKeeps
<1> QED
  BY <1>1, <1>2, <1>3, <1>4, <1>5, <1>6, <1>7, <1>8, <1>9, Steps DEF Run

\* When the process exits with status 0 every request it took has been served:
\* none is cut off, whichever listener it came in on.
THEOREM NobodyCut == Spec => []CleanExitCutsNobody
<1>1. Init => Drained
  BY DEF Init, Drained, CleanExitCutsNobody
<1>2. Drained => CleanExitCutsNobody
  BY DEF Drained
<1> QED
  BY <1>1, <1>2, TypeCorrect, StepDrained, PTL DEF Spec

-----------------------------------------------------------------------------
(* Why the process stops.                                                  *)

\* Before anybody has called Shutdown a listener has nothing but errors to
\* report, so that run cannot take one for a shutdown it was asked for.
Told ==
    /\ pc \in Before => closed = {} /\ cause = "none"
    /\ pc \in {"api", "metrics", "wait"} => cause \in {"failure", "signal"}
    /\ \A s \in Servers : serve[s] = "stopped" => s \in closed
    /\ \A i \in DOMAIN results : results[i].err \/ results[i].name \in closed
    /\ cause = "signal" => signalled
    /\ OnlyASignalStopsCleanly

LEMMA StepTold == TypeOK /\ Told /\ [Next]_vars => Told'
<1> SUFFICES ASSUME TypeOK, Told, [Next]_vars PROVE Told'
  OBVIOUS
<1> USE DEF Told, Before, OnlyASignalStopsCleanly
<1>0. /\ serve \in [Servers -> {"off", "binding", "serving", "failed", "stopped", "done"}]
      /\ results \in Seq(Result) /\ closed \subseteq Servers /\ signalled \in BOOLEAN
  BY DEF TypeOK, Result
<1>1. CASE LoadConfig \/ ValidateConfig
  BY <1>0, <1>1 DEF LoadConfig, ValidateConfig, Return
<1>2. CASE WireUp
  BY <1>0, <1>2 DEF WireUp, Return
<1>3. CASE SelectResult
  <2>1. /\ pc = "select" /\ results # <<>> /\ results' = Tail(results) /\ pc' = "api"
        /\ cause' = IF Head(results).err THEN "failure" ELSE "signal"
        /\ serve' = serve /\ closed' = closed /\ signalled' = signalled /\ result' = result
    BY <1>3 DEF SelectResult, Stop
  <2>2. Head(results).err
    <3>1. 1 \in DOMAIN results /\ Head(results) = results[1]
      BY <1>0, <2>1
    <3> QED
      BY <2>1, <3>1
  <2>3. \A i \in DOMAIN Tail(results) : i + 1 \in DOMAIN results /\ Tail(results)[i] = results[i + 1]
    BY <1>0, <2>1
  <2> QED
    BY <2>1, <2>2, <2>3
<1>4. CASE SelectSignal
  BY <1>0, <1>4 DEF SelectSignal, Stop
<1>5. ASSUME NEW s \in Servers, BeginShutdown(s) PROVE Told'
  <2>1. UNCHANGED runVars /\ serve' = serve /\ results' = results /\ signalled' = signalled
        /\ closed' = closed \cup {s} /\ pc = s
    BY <1>5 DEF BeginShutdown
  <2> QED
    BY <1>0, <2>1 DEF Servers, runVars
<1>6. ASSUME NEW s \in Servers, EndShutdown(s) PROVE Told'
  BY <1>0, <1>6 DEF EndShutdown, Servers
<1>7. CASE Finish
  <2>1. /\ pc = "wait" /\ pc' = "returned" /\ closed' = closed /\ serve' = serve /\ results' = <<>>
        /\ cause' = cause /\ signalled' = signalled
        /\ result' = IF cause = "failure" THEN "listener" ELSE IF shutdownErr THEN "shutdown" ELSE "ok"
    BY <1>7 DEF Finish, Return
  <2> QED
    BY <1>0, <2>1
<1>8. ASSUME NEW s \in Servers, Listener(s) \/ ServeFails(s) PROVE Told'
  <2>0. UNCHANGED <<pc, cause, result, closed, signalled>>
    BY <1>8, ListenerKeeps
  <2>1. CASE Bind(s) \/ ServeStops(s) \/ ServeFails(s)
    <3>1. results' = results /\ \A t \in Servers : serve'[t] = "stopped" => t \in closed
      BY <1>0, <2>1 DEF Bind, ServeStops, ServeFails, Becomes
    <3> QED
      BY <2>0, <3>1
  <2>2. CASE SendResult(s)
    <3> DEFINE x == [name |-> s, err |-> serve[s] = "failed"]
    <3>1. /\ results' = Append(results, x) /\ serve[s] \in {"failed", "stopped"}
          /\ serve' = [serve EXCEPT ![s] = "done"]
      BY <2>2 DEF SendResult
    <3>2. x \in Result /\ (x.err \/ x.name \in closed)
      BY <3>1 DEF Result
    <3> HIDE DEF x
    <3>3. \A i \in DOMAIN Append(results, x) : \/ Append(results, x)[i] = x
                                               \/ i \in DOMAIN results /\ Append(results, x)[i] = results[i]
      BY <1>0
    <3> QED
      BY <1>0, <2>0, <3>1, <3>2, <3>3
  <2> QED
    BY <1>8, <2>1, <2>2 DEF Listener
<1>9. ASSUME NEW r \in Requests, Connect(r) \/ Begin(r) \/ Serves(r) \/ ApiServes(r) PROVE Told'
  BY <1>9, RequestKeeps
<1>10. CASE Environmental
  BY <1>0, <1>10, EnvironmentKeeps
<1> QED
  BY <1>1, <1>2, <1>3, <1>4, <1>5, <1>6, <1>7, <1>8, <1>9, <1>10, Steps DEF Run

\* Exit status 0 is the answer to a signal: a listener that fails, at whatever
\* moment, never looks like one that was told to stop.
THEOREM SignalStopsCleanly == Spec => []OnlyASignalStopsCleanly
<1>1. Init => Told
  <2>1. ASSUME Init PROVE \A i \in DOMAIN results : results[i].err \/ results[i].name \in closed
    BY <2>1 DEF Init
  <2> QED
    BY <2>1 DEF Init, Told, Before, OnlyASignalStopsCleanly
<1>2. Told => OnlyASignalStopsCleanly
  BY DEF Told
<1> QED
  BY <1>1, <1>2, TypeCorrect, StepTold, PTL DEF Spec

-----------------------------------------------------------------------------
(* The configuration.                                                      *)

\* The Config has passed Validate when the constructors get it.
Configured ==
    /\ pc = "wire" => Validate(cfg)
    /\ ValidatedConfigWires

LEMMA StepConfigured == TypeOK /\ Configured /\ [Next]_vars => Configured'
<1> SUFFICES ASSUME TypeOK, Configured, [Next]_vars PROVE Configured'
  OBVIOUS
<1> USE DEF Configured, ValidatedConfigWires
<1>1. CASE LoadConfig
  BY <1>1 DEF LoadConfig, Return
<1>2. CASE ValidateConfig
  BY <1>2 DEF ValidateConfig, Return
<1>3. CASE WireUp
  <2>1. BridgeNew(cfg) /\ ServerNew(cfg)
    BY <1>3 DEF WireUp, Validate, BridgeNew, ServerNew
  <2> QED
    BY <1>3, <2>1 DEF WireUp, Return
<1>4. CASE SelectResult \/ SelectSignal
  BY <1>4 DEF SelectResult, SelectSignal, Stop
<1>5. ASSUME NEW s \in Servers, BeginShutdown(s) \/ EndShutdown(s) PROVE Configured'
  BY <1>5 DEF BeginShutdown, EndShutdown, runVars
<1>6. CASE Finish
  BY <1>6 DEF Finish, Return
<1>7. ASSUME NEW s \in Servers, Listener(s) \/ ServeFails(s) PROVE Configured'
  BY <1>7, ListenerKeeps
<1>8. ASSUME NEW r \in Requests, Connect(r) \/ Begin(r) \/ Serves(r) \/ ApiServes(r) PROVE Configured'
  BY <1>8, RequestKeeps
<1>9. CASE Environmental
  BY <1>9, EnvironmentKeeps
<1> QED
  BY <1>1, <1>2, <1>3, <1>4, <1>5, <1>6, <1>7, <1>8, <1>9, Steps DEF Run

\* A Config that Validate accepts is accepted by the constructors, whatever the
\* environment it was made of.
THEOREM ConfigWires == Spec => []ValidatedConfigWires
<1>1. Init => Configured
  BY DEF Init, Configured, ValidatedConfigWires
<1>2. Configured => ValidatedConfigWires
  BY DEF Configured
<1> QED
  BY <1>1, <1>2, TypeCorrect, StepConfigured, PTL DEF Spec
=============================================================================
