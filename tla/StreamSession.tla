--------------------------- MODULE StreamSession ---------------------------
(***************************************************************************)
(* One streaming POST /v1/ask: the handler askStream of                    *)
(* internal/server/stream.go between the bridge that produces chunks       *)
(* (internal/bridge/stream.go) and the client that reads Server-Sent       *)
(* Events.                                                                 *)
(*                                                                         *)
(*   bridge --inbox--> handler --out--> wire (send buffer) --> received    *)
(*                                                                         *)
(* Every frame the handler writes waits while the send buffer is full; the *)
(* client reads, stalls, resumes and hangs up as it likes; the bridge      *)
(* produces chunks, sends a line that is not a chunk, ends the stream or   *)
(* loses it.  net/http cancels the request context when it sees the client *)
(* gone or a write fail, and the context cancels the call to the bridge.   *)
(*                                                                         *)
(* A chunk is a record; a text stands for a string and "" is the empty     *)
(* one.  A frame is written whole or not at all: the part of a frame that  *)
(* reaches the client of a broken connection is left out.                  *)
(***************************************************************************)
EXTENDS Integers, SequencesExt

CONSTANTS
    Chunks,         \* the chunks the bridge may send
    BadLine,        \* a line Next cannot decode, or one that is too long
    RequestModel,   \* the model the request names (or the default one)
    LogQuery,       \* audit.LogQueryEnabled
    Wrappers,       \* the writers askStream may be given: "none" is net/http's own
    MaxLines,       \* bound: lines the bridge sends
    SendBuffer,     \* bound: frames between the handler and the client
    DrainLines      \* bound: lines that make up the 64 KiB Close drains

ASSUME ChunkAssumption ==
    /\ RequestModel \in STRING
    /\ \A c \in Chunks : /\ c.model \in STRING /\ c.thinking \in STRING /\ c.content \in STRING
                         /\ c.tools \in Seq(STRING) /\ c.usage \in Nat
ASSUME WrapperAssumption == Wrappers \subseteq {"none", "statusWriter"}
ASSUME LogQueryAssumption == LogQuery \in BOOLEAN
ASSUME SessionBounds ==
    MaxLines \in Nat /\ SendBuffer \in Nat \ {0} /\ DrainLines \in Nat \ {0}

VARIABLES
    wrapper,    \* the writer of this session; it stays what it is
    inbox,      \* lines the bridge has sent and Next has not returned
    upstream,   \* the bridge's side: "silent" until it answers; then "unready"
                \* (503), "refused" or "open"; at last "ended" (EOF) or "broken"
    pc,         \* where askStream is
    out,        \* frames it has still to write before it goes on
    acc,        \* its locals: finalModel, usage, tools, answer
    stream,     \* the ChatStream: "none", "open", "closed"
    drained,    \* lines Close has thrown away
    deadline,   \* the write deadline of the connection
    wire,       \* frames in the send buffer
    received,   \* frames the client has read
    client,     \* "reading", "stalled", "gone"
    broken,     \* writes to the connection fail
    ctx,        \* the request context: "live", "cancelled"
    status,     \* the HTTP status committed (0: none yet)
    audit,      \* the audit lines of this request
    upstreamErrors, \* upstream_errors_total
    usageSeen,  \* model_tokens_total
    toolsSeen,  \* tool_calls_total
    taken       \* history: the lines Next has returned

bridgeVars  == <<inbox, upstream>>
handlerVars == <<pc, out, acc, stream, drained>>
connVars    == <<deadline, wire, received, client, broken, ctx, status>>
effectVars  == <<audit, upstreamErrors, usageSeen, toolsSeen>>
vars == <<wrapper, bridgeVars, handlerVars, connVars, effectVars, taken>>

-----------------------------------------------------------------------------
(* Frames, and what a chunk does to the handler's locals.                  *)

Frame(type, data) == [type |-> type, data |-> data]

When(b, s) == IF b THEN s ELSE <<>>

\* Mutant: the text of a tool's result is sent as the answer's, too.
ToolTextIsToken(c) == c.content # ""

\* The chunk carries text of the answer.
IsAnswerText(c) == c.role # "tool" /\ c.content # ""

FramesOf(c) ==
    When(c.thinking # "", <<Frame("thinking", c.thinking)>>)
    \o [i \in DOMAIN c.tools |-> Frame("tool_call", c.tools[i])]
    \o When(c.role = "tool" /\ c.content # "", <<Frame("tool_result", c.content)>>)
    \o When(IsAnswerText(c), <<Frame("token", c.content)>>)

\* Mutant: the usage is taken from every chunk, as if each carried it.
AbsorbEveryUsage(a, c) ==
    [model  |-> IF c.model # "" THEN c.model ELSE a.model,
     usage  |-> c.usage,
     tools  |-> a.tools \o c.tools,
     answer |-> a.answer \o When(LogQuery /\ IsAnswerText(c), <<c.content>>)]

Absorb(a, c) ==
    [model  |-> IF c.model # "" THEN c.model ELSE a.model,
     usage  |-> IF c.done THEN c.usage ELSE a.usage,
     tools  |-> a.tools \o c.tools,
     answer |-> a.answer \o When(LogQuery /\ IsAnswerText(c), <<c.content>>)]

DoneFrame  == Frame("done", [model |-> acc.model, usage |-> acc.usage, tools |-> acc.tools])
ErrorFrame == Frame("error", 502)

AuditLine(outcome, st, a) ==
    [outcome |-> outcome, status |-> st, model |-> a.model,
     usage |-> a.usage, tools |-> a.tools, answer |-> a.answer]

\* An audit line of the error paths has no usage, tools or answer.
AuditError(st, model) ==
    AuditLine("error", st, [model |-> model, usage |-> 0, tools |-> <<>>, answer |-> <<>>])

\* Mutant: the deadline is set on a writer that does not pass it on.
NoDeadline == FALSE

\* http.ResponseController looks for SetWriteDeadline on the writer and on what
\* its Unwrap method returns.  net/http's own writer has the method; the
\* statusWriter of the metrics middleware has neither, so the call returns
\* ErrNotSupported, which askStream discards.
SupportsDeadline == wrapper = "none"

RefreshWriteDeadline == deadline' = IF SupportsDeadline THEN "armed" ELSE deadline

\* Mutant: the call to the bridge is not tied to the request's context.
Detached == FALSE

\* The bridge call of this request has been cancelled.
Cancelled == ctx = "cancelled"

-----------------------------------------------------------------------------
(* askStream.                                                              *)

Open ==
    /\ pc = "connect"
    /\ upstream = "open"
    /\ pc' = "loop"
    /\ stream' = "open"
    /\ status' = 200
    /\ RefreshWriteDeadline
    /\ UNCHANGED <<bridgeVars, out, acc, drained, wire, received, client, broken, ctx,
                   effectVars, wrapper, taken>>

\* ChatStream returns an error, and bridgeErrorStatus makes it this status.
ChatStreamFails(st) ==
    \/ st = 503 /\ upstream = "unready"
    \/ st = 502 /\ (upstream = "refused" \/ Cancelled)

\* Mutant: the early return leaves no audit line.
OpenFailsSilently(st) ==
    /\ pc = "connect"
    /\ ChatStreamFails(st)
    /\ upstreamErrors' = upstreamErrors + 1
    /\ status' = st
    /\ pc' = "exited"
    /\ UNCHANGED <<bridgeVars, out, acc, stream, drained, deadline, wire, received,
                   client, broken, ctx, audit, usageSeen, toolsSeen, wrapper, taken>>

\* Mutant: the bridge's own status goes through to the client.
OpenFailsRaw(st) ==
    /\ pc = "connect"
    /\ ChatStreamFails(st)
    /\ upstreamErrors' = upstreamErrors + 1
    /\ status' = IF st = 502 THEN 404 ELSE st
    /\ audit' = Append(audit, AuditError(st, RequestModel))
    /\ pc' = "exited"
    /\ UNCHANGED <<bridgeVars, out, acc, stream, drained, deadline, wire, received,
                   client, broken, ctx, usageSeen, toolsSeen, wrapper, taken>>

\* The bridge refuses, or cannot be reached: nothing is committed yet, and the
\* client gets a problem document with the status that is audited.
OpenFails(st) ==
    /\ pc = "connect"
    /\ ChatStreamFails(st)
    /\ upstreamErrors' = upstreamErrors + 1
    /\ status' = st
    /\ audit' = Append(audit, AuditError(st, RequestModel))
    /\ pc' = "exited"
    /\ UNCHANGED <<bridgeVars, out, acc, stream, drained, deadline, wire, received,
                   client, broken, ctx, usageSeen, toolsSeen, wrapper, taken>>

\* Mutant: frames are handed to another goroutine, and the loop goes on.
NextUnwaited == pc = "loop"

\* The loop calls stream.Next once all frames of the last chunk are written.
CanNext == pc = "loop" /\ out = <<>>

NextChunk ==
    /\ CanNext
    /\ inbox # <<>> /\ Head(inbox) # BadLine
    /\ inbox' = Tail(inbox)
    /\ taken' = Append(taken, Head(inbox))
    /\ acc' = Absorb(acc, Head(inbox))
    /\ out' = FramesOf(Head(inbox))
    /\ RefreshWriteDeadline
    /\ UNCHANGED <<upstream, pc, stream, drained, wire, received, client, broken, ctx,
                   status, effectVars, wrapper>>

NextEOF ==
    /\ CanNext
    /\ inbox = <<>> /\ upstream = "ended"
    /\ out' = <<DoneFrame>>
    /\ pc' = "done"
    /\ UNCHANGED <<bridgeVars, acc, stream, drained, connVars, effectVars, wrapper, taken>>

\* Mutant: a lost bridge is taken for one that has nothing to say yet.
LossIgnored ==
    \/ inbox # <<>> /\ Head(inbox) = BadLine /\ inbox' = Tail(inbox)
    \/ Cancelled /\ UNCHANGED inbox

\* Next fails: a bad line is consumed, the bridge is lost, or the request's
\* context is cancelled (lines that had arrived may or may not be seen before).
NextFails ==
    \/ inbox # <<>> /\ Head(inbox) = BadLine /\ inbox' = Tail(inbox)
    \/ inbox = <<>> /\ upstream = "broken" /\ UNCHANGED inbox
    \/ Cancelled /\ UNCHANGED inbox

\* Mutant: the handler reports the error and reads on.
NextErrorGoesOn ==
    /\ CanNext
    /\ NextFails
    /\ upstreamErrors' = upstreamErrors + 1
    /\ out' = <<ErrorFrame>>
    /\ UNCHANGED <<upstream, pc, acc, stream, drained, connVars, audit, usageSeen,
                   toolsSeen, wrapper, taken>>

NextError ==
    /\ CanNext
    /\ NextFails
    /\ upstreamErrors' = upstreamErrors + 1
    /\ out' = <<ErrorFrame>>
    /\ pc' = "error"
    /\ UNCHANGED <<upstream, acc, stream, drained, connVars, audit, usageSeen,
                   toolsSeen, wrapper, taken>>

\* writeSSE: the frame goes into the send buffer once there is room.
WriteFrame ==
    /\ out # <<>>
    /\ ~broken /\ deadline # "expired"
    /\ Len(wire) < SendBuffer
    /\ wire' = Append(wire, Head(out))
    /\ out' = Tail(out)
    /\ UNCHANGED <<bridgeVars, pc, acc, stream, drained, deadline, received, client,
                   broken, ctx, status, effectVars, wrapper, taken>>

\* A write fails: the error is discarded and the frame with it.  The connection
\* stays broken, and net/http cancels the request's context.
WriteFails ==
    /\ out # <<>>
    /\ broken \/ deadline = "expired"
    /\ out' = Tail(out)
    /\ broken' = TRUE
    /\ ctx' = "cancelled"
    /\ UNCHANGED <<bridgeVars, pc, acc, stream, drained, deadline, wire, received,
                   client, status, effectVars, wrapper, taken>>

\* After the done frame: metrics, audit, return.
Finish ==
    /\ pc = "done" /\ out = <<>>
    /\ usageSeen' = usageSeen + acc.usage
    /\ toolsSeen' = toolsSeen + Len(acc.tools)
    /\ audit' = Append(audit, AuditLine("ok", 200, acc))
    /\ pc' = "closing"
    /\ UNCHANGED <<bridgeVars, out, acc, stream, drained, connVars, upstreamErrors, wrapper, taken>>

\* After the error frame: audit, return.
FinishError ==
    /\ pc = "error" /\ out = <<>>
    /\ audit' = Append(audit, AuditError(502, acc.model))
    /\ pc' = "closing"
    /\ UNCHANGED <<bridgeVars, out, acc, stream, drained, connVars, upstreamErrors,
                   usageSeen, toolsSeen, wrapper, taken>>

\* The deferred stream.Close reads what the bridge still sends, up to a limit.
Drain ==
    /\ pc = "closing"
    /\ inbox # <<>> /\ drained < DrainLines
    /\ inbox' = Tail(inbox)
    /\ drained' = drained + 1
    /\ UNCHANGED <<upstream, pc, out, acc, stream, connVars, effectVars, wrapper, taken>>

Close ==
    /\ pc = "closing"
    /\ \/ inbox = <<>> /\ upstream # "open"
       \/ drained = DrainLines
       \/ Cancelled
    /\ stream' = "closed"
    /\ pc' = "exited"
    /\ UNCHANGED <<bridgeVars, out, acc, drained, connVars, effectVars, wrapper, taken>>

-----------------------------------------------------------------------------
(* The bridge, the client and the network.                                 *)

Sent == Len(taken) + Len(inbox) + drained

BridgeAnswers(how) ==
    /\ pc = "connect" /\ upstream = "silent" /\ ~Cancelled
    /\ upstream' = how
    /\ UNCHANGED <<inbox, handlerVars, connVars, effectVars, wrapper, taken>>

BridgeSends(line) ==
    /\ stream = "open" /\ upstream = "open" /\ ~Cancelled
    /\ Sent < MaxLines
    /\ inbox' = Append(inbox, line)
    /\ UNCHANGED <<upstream, handlerVars, connVars, effectVars, wrapper, taken>>

BridgeStops(how) ==
    /\ stream = "open" /\ upstream = "open" /\ ~Cancelled
    /\ upstream' = how
    /\ UNCHANGED <<inbox, handlerVars, connVars, effectVars, wrapper, taken>>

ClientReads ==
    /\ client = "reading" /\ wire # <<>>
    /\ received' = Append(received, Head(wire))
    /\ wire' = Tail(wire)
    /\ UNCHANGED <<bridgeVars, handlerVars, deadline, client, broken, ctx, status,
                   effectVars, wrapper, taken>>

ClientTurns(to) ==
    /\ pc # "exited"
    /\ \/ client = "reading" /\ to \in {"stalled", "gone"}
       \/ client = "stalled" /\ to \in {"reading", "gone"}
    /\ client' = to
    /\ UNCHANGED <<bridgeVars, handlerVars, deadline, wire, received, broken, ctx, status,
                   effectVars, wrapper, taken>>

\* net/http's background read sees the end of the connection.
HangUpNoticed ==
    /\ client = "gone" /\ ctx = "live" /\ pc # "exited"
    /\ broken' = TRUE
    /\ ctx' = "cancelled"
    /\ UNCHANGED <<bridgeVars, handlerVars, deadline, wire, received, client, status,
                   effectVars, wrapper, taken>>

\* The deadline passes while a write waits for room (however little the client
\* reads) or while the bridge is silent; a handler that is not made to wait is
\* faster than the timeout.
DeadlinePasses ==
    /\ deadline = "armed" /\ pc \in {"loop", "done", "error"}
    /\ \/ out # <<>> /\ Len(wire) = SendBuffer /\ ~broken
       \/ CanNext /\ inbox = <<>> /\ upstream = "open"
    /\ deadline' = "expired"
    /\ UNCHANGED <<bridgeVars, handlerVars, wire, received, client, broken, ctx, status,
                   effectVars, wrapper, taken>>

-----------------------------------------------------------------------------

Init ==
    /\ wrapper \in Wrappers
    /\ inbox = <<>> /\ upstream = "silent"
    /\ pc = "connect" /\ out = <<>> /\ stream = "none" /\ drained = 0
    /\ acc = [model |-> RequestModel, usage |-> 0, tools |-> <<>>, answer |-> <<>>]
    /\ deadline = "none" /\ wire = <<>> /\ received = <<>>
    /\ client = "reading" /\ broken = FALSE /\ ctx = "live" /\ status = 0
    /\ audit = <<>> /\ upstreamErrors = 0 /\ usageSeen = 0 /\ toolsSeen = 0
    /\ taken = <<>>

Handler ==
    \/ Open \/ (\E st \in {502, 503} : OpenFails(st))
    \/ NextChunk \/ NextEOF \/ NextError
    \/ WriteFrame \/ WriteFails
    \/ Finish \/ FinishError \/ Drain \/ Close

BridgeBegins == \E how \in {"open", "refused", "unready"} : BridgeAnswers(how)

BridgeEnds == \E how \in {"ended", "broken"} : BridgeStops(how)

Network == HangUpNoticed \/ DeadlinePasses

\* The handler has returned and the client has read what was sent.
Over == pc = "exited" /\ (wire = <<>> \/ client # "reading") /\ UNCHANGED vars

Next ==
    \/ Handler
    \/ \E line \in Chunks \cup {BadLine} : BridgeSends(line)
    \/ BridgeBegins \/ BridgeEnds
    \/ ClientReads
    \/ \E to \in {"reading", "stalled", "gone"} : ClientTurns(to)
    \/ Network
    \/ Over

Spec == Init /\ [][Next]_vars

\* The handler runs and net/http watches the connection and its deadlines.
HandlerFairness == WF_vars(Handler) /\ WF_vars(HangUpNoticed) /\ WF_vars(DeadlinePasses)

\* Assumed of the bridge: it answers, and a generation ends some day.
BridgeFairness == WF_vars(BridgeBegins) /\ WF_vars(BridgeEnds)

\* Assumed of a client that is not stuck: it reads on, or it hangs up.
ClientFairness ==
    /\ SF_vars(ClientReads)
    /\ WF_vars(ClientTurns("reading") \/ ClientTurns("gone"))

\* What is assumed of the others is stated by the properties that need it.
FairSpec == Spec /\ HandlerFairness

-----------------------------------------------------------------------------
(* Properties.                                                             *)

Lines  == Chunks \cup {BadLine}
Locals == [model : STRING, usage : Nat, tools : Seq(STRING), answer : Seq(STRING)]

TypeOK ==
    /\ wrapper \in Wrappers
    /\ inbox \in Seq(Lines) /\ taken \in Seq(Chunks)
    /\ upstream \in {"silent", "unready", "refused", "open", "ended", "broken"}
    /\ pc \in {"connect", "loop", "done", "error", "closing", "exited"}
    /\ acc \in Locals
    /\ stream \in {"none", "open", "closed"}
    /\ drained \in 0..DrainLines
    /\ deadline \in {"none", "armed", "expired"}
    /\ Len(wire) <= SendBuffer
    /\ client \in {"reading", "stalled", "gone"}
    /\ broken \in BOOLEAN /\ ctx \in {"live", "cancelled"}
    /\ status \in {0, 200, 502, 503}
    /\ usageSeen \in Nat /\ toolsSeen \in Nat
    /\ upstreamErrors \in Nat

\* What the client has read or will read.
Delivered == received \o wire

Terminal(f) == f.type \in {"done", "error"}

\* The sequences F makes of the elements of s, one behind the other.
Collect(F(_), s) == FlattenSeq([i \in DOMAIN s |-> F(s[i])])

Body(s) == Collect(LAMBDA f : When(~Terminal(f), <<f>>), s)

DataOf(type, s) == Collect(LAMBDA f : When(f.type = type, <<f.data>>), s)

\* The client gets the frames of the chunks in the bridge's order, each once:
\* all of them as long as its connection works, and a prefix when it breaks
\* (no frame arrives after one that was lost).
NothingLostOrReordered ==
    LET expected == Collect(FramesOf, taken)
    IN  /\ IsPrefix(Body(Delivered), expected)
        /\ ~broken => Body(Delivered \o out) = expected

\* Exactly one of done and error ends a session, nothing follows it, and it
\* tells the client the outcome that is audited.
OneTerminalFrame ==
    /\ \A i \in DOMAIN Delivered : Terminal(Delivered[i]) => i = Len(Delivered)
    /\ pc \in {"closing", "exited"} /\ stream # "none" /\ ~broken =>
           /\ Delivered # <<>>
           /\ Last(Delivered).type = (IF audit[1].outcome = "ok" THEN "done" ELSE "error")

\* One audit line per session, whether the client is still there or not, and
\* its outcome agrees with upstream_errors_total and with the status a client
\* was sent when no stream had begun.
AuditedOnce ==
    /\ Len(audit) = (IF pc \in {"closing", "exited"} THEN 1 ELSE 0)
    /\ audit # <<>> =>
           /\ audit[1].outcome = "error" <=> upstreamErrors = 1
           /\ stream = "none" => audit[1].status = status

\* The audit line of a finished session agrees with what the bridge sent (the
\* last done chunk's usage, every tool call, the text of the answer and of
\* nothing else), with the metrics, and with what the client was shown.
AuditMatchesStream ==
    audit # <<>> /\ audit[1].outcome = "ok" =>
        LET line     == audit[1]
            lastDone == SelectLastInSeq(taken, LAMBDA c : c.done)
            named    == SelectLastInSeq(taken, LAMBDA c : c.model # "")
            Text(c)  == When(c.role # "tool" /\ c.content # "", <<c.content>>)
            Tools(c) == c.tools
        IN  /\ line.usage = (IF lastDone = 0 THEN 0 ELSE taken[lastDone].usage)
            /\ line.model = (IF named = 0 THEN RequestModel ELSE taken[named].model)
            /\ line.tools = Collect(Tools, taken)
            /\ line.answer = (IF LogQuery THEN Collect(Text, taken) ELSE <<>>)
            /\ usageSeen = line.usage /\ toolsSeen = Len(line.tools)
            /\ ~broken =>
                  /\ DataOf("tool_call", Delivered) = line.tools
                  /\ LogQuery => DataOf("token", Delivered) = line.answer
                  /\ Last(Delivered).data.usage = line.usage

\* A client that reads (or hangs up) and a bridge that ends its stream, lost
\* or whole, let the handler return.
SessionEnds == BridgeFairness /\ ClientFairness => <>(pc = "exited")

\* Once the client has hung up the handler returns, even if the bridge never
\* says another word: the context reaches the read and the drain.
HangUpReleases == client = "gone" ~> pc = "exited"

\* docs/security.md, server.go and stream.go: a client that is connected but
\* does not read cannot pin the handler and the bridge stream.
StallIsBounded == client = "stalled" /\ out # <<>> ~> out = <<>> \/ client = "reading"

\* What makes it so is the deadline askStream sets before the first frame and
\* after every chunk, where the writer passes it on to the connection.
DeadlineBoundsStall == wrapper = "none" => StallIsBounded
=============================================================================
