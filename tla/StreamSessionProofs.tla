------------------------- MODULE StreamSessionProofs -------------------------
(***************************************************************************)
(* Theorems about StreamSession, for any set of chunks, any length of a    *)
(* stream, any send buffer and any limit of the drain.  The invariant Inv  *)
(* is about the control of a session: which frames are under way where     *)
(* askStream is.  On top of it, InOrder compares the frames that are       *)
(* delivered or about to be written with those of the chunks taken so far, *)
(* and Accounted and Recorded compare the handler's locals with the chunks *)
(* and what is audited, counted and told with the locals.                  *)
(***************************************************************************)
EXTENDS StreamSession, SequenceFacts, TLAPS

-----------------------------------------------------------------------------
(* Frames.                                                                 *)

BodyFrames == [type : {"thinking", "tool_call", "tool_result", "token"}, data : STRING]

TerminalFrames ==
    [type : {"done"}, data : [model : STRING, usage : Nat, tools : Seq(STRING)]]
    \cup {ErrorFrame}

Bodies == Seq(BodyFrames)

LEMMA Types ==
    /\ \A f \in BodyFrames : ~Terminal(f)
    /\ \A f \in TerminalFrames : Terminal(f)
    /\ ErrorFrame.type = "error"
  BY DEF BodyFrames, TerminalFrames, Terminal, ErrorFrame, Frame

\* A chunk makes frames of the body, never one that ends the session.
LEMMA ChunkFrames ==
    ASSUME NEW c \in Chunks
    PROVE  FramesOf(c) \in Bodies
<1> DEFINE thinking == When(c.thinking # "", <<Frame("thinking", c.thinking)>>)
           calls    == [i \in DOMAIN c.tools |-> Frame("tool_call", c.tools[i])]
           results  == When(c.role = "tool" /\ c.content # "", <<Frame("tool_result", c.content)>>)
           tokens   == When(IsAnswerText(c), <<Frame("token", c.content)>>)
<1>0. c.thinking \in STRING /\ c.content \in STRING /\ c.tools \in Seq(STRING)
  BY ChunkAssumption
<1>1. /\ Frame("thinking", c.thinking) \in BodyFrames /\ Frame("tool_result", c.content) \in BodyFrames
      /\ Frame("token", c.content) \in BodyFrames
      /\ \A i \in DOMAIN c.tools : Frame("tool_call", c.tools[i]) \in BodyFrames
  BY <1>0 DEF Frame, BodyFrames
<1>2. \A x \in BodyFrames : <<x>> \in Bodies
  BY DEF Bodies
<1>3. <<>> \in Bodies
  BY DEF Bodies
<1>4. thinking \in Bodies /\ results \in Bodies /\ tokens \in Bodies
  BY <1>1, <1>2, <1>3 DEF When
<1>5. calls \in Bodies
  <2>1. DOMAIN c.tools = 1..Len(c.tools) /\ Len(c.tools) \in Nat
    BY <1>0
  <2> QED
    BY <1>1, <2>1 DEF Bodies
<1>6. \A s, t \in Bodies : s \o t \in Bodies
  BY DEF Bodies
<1>7. FramesOf(c) = thinking \o calls \o results \o tokens
  BY DEF FramesOf
<1> HIDE DEF thinking, calls, results, tokens
<1> QED
  BY <1>4, <1>5, <1>6, <1>7

\* What a client has read, and what it has yet to read.
Frames == BodyFrames \cup TerminalFrames

LEMMA Reading ==
    ASSUME received \in Seq(Frames), wire \in Seq(Frames), wire # <<>>
    PROVE  Append(received, Head(wire)) \o Tail(wire) = received \o wire
  OBVIOUS

LEMMA Writing ==
    ASSUME received \in Seq(Frames), wire \in Seq(Frames), NEW f \in Frames
    PROVE  received \o Append(wire, f) = Append(received \o wire, f)
  OBVIOUS

LEMMA BodyGrows ==
    ASSUME NEW s \in Bodies, NEW f \in BodyFrames
    PROVE  Append(s, f) \in Bodies
  BY DEF Bodies

\* The session has been ended by one frame of this kind, or is cut off.
EndedBy(kind) ==
    \/ broken /\ Delivered \in Bodies
    \/ \E s \in Bodies, f \in TerminalFrames : Delivered = Append(s, f) /\ f.type = kind

\* The last frame is the one that ends it, and the only one.
LEMMA EndsOnce ==
    ASSUME NEW s \in Bodies, NEW f \in TerminalFrames
    PROVE  /\ \A i \in DOMAIN Append(s, f) : Terminal(Append(s, f)[i]) => i = Len(Append(s, f))
           /\ Append(s, f) # <<>> /\ Last(Append(s, f)) = f
<1> DEFINE t == Append(s, f)
<1>1. s \in Seq(BodyFrames)
  BY DEF Bodies
<1>2. /\ Len(t) = Len(s) + 1 /\ DOMAIN t = 1..Len(t) /\ t[Len(t)] = f /\ Len(s) \in Nat
      /\ \A i \in 1..Len(s) : t[i] = s[i] /\ s[i] \in BodyFrames
  BY <1>1
<1>3. Last(t) = t[Len(t)]
  BY DEF Last
<1> HIDE DEF t
<1>4. \A i \in DOMAIN t : Terminal(t[i]) => i = Len(t)
  BY <1>2, Types
<1>5. t # <<>>
  BY <1>2
<1> QED
  BY <1>2, <1>3, <1>4, <1>5 DEF t

-----------------------------------------------------------------------------
(* Types.                                                                  *)

Control ==
    /\ wrapper \in Wrappers
    /\ upstream \in {"silent", "unready", "refused", "open", "ended", "broken"}
    /\ pc \in {"connect", "loop", "done", "error", "closing", "exited"}
    /\ stream \in {"none", "open", "closed"} /\ drained \in 0..DrainLines
    /\ deadline \in {"none", "armed", "expired"}
    /\ client \in {"reading", "stalled", "gone"}
    /\ broken \in BOOLEAN /\ ctx \in {"live", "cancelled"} /\ status \in {0, 200, 502, 503}

Tallies ==
    acc \in Locals /\ usageSeen \in Nat /\ toolsSeen \in Nat /\ upstreamErrors \in Nat

Incoming == inbox \in Seq(Lines) /\ taken \in Seq(Chunks)

Buffered == wire \in Seq(Frames) /\ received \in Seq(Frames) /\ Len(wire) <= SendBuffer

LEMMA TypeParts == Control /\ Tallies /\ Incoming /\ Buffered => TypeOK
  BY DEF TypeOK, Control, Tallies, Incoming, Buffered

\* What comes from outside the handler.
Outside ==
    \/ \E line \in Lines : BridgeSends(line)
    \/ BridgeBegins \/ BridgeEnds
    \/ ClientReads
    \/ \E to \in {"reading", "stalled", "gone"} : ClientTurns(to)
    \/ Network \/ Over \/ UNCHANGED vars

LEMMA Steps == [Next]_vars => Handler \/ Outside
  BY DEF Next, Outside, Lines

LEMMA OutsideKeeps ==
    ASSUME Outside
    PROVE  /\ UNCHANGED <<wrapper, pc, out, acc, stream, drained, status, taken>>
           /\ UNCHANGED <<audit, upstreamErrors, usageSeen, toolsSeen>>
           /\ broken' = broken \/ broken' = TRUE
           /\ ClientReads \/ UNCHANGED <<wire, received>>
<1> USE DEF handlerVars, effectVars, connVars
<1>1. CASE \E line \in Lines : BridgeSends(line)
  BY <1>1 DEF BridgeSends
<1>2. CASE BridgeBegins \/ BridgeEnds
  BY <1>2 DEF BridgeBegins, BridgeEnds, BridgeAnswers, BridgeStops
<1>3. CASE ClientReads
  BY <1>3 DEF ClientReads
<1>4. CASE \E to \in {"reading", "stalled", "gone"} : ClientTurns(to)
  BY <1>4 DEF ClientTurns
<1>5. CASE Network
  BY <1>5 DEF Network, HangUpNoticed, DeadlinePasses
<1>6. CASE Over \/ UNCHANGED vars
  BY <1>6 DEF Over, vars
<1> QED
  BY <1>1, <1>2, <1>3, <1>4, <1>5, <1>6 DEF Outside

LEMMA StepControl == Control /\ [Next]_vars => Control'
<1> SUFFICES ASSUME Control, [Next]_vars PROVE Control'
  OBVIOUS
<1> USE DEF Control, bridgeVars, connVars
<1>1. CASE Open
  BY <1>1 DEF Open, RefreshWriteDeadline
<1>2. ASSUME NEW st \in {502, 503}, OpenFails(st) PROVE Control'
  BY <1>2 DEF OpenFails
<1>3. CASE NextChunk
  BY <1>3 DEF NextChunk, RefreshWriteDeadline
<1>4. CASE NextEOF \/ NextError
  <2>1. CASE NextEOF
    BY <2>1 DEF NextEOF
  <2>2. CASE NextError
    BY <2>2 DEF NextError
  <2> QED
    BY <1>4, <2>1, <2>2
<1>5. CASE WriteFrame \/ WriteFails
  <2>1. CASE WriteFrame
    BY <2>1 DEF WriteFrame
  <2>2. CASE WriteFails
    BY <2>2 DEF WriteFails
  <2> QED
    BY <1>5, <2>1, <2>2
<1>6. CASE Finish \/ FinishError
  BY <1>6 DEF Finish, FinishError
<1>7. CASE Drain
  BY <1>7, SessionBounds DEF Drain
<1>8. CASE Close
  BY <1>8 DEF Close
<1>9. CASE Outside
  <2>1. UNCHANGED <<wrapper, pc, stream, drained, status>> /\ broken' \in BOOLEAN
    BY <1>9, OutsideKeeps
  <2>2. /\ upstream' \in {"silent", "unready", "refused", "open", "ended", "broken"}
        /\ deadline' \in {"none", "armed", "expired"} /\ client' \in {"reading", "stalled", "gone"}
        /\ ctx' \in {"live", "cancelled"}
    <3>1. CASE \E line \in Lines : BridgeSends(line)
      BY <3>1 DEF BridgeSends
    <3>2. CASE BridgeBegins \/ BridgeEnds
      BY <3>2 DEF BridgeBegins, BridgeEnds, BridgeAnswers, BridgeStops
    <3>3. CASE ClientReads \/ Network
      BY <3>3 DEF ClientReads, Network, HangUpNoticed, DeadlinePasses
    <3>4. CASE \E to \in {"reading", "stalled", "gone"} : ClientTurns(to)
      BY <3>4 DEF ClientTurns
    <3>5. CASE Over \/ UNCHANGED vars
      BY <3>5 DEF Over, vars, handlerVars
    <3> QED
      BY <1>9, <3>1, <3>2, <3>3, <3>4, <3>5 DEF Outside
  <2> QED
    BY <2>1, <2>2
<1> QED
  BY <1>1, <1>2, <1>3, <1>4, <1>5, <1>6, <1>7, <1>8, <1>9, Steps DEF Handler

LEMMA StepIncoming == Incoming /\ [Next]_vars => Incoming'
<1> SUFFICES ASSUME Incoming, [Next]_vars PROVE Incoming'
  OBVIOUS
<1> USE DEF Incoming
<1>1. CASE NextChunk
  <2>1. /\ inbox # <<>> /\ Head(inbox) # BadLine
        /\ inbox' = Tail(inbox) /\ taken' = Append(taken, Head(inbox))
    BY <1>1 DEF NextChunk
  <2>2. Head(inbox) \in Chunks /\ Tail(inbox) \in Seq(Lines)
    BY <2>1 DEF Lines
  <2> QED
    BY <2>1, <2>2
<1>2. CASE NextError
  <2>1. taken' = taken /\ (inbox' = inbox \/ (inbox # <<>> /\ inbox' = Tail(inbox)))
    BY <1>2 DEF NextError, NextFails
  <2> QED
    BY <2>1
<1>3. CASE Drain
  <2>1. taken' = taken /\ inbox # <<>> /\ inbox' = Tail(inbox)
    BY <1>3 DEF Drain
  <2> QED
    BY <2>1
<1>4. ASSUME NEW line \in Lines, BridgeSends(line) PROVE Incoming'
  <2>1. taken' = taken /\ inbox' = Append(inbox, line)
    BY <1>4 DEF BridgeSends
  <2> QED
    BY <2>1
<1>5. CASE UNCHANGED <<inbox, taken>>
  BY <1>5
<1>6. ASSUME \/ Open \/ (\E st \in {502, 503} : OpenFails(st)) \/ NextEOF
             \/ WriteFrame \/ WriteFails \/ Finish \/ FinishError \/ Close
      PROVE  UNCHANGED <<inbox, taken>>
  BY <1>6 DEF Open, OpenFails, NextEOF, WriteFrame, WriteFails, Finish, FinishError, Close, bridgeVars
<1>7. ASSUME \/ BridgeBegins \/ BridgeEnds \/ ClientReads \/ Network \/ Over \/ UNCHANGED vars
             \/ \E to \in {"reading", "stalled", "gone"} : ClientTurns(to)
      PROVE  UNCHANGED <<inbox, taken>>
  BY <1>7 DEF BridgeBegins, BridgeEnds, BridgeAnswers, BridgeStops, ClientReads, ClientTurns,
     Network, HangUpNoticed, DeadlinePasses, Over, vars, bridgeVars
<1> QED
  BY <1>1, <1>2, <1>3, <1>4, <1>5, <1>6, <1>7, Steps DEF Handler, Outside

LEMMA AbsorbType ==
    ASSUME NEW a \in Locals, NEW c \in Chunks
    PROVE  Absorb(a, c) \in Locals
<1>0. /\ a.model \in STRING /\ a.usage \in Nat /\ a.tools \in Seq(STRING) /\ a.answer \in Seq(STRING)
      /\ c.model \in STRING /\ c.usage \in Nat /\ c.tools \in Seq(STRING) /\ c.content \in STRING
  BY ChunkAssumption DEF Locals
<1>1. a.tools \o c.tools \in Seq(STRING)
  BY <1>0
<1>2. When(LogQuery /\ IsAnswerText(c), <<c.content>>) \in Seq(STRING)
  <2>1. <<>> \in Seq(STRING) /\ <<c.content>> \in Seq(STRING)
    BY <1>0
  <2> QED
    BY <2>1 DEF When
<1>3. a.answer \o When(LogQuery /\ IsAnswerText(c), <<c.content>>) \in Seq(STRING)
  BY <1>0, <1>2
<1> QED
  BY <1>0, <1>1, <1>3 DEF Absorb, Locals

LEMMA StepTallies == Incoming /\ Tallies /\ [Next]_vars => Tallies'
<1> SUFFICES ASSUME Incoming, Tallies, [Next]_vars PROVE Tallies'
  OBVIOUS
<1> USE DEF Tallies
<1>1. CASE NextChunk
  <2>1. /\ inbox # <<>> /\ Head(inbox) # BadLine /\ acc' = Absorb(acc, Head(inbox))
        /\ UNCHANGED effectVars
    BY <1>1 DEF NextChunk
  <2>2. Head(inbox) \in Chunks
    BY <2>1 DEF Incoming, Lines
  <2>3. acc' \in Locals
    BY <2>1, <2>2, AbsorbType
  <2> QED
    BY <2>1, <2>3 DEF effectVars
<1>2. CASE Finish
  <2>1. acc.usage \in Nat /\ Len(acc.tools) \in Nat
    BY DEF Locals
  <2> QED
    BY <1>2, <2>1 DEF Finish
<1>3. CASE NextError \/ (\E st \in {502, 503} : OpenFails(st))
  BY <1>3 DEF NextError, OpenFails
<1>4. CASE Open \/ NextEOF \/ WriteFrame \/ WriteFails \/ FinishError \/ Drain \/ Close
  <2>1. UNCHANGED <<acc, upstreamErrors, usageSeen, toolsSeen>>
    BY <1>4 DEF Open, NextEOF, WriteFrame, WriteFails, FinishError, Drain, Close, effectVars
  <2> QED
    BY <2>1
<1>5. CASE Outside
  BY <1>5, OutsideKeeps
<1> QED
  BY <1>1, <1>2, <1>3, <1>4, <1>5, Steps DEF Handler

-----------------------------------------------------------------------------
(* The frames of a session.                                                *)

\* The outcome of the audit line, as the kind of frame that ends the session.
LastKind == IF audit[1].outcome = "ok" THEN "done" ELSE "error"

\* The audit line is written once, where the handler has decided how it ends,
\* with the metrics that go with it.
Audited ==
    /\ pc \in {"connect", "loop", "done", "error"} => audit = <<>>
    /\ pc \in {"connect", "loop", "done"} => upstreamErrors = 0
    /\ pc = "error" => upstreamErrors = 1
    /\ pc \in {"closing", "exited"} =>
           /\ Len(audit) = 1 /\ audit[1].outcome \in {"ok", "error"}
           /\ audit[1].outcome = "error" <=> upstreamErrors = 1
           /\ stream = "none" => audit[1].status = status
    /\ pc \in {"loop", "done", "error", "closing"} => stream # "none"

LEMMA OneLine ==
    ASSUME audit = <<>>, NEW line, audit' = Append(audit, line)
    PROVE  Len(audit') = 1 /\ audit'[1] = line /\ audit' # <<>>
  OBVIOUS

LEMMA StepAudited == Audited /\ [Next]_vars => Audited'
<1> SUFFICES ASSUME Audited, [Next]_vars PROVE Audited'
  OBVIOUS
<1> USE DEF Audited, connVars, effectVars
<1>1. CASE Open
  BY <1>1 DEF Open
<1>2. ASSUME NEW st \in {502, 503}, OpenFails(st) PROVE Audited'
  <2>1. /\ pc = "connect" /\ pc' = "exited" /\ upstreamErrors' = upstreamErrors + 1 /\ status' = st
        /\ audit' = Append(audit, AuditError(st, RequestModel)) /\ stream' = stream
    BY <1>2 DEF OpenFails
  <2>2. AuditError(st, RequestModel).outcome = "error" /\ AuditError(st, RequestModel).status = st
    BY DEF AuditError, AuditLine
  <2> QED
    BY <2>1, <2>2, OneLine
<1>3. CASE NextChunk
  BY <1>3 DEF NextChunk, CanNext
<1>4. CASE NextEOF
  BY <1>4 DEF NextEOF, CanNext
<1>5. CASE NextError
  BY <1>5 DEF NextError, CanNext
<1>6. CASE WriteFrame \/ WriteFails
  <2>1. UNCHANGED <<pc, audit, upstreamErrors, status, stream>>
    BY <1>6 DEF WriteFrame, WriteFails
  <2> QED
    BY <2>1
<1>7. CASE Finish
  <2>1. /\ pc = "done" /\ pc' = "closing" /\ upstreamErrors' = upstreamErrors
        /\ audit' = Append(audit, AuditLine("ok", 200, acc)) /\ stream' = stream
    BY <1>7 DEF Finish
  <2>2. AuditLine("ok", 200, acc).outcome = "ok"
    BY DEF AuditLine
  <2> QED
    BY <2>1, <2>2, OneLine
<1>8. CASE FinishError
  <2>1. /\ pc = "error" /\ pc' = "closing" /\ upstreamErrors' = upstreamErrors
        /\ audit' = Append(audit, AuditError(502, acc.model)) /\ stream' = stream
    BY <1>8 DEF FinishError
  <2>2. AuditError(502, acc.model).outcome = "error"
    BY DEF AuditError, AuditLine
  <2> QED
    BY <2>1, <2>2, OneLine
<1>9. CASE Drain
  BY <1>9 DEF Drain
<1>10. CASE Close
  BY <1>10 DEF Close
<1>11. CASE Outside
  <2>1. UNCHANGED <<pc, stream, status, audit, upstreamErrors>>
    BY <1>11, OutsideKeeps
  <2> QED
    BY <2>1
<1> QED
  BY <1>1, <1>2, <1>3, <1>4, <1>5, <1>6, <1>7, <1>8, <1>9, <1>10, <1>11, Steps DEF Handler

\* What is delivered are frames of the body until the frame that ends the session
\* is written; a connection that breaks stays broken.
Framed ==
    /\ pc = "connect" => out = <<>> /\ stream = "none"
    /\ pc \in {"connect", "loop"} => Delivered \in Bodies /\ out \in Bodies
    /\ pc \in {"done", "error"} /\ out # <<>> =>
           /\ Delivered \in Bodies
           /\ \E f \in TerminalFrames : out = <<f>> /\ f.type = pc
    /\ pc \in {"done", "error"} /\ out = <<>> => EndedBy(pc)
    /\ pc \in {"closing", "exited"} =>
           /\ out = <<>>
           /\ stream # "none" => EndedBy(LastKind)
           /\ stream = "none" => Delivered \in Bodies

\* Only a write changes what is delivered, and it adds the next frame.
LEMMA DeliveredStep ==
    ASSUME Buffered, [Next]_vars, out \in Seq(Frames)
    PROVE  /\ Buffered' /\ (broken => broken')
           /\ ~WriteFrame => Delivered' = Delivered
           /\ WriteFrame => Delivered' = Append(Delivered, Head(out)) /\ out # <<>>
<1> USE DEF Buffered
<1>1. CASE WriteFrame
  <2>1. /\ out # <<>> /\ wire' = Append(wire, Head(out)) /\ received' = received /\ broken' = broken
        /\ Len(wire) < SendBuffer
    BY <1>1 DEF WriteFrame
  <2>2. Head(out) \in Frames
    BY <2>1
  <2>3. Buffered'
    BY <2>1, <2>2, SessionBounds
  <2>4. Delivered' = Append(Delivered, Head(out))
    BY <2>1, <2>2, Writing DEF Delivered
  <2> QED
    BY <1>1, <2>1, <2>3, <2>4
<1>2. CASE ClientReads
  <2>1. /\ wire # <<>> /\ received' = Append(received, Head(wire)) /\ wire' = Tail(wire)
        /\ broken' = broken /\ out' = out
    BY <1>2 DEF ClientReads, handlerVars
  <2>2. Head(wire) \in Frames /\ Tail(wire) \in Seq(Frames) /\ Len(Tail(wire)) <= Len(wire)
    BY <2>1
  <2>3. Buffered'
    BY <2>1, <2>2, SessionBounds
  <2>4. Delivered' = Delivered
    BY <2>1, Reading DEF Delivered
  <2>5. ~WriteFrame
    BY <2>1 DEF WriteFrame
  <2> QED
    BY <2>1, <2>3, <2>4, <2>5
<1>3. ASSUME UNCHANGED <<wire, received>>, broken => broken', ~WriteFrame
      PROVE  Buffered' /\ Delivered' = Delivered
  BY <1>3 DEF Delivered
<1>4. ASSUME Handler, ~WriteFrame PROVE UNCHANGED <<wire, received>> /\ (broken => broken')
  BY <1>4 DEF Handler, Open, OpenFails, NextChunk, NextEOF, NextError, WriteFails, Finish,
     FinishError, Drain, Close, connVars
<1>5. ASSUME Outside, ~ClientReads PROVE UNCHANGED <<wire, received>> /\ (broken => broken')
  <2>1. broken' = broken \/ broken' = TRUE
    BY <1>5, OutsideKeeps
  <2>2. UNCHANGED <<wire, received>>
    BY <1>5, OutsideKeeps
  <2>3. broken => broken'
    BY ONLY <2>1, Zenon
  <2> QED
    BY <2>2, <2>3
<1> QED
  BY <1>1, <1>2, <1>3, <1>4, <1>5, Steps

LEMMA StepFramed ==
    ASSUME Buffered, Incoming, Tallies, Audited, Framed, [Next]_vars, pc \in {"connect", "loop", "done", "error", "closing", "exited"}
    PROVE  Framed' /\ Buffered'
<1>0. out \in Seq(Frames) /\ Delivered \in Seq(Frames)
  <2>1. Bodies \subseteq Seq(Frames) /\ \A f \in TerminalFrames : <<f>> \in Seq(Frames)
    BY DEF Bodies, Frames
  <2>2. <<>> \in Seq(Frames)
    OBVIOUS
  <2>3. out \in Seq(Frames)
    BY <2>1, <2>2 DEF Framed
  <2> QED
    BY <2>3 DEF Buffered, Delivered
<1>1. /\ Buffered' /\ (broken => broken')
      /\ ~WriteFrame => Delivered' = Delivered
      /\ WriteFrame => Delivered' = Append(Delivered, Head(out)) /\ out # <<>>
  BY <1>0, DeliveredStep
<1> SUFFICES Framed'
  BY <1>1
<1> HIDE DEF Delivered
<1>2. CASE WriteFrame
  <2>1. /\ out # <<>> /\ ~broken /\ out' = Tail(out) /\ pc' = pc /\ broken' = broken
        /\ audit' = audit /\ stream' = stream /\ Delivered' = Append(Delivered, Head(out))
    BY <1>1, <1>2 DEF WriteFrame, effectVars
  <2>2. CASE pc \in {"connect", "loop"}
    <3>1. Head(out) \in BodyFrames /\ Tail(out) \in Bodies
      BY <2>1, <2>2 DEF Framed, Bodies
    <3>2. Delivered' \in Bodies
      BY <2>1, <2>2, <3>1, BodyGrows DEF Framed
    <3> QED
      BY <2>1, <2>2, <3>1, <3>2 DEF Framed
  <2>3. CASE pc \in {"done", "error"}
    <3>1. PICK f \in TerminalFrames : out = <<f>> /\ f.type = pc
      BY <2>1, <2>3 DEF Framed
    <3>2. out' = <<>> /\ Delivered' = Append(Delivered, f) /\ Delivered \in Bodies
      BY <2>1, <2>3, <3>1 DEF Framed
    <3>3. EndedBy(pc)'
      BY <2>1, <3>1, <3>2 DEF EndedBy
    <3> QED
      BY <2>1, <2>3, <3>2, <3>3 DEF Framed
  <2> QED
    BY <2>1, <2>2, <2>3 DEF Framed
<1>3. CASE WriteFails
  <2>1. /\ out # <<>> /\ out' = Tail(out) /\ broken' = TRUE /\ pc' = pc /\ stream' = stream
        /\ audit' = audit /\ Delivered' = Delivered
    <3>1. ~WriteFrame
      BY <1>3 DEF WriteFrame, WriteFails
    <3> QED
      BY <1>1, <1>3, <3>1 DEF WriteFails, effectVars
  <2>2. CASE pc \in {"connect", "loop"}
    <3>1. Tail(out) \in Bodies
      BY <2>1, <2>2 DEF Framed, Bodies
    <3> QED
      BY <2>1, <2>2, <3>1 DEF Framed
  <2>3. CASE pc \in {"done", "error"}
    <3>1. out' = <<>> /\ Delivered \in Bodies
      BY <2>1, <2>3 DEF Framed
    <3>2. EndedBy(pc)'
      BY <2>1, <3>1 DEF EndedBy
    <3> QED
      BY <2>1, <2>3, <3>1, <3>2 DEF Framed
  <2> QED
    BY <2>1, <2>2, <2>3 DEF Framed
<1>4. ASSUME ~WriteFrame PROVE \A kind : EndedBy(kind) => EndedBy(kind)'
  BY <1>1, <1>4 DEF EndedBy
<1>5. CASE Open
  <2>1. pc = "connect" /\ pc' = "loop" /\ out' = out /\ ~WriteFrame
    BY <1>5 DEF Open, WriteFrame
  <2> QED
    BY <1>1, <2>1 DEF Framed
<1>6. ASSUME NEW st \in {502, 503}, OpenFails(st) PROVE Framed'
  <2>1. pc = "connect" /\ pc' = "exited" /\ out' = out /\ stream' = stream /\ ~WriteFrame
    BY <1>6 DEF OpenFails, WriteFrame
  <2> QED
    BY <1>1, <2>1 DEF Framed
<1>7. CASE NextChunk
  <2>1. /\ pc = "loop" /\ out = <<>> /\ inbox # <<>> /\ Head(inbox) # BadLine
        /\ out' = FramesOf(Head(inbox)) /\ pc' = pc
    BY <1>7 DEF NextChunk, CanNext
  <2>2. Head(inbox) \in Chunks /\ ~WriteFrame
    BY <2>1 DEF Incoming, Lines, WriteFrame
  <2> QED
    BY <1>1, <2>1, <2>2, ChunkFrames DEF Framed
<1>8. CASE NextEOF
  <2>1. pc = "loop" /\ out = <<>> /\ out' = <<DoneFrame>> /\ pc' = "done" /\ ~WriteFrame
    BY <1>8 DEF NextEOF, CanNext, WriteFrame
  <2>2. DoneFrame \in TerminalFrames /\ DoneFrame.type = "done"
    BY DEF DoneFrame, Frame, TerminalFrames, Tallies, Locals
  <2>3. <<DoneFrame>> # <<>>
    OBVIOUS
  <2> QED
    BY <1>1, <2>1, <2>2, <2>3 DEF Framed
<1>9. CASE NextError
  <2>1. pc = "loop" /\ out = <<>> /\ out' = <<ErrorFrame>> /\ pc' = "error" /\ ~WriteFrame
    BY <1>9 DEF NextError, CanNext, WriteFrame
  <2>2. ErrorFrame \in TerminalFrames /\ ErrorFrame.type = "error"
    BY Types DEF TerminalFrames
  <2>3. <<ErrorFrame>> # <<>>
    OBVIOUS
  <2> QED
    BY <1>1, <2>1, <2>2, <2>3 DEF Framed
<1>10. CASE Finish \/ FinishError
  <2>1. CASE Finish
    <3>1. /\ pc = "done" /\ out = <<>> /\ out' = out /\ pc' = "closing" /\ stream' = stream /\ ~WriteFrame
          /\ audit' = Append(audit, AuditLine("ok", 200, acc))
      BY <2>1 DEF Finish, WriteFrame
    <3>2. AuditLine("ok", 200, acc).outcome = "ok"
      BY DEF AuditLine
    <3>3. audit'[1].outcome = "ok"
      BY <3>1, <3>2, OneLine DEF Audited
    <3>4. EndedBy("done")' /\ stream # "none"
      BY <1>4, <3>1 DEF Framed, Audited
    <3> QED
      BY <3>1, <3>3, <3>4 DEF Framed, LastKind
  <2>2. CASE FinishError
    <3>1. /\ pc = "error" /\ out = <<>> /\ out' = out /\ pc' = "closing" /\ stream' = stream /\ ~WriteFrame
          /\ audit' = Append(audit, AuditError(502, acc.model))
      BY <2>2 DEF FinishError, WriteFrame
    <3>2. AuditError(502, acc.model).outcome = "error"
      BY DEF AuditError, AuditLine
    <3>5. audit = <<>>
      BY <3>1 DEF Audited
    <3>6. audit'[1] = AuditError(502, acc.model)
      BY ONLY <3>1, <3>5, OneLine
    <3>3. audit'[1].outcome = "error"
      BY ONLY <3>2, <3>6
    <3>4. EndedBy("error")' /\ stream # "none"
      BY <1>4, <3>1 DEF Framed, Audited
    <3> QED
      BY <3>1, <3>3, <3>4 DEF Framed, LastKind
  <2> QED
    BY <1>10, <2>1, <2>2
<1>11. ASSUME ~WriteFrame, UNCHANGED <<pc, out, audit>>, (stream' = "none") <=> (stream = "none")
       PROVE  Framed'
  BY <1>1, <1>4, <1>11 DEF Framed, LastKind
<1>12. CASE Drain
  <2>1. UNCHANGED <<pc, out, audit, stream>> /\ pc = "closing"
    BY <1>12 DEF Drain, effectVars
  <2>2. ~WriteFrame
    BY <2>1 DEF Framed, WriteFrame
  <2> QED
    BY <1>11, <2>1, <2>2
<1>13. CASE Close
  <2>1. pc = "closing" /\ pc' = "exited" /\ stream' = "closed" /\ out' = out /\ audit' = audit /\ stream # "none"
    BY <1>13 DEF Close, effectVars, Audited
  <2>2. ~WriteFrame
    BY <2>1 DEF Framed, WriteFrame
  <2>3. EndedBy(LastKind)' /\ out = <<>>
    BY <1>4, <2>1, <2>2 DEF Framed, LastKind
  <2> QED
    BY <2>1, <2>3 DEF Framed
<1>14. CASE Outside
  <2>1. UNCHANGED <<pc, out, audit, stream>>
    BY <1>14, OutsideKeeps
  <2>2. ~WriteFrame
    BY <1>0, <2>1 DEF WriteFrame
  <2> QED
    BY <1>11, <2>1, <2>2
<1> QED
  BY <1>2, <1>3, <1>5, <1>6, <1>7, <1>8, <1>9, <1>10, <1>12, <1>13, <1>14, Steps DEF Handler

Inv == Control /\ Tallies /\ Incoming /\ Buffered /\ Audited /\ Framed

LEMMA InitInv == Init => Inv
<1> SUFFICES ASSUME Init PROVE Inv
  OBVIOUS
<1>1. /\ \A S : <<>> \in Seq(S)
      /\ Len(<<>>) = 0 /\ <<>> \o <<>> = <<>>
  OBVIOUS
<1>2. Control
  <2>1. 0 \in 0..DrainLines
    BY SessionBounds
  <2>2. /\ wrapper \in Wrappers /\ upstream = "silent" /\ pc = "connect" /\ stream = "none"
        /\ drained = 0 /\ deadline = "none" /\ client = "reading" /\ broken = FALSE
        /\ ctx = "live" /\ status = 0
    BY DEF Init
  <2> QED
    BY <2>1, <2>2 DEF Control
<1>3. Tallies
  <2>1. acc = [model |-> RequestModel, usage |-> 0, tools |-> <<>>, answer |-> <<>>]
    BY DEF Init
  <2>2. acc \in Locals
    BY <1>1, <2>1, ChunkAssumption DEF Locals
  <2> QED
    BY <2>2 DEF Init, Tallies
<1>4. Incoming /\ Buffered
  BY <1>1, SessionBounds DEF Init, Incoming, Buffered
<1>5. Audited
  BY DEF Init, Audited
<1>6. Delivered = <<>> /\ out = <<>>
  BY <1>1 DEF Init, Delivered
<1>7. Framed
  BY <1>1, <1>6 DEF Init, Framed, Bodies
<1> QED
  BY <1>2, <1>3, <1>4, <1>5, <1>7 DEF Inv

LEMMA InvHolds == Spec => []Inv
<1>1. Inv /\ [Next]_vars => Inv'
  <2> SUFFICES ASSUME Inv, [Next]_vars PROVE Inv'
    OBVIOUS
  <2>1. Control' /\ Tallies' /\ Incoming' /\ Audited'
    BY StepControl, StepTallies, StepIncoming, StepAudited DEF Inv
  <2>2. pc \in {"connect", "loop", "done", "error", "closing", "exited"}
    BY DEF Inv, Control
  <2>3. Framed' /\ Buffered'
    BY <2>2, StepFramed DEF Inv
  <2> QED
    BY <2>1, <2>3 DEF Inv
<1> QED
  BY <1>1, InitInv, PTL DEF Spec

\* Every variable has its type, whatever chunks the bridge sends; the send
\* buffer never holds more frames than it has room for.
THEOREM TypeCorrect == Spec => []TypeOK
<1>1. Inv => TypeOK
  BY TypeParts DEF Inv
<1> QED
  BY <1>1, InvHolds, PTL

\* A session that is over has one audit line, which agrees with the error metric
\* and, if no stream had begun, with the status the client was sent.
THEOREM OneAuditLine == Spec => []AuditedOnce
<1>1. Inv => AuditedOnce
  <2> SUFFICES ASSUME Audited, Control PROVE AuditedOnce
    BY DEF Inv
  <2>1. Len(<<>>) = 0
    OBVIOUS
  <2>2. CASE pc \in {"connect", "loop", "done", "error"}
    BY <2>1, <2>2 DEF Audited, AuditedOnce
  <2>3. CASE pc \in {"closing", "exited"}
    BY <2>3 DEF Audited, AuditedOnce
  <2> QED
    BY <2>2, <2>3 DEF Control
<1> QED
  BY <1>1, InvHolds, PTL

\* A client is told how the session ended by one frame, the last it gets; and if
\* its connection held, it has been told when the handler returns.
THEOREM OneLastFrame == Spec => []OneTerminalFrame
<1>1. Inv => OneTerminalFrame
  <2> SUFFICES ASSUME Framed, Control
               PROVE  /\ \A i \in DOMAIN Delivered : Terminal(Delivered[i]) => i = Len(Delivered)
                      /\ pc \in {"closing", "exited"} /\ stream # "none" /\ ~broken =>
                             /\ Delivered # <<>>
                             /\ Last(Delivered).type = (IF audit[1].outcome = "ok" THEN "done" ELSE "error")
    BY DEF Inv, OneTerminalFrame
  <2>1. Delivered \in Bodies \/ \E kind : EndedBy(kind)
    BY DEF Framed, Control
  <2>2. Delivered \in Bodies \/ \E s \in Bodies, f \in TerminalFrames : Delivered = Append(s, f)
    BY <2>1 DEF EndedBy
  <2>3. \A i \in DOMAIN Delivered : Terminal(Delivered[i]) => i = Len(Delivered)
    <3>1. CASE Delivered \in Bodies
      <4>1. \A i \in DOMAIN Delivered : Delivered[i] \in BodyFrames
        BY <3>1 DEF Bodies
      <4> QED
        BY <4>1, Types
    <3>2. CASE \E s \in Bodies, f \in TerminalFrames : Delivered = Append(s, f)
      BY <3>2, EndsOnce
    <3> QED
      BY <2>2, <3>1, <3>2
  <2>4. ASSUME pc \in {"closing", "exited"}, stream # "none", ~broken
        PROVE  /\ Delivered # <<>>
               /\ Last(Delivered).type = (IF audit[1].outcome = "ok" THEN "done" ELSE "error")
    <3>1. EndedBy(LastKind)
      BY <2>4 DEF Framed
    <3>2. PICK s \in Bodies, f \in TerminalFrames : Delivered = Append(s, f) /\ f.type = LastKind
      BY <2>4, <3>1 DEF EndedBy
    <3>3. Delivered # <<>> /\ Last(Delivered) = f
      BY <3>2, EndsOnce
    <3> QED
      BY <3>2, <3>3 DEF LastKind
  <2> QED
    BY <2>3, <2>4
<1> QED
  BY <1>1, InvHolds, PTL

-----------------------------------------------------------------------------
(* What a whole stream comes to: each of the sequences the properties      *)
(* collect is gathered, by a function, from the chunks or from the frames. *)

framesOf == [c \in Chunks |-> FramesOf(c)]

toolsOf == [c \in Chunks |-> c.tools]

textOf == [c \in Chunks |-> When(c.role # "tool" /\ c.content # "", <<c.content>>)]

bodyOf == [f \in Frames |-> When(~Terminal(f), <<f>>)]

dataOf(type) == [f \in Frames |-> When(f.type = type, <<f.data>>)]

LEMMA FrameTypes ==
    /\ Bodies \subseteq Seq(Frames)
    /\ \A f \in BodyFrames : f \in Frames /\ f.data \in STRING
    /\ \A f \in TerminalFrames : f \in Frames /\ f.type \in {"done", "error"}
    /\ \A f \in Frames : f \in BodyFrames \/ f \in TerminalFrames
<1>1. Bodies \subseteq Seq(Frames)
  BY DEF Bodies, Frames
<1>2. \A f \in BodyFrames : f \in Frames /\ f.data \in STRING
  BY DEF BodyFrames, Frames
<1>3. \A f \in TerminalFrames : f \in Frames /\ f.type \in {"done", "error"}
  BY Types DEF TerminalFrames, Frames
<1> QED
  BY <1>1, <1>2, <1>3 DEF Frames

LEMMA FunctionTypes ==
    /\ framesOf \in Makes(Chunks, Frames)
    /\ toolsOf \in Makes(Chunks, STRING) /\ textOf \in Makes(Chunks, STRING)
    /\ bodyOf \in Makes(Frames, Frames)
    /\ \A type \in {"tool_call", "token"} : dataOf(type) \in Makes(Frames, STRING)
<1>0. \A S : <<>> \in Seq(S) /\ \A x \in S : <<x>> \in Seq(S)
  OBVIOUS
<1>1. framesOf \in Makes(Chunks, Frames)
  <2>1. \A c \in Chunks : FramesOf(c) \in Seq(Frames)
    BY ChunkFrames, FrameTypes
  <2> QED
    BY <2>1 DEF framesOf, Makes
<1>2. toolsOf \in Makes(Chunks, STRING)
  <2>1. \A c \in Chunks : c.tools \in Seq(STRING)
    BY ChunkAssumption
  <2> QED
    BY <2>1 DEF toolsOf, Makes
<1>3. textOf \in Makes(Chunks, STRING)
  <2>1. ASSUME NEW c \in Chunks
        PROVE  When(c.role # "tool" /\ c.content # "", <<c.content>>) \in Seq(STRING)
    <3>1. c.content \in STRING
      BY ChunkAssumption
    <3> QED
      BY <1>0, <3>1 DEF When
  <2> QED
    BY <2>1 DEF textOf, Makes
<1>4. bodyOf \in Makes(Frames, Frames)
  <2>1. \A f \in Frames : When(~Terminal(f), <<f>>) \in Seq(Frames)
    BY <1>0 DEF When
  <2> QED
    BY <2>1 DEF bodyOf, Makes
<1>5. ASSUME NEW type \in {"tool_call", "token"} PROVE dataOf(type) \in Makes(Frames, STRING)
  <2>1. ASSUME NEW f \in Frames PROVE When(f.type = type, <<f.data>>) \in Seq(STRING)
    <3>1. CASE f \in BodyFrames
      BY <1>0, <3>1, FrameTypes DEF When
    <3>2. CASE f \in TerminalFrames
      <4>1. f.type # type
        BY <3>2, FrameTypes
      <4> QED
        BY <1>0, <4>1 DEF When
    <3> QED
      BY <3>1, <3>2, FrameTypes
  <2> QED
    BY <2>1 DEF dataOf, Makes
<1> QED
  BY <1>1, <1>2, <1>3, <1>4, <1>5

\* The collections of the properties, as they are gathered.
LEMMA ChunkCollections ==
    ASSUME NEW s \in Seq(Chunks)
    PROVE  Collect(FramesOf, s) = Gather(framesOf, s)
<1>1. \A i \in DOMAIN s : s[i] \in Chunks
  OBVIOUS
<1>2. [i \in DOMAIN s |-> FramesOf(s[i])] = [i \in DOMAIN s |-> framesOf[s[i]]]
  BY <1>1 DEF framesOf
<1> QED
  BY <1>2 DEF Collect, Gather

LEMMA FrameCollections ==
    ASSUME NEW s \in Seq(Frames)
    PROVE  Body(s) = Gather(bodyOf, s) /\ \A type : DataOf(type, s) = Gather(dataOf(type), s)
<1>1. \A i \in DOMAIN s : s[i] \in Frames
  OBVIOUS
<1>2. [i \in DOMAIN s |-> When(~Terminal(s[i]), <<s[i]>>)] = [i \in DOMAIN s |-> bodyOf[s[i]]]
  BY <1>1 DEF bodyOf
<1>3. ASSUME NEW type
      PROVE  [i \in DOMAIN s |-> When(s[i].type = type, <<s[i].data>>)]
             = [i \in DOMAIN s |-> dataOf(type)[s[i]]]
  BY <1>1 DEF dataOf
<1> QED
  BY <1>2, <1>3 DEF Body, DataOf, Collect, Gather

LEMMA BodyOfFrames ==
    /\ \A s \in Bodies : Body(s) = s
    /\ \A f \in TerminalFrames : Body(<<f>>) = <<>>
<1>1. ASSUME NEW s \in Bodies PROVE Body(s) = s
  <2>1. s \in Seq(BodyFrames) /\ s \in Seq(Frames)
    BY FrameTypes DEF Bodies
  <2>2. \A f \in BodyFrames : bodyOf[f] = <<f>>
    BY Types, FrameTypes DEF bodyOf, When
  <2>3. \A i \in DOMAIN s : bodyOf[s[i]] = <<s[i]>>
    BY <2>1, <2>2
  <2>4. Gather(bodyOf, s) = s
    BY <2>1, <2>3, GatherAll
  <2> QED
    BY <2>1, <2>4, FrameCollections
<1>2. ASSUME NEW f \in TerminalFrames PROVE Body(<<f>>) = <<>>
  <2>1. f \in Frames /\ bodyOf[f] = <<>>
    BY Types, FrameTypes DEF bodyOf, When
  <2>2. <<f>> \in Seq(Frames)
    BY <2>1
  <2>3. Gather(bodyOf, <<f>>) = <<>>
    BY <2>1, FunctionTypes, GatherOne
  <2> QED
    BY <2>2, <2>3, FrameCollections
<1> QED
  BY <1>1, <1>2

LEMMA BodyConcat ==
    ASSUME NEW s \in Seq(Frames), NEW t \in Seq(Frames)
    PROVE  Body(s \o t) = Body(s) \o Body(t) /\ Body(s) \in Seq(Frames)
<1>1. s \o t \in Seq(Frames)
  BY ConcatProperties
<1>2. Gather(bodyOf, s \o t) = Gather(bodyOf, s) \o Gather(bodyOf, t)
  BY FunctionTypes, GatherConcat
<1>3. Gather(bodyOf, s) \in Seq(Frames)
  BY FunctionTypes, Gathered
<1> QED
  BY <1>1, <1>2, <1>3, FrameCollections

-----------------------------------------------------------------------------
(* The frames of the chunks, in their order.                               *)

\* What is delivered and what is about to be written, step by step: a chunk adds
\* its frames, the end adds one that is not of the body, a write moves one on,
\* and one that is lost breaks the connection.
Moves ==
    \/ \E c \in Chunks : /\ out = <<>> /\ out' = FramesOf(c) /\ taken' = Append(taken, c)
                          /\ Delivered' = Delivered /\ broken' = broken
    \/ /\ out = <<>> /\ (\E f \in TerminalFrames : out' = <<f>>)
       /\ taken' = taken /\ Delivered' = Delivered /\ broken' = broken
    \/ /\ out # <<>> /\ out' = Tail(out) /\ Delivered' = Append(Delivered, Head(out))
       /\ ~broken /\ taken' = taken
    \/ (broken' = TRUE \/ (broken' = broken /\ out' = out)) /\ taken' = taken /\ Delivered' = Delivered

LEMMA OutTyped == Framed /\ Control /\ Tallies => out \in Seq(Frames)
<1> SUFFICES ASSUME Framed, Control PROVE out \in Seq(Frames)
  OBVIOUS
<1>1. \A f \in TerminalFrames : <<f>> \in Seq(Frames)
  BY FrameTypes
<1>2. <<>> \in Seq(Frames)
  OBVIOUS
<1>3. CASE pc \in {"connect", "loop"}
  BY <1>3, FrameTypes DEF Framed
<1>4. CASE pc \in {"done", "error"}
  BY <1>1, <1>2, <1>4 DEF Framed
<1>5. CASE pc \in {"closing", "exited"}
  BY <1>2, <1>5 DEF Framed
<1> QED
  BY <1>3, <1>4, <1>5 DEF Control

LEMMA StepMoves == Inv /\ [Next]_vars => Moves
<1> SUFFICES ASSUME Inv, [Next]_vars PROVE Moves
  OBVIOUS
<1>0. out \in Seq(Frames)
  BY OutTyped DEF Inv
<1>1. /\ ~WriteFrame => Delivered' = Delivered
      /\ WriteFrame => Delivered' = Append(Delivered, Head(out)) /\ out # <<>>
  BY <1>0, DeliveredStep DEF Inv
<1> HIDE DEF Delivered
<1>2. CASE WriteFrame
  BY <1>1, <1>2 DEF WriteFrame, Moves
<1>3. CASE NextChunk
  <2>1. /\ out = <<>> /\ inbox # <<>> /\ Head(inbox) # BadLine /\ taken' = Append(taken, Head(inbox))
        /\ out' = FramesOf(Head(inbox)) /\ broken' = broken
    BY <1>3 DEF NextChunk, CanNext
  <2>2. Head(inbox) \in Chunks
    BY <2>1 DEF Inv, Incoming, Lines
  <2>3. Delivered' = Delivered
    BY <1>1, <2>1 DEF WriteFrame
  <2> QED
    BY <2>1, <2>2, <2>3 DEF Moves
<1>4. CASE NextEOF
  <2>1. out = <<>> /\ out' = <<DoneFrame>> /\ taken' = taken /\ broken' = broken
    BY <1>4 DEF NextEOF, CanNext, connVars
  <2>2. DoneFrame \in TerminalFrames
    BY DEF DoneFrame, Frame, TerminalFrames, Inv, Tallies, Locals
  <2>3. Delivered' = Delivered
    BY <1>1, <2>1 DEF WriteFrame
  <2> QED
    BY <2>1, <2>2, <2>3 DEF Moves
<1>5. CASE NextError
  <2>1. out = <<>> /\ out' = <<ErrorFrame>> /\ taken' = taken /\ broken' = broken
    BY <1>5 DEF NextError, CanNext, connVars
  <2>2. ErrorFrame \in TerminalFrames
    BY DEF TerminalFrames
  <2>3. Delivered' = Delivered
    BY <1>1, <2>1 DEF WriteFrame
  <2> QED
    BY <2>1, <2>2, <2>3 DEF Moves
<1>6. CASE WriteFails
  <2>1. broken' = TRUE /\ taken' = taken
    BY <1>6 DEF WriteFails
  <2>2. Delivered' = Delivered
    BY <1>1, <1>6 DEF WriteFails, WriteFrame
  <2> QED
    BY <2>1, <2>2 DEF Moves
<1>7. CASE Open \/ (\E st \in {502, 503} : OpenFails(st)) \/ Finish \/ FinishError \/ Drain \/ Close
  <2>1. out' = out /\ taken' = taken /\ broken' = broken
    BY <1>7 DEF Open, OpenFails, Finish, FinishError, Drain, Close, connVars
  <2>2. CASE WriteFrame
    BY <1>2, <2>2
  <2> QED
    BY <1>1, <2>1, <2>2 DEF Moves
<1>8. CASE Outside
  <2>1. out' = out /\ taken' = taken /\ (broken' = broken \/ broken' = TRUE)
    BY <1>8, OutsideKeeps
  <2>2. CASE WriteFrame
    BY <1>2, <2>2
  <2> QED
    BY <1>1, <2>1, <2>2 DEF Moves
<1> QED
  BY <1>2, <1>3, <1>4, <1>5, <1>6, <1>7, <1>8, Steps DEF Handler

LEMMA FirstFrame ==
    ASSUME NEW s \in Seq(Frames), s # <<>>, NEW d \in Seq(Frames)
    PROVE  /\ Append(d, Head(s)) \in Seq(Frames) /\ Tail(s) \in Seq(Frames)
           /\ Append(d, Head(s)) \o Tail(s) = d \o s
  OBVIOUS

Expected == Collect(FramesOf, taken)

InOrder ==
    /\ IsPrefix(Body(Delivered), Expected)
    /\ ~broken => Body(Delivered \o out) = Expected

LEMMA StepInOrder ==
    ASSUME Delivered \in Seq(Frames), out \in Seq(Frames), taken \in Seq(Chunks),
           broken \in BOOLEAN, InOrder, Moves
    PROVE  InOrder'
<1> HIDE DEF Delivered
<1>1. ASSUME NEW c \in Chunks, out = <<>>, out' = FramesOf(c), taken' = Append(taken, c),
             Delivered' = Delivered, broken' = broken
      PROVE  InOrder'
  <2>1. FramesOf(c) \in Seq(Frames) /\ Body(FramesOf(c)) = FramesOf(c)
    BY ChunkFrames, FrameTypes, BodyOfFrames
  <2>2. Expected' = Expected \o FramesOf(c) /\ Expected \in Seq(Frames)
    <3>1. Append(taken, c) \in Seq(Chunks)
      OBVIOUS
    <3>2. Gather(framesOf, Append(taken, c)) = Gather(framesOf, taken) \o framesOf[c]
      BY FunctionTypes, GatherAppend
    <3>3. framesOf[c] = FramesOf(c)
      BY DEF framesOf
    <3>4. Gather(framesOf, taken) \in Seq(Frames)
      BY FunctionTypes, Gathered
    <3> QED
      BY <1>1, <3>1, <3>2, <3>3, <3>4, ChunkCollections DEF Expected
  <2>3. Delivered \o <<>> = Delivered
    OBVIOUS
  <2>4. Body(Delivered) \in Seq(Frames) /\ Body(Delivered \o FramesOf(c)) = Body(Delivered) \o FramesOf(c)
    <3>1. PICK frames \in Seq(Frames) : frames = FramesOf(c)
      BY ONLY <2>1
    <3>2. Body(Delivered \o frames) = Body(Delivered) \o Body(frames) /\ Body(Delivered) \in Seq(Frames)
      BY BodyConcat
    <3> QED
      BY ONLY <2>1, <3>1, <3>2
  <2>5. IsPrefix(Body(Delivered), Expected \o FramesOf(c))
    BY <2>1, <2>2, <2>4, PrefixOfLonger DEF InOrder
  <2> QED
    BY <1>1, <2>2, <2>3, <2>4, <2>5 DEF InOrder
<1>2. ASSUME NEW f \in TerminalFrames, out = <<>>, out' = <<f>>, taken' = taken,
             Delivered' = Delivered, broken' = broken
      PROVE  InOrder'
  <2>1. <<f>> \in Seq(Frames) /\ Body(<<f>>) = <<>>
    BY FrameTypes, BodyOfFrames
  <2>2. Body(Delivered \o <<f>>) = Body(Delivered) \o <<>> /\ Body(Delivered) \in Seq(Frames)
    <3>1. PICK one \in Seq(Frames) : one = <<f>>
      BY ONLY <2>1
    <3>2. Body(Delivered \o one) = Body(Delivered) \o Body(one) /\ Body(Delivered) \in Seq(Frames)
      BY BodyConcat
    <3> QED
      BY ONLY <2>1, <3>1, <3>2
  <2>3. Delivered \o <<>> = Delivered /\ Body(Delivered) \o <<>> = Body(Delivered)
    BY <2>2
  <2> QED
    BY <1>2, <2>2, <2>3 DEF InOrder, Expected
<1>3. ASSUME out # <<>>, out' = Tail(out), Delivered' = Append(Delivered, Head(out)), ~broken, taken' = taken
      PROVE  InOrder'
  <2> DEFINE d == Append(Delivered, Head(out))
             o == Tail(out)
  <2>1. d \in Seq(Frames) /\ o \in Seq(Frames) /\ d \o o = Delivered \o out
    BY <1>3, FirstFrame
  <2> HIDE DEF d, o
  <2>2. Body(d \o o) = Body(d) \o Body(o) /\ Body(d) \in Seq(Frames) /\ Body(o) \in Seq(Frames)
    BY <2>1, BodyConcat
  <2>3. Body(d \o o) = Expected
    BY <1>3, <2>1 DEF InOrder
  <2>4. IsPrefix(Body(d), Expected)
    BY <2>2, <2>3, PrefixOfConcat
  <2>5. Delivered' = d /\ out' = o /\ Expected' = Expected
    BY <1>3 DEF d, o, Expected
  <2> QED
    BY <2>3, <2>4, <2>5 DEF InOrder
<1>4. ASSUME broken' = TRUE \/ (broken' = broken /\ out' = out), taken' = taken, Delivered' = Delivered
      PROVE  InOrder'
  BY <1>4 DEF InOrder, Expected
<1> QED
  BY <1>1, <1>2, <1>3, <1>4 DEF Moves

LEMMA InOrderHolds == Spec => []InOrder
<1>1. Init => InOrder
  <2> SUFFICES ASSUME Init PROVE InOrder
    OBVIOUS
  <2>1. taken = <<>> /\ Delivered = <<>> /\ out = <<>> /\ <<>> \o <<>> = <<>>
    BY DEF Init, Delivered
  <2>2. <<>> \in Seq(Frames) /\ <<>> \in Seq(Chunks)
    OBVIOUS
  <2>3. Body(<<>>) = <<>> /\ Collect(FramesOf, <<>>) = <<>>
    BY <2>2, ChunkCollections, FrameCollections, GatherEmpty
  <2>4. IsPrefix(<<>>, <<>>)
    BY <2>2, PrefixOfConcat, <2>1
  <2> QED
    BY <2>1, <2>3, <2>4 DEF InOrder, Expected
<1>2. Inv /\ InOrder /\ [Next]_vars => InOrder'
  <2> SUFFICES ASSUME Inv, InOrder, [Next]_vars PROVE InOrder'
    OBVIOUS
  <2>1. Moves
    BY StepMoves
  <2>2. Delivered \in Seq(Frames)
    BY ConcatProperties DEF Inv, Buffered, Delivered
  <2>3. out \in Seq(Frames) /\ taken \in Seq(Chunks) /\ broken \in BOOLEAN
    BY OutTyped DEF Inv, Incoming, Control
  <2> QED
    BY <2>1, <2>2, <2>3, StepInOrder
<1> QED
  BY <1>1, <1>2, InvHolds, PTL DEF Spec

\* The client is sent the frames of the chunks in the bridge's order, each once and
\* none left out, until its connection breaks; then it has a prefix of them.
THEOREM FramesInOrder == Spec => []NothingLostOrReordered
<1>1. InOrder => NothingLostOrReordered
  BY DEF InOrder, NothingLostOrReordered, Expected
<1> QED
  BY <1>1, InOrderHolds, PTL

-----------------------------------------------------------------------------
(* What the frames of a stream tell of its tool calls and its text.        *)

Told == {"tool_call", "token"}

LEMMA DataOfOne ==
    ASSUME NEW type \in Told, NEW b \in BOOLEAN, NEW f \in BodyFrames
    PROVE  /\ When(b, <<f>>) \in Seq(Frames)
           /\ Gather(dataOf(type), When(b, <<f>>)) = When(b /\ f.type = type, <<f.data>>)
<1>0. f \in Frames /\ dataOf(type) \in Makes(Frames, STRING)
  BY FrameTypes, FunctionTypes DEF Told
<1>1. Gather(dataOf(type), <<f>>) = dataOf(type)[f]
  BY <1>0, GatherOne
<1>2. dataOf(type)[f] = When(f.type = type, <<f.data>>)
  BY <1>0 DEF dataOf
<1>3. CASE b
  BY <1>0, <1>1, <1>2, <1>3 DEF When
<1>4. CASE ~b
  BY <1>4, GatherEmpty DEF When
<1> QED
  BY <1>3, <1>4

LEMMA DataOfCalls ==
    ASSUME NEW tools \in Seq(STRING)
    PROVE  LET calls == [i \in DOMAIN tools |-> Frame("tool_call", tools[i])]
           IN  /\ calls \in Seq(Frames)
               /\ Gather(dataOf("tool_call"), calls) = tools
               /\ Gather(dataOf("token"), calls) = <<>>
<1> DEFINE calls == [i \in DOMAIN tools |-> Frame("tool_call", tools[i])]
<1>1. \A i \in DOMAIN tools : tools[i] \in STRING /\ Frame("tool_call", tools[i]) \in BodyFrames
  BY DEF Frame, BodyFrames
<1>2. calls \in Seq(Frames) /\ DOMAIN calls = DOMAIN tools
  <2>1. DOMAIN tools = 1..Len(tools) /\ Len(tools) \in Nat
    OBVIOUS
  <2> QED
    BY <1>1, <2>1, FrameTypes
<1>3. \A i \in DOMAIN tools : calls[i] = Frame("tool_call", tools[i]) /\ calls[i] \in Frames
  BY <1>1, FrameTypes
<1>4. \A i \in DOMAIN tools : calls[i].type = "tool_call" /\ calls[i].data = tools[i]
  BY <1>3 DEF Frame
<1> HIDE DEF calls
<1>5. Gather(dataOf("tool_call"), calls) = tools
  <2>1. \A i \in DOMAIN tools : dataOf("tool_call")[calls[i]] = <<tools[i]>>
    BY <1>3, <1>4 DEF dataOf, When
  <2>2. [i \in DOMAIN calls |-> dataOf("tool_call")[calls[i]]] = [i \in DOMAIN tools |-> <<tools[i]>>]
    BY <1>2, <2>1
  <2> QED
    BY <2>2, FlattenSingles DEF Gather
<1>6. Gather(dataOf("token"), calls) = <<>>
  <2>1. \A i \in DOMAIN tools : dataOf("token")[calls[i]] = <<>>
    BY <1>3, <1>4 DEF dataOf, When
  <2> QED
    BY <1>2, <2>1, FunctionTypes, GatherNone
<1> QED
  BY <1>2, <1>5, <1>6 DEF calls

LEMMA DataOfChunk ==
    ASSUME NEW c \in Chunks
    PROVE  /\ Gather(dataOf("tool_call"), FramesOf(c)) = c.tools
           /\ Gather(dataOf("token"), FramesOf(c)) = textOf[c]
<1> DEFINE thinking == When(c.thinking # "", <<Frame("thinking", c.thinking)>>)
           calls    == [i \in DOMAIN c.tools |-> Frame("tool_call", c.tools[i])]
           results  == When(c.role = "tool" /\ c.content # "", <<Frame("tool_result", c.content)>>)
           tokens   == When(IsAnswerText(c), <<Frame("token", c.content)>>)
<1>0. c.thinking \in STRING /\ c.content \in STRING /\ c.tools \in Seq(STRING)
  BY ChunkAssumption
<1>1. /\ Frame("thinking", c.thinking) \in BodyFrames /\ Frame("tool_result", c.content) \in BodyFrames
      /\ Frame("token", c.content) \in BodyFrames
      /\ Frame("thinking", c.thinking).type = "thinking" /\ Frame("tool_result", c.content).type = "tool_result"
      /\ Frame("token", c.content).type = "token" /\ Frame("token", c.content).data = c.content
  BY <1>0 DEF Frame, BodyFrames
<1>2. (c.thinking # "") \in BOOLEAN /\ (c.role = "tool" /\ c.content # "") \in BOOLEAN /\ IsAnswerText(c) \in BOOLEAN
  BY DEF IsAnswerText
<1>3. /\ thinking \in Seq(Frames) /\ results \in Seq(Frames) /\ tokens \in Seq(Frames)
      /\ calls \in Seq(Frames)
  BY <1>0, <1>1, <1>2, DataOfOne, DataOfCalls DEF Told
<1>4. FramesOf(c) = thinking \o calls \o results \o tokens
  BY DEF FramesOf
<1>5. \A type \in Told : /\ Gather(dataOf(type), thinking) = <<>>
                          /\ Gather(dataOf(type), results) = <<>>
                          /\ Gather(dataOf(type), tokens) = When(IsAnswerText(c) /\ "token" = type, <<c.content>>)
  BY <1>1, <1>2, DataOfOne DEF Told, When
<1>6. Gather(dataOf("tool_call"), calls) = c.tools /\ Gather(dataOf("token"), calls) = <<>>
  BY <1>0, DataOfCalls
<1>7. textOf[c] = When(IsAnswerText(c), <<c.content>>) /\ textOf[c] \in Seq(STRING)
  BY FunctionTypes DEF textOf, IsAnswerText, Makes
<1> HIDE DEF thinking, calls, results, tokens
<1>8. ASSUME NEW type \in Told
      PROVE  Gather(dataOf(type), thinking \o calls \o results \o tokens)
             = Gather(dataOf(type), thinking) \o Gather(dataOf(type), calls)
               \o Gather(dataOf(type), results) \o Gather(dataOf(type), tokens)
  <2>1. dataOf(type) \in Makes(Frames, STRING)
    BY FunctionTypes DEF Told
  <2>2. ASSUME NEW u \in Seq(Frames), NEW v \in Seq(Frames)
        PROVE  u \o v \in Seq(Frames)
               /\ Gather(dataOf(type), u \o v) = Gather(dataOf(type), u) \o Gather(dataOf(type), v)
    BY <2>1, GatherConcat, ConcatProperties
  <2>3. PICK a \in Seq(Frames) : a = thinking \o calls
    BY ONLY <1>3, <2>2
  <2>4. PICK b \in Seq(Frames) : b = a \o results
    BY ONLY <1>3, <2>2, a \in Seq(Frames)
  <2>5. Gather(dataOf(type), a) = Gather(dataOf(type), thinking) \o Gather(dataOf(type), calls)
    BY ONLY <1>3, <2>2, <2>3
  <2>6. Gather(dataOf(type), b) = Gather(dataOf(type), a) \o Gather(dataOf(type), results)
    BY ONLY <1>3, <2>2, <2>4, a \in Seq(Frames)
  <2>7. Gather(dataOf(type), b \o tokens) = Gather(dataOf(type), b) \o Gather(dataOf(type), tokens)
    BY ONLY <1>3, <2>2, b \in Seq(Frames)
  <2> QED
    BY ONLY <2>3, <2>4, <2>5, <2>6, <2>7
<1>9. ASSUME NEW s \in Seq(STRING)
      PROVE  <<>> \o s \o <<>> \o <<>> = s /\ <<>> \o <<>> \o <<>> \o s = s
  <2>1. <<>> \o s = s /\ s \o <<>> = s /\ <<>> \o <<>> = <<>>
    OBVIOUS
  <2> QED
    BY ONLY <2>1
<1>10. Gather(dataOf("tool_call"), FramesOf(c)) = c.tools
  <2>1. Gather(dataOf("tool_call"), tokens) = <<>>
    BY <1>5 DEF Told, When
  <2>2. Gather(dataOf("tool_call"), FramesOf(c)) = <<>> \o c.tools \o <<>> \o <<>>
    BY <1>4, <1>5, <1>6, <1>8, <2>1 DEF Told
  <2> QED
    BY <1>0, <1>9, <2>2
<1>11. Gather(dataOf("token"), FramesOf(c)) = textOf[c]
  <2>1. Gather(dataOf("token"), tokens) = textOf[c]
    BY <1>5, <1>7 DEF Told, When
  <2>2. Gather(dataOf("token"), FramesOf(c)) = <<>> \o <<>> \o <<>> \o textOf[c]
    BY <1>4, <1>5, <1>6, <1>8, <2>1 DEF Told
  <2> QED
    BY <1>7, <1>9, <2>2
<1> QED
  BY <1>10, <1>11

\* The body alone tells it, since the frame that ends a session is of another type.
LEMMA DataOfBody ==
    ASSUME NEW s \in Seq(Frames), NEW type \in Told
    PROVE  DataOf(type, Body(s)) = DataOf(type, s)
<1>0. dataOf(type) \in Makes(Frames, STRING) /\ bodyOf \in Makes(Frames, Frames)
  BY FunctionTypes DEF Told
<1>1. \A f \in Frames : Gather(dataOf(type), bodyOf[f]) = dataOf(type)[f]
  <2> SUFFICES ASSUME NEW f \in Frames PROVE Gather(dataOf(type), bodyOf[f]) = dataOf(type)[f]
    OBVIOUS
  <2>1. CASE f \in BodyFrames
    <3>1. bodyOf[f] = <<f>>
      BY <2>1, Types DEF bodyOf, When
    <3> QED
      BY <1>0, <3>1, GatherOne
  <2>2. CASE f \in TerminalFrames
    <3>1. bodyOf[f] = <<>> /\ dataOf(type)[f] = <<>>
      BY <2>2, Types, FrameTypes DEF bodyOf, dataOf, When, Told
    <3> QED
      BY <3>1, GatherEmpty
  <2> QED
    BY <2>1, <2>2, FrameTypes
<1>2. Gather(dataOf(type), Gather(bodyOf, s)) = Gather([f \in Frames |-> Gather(dataOf(type), bodyOf[f])], s)
  BY <1>0, GatherTwice
<1>3. [f \in Frames |-> Gather(dataOf(type), bodyOf[f])] = dataOf(type)
  BY <1>1 DEF dataOf
<1>4. Gather(bodyOf, s) \in Seq(Frames)
  BY <1>0, Gathered
<1> QED
  BY <1>2, <1>3, <1>4, FrameCollections

LEMMA DataOfStream ==
    ASSUME NEW s \in Seq(Chunks)
    PROVE  /\ DataOf("tool_call", Collect(FramesOf, s)) = Gather(toolsOf, s)
           /\ DataOf("token", Collect(FramesOf, s)) = Gather(textOf, s)
<1>0. framesOf \in Makes(Chunks, Frames) /\ \A type \in Told : dataOf(type) \in Makes(Frames, STRING)
  BY FunctionTypes DEF Told
<1>1. ASSUME NEW type \in Told
      PROVE  DataOf(type, Collect(FramesOf, s)) = Gather([c \in Chunks |-> Gather(dataOf(type), framesOf[c])], s)
  <2>1. Gather(framesOf, s) \in Seq(Frames)
    BY <1>0, Gathered
  <2>2. Gather(dataOf(type), Gather(framesOf, s)) = Gather([c \in Chunks |-> Gather(dataOf(type), framesOf[c])], s)
    BY <1>0, GatherTwice
  <2> QED
    BY <2>1, <2>2, ChunkCollections, FrameCollections
<1>2. /\ [c \in Chunks |-> Gather(dataOf("tool_call"), framesOf[c])] = toolsOf
      /\ [c \in Chunks |-> Gather(dataOf("token"), framesOf[c])] = textOf
  BY DataOfChunk DEF framesOf, toolsOf, textOf
<1> QED
  BY <1>1, <1>2 DEF Told

-----------------------------------------------------------------------------
(* The handler's locals are an account of the chunks it has taken.         *)

Closing == {c \in Chunks : c.done}

Naming == {c \in Chunks : c.model # ""}

LastUsage(s) == IF LastIn(Closing, s) = 0 THEN 0 ELSE s[LastIn(Closing, s)].usage

LastModel(s) == IF LastIn(Naming, s) = 0 THEN RequestModel ELSE s[LastIn(Naming, s)].model

LEMMA LastChunks ==
    ASSUME NEW s \in Seq(Chunks)
    PROVE  /\ SelectLastInSeq(s, LAMBDA c : c.done) = LastIn(Closing, s)
           /\ SelectLastInSeq(s, LAMBDA c : c.model # "") = LastIn(Naming, s)
<1>1. \A i \in 1..Len(s) : s[i] \in Chunks
  OBVIOUS
<1>2. {i \in 1..Len(s) : s[i].done} = {i \in 1..Len(s) : s[i] \in Closing}
  BY <1>1 DEF Closing
<1>3. {i \in 1..Len(s) : s[i].model # ""} = {i \in 1..Len(s) : s[i] \in Naming}
  BY <1>1 DEF Naming
<1> QED
  BY <1>2, <1>3 DEF LastIn, SelectLastInSeq

LEMMA OneMoreChunk ==
    ASSUME NEW s \in Seq(Chunks), NEW c \in Chunks
    PROVE  /\ LastUsage(Append(s, c)) = IF c.done THEN c.usage ELSE LastUsage(s)
           /\ LastModel(Append(s, c)) = IF c.model # "" THEN c.model ELSE LastModel(s)
<1>0. PICK t \in Seq(Chunks) : t = Append(s, c)
  <2>1. Append(s, c) \in Seq(Chunks)
    OBVIOUS
  <2> QED
    BY ONLY <2>1
<1>1. Len(s) \in Nat /\ t[Len(s) + 1] = c /\ \A i \in 1..Len(s) : t[i] = s[i]
  BY <1>0
<1>2. ASSUME NEW T
      PROVE  /\ LastIn(T, s) \in 0..Len(s)
             /\ LastIn(T, t) = IF c \in T THEN Len(s) + 1 ELSE LastIn(T, s)
  BY <1>0, LastInSeq, LastInAppend
<1>3. ASSUME NEW T
      PROVE  /\ c \in T => LastIn(T, t) # 0 /\ t[LastIn(T, t)] = c
             /\ c \notin T => /\ LastIn(T, t) = LastIn(T, s)
                              /\ LastIn(T, s) # 0 => t[LastIn(T, t)] = s[LastIn(T, s)]
  BY <1>1, <1>2
<1>4. LastUsage(t) = IF c.done THEN c.usage ELSE LastUsage(s)
  <2>1. CASE c \in Closing
    BY <1>3, <2>1 DEF LastUsage, Closing
  <2>2. CASE c \notin Closing
    BY <1>3, <2>2 DEF LastUsage, Closing
  <2> QED
    BY <2>1, <2>2
<1>5. LastModel(t) = IF c.model # "" THEN c.model ELSE LastModel(s)
  <2>1. CASE c \in Naming
    BY <1>3, <2>1 DEF LastModel, Naming
  <2>2. CASE c \notin Naming
    BY <1>3, <2>2 DEF LastModel, Naming
  <2> QED
    BY <2>1, <2>2
<1> QED
  BY <1>0, <1>4, <1>5

Accounted ==
    /\ acc.usage = LastUsage(taken) /\ acc.model = LastModel(taken)
    /\ acc.tools = Gather(toolsOf, taken)
    /\ acc.answer = IF LogQuery THEN Gather(textOf, taken) ELSE <<>>

LEMMA StepAccounted ==
    ASSUME Incoming, Accounted, [Next]_vars
    PROVE  Accounted'
<1>1. CASE NextChunk
  <2>1. PICK c \in Chunks : taken' = Append(taken, c) /\ acc' = Absorb(acc, c)
    <3>1. /\ inbox # <<>> /\ Head(inbox) # BadLine /\ acc' = Absorb(acc, Head(inbox))
          /\ taken' = Append(taken, Head(inbox))
      BY <1>1 DEF NextChunk
    <3>2. Head(inbox) \in Chunks
      BY <3>1 DEF Incoming, Lines
    <3> QED
      BY <3>1, <3>2
  <2>2. taken \in Seq(Chunks)
    BY DEF Incoming
  <2>3. /\ LastUsage(taken') = IF c.done THEN c.usage ELSE LastUsage(taken)
        /\ LastModel(taken') = IF c.model # "" THEN c.model ELSE LastModel(taken)
    BY <2>1, <2>2, OneMoreChunk
  <2>4. /\ acc'.usage = (IF c.done THEN c.usage ELSE acc.usage)
        /\ acc'.model = (IF c.model # "" THEN c.model ELSE acc.model)
        /\ acc'.tools = acc.tools \o c.tools
        /\ acc'.answer = acc.answer \o When(LogQuery /\ IsAnswerText(c), <<c.content>>)
    BY <2>1 DEF Absorb
  <2>5. acc'.tools = Gather(toolsOf, taken')
    <3>1. Gather(toolsOf, Append(taken, c)) = Gather(toolsOf, taken) \o toolsOf[c]
      BY <2>2, FunctionTypes, GatherAppend
    <3> QED
      BY <2>1, <2>4, <3>1 DEF Accounted, toolsOf
  <2>6. acc'.answer = IF LogQuery THEN Gather(textOf, taken') ELSE <<>>
    <3>1. Gather(textOf, Append(taken, c)) = Gather(textOf, taken) \o textOf[c]
      BY <2>2, FunctionTypes, GatherAppend
    <3>2. CASE LogQuery
      <4>1. When(LogQuery /\ IsAnswerText(c), <<c.content>>) = textOf[c]
        BY <3>2 DEF textOf, IsAnswerText, When
      <4> QED
        BY <2>1, <2>4, <3>1, <3>2, <4>1 DEF Accounted
    <3>3. CASE ~LogQuery
      <4>1. When(LogQuery /\ IsAnswerText(c), <<c.content>>) = <<>> /\ acc.answer = <<>>
        BY <3>3 DEF When, Accounted
      <4>2. <<>> \o <<>> = <<>>
        OBVIOUS
      <4> QED
        BY <2>4, <3>3, <4>1, <4>2
    <3> QED
      BY <3>2, <3>3
  <2>7. acc'.usage = LastUsage(taken') /\ acc'.model = LastModel(taken')
    <3>1. acc.usage = LastUsage(taken) /\ acc.model = LastModel(taken)
      BY DEF Accounted
    <3>2. acc'.usage = LastUsage(taken')
      BY ONLY <2>3, <2>4, <3>1
    <3>3. CASE c.model = ""
      BY ONLY <2>3, <2>4, <3>1, <3>2, <3>3
    <3>4. CASE c.model # ""
      BY ONLY <2>3, <2>4, <3>1, <3>2, <3>4
    <3> QED
      BY <3>3, <3>4
  <2> QED
    BY <2>5, <2>6, <2>7 DEF Accounted
<1>2. CASE UNCHANGED <<acc, taken>>
  BY <1>2 DEF Accounted
<1>3. ASSUME Handler, ~NextChunk PROVE UNCHANGED <<acc, taken>>
  BY <1>3 DEF Handler, Open, OpenFails, NextEOF, NextError, WriteFrame, WriteFails, Finish,
     FinishError, Drain, Close
<1>4. CASE Outside
  BY <1>2, <1>4, OutsideKeeps
<1> QED
  BY <1>1, <1>2, <1>3, <1>4, Steps

\* The stream has been completed: its done frame is written or lost.
Completed ==
    \/ pc = "done" /\ out = <<>>
    \/ pc \in {"closing", "exited"} /\ audit[1].outcome = "ok"

\* The done frame, the audit line and the metrics all take what the locals are
\* when the stream ends; no later step changes these.
Recorded ==
    /\ pc = "done" /\ out # <<>> => out = <<DoneFrame>>
    /\ Completed => broken \/ (Delivered # <<>> /\ Last(Delivered) = DoneFrame)
    /\ pc \in {"connect", "loop", "done", "error"} => usageSeen = 0 /\ toolsSeen = 0
    /\ pc \in {"closing", "exited"} /\ audit[1].outcome = "ok" =>
           /\ audit[1] = AuditLine("ok", 200, acc)
           /\ usageSeen = acc.usage /\ toolsSeen = Len(acc.tools)

LEMMA LastAppended ==
    ASSUME NEW s \in Seq(Frames), NEW f
    PROVE  Append(s, f) # <<>> /\ Last(Append(s, f)) = f
  BY DEF Last

LEMMA StepRecorded ==
    ASSUME Inv, Recorded, [Next]_vars
    PROVE  Recorded'
<1>0. out \in Seq(Frames) /\ Delivered \in Seq(Frames)
  BY OutTyped, ConcatProperties DEF Inv, Buffered, Delivered
<1>1. /\ ~WriteFrame => Delivered' = Delivered
      /\ WriteFrame => Delivered' = Append(Delivered, Head(out)) /\ out # <<>>
  BY <1>0, DeliveredStep DEF Inv
<1>2. pc \in {"closing", "exited"} => out = <<>>
  BY DEF Inv, Framed
<1>3. UNCHANGED acc => DoneFrame' = DoneFrame /\ UNCHANGED AuditLine("ok", 200, acc)
  BY DEF DoneFrame, AuditLine
<1> HIDE DEF Delivered, DoneFrame
<1>4. CASE WriteFrame
  <2>1. /\ out # <<>> /\ out' = Tail(out) /\ Delivered' = Append(Delivered, Head(out))
        /\ UNCHANGED <<pc, acc, broken, audit, usageSeen, toolsSeen>>
    BY <1>1, <1>4 DEF WriteFrame, effectVars
  <2>2. pc \notin {"closing", "exited"} /\ ~ Completed
    BY <1>2, <2>1 DEF Completed
  <2>3. CASE pc = "done"
    <3>1. out = <<DoneFrame>>
      BY <2>1, <2>3 DEF Recorded
    <3>2. out' = <<>> /\ Delivered' = Append(Delivered, DoneFrame)
      BY <2>1, <3>1
    <3>3. Delivered' # <<>> /\ Last(Delivered') = DoneFrame
      BY <1>0, <3>2, LastAppended
    <3> QED
      BY <1>3, <2>1, <2>3, <3>2, <3>3 DEF Recorded
  <2>4. CASE pc # "done"
    BY <2>1, <2>2, <2>4 DEF Recorded, Completed
  <2> QED
    BY <2>3, <2>4
<1>5. CASE WriteFails
  <2>1. /\ out # <<>> /\ out' = Tail(out) /\ broken' = TRUE
        /\ UNCHANGED <<pc, acc, audit, usageSeen, toolsSeen>>
    BY <1>5 DEF WriteFails, effectVars
  <2>2. pc \notin {"closing", "exited"}
    BY <1>2, <2>1
  <2>3. pc = "done" => out' = <<>>
    BY <2>1 DEF Recorded
  <2> QED
    BY <2>1, <2>2, <2>3 DEF Recorded
<1>6. CASE Open \/ NextChunk \/ NextError
  <2>1. pc \in {"connect", "loop"} /\ pc' \in {"loop", "error"} /\ UNCHANGED <<usageSeen, toolsSeen>>
    BY <1>6 DEF Open, NextChunk, NextError, CanNext, effectVars
  <2> QED
    BY <2>1 DEF Recorded, Completed
<1>7. CASE NextEOF
  <2>1. pc = "loop" /\ pc' = "done" /\ out' = <<DoneFrame>> /\ UNCHANGED <<acc, usageSeen, toolsSeen>>
    BY <1>7 DEF NextEOF, CanNext, effectVars
  <2>2. <<DoneFrame>> # <<>>
    OBVIOUS
  <2> QED
    BY <1>3, <2>1, <2>2 DEF Recorded, Completed
<1>8. CASE FinishError \/ (\E st \in {502, 503} : OpenFails(st))
  <2>1. \E st \in {502, 503} : \E model : audit' = Append(audit, AuditError(st, model))
    BY <1>8 DEF FinishError, OpenFails
  <2>2. audit = <<>> /\ pc' \in {"closing", "exited"}
    BY <1>8 DEF FinishError, OpenFails, Inv, Audited
  <2>3. audit'[1].outcome = "error"
    BY <2>1, <2>2, OneLine DEF AuditError, AuditLine
  <2> QED
    BY <2>2, <2>3 DEF Recorded, Completed
<1>9. CASE Finish
  <2>1. /\ pc = "done" /\ out = <<>> /\ pc' = "closing" /\ audit' = Append(audit, AuditLine("ok", 200, acc))
        /\ usageSeen' = usageSeen + acc.usage /\ toolsSeen' = toolsSeen + Len(acc.tools)
        /\ UNCHANGED <<acc, broken>>
    BY <1>9 DEF Finish, connVars
  <2>2. audit = <<>> /\ usageSeen = 0 /\ toolsSeen = 0 /\ Completed
    BY <2>1 DEF Inv, Audited, Recorded, Completed
  <2>3. audit'[1] = AuditLine("ok", 200, acc)
    BY <2>1, <2>2, OneLine
  <2>4. usageSeen' = acc.usage /\ toolsSeen' = Len(acc.tools)
    <3>1. acc.usage \in Nat /\ Len(acc.tools) \in Nat
      BY DEF Inv, Tallies, Locals
    <3> QED
      BY <2>1, <2>2, <3>1
  <2>5. Delivered' = Delivered
    BY <1>1, <2>1 DEF WriteFrame
  <2>6. broken' \/ (Delivered' # <<>> /\ Last(Delivered') = DoneFrame')
    BY <1>3, <2>1, <2>2, <2>5 DEF Recorded
  <2> QED
    BY <1>3, <2>1, <2>3, <2>4, <2>6 DEF Recorded
<1>10. ASSUME ~WriteFrame, UNCHANGED <<out, acc, audit, usageSeen, toolsSeen>>, broken => broken',
              pc' = pc \/ (pc = "closing" /\ pc' = "exited")
       PROVE  Recorded'
  <2>1. Delivered' = Delivered /\ DoneFrame' = DoneFrame
    BY <1>1, <1>3, <1>10
  <2>2. Completed' => Completed
    BY <1>10 DEF Completed
  <2>3. pc' \in {"closing", "exited"} => pc \in {"closing", "exited"}
    BY <1>10
  <2>4. Completed' => broken' \/ (Delivered' # <<>> /\ Last(Delivered') = DoneFrame')
    BY <1>10, <2>1, <2>2 DEF Recorded
  <2> QED
    BY <1>3, <1>10, <2>1, <2>3, <2>4 DEF Recorded
<1>11. CASE Drain \/ Close
  <2>1. /\ UNCHANGED <<out, acc, audit, usageSeen, toolsSeen, broken>>
        /\ pc = "closing" /\ (pc' = pc \/ pc' = "exited")
    BY <1>11 DEF Drain, Close, effectVars, connVars
  <2>2. ~WriteFrame
    BY <1>2, <2>1 DEF WriteFrame
  <2> QED
    BY <1>10, <2>1, <2>2
<1>12. CASE Outside
  <2>1. UNCHANGED <<pc, out, acc, audit, usageSeen, toolsSeen>> /\ (broken' = broken \/ broken' = TRUE)
    BY <1>12, OutsideKeeps
  <2>2. broken => broken'
    BY ONLY <2>1, Zenon
  <2>3. CASE WriteFrame
    BY <1>4, <2>3
  <2> QED
    BY <1>10, <2>1, <2>2, <2>3
<1> QED
  BY <1>4, <1>5, <1>6, <1>7, <1>8, <1>9, <1>11, <1>12, Steps DEF Handler

LEMMA AccountHolds == Spec => [](Accounted /\ Recorded)
<1>1. Init => Accounted /\ Recorded
  <2> SUFFICES ASSUME Init PROVE Accounted /\ Recorded
    OBVIOUS
  <2>1. /\ acc = [model |-> RequestModel, usage |-> 0, tools |-> <<>>, answer |-> <<>>]
        /\ taken = <<>> /\ pc = "connect" /\ usageSeen = 0 /\ toolsSeen = 0
    BY DEF Init
  <2>2. LastIn(Closing, <<>>) = 0 /\ LastIn(Naming, <<>>) = 0
    <3>1. <<>> \in Seq(Chunks)
      OBVIOUS
    <3> QED
      BY <3>1, LastInSeq
  <2>3. Accounted
    BY <2>1, <2>2, GatherEmpty DEF Accounted, LastUsage, LastModel
  <2>4. Recorded
    BY <2>1 DEF Recorded, Completed
  <2> QED
    BY <2>3, <2>4
<1>2. Inv /\ Accounted /\ Recorded /\ [Next]_vars => (Accounted /\ Recorded)'
  BY StepAccounted, StepRecorded DEF Inv
<1> QED
  BY <1>1, <1>2, InvHolds, PTL DEF Spec

\* The audit line of a finished session is what the bridge sent (the usage of the
\* last done chunk, every tool call, all text of the answer), what the metrics have
\* counted, and what the client was told, in its done frame and before it.
THEOREM AuditIsTheStream == Spec => []AuditMatchesStream
<1>1. Inv /\ InOrder /\ Accounted /\ Recorded => AuditMatchesStream
  <2> SUFFICES ASSUME Inv, InOrder, Accounted, Recorded, audit # <<>>, audit[1].outcome = "ok"
               PROVE  AuditMatchesStream
    BY DEF AuditMatchesStream
  <2>0. pc \in {"closing", "exited"} /\ out = <<>> /\ Completed /\ taken \in Seq(Chunks)
    BY DEF Inv, Control, Audited, Framed, Incoming, Completed
  <2>1. /\ audit[1] = AuditLine("ok", 200, acc) /\ usageSeen = acc.usage /\ toolsSeen = Len(acc.tools)
        /\ broken \/ Last(Delivered) = DoneFrame
    BY <2>0 DEF Recorded
  <2>2. /\ audit[1].usage = acc.usage /\ audit[1].model = acc.model
        /\ audit[1].tools = acc.tools /\ audit[1].answer = acc.answer
    BY <2>1 DEF AuditLine
  <2>3. \A i \in DOMAIN taken : taken[i] \in Chunks
    BY <2>0
  <2>4. /\ [i \in DOMAIN taken |-> taken[i].tools] = [i \in DOMAIN taken |-> toolsOf[taken[i]]]
        /\ [i \in DOMAIN taken |-> When(taken[i].role # "tool" /\ taken[i].content # "", <<taken[i].content>>)]
           = [i \in DOMAIN taken |-> textOf[taken[i]]]
    BY <2>3 DEF toolsOf, textOf
  <2>5. ~broken => /\ DataOf("tool_call", Delivered) = acc.tools
                   /\ DataOf("token", Delivered) = Gather(textOf, taken)
    <3>1. Delivered \in Seq(Frames)
      BY ConcatProperties DEF Inv, Buffered, Delivered
    <3> HIDE DEF Delivered
    <3>2. ASSUME ~broken PROVE Body(Delivered) = Expected
      <4>1. Delivered \o <<>> = Delivered
        BY <3>1
      <4> QED
        BY <2>0, <3>2, <4>1 DEF InOrder
    <3>3. \A type \in Told : DataOf(type, Body(Delivered)) = DataOf(type, Delivered)
      BY <3>1, DataOfBody
    <3>4. /\ DataOf("tool_call", Expected) = Gather(toolsOf, taken)
          /\ DataOf("token", Expected) = Gather(textOf, taken)
      BY <2>0, DataOfStream DEF Expected
    <3> QED
      BY <3>2, <3>3, <3>4 DEF Told, Accounted
  <2>6. ~broken => Last(Delivered).data.usage = acc.usage
    BY <2>1 DEF DoneFrame, Frame
  <2> HIDE DEF Delivered
  <2>7. /\ SelectLastInSeq(taken, LAMBDA c : c.done) = LastIn(Closing, taken)
        /\ SelectLastInSeq(taken, LAMBDA c : c.model # "") = LastIn(Naming, taken)
    BY <2>0, LastChunks
  <2> QED
    BY <2>1, <2>2, <2>4, <2>5, <2>6, <2>7
       DEF AuditMatchesStream, Accounted, LastUsage, LastModel, Collect, Gather
<1> QED
  BY <1>1, InvHolds, InOrderHolds, AccountHolds, PTL
=============================================================================
