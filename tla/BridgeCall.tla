----------------------------- MODULE BridgeCall -----------------------------
(***************************************************************************)
(* One call of the bridge client (internal/bridge): Chat or Models, which  *)
(* share the method do, or ChatStream, whose ChatStream is read with Next  *)
(* until it ends and then closed, as askStream does.                       *)
(*                                                                         *)
(* The bridge answers with a status and a body that comes byte by byte and *)
(* ends, breaks off or stays open.  The call is cancelled by its context,  *)
(* and the http.Client of Chat and Models has a timeout.  A byte is a      *)
(* symbol; a JSON text is a brace, white space and a closing brace.        *)
(***************************************************************************)
EXTENDS Integers, SequencesExt

CONSTANTS
    MaxLine,        \* maxStreamLineBytes
    MaxSnippet,     \* maxErrorBodyBytes
    MaxDrain,       \* what Close reads of a body at most (64 KiB)
    MaxBytes        \* bound: bytes of a body

ASSUME LineAssumption == MaxLine \in Nat \ {0} /\ {MaxSnippet, MaxDrain, MaxBytes} \subseteq Nat

Ops      == {"chat", "models", "chat_stream"}
Alphabet == {"{", "}", "\r", "\n"}
Statuses == {200, 302, 404, 500, 503}

VARIABLES
    op,         \* the operation
    pc,         \* "await", "decide", "snippet", "decode", "next", "close", "returned"
    response,   \* the status of the response (0: none yet)
    sent,       \* the bytes the bridge has sent
    ended,      \* its body: "open", "eof", "broken"
    consumed,   \* how many of the bytes bufio has given out
    body,       \* the response body of net/http: "none", "open", "closed"
    cancelled,  \* the context of the call is done
    timedOut,   \* the http.Client's Timeout has fired
    hosts,      \* where the request has been sent
    got,        \* the lines Next has returned as chunks
    outcome,    \* "none"; "ok"; "eof" (the end of a stream); "error"
    errStatus   \* Status of the *Error

wireVars == <<response, sent, ended>>
vars == <<op, pc, wireVars, consumed, body, cancelled, timedOut, hosts, got, outcome, errStatus>>

Aborted == cancelled \/ timedOut

-----------------------------------------------------------------------------
(* Framing.                                                                *)

LineEnds == {"\r", "\n"}

Unread == SubSeq(sent, consumed + 1, Len(sent))

\* Mutant: a buffer with no room for the newline of a line of full length.
BufferOfLine == MaxLine

BufferSize == MaxLine + 1

Strip(line) == SubSeq(line, 1, SelectLastInSeq(line, LAMBDA b : b \notin LineEnds))

Tokens(bytes) == SelectSeq(bytes, LAMBDA b : b \notin LineEnds)

\* json.Unmarshal takes the text.
Decodes(line) == Tokens(line) = <<"{", "}">>

\* What json.Decoder makes of the bytes so far: the first value is complete,
\* cannot be one, or is still to come.
FirstValue(bytes) ==
    CASE IsPrefix(<<"{", "}">>, Tokens(bytes)) -> "complete"
      [] Tokens(bytes) \in {<<>>, <<"{">>}      -> "more"
      [] OTHER                                 -> "bad"

-----------------------------------------------------------------------------
(* The request and its response.                                           *)

\* The call returns to its caller.  A body that is open is closed first.
Return(how, st) ==
    /\ pc' = "returned" /\ outcome' = how /\ errStatus' = st
    /\ body' = IF body = "open" THEN "closed" ELSE body

\* Do returns an error: no connection, the context, the timeout.
DoFails ==
    /\ pc = "await"
    /\ Return("error", 0)
    /\ UNCHANGED <<op, wireVars, consumed, cancelled, timedOut, hosts, got>>

Receive(st) ==
    /\ pc = "await"
    /\ response' = st /\ body' = "open" /\ pc' = "decide"
    /\ UNCHANGED <<op, sent, ended, consumed, cancelled, timedOut, hosts, got, outcome, errStatus>>

\* New sets CheckRedirect last, on both clients.
refuseRedirects == TRUE

IsSuccess(st) == st >= 200 /\ st < 300

Decide ==
    /\ pc = "decide"
    /\ hosts' = IF response = 302 /\ ~refuseRedirects THEN hosts \cup {"elsewhere"} ELSE hosts
    /\ pc' = IF ~IsSuccess(response) THEN "snippet"
             ELSE IF op = "chat_stream" THEN "next" ELSE "decode"
    /\ UNCHANGED <<op, wireVars, consumed, body, cancelled, timedOut, got, outcome, errStatus>>

\* Mutant: the error of a refused request does not say what the status was.
SnippetWithoutStatus ==
    /\ pc = "snippet"
    /\ ended # "open" \/ Aborted \/ Len(sent) >= MaxSnippet
    /\ Return("error", IF op = "chat_stream" THEN 0 ELSE response)
    /\ UNCHANGED <<op, wireVars, consumed, cancelled, timedOut, hosts, got>>

\* A prefix of the error body is read for the logs, whatever comes of it.
Snippet ==
    /\ pc = "snippet"
    /\ ended # "open" \/ Aborted \/ Len(sent) >= MaxSnippet
    /\ Return("error", response)
    /\ UNCHANGED <<op, wireVars, consumed, cancelled, timedOut, hosts, got>>

Decode ==
    /\ pc = "decode"
    /\ \/ FirstValue(sent) = "complete" /\ Return("ok", 0)
       \/ FirstValue(sent) = "bad" /\ Return("error", 0)
       \/ FirstValue(sent) = "more" /\ ended # "open" /\ Return("error", 0)
       \/ Aborted /\ Return("error", 0)
    /\ UNCHANGED <<op, wireVars, consumed, cancelled, timedOut, hosts, got>>

-----------------------------------------------------------------------------
(* Next and Close.                                                         *)

\* The first newline that has not been read is n bytes away.
NewlineAt(n) ==
    n \in DOMAIN Unread /\ Unread[n] = "\n" /\ \A m \in 1..n - 1 : Unread[m] # "\n"

HasLine == \E n \in 1..BufferSize : NewlineAt(n)

\* The buffer fills up before a newline comes.
LineTooLong == ~HasLine /\ Len(Unread) >= BufferSize

\* What is left when the body has ended well; the end may come together with
\* the byte that fills the buffer, or after it.
HasFragment == ~HasLine /\ ended = "eof" /\ Len(Unread) \in 1..BufferSize

StreamStays == UNCHANGED <<op, wireVars, body, cancelled, timedOut, hosts>>

StreamEnds(how) ==
    /\ pc' = "close" /\ outcome' = how /\ errStatus' = 0

\* ReadSlice gives out n bytes; a blank line is skipped.
Consume(n) ==
    LET line == Strip(SubSeq(Unread, 1, n))
    IN  /\ consumed' = consumed + n
        /\ IF line = <<>> THEN UNCHANGED <<pc, got, outcome, errStatus>>
           ELSE IF Decodes(line) THEN got' = Append(got, line) /\ UNCHANGED <<pc, outcome, errStatus>>
           ELSE StreamEnds("error") /\ UNCHANGED got

NextLine ==
    /\ pc = "next"
    /\ \E n \in 1..BufferSize : NewlineAt(n) /\ Consume(n)
    /\ StreamStays

NextFragment == pc = "next" /\ HasFragment /\ Consume(Len(Unread)) /\ StreamStays

NextTooLong ==
    /\ pc = "next" /\ LineTooLong
    /\ consumed' = consumed + BufferSize
    /\ StreamEnds("error")
    /\ UNCHANGED got /\ StreamStays

\* Mutant: every error of a read is the end of the stream.
AnyEndIsEof ==
    /\ pc = "next" /\ Unread = <<>> /\ ended # "open"
    /\ StreamEnds("eof")
    /\ UNCHANGED <<consumed, got>> /\ StreamStays

NextEof ==
    /\ pc = "next" /\ Unread = <<>> /\ ended = "eof"
    /\ StreamEnds("eof")
    /\ UNCHANGED <<consumed, got>> /\ StreamStays

\* A read fails: a line that has begun is dropped with it.
NextReadFails ==
    /\ pc = "next"
    /\ (~HasLine /\ ~LineTooLong /\ ended = "broken") \/ Aborted
    /\ StreamEnds("error")
    /\ UNCHANGED <<consumed, got>> /\ StreamStays

\* Mutant: a stream that has failed is not closed.
CloseOnEofOnly ==
    /\ pc = "close"
    /\ ended # "open" \/ Aborted
    /\ pc' = "returned"
    /\ body' = IF outcome = "eof" THEN "closed" ELSE body
    /\ UNCHANGED <<op, wireVars, consumed, cancelled, timedOut, hosts, got, outcome, errStatus>>

\* The deferred Close drains the body, but no more of it than MaxDrain.
Close ==
    /\ pc = "close"
    /\ ended # "open" \/ Aborted \/ Len(Unread) >= MaxDrain
    /\ pc' = "returned" /\ body' = "closed"
    /\ UNCHANGED <<op, wireVars, consumed, cancelled, timedOut, hosts, got, outcome, errStatus>>

-----------------------------------------------------------------------------
(* The bridge, the context and the clock.                                  *)

Environment(guard) ==
    /\ guard /\ pc # "returned"
    /\ UNCHANGED <<op, pc, response, consumed, body, hosts, got, outcome, errStatus>>

SendByte(b) ==
    /\ Environment(response # 0 /\ ended = "open" /\ Len(sent) < MaxBytes)
    /\ sent' = Append(sent, b)
    /\ UNCHANGED <<ended, cancelled, timedOut>>

EndBody(how) ==
    /\ Environment(response # 0 /\ ended = "open")
    /\ ended' = how
    /\ UNCHANGED <<sent, cancelled, timedOut>>

Cancel ==
    /\ Environment(~cancelled)
    /\ cancelled' = TRUE
    /\ UNCHANGED <<sent, ended, timedOut>>

\* Mutant: the streaming client is the other one, timeout included.
EveryCallHasTimeout == TRUE

\* Mutant: New makes its clients without one.
NoTimeout == FALSE

\* WithHTTPClient derives a streaming client without a Timeout.
HasTimeout == op # "chat_stream"

Timeout ==
    /\ Environment(HasTimeout /\ ~timedOut)
    /\ timedOut' = TRUE
    /\ UNCHANGED <<sent, ended, cancelled>>

Init ==
    /\ op \in Ops /\ pc = "await"
    /\ response = 0 /\ sent = <<>> /\ ended = "open" /\ consumed = 0 /\ body = "none"
    /\ cancelled = FALSE /\ timedOut = FALSE /\ hosts = {"bridge"}
    /\ got = <<>> /\ outcome = "none" /\ errStatus = 0

Client ==
    \/ DoFails /\ Aborted
    \/ Decide \/ Snippet \/ Decode
    \/ NextLine \/ NextFragment \/ NextTooLong \/ NextEof \/ NextReadFails \/ Close

Returned == pc = "returned" /\ UNCHANGED vars

Next ==
    \/ Client
    \/ DoFails
    \/ \E st \in Statuses : Receive(st)
    \/ \E b \in Alphabet : SendByte(b)
    \/ \E how \in {"eof", "broken"} : EndBody(how)
    \/ Cancel \/ Timeout
    \/ Returned

\* The client runs and its timer fires; the bridge may stay silent for ever.
Spec == Init /\ [][Next]_vars /\ WF_vars(Client) /\ WF_vars(Timeout)

-----------------------------------------------------------------------------
(* What the handlers make of an error.                                     *)

\* recordUpstreamError.
Kind ==
    CASE errStatus = 0         -> "transport"
      [] errStatus >= 500      -> "http_5xx"
      [] errStatus \in 400..499 -> "http_4xx"
      [] OTHER                 -> "http_other"

\* bridgeErrorStatus: what is audited.
bridgeErrorStatus == IF errStatus = 503 THEN 503 ELSE 502

\* mapBridgeError: what the caller is sent.
mapBridgeError ==
    CASE errStatus = 0   -> 502
      [] errStatus = 404 -> 502
      [] errStatus = 503 -> 503
      [] OTHER           -> 502

-----------------------------------------------------------------------------
(* Properties.                                                             *)

TypeOK ==
    /\ op \in Ops
    /\ pc \in {"await", "decide", "snippet", "decode", "next", "close", "returned"}
    /\ response \in Statuses \cup {0}
    /\ sent \in Seq(Alphabet) /\ ended \in {"open", "eof", "broken"}
    /\ consumed \in 0..Len(sent)
    /\ body \in {"none", "open", "closed"}
    /\ cancelled \in BOOLEAN /\ timedOut \in BOOLEAN
    /\ outcome \in {"none", "ok", "eof", "error"} /\ errStatus \in Statuses \cup {0}

\* The reference: a line ends before each newline, and the last one with the bytes.
Breaks(bytes) == {i \in 1..Len(bytes) + 1 : i = Len(bytes) + 1 \/ bytes[i] = "\n"}

LineBefore(bytes, i) ==
    SubSeq(bytes, SelectLastInSubSeq(bytes, 1, i - 1, LAMBDA b : b = "\n") + 1, i - 1)

Bare(line) == SubSeq(line, 1, SelectLastInSeq(line, LAMBDA b : b # "\r"))

TextBefore(bytes, i) ==
    LET line == Bare(LineBefore(bytes, i))
    IN  IF i \in Breaks(bytes) /\ line # <<>> THEN <<line>> ELSE <<>>

Texts(bytes) == FlattenSeq([i \in 1..Len(bytes) + 1 |-> TextBefore(bytes, i)])

\* Whatever pieces the bytes come in, the chunks Next returns are the lines of
\* the body, in order, none twice and none skipped; and when the stream ends
\* without an error, they are all of them, with the text behind the last newline.
ChunksAreTheLines ==
    op = "chat_stream" =>
        /\ IsPrefix(got, Texts(sent))
        /\ outcome = "eof" => got = Texts(sent) /\ ended = "eof"

\* A stream that is not cancelled fails for a reason the bridge gave: its body
\* broke off, or has a line longer than MaxLine (one of just that length is
\* taken) or a line that is no JSON.  No clock ends it.
StreamFailsForAReason ==
    op = "chat_stream" /\ outcome = "error" /\ IsSuccess(response) /\ ~cancelled =>
        \/ ended = "broken"
        \/ \E i \in Breaks(sent) :
               LET line == LineBefore(sent, i)
               IN  Len(line) > MaxLine \/ (Bare(line) # <<>> /\ ~Decodes(Bare(line)))

\* Whichever way a call ends, the response body is closed when it has ended:
\* the connection neither leaks nor is closed under a reader.
BodyIsClosed ==
    /\ pc = "returned" => body # "open"
    /\ pc \in {"decode", "next"} => body = "open"

\* The query is sent to the configured bridge and nowhere else.
NoSecondHop == hosts = {"bridge"}

\* Metrics, audit log and caller are told the same of a failed call, and what
\* the bridge itself said when it refused: http_* and its class for an answer
\* that is not 2xx (a redirect, which is not followed, is one), transport for
\* all else; 503 if the bridge said 503.
FailureIsNamed ==
    pc = "returned" /\ outcome = "error" =>
        /\ NoSecondHop
        /\ (Kind = "transport") <=> (response = 0 \/ IsSuccess(response))
        /\ (Kind = "http_5xx") <=> (response >= 500)
        /\ mapBridgeError = bridgeErrorStatus
        /\ (mapBridgeError = 503) <=> (response = 503)

\* Chat and Models return although the bridge stays silent, at whatever point
\* it falls silent, and so does every call that is cancelled.
CallsEnd == op # "chat_stream" \/ cancelled ~> pc = "returned"
=============================================================================
