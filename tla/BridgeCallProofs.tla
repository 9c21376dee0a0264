-------------------------- MODULE BridgeCallProofs --------------------------
(***************************************************************************)
(* Theorems about BridgeCall, for any length of a line, of the snippet, of *)
(* what Close drains and of a body.  Cut says that what Next has returned  *)
(* is the texts of the body up to the line that it has come to; Reason,    *)
(* what is in the body of a stream that has failed.                        *)
(***************************************************************************)
EXTENDS BridgeCall, SequenceFacts, TLAPS

\* What a call is doing, by the parts of the state that belong together.
Control ==
    /\ op \in Ops
    /\ pc \in {"await", "decide", "snippet", "decode", "next", "close", "returned"}
    /\ response \in Statuses \cup {0}
    /\ body \in {"none", "open", "closed"}
    /\ cancelled \in BOOLEAN /\ timedOut \in BOOLEAN
    /\ outcome \in {"none", "ok", "eof", "error"} /\ errStatus \in Statuses \cup {0}

Bytes == sent \in Seq(Alphabet) /\ ended \in {"open", "eof", "broken"} /\ consumed \in 0..Len(sent)

LEMMA TypeParts == (TypeOK <=> Control /\ Bytes) /\ (TypeOK' <=> Control' /\ Bytes')
  BY DEF TypeOK, Control, Bytes

-----------------------------------------------------------------------------
(* What the framing does to the control: next goes on, or ends the stream. *)

Framing == NextLine \/ NextFragment \/ NextTooLong \/ NextEof \/ NextReadFails

LEMMA FramingKeeps ==
    ASSUME Framing
    PROVE  /\ pc = "next"
           /\ UNCHANGED <<op, response, sent, ended, body, cancelled, timedOut, hosts>>
           /\ \/ UNCHANGED <<pc, outcome, errStatus>>
              \/ pc' = "close" /\ outcome' \in {"eof", "error"} /\ errStatus' = 0
<1>1. pc = "next" /\ StreamStays
  BY DEF Framing, NextLine, NextFragment, NextTooLong, NextEof, NextReadFails
<1>2. ASSUME NEW n, Consume(n)
      PROVE  \/ UNCHANGED <<pc, outcome, errStatus>>
             \/ pc' = "close" /\ outcome' \in {"eof", "error"} /\ errStatus' = 0
  BY <1>2 DEF Consume, StreamEnds
<1>3. \/ UNCHANGED <<pc, outcome, errStatus>>
      \/ pc' = "close" /\ outcome' \in {"eof", "error"} /\ errStatus' = 0
  <2>1. CASE NextLine \/ NextFragment
    BY <1>2, <2>1 DEF NextLine, NextFragment
  <2>2. CASE NextTooLong \/ NextEof \/ NextReadFails
    BY <2>2 DEF NextTooLong, NextEof, NextReadFails, StreamEnds
  <2> QED
    BY <2>1, <2>2 DEF Framing
<1> QED
  BY <1>1, <1>3 DEF StreamStays, wireVars

\* Next gives out bytes that have come, and none that have not.
LEMMA FramingReads ==
    ASSUME Bytes, Framing
    PROVE  consumed' \in 0..Len(sent)
<1>0. Len(Unread) = Len(sent) - consumed /\ Len(Unread) \in Nat /\ DOMAIN Unread = 1..Len(Unread)
      /\ BufferSize \in Nat \ {0}
  BY LineAssumption DEF Bytes, Unread, BufferSize
<1>1. CASE NextLine
  <2>1. PICK n \in DOMAIN Unread : consumed' = consumed + n
    BY <1>1 DEF NextLine, NewlineAt, Consume
  <2> QED
    BY <1>0, <2>1 DEF Bytes
<1>2. CASE NextFragment
  <2>1. consumed' = consumed + Len(Unread)
    BY <1>2 DEF NextFragment, Consume
  <2> QED
    BY <1>0, <2>1 DEF Bytes
<1>3. CASE NextTooLong
  <2>1. consumed' = consumed + BufferSize /\ Len(Unread) >= BufferSize
    BY <1>3 DEF NextTooLong, LineTooLong
  <2> QED
    BY <1>0, <2>1 DEF Bytes
<1>4. CASE NextEof \/ NextReadFails
  BY <1>4 DEF NextEof, NextReadFails, Bytes
<1> QED
  BY <1>1, <1>2, <1>3, <1>4 DEF Framing

-----------------------------------------------------------------------------
(* The control of a call, and what it has to do with the response.         *)

\* What the caller is told of a call that has failed.
Named == errStatus = IF response = 0 \/ IsSuccess(response) THEN 0 ELSE response

Orderly ==
    /\ Control
    /\ NoSecondHop
    /\ pc = "await" => response = 0 /\ body = "none" /\ outcome = "none"
    /\ pc \in {"decide", "snippet", "decode", "next"} => response # 0 /\ body = "open"
    /\ pc \in {"decide", "snippet", "decode"} => outcome = "none"
    /\ pc = "snippet" => ~IsSuccess(response)
    /\ pc \in {"decode", "next", "close"} => IsSuccess(response)
    /\ pc \in {"next", "close"} => op = "chat_stream"
    /\ pc = "close" => errStatus = 0
    /\ pc = "returned" => body # "open" /\ (outcome = "error" => Named)

LEMMA InitOrderly == Init => Orderly /\ Bytes
<1>1. <<>> \in Seq(Alphabet) /\ 0 \in 0..Len(<<>>)
  OBVIOUS
<1>2. Init => Bytes
  BY <1>1 DEF Init, Bytes
<1>3. Init => Orderly
  BY DEF Init, Orderly, Control, NoSecondHop
<1> QED
  BY <1>2, <1>3

LEMMA StepOrderly == Orderly /\ [Next]_vars => Orderly'
<1> SUFFICES ASSUME Orderly, [Next]_vars PROVE Orderly'
  OBVIOUS
<1> USE DEF Orderly, Control, NoSecondHop, Named
<1>0. 0 \notin Statuses /\ IsSuccess(0) = FALSE
  BY DEF Statuses, IsSuccess
<1>1. CASE DoFails
  BY <1>0, <1>1 DEF DoFails, Return, wireVars
<1>2. ASSUME NEW st \in Statuses, Receive(st) PROVE Orderly'
  BY <1>0, <1>2 DEF Receive
<1>3. CASE Decide
  BY <1>0, <1>3 DEF Decide, refuseRedirects, wireVars
<1>4. CASE Snippet
  BY <1>0, <1>4 DEF Snippet, Return, wireVars
<1>5. CASE Decode
  <2>1. /\ pc = "decode" /\ pc' = "returned" /\ errStatus' = 0 /\ outcome' \in {"ok", "error"}
        /\ body' = IF body = "open" THEN "closed" ELSE body
        /\ UNCHANGED <<op, wireVars, cancelled, timedOut, hosts>>
    BY <1>5 DEF Decode, Return
  <2> QED
    BY <1>0, <2>1 DEF wireVars
<1>6. CASE Framing
  BY <1>0, <1>6, FramingKeeps
<1>7. CASE Close
  BY <1>0, <1>7 DEF Close, wireVars
<1>8. ASSUME NEW b, SendByte(b) PROVE Orderly'
  BY <1>8 DEF SendByte, Environment
<1>9. ASSUME NEW how, EndBody(how) PROVE Orderly'
  BY <1>9 DEF EndBody, Environment
<1>10. CASE Cancel \/ Timeout
  BY <1>10 DEF Cancel, Timeout, Environment
<1>11. CASE Returned \/ UNCHANGED vars
  BY <1>11 DEF Returned, vars, wireVars
<1> QED
  BY <1>1, <1>2, <1>3, <1>4, <1>5, <1>6, <1>7, <1>8, <1>9, <1>10, <1>11
     DEF Next, Client, Framing

LEMMA StepBytes == Orderly /\ Bytes /\ [Next]_vars => Bytes'
<1> SUFFICES ASSUME Orderly, Bytes, [Next]_vars PROVE Bytes'
  OBVIOUS
<1>1. CASE UNCHANGED <<sent, ended, consumed>>
  BY <1>1 DEF Bytes
<1>2. CASE DoFails \/ Decide \/ Snippet \/ Decode \/ Close
  BY <1>1, <1>2 DEF DoFails, Decide, Snippet, Decode, Close, wireVars
<1>3. ASSUME NEW st, Receive(st) PROVE Bytes'
  BY <1>1, <1>3 DEF Receive
<1>4. CASE Framing
  BY <1>4, FramingKeeps, FramingReads DEF Bytes
<1>5. ASSUME NEW b \in Alphabet, SendByte(b) PROVE Bytes'
  <2>1. sent' = Append(sent, b) /\ ended' = ended /\ consumed' = consumed
    BY <1>5 DEF SendByte, Environment
  <2> QED
    BY <2>1 DEF Bytes
<1>6. ASSUME NEW how \in {"eof", "broken"}, EndBody(how) PROVE Bytes'
  BY <1>6 DEF EndBody, Environment, Bytes
<1>7. CASE Cancel \/ Timeout
  BY <1>1, <1>7 DEF Cancel, Timeout, Environment
<1>8. CASE Returned \/ UNCHANGED vars
  BY <1>1, <1>8 DEF Returned, vars, wireVars
<1> QED
  BY <1>2, <1>3, <1>4, <1>5, <1>6, <1>7, <1>8 DEF Next, Client, Framing

LEMMA OrderlyHolds == Spec => [](Orderly /\ Bytes)
  BY InitOrderly, StepOrderly, StepBytes, PTL DEF Spec

\* Every variable has its type; the read position never passes what has come.
THEOREM TypeCorrect == Spec => []TypeOK
<1>1. Orderly /\ Bytes => TypeOK
  BY TypeParts DEF Orderly
<1> QED
  BY <1>1, OrderlyHolds, PTL

\* The response body is open while it is read, and closed when the call returns.
THEOREM BodyGetsClosed == Spec => []BodyIsClosed
<1>1. Orderly => BodyIsClosed
  BY DEF Orderly, BodyIsClosed
<1> QED
  BY <1>1, OrderlyHolds, PTL

\* A failed call has the same cause for the metrics, the audit log and the caller.
THEOREM FailureHasItsName == Spec => []FailureIsNamed
<1>1. Orderly => FailureIsNamed
  <2> SUFFICES ASSUME Control, Named, NoSecondHop
               PROVE  /\ NoSecondHop
                      /\ (Kind = "transport") <=> (response = 0 \/ IsSuccess(response))
                      /\ (Kind = "http_5xx") <=> (response >= 500)
                      /\ mapBridgeError = bridgeErrorStatus
                      /\ (mapBridgeError = 503) <=> (response = 503)
    BY DEF Orderly, FailureIsNamed
  <2>1. response \in {0, 200, 302, 404, 500, 503}
    BY DEF Control, Statuses
  <2>2. errStatus = IF response \in {0, 200} THEN 0 ELSE response
    BY <2>1 DEF Named, IsSuccess
  <2>3. mapBridgeError = bridgeErrorStatus /\ ((mapBridgeError = 503) <=> (response = 503))
    BY <2>1, <2>2 DEF mapBridgeError, bridgeErrorStatus
  <2>4. Kind = IF response \in {0, 200} THEN "transport"
               ELSE IF response >= 500 THEN "http_5xx"
               ELSE IF response >= 400 THEN "http_4xx" ELSE "http_other"
    BY <2>1, <2>2 DEF Kind
  <2> QED
    BY <2>1, <2>3, <2>4 DEF IsSuccess
<1> QED
  BY <1>1, OrderlyHolds, PTL

-----------------------------------------------------------------------------
(* The lines of a body, and the lines that Next cuts off it.               *)

LastNewline(bytes, i) == SelectLastInSubSeq(bytes, 1, i - 1, LAMBDA b : b = "\n")

LEMMA LastNewlineIs ==
    ASSUME NEW s, NEW i \in Nat \ {0}
    PROVE  LET I == {j \in 1..i - 1 : s[j] = "\n"}
           IN  /\ I = {} => LastNewline(s, i) = 0
               /\ I # {} => LastNewline(s, i) \in I /\ \A j \in I : j <= LastNewline(s, i)
<1> DEFINE I == {j \in 1..i - 1 : s[j] = "\n"}
<1>1. LastNewline(s, i) = IF I # {} THEN Max(I) ELSE 0
  BY DEF LastNewline, SelectLastInSubSeq
<1>2. I # {} => Max(I) \in I /\ \A j \in I : j <= Max(I)
  <2>1. I \subseteq 1..i - 1 /\ i - 1 \in Nat
    OBVIOUS
  <2> HIDE DEF I
  <2> QED
    BY <2>1, MaxOfBounded
<1> HIDE DEF I
<1>3. /\ I = {} => LastNewline(s, i) = 0
      /\ I # {} => LastNewline(s, i) \in I /\ \A j \in I : j <= LastNewline(s, i)
  BY <1>1, <1>2
<1> QED
  BY <1>3 DEF I

LEMMA LineBeforeTyped ==
    ASSUME NEW s \in Seq(Alphabet), NEW i \in Nat \ {0}, i <= Len(s) + 1
    PROVE  LineBefore(s, i) \in Seq(Alphabet)
<1>1. LastNewline(s, i) \in 0..i - 1
  BY LastNewlineIs
<1>2. LineBefore(s, i) = SubSeq(s, LastNewline(s, i) + 1, i - 1)
  BY DEF LineBefore, LastNewline
<1>3. \A j \in LastNewline(s, i) + 1..i - 1 : s[j] \in Alphabet
  BY <1>1
<1>4. LastNewline(s, i) + 1 \in Int /\ i - 1 \in Int
  BY <1>1
<1> HIDE DEF Alphabet
<1> QED
  BY <1>2, <1>3, <1>4, SubSeqProperties

LEMMA BareTyped ==
    ASSUME NEW line \in Seq(Alphabet)
    PROVE  Bare(line) \in Seq(Alphabet)
<1> DEFINE I == {j \in 1..Len(line) : line[j] # "\r"}
           n == SelectLastInSeq(line, LAMBDA b : b # "\r")
<1>1. n = IF I # {} THEN Max(I) ELSE 0
  BY DEF SelectLastInSeq
<1>2. I # {} => Max(I) \in I
  BY MaxOfBounded
<1>3. n \in 0..Len(line)
  BY <1>1, <1>2
<1>4. Bare(line) = SubSeq(line, 1, n)
  BY DEF Bare
<1> HIDE DEF n
<1>5. \A j \in 1..n : line[j] \in Alphabet
  BY <1>3
<1> QED
  BY <1>3, <1>4, <1>5, SubSeqProperties

LEMMA TextBeforeTyped ==
    ASSUME NEW s \in Seq(Alphabet), NEW i \in Nat \ {0}, i <= Len(s) + 1
    PROVE  TextBefore(s, i) \in Seq(Seq(Alphabet))
<1>1. PICK line \in Seq(Alphabet) : line = Bare(LineBefore(s, i))
  BY LineBeforeTyped, BareTyped
<1>2. TextBefore(s, i) \in {<<line>>, <<>>}
  BY <1>1 DEF TextBefore
<1>3. \A S : \A x \in S : <<x>> \in Seq(S) /\ <<>> \in Seq(S)
  OBVIOUS
<1>4. <<line>> \in Seq(Seq(Alphabet)) /\ <<>> \in Seq(Seq(Alphabet))
  BY ONLY <1>3, line \in Seq(Alphabet)
<1> QED
  BY ONLY <1>2, <1>4

\* The texts before the n-th byte of a body.
TextMaker(bytes) == [i \in 1..Len(bytes) + 1 |-> TextBefore(bytes, i)]

TextsUpTo(bytes, n) == UpTo(TextMaker(bytes), n)

LEMMA TextMakerMakes ==
    ASSUME NEW s \in Seq(Alphabet)
    PROVE  TextMaker(s) \in Makes(1..Len(s) + 1, Seq(Alphabet))
<1>1. \A i \in 1..Len(s) + 1 : TextBefore(s, i) \in Seq(Seq(Alphabet))
  <2>1. \A i \in 1..Len(s) + 1 : i \in Nat \ {0} /\ i <= Len(s) + 1
    OBVIOUS
  <2> QED
    BY <2>1, TextBeforeTyped
<1> QED
  BY <1>1 DEF TextMaker, Makes

LEMMA TextsAreUpToTheEnd ==
    ASSUME NEW s \in Seq(Alphabet)
    PROVE  Texts(s) = TextsUpTo(s, Len(s) + 1)
<1>1. TextMaker(s) = [i \in 1..Len(s) + 1 |-> TextMaker(s)[i]]
  BY DEF TextMaker
<1>2. Texts(s) = FlattenSeq(TextMaker(s))
  BY DEF Texts, TextMaker
<1> QED
  BY <1>1, <1>2 DEF TextsUpTo, UpTo

LEMMA TextsBegin ==
    ASSUME NEW s \in Seq(Alphabet), NEW n \in Nat, n <= Len(s)
    PROVE  IsPrefix(TextsUpTo(s, n), Texts(s)) /\ IsPrefix(Texts(s), Texts(s))
<1>1. TextMaker(s) \in Makes(1..Len(s) + 1, Seq(Alphabet))
  BY TextMakerMakes
<1>2. PICK m \in Nat : m = Len(s) + 1
  OBVIOUS
<1>3. 1..m \subseteq 1..Len(s) + 1 /\ n <= m /\ m <= m
  BY <1>2
<1>4. IsPrefix(UpTo(TextMaker(s), n), UpTo(TextMaker(s), m))
  BY <1>1, <1>3, UpToPrefix
<1>5. IsPrefix(UpTo(TextMaker(s), m), UpTo(TextMaker(s), m))
  BY <1>1, <1>3, UpToPrefix
<1> QED
  BY <1>2, <1>4, <1>5, TextsAreUpToTheEnd DEF TextsUpTo

\* A line begins after c, and there is no newline in what follows up to c + n.
Clear(bytes, c, n) ==
    /\ c = 0 \/ bytes[c] = "\n"
    /\ \A i \in c + 1..c + n - 1 : bytes[i] # "\n"

LEMMA LineIs ==
    ASSUME NEW s \in Seq(Alphabet), NEW c \in Nat, NEW n \in Nat \ {0}, c + n <= Len(s) + 1,
           Clear(s, c, n)
    PROVE  LineBefore(s, c + n) = SubSeq(s, c + 1, c + n - 1)
<1> DEFINE I == {j \in 1..c + n - 1 : s[j] = "\n"}
<1>0. c + n \in Nat \ {0}
  OBVIOUS
<1>1. /\ I = {} => LastNewline(s, c + n) = 0
      /\ I # {} => LastNewline(s, c + n) \in I /\ \A j \in I : j <= LastNewline(s, c + n)
  BY <1>0, LastNewlineIs
<1>2. \A j \in I : j \in 1..c
  BY DEF Clear
<1>3. c # 0 => c \in I
  BY DEF Clear
<1>4. LastNewline(s, c + n) = c
  <2>1. CASE c = 0
    BY <1>1, <1>2, <2>1
  <2>2. CASE c # 0
    BY <1>1, <1>2, <1>3, <2>2
  <2> QED
    BY <2>1, <2>2
<1>5. ASSUME NEW i PROVE LineBefore(s, i) = SubSeq(s, LastNewline(s, i) + 1, i - 1)
  BY DEF LineBefore, LastNewline
<1> QED
  BY <1>4, <1>5

LEMMA TextsGoOn ==
    ASSUME NEW s \in Seq(Alphabet), NEW c \in Nat, NEW n \in Nat \ {0}, c + n <= Len(s) + 1,
           Clear(s, c, n)
    PROVE  /\ TextsUpTo(s, c + n) = TextsUpTo(s, c) \o TextBefore(s, c + n)
           /\ TextsUpTo(s, c) \in Seq(Seq(Alphabet))
<1>1. TextMaker(s) \in Makes(1..Len(s) + 1, Seq(Alphabet))
  BY TextMakerMakes
<1>2. PICK m \in Nat : m = c + n
  OBVIOUS
<1>3. c < m /\ 1..m \subseteq 1..Len(s) + 1 /\ 1..c \subseteq 1..Len(s) + 1
  BY <1>2
<1>4. \A i \in c + 1..m - 1 : TextMaker(s)[i] = <<>>
  <2> SUFFICES ASSUME NEW i \in c + 1..m - 1 PROVE TextMaker(s)[i] = <<>>
    OBVIOUS
  <2>1. i \in 1..Len(s) + 1 /\ i # Len(s) + 1 /\ s[i] # "\n"
    BY <1>2 DEF Clear
  <2>2. TextBefore(s, i) = <<>>
    BY <2>1 DEF TextBefore, Breaks
  <2> QED
    BY <2>1, <2>2 DEF TextMaker
<1>5. UpTo(TextMaker(s), m) = UpTo(TextMaker(s), c) \o TextMaker(s)[m]
  BY <1>1, <1>3, <1>4, UpToSkip
<1>6. TextMaker(s)[m] = TextBefore(s, c + n)
  BY <1>2 DEF TextMaker
<1>7. UpTo(TextMaker(s), c) \in Seq(Seq(Alphabet))
  BY <1>1, <1>3, UpToTyped
<1> QED
  BY <1>2, <1>5, <1>6, <1>7 DEF TextsUpTo

\* Strip takes off the newline of a line, if it has one, and the "\r"s before it.
LEMMA Stripping ==
    ASSUME NEW t \in Seq(Alphabet), \A i \in 1..Len(t) : t[i] # "\n"
    PROVE  Strip(t) = Bare(t) /\ Strip(Append(t, "\n")) = Bare(t)
<1> DEFINE u == Append(t, "\n")
           I == {i \in 1..Len(t) : t[i] # "\r"}
           J == {i \in 1..Len(t) : t[i] \notin LineEnds}
           K == {i \in 1..Len(u) : u[i] \notin LineEnds}
           n == SelectLastInSeq(t, LAMBDA b : b # "\r")
<1>0. Len(t) \in Nat /\ Len(u) = Len(t) + 1 /\ u[Len(t) + 1] = "\n" /\ \A i \in 1..Len(t) : u[i] = t[i]
  OBVIOUS
<1>1. I = J
  BY DEF LineEnds
<1>2. J = K
  <2>1. "\n" \in LineEnds
    BY DEF LineEnds
  <2> HIDE DEF u
  <2>2. \A i \in K : i \in 1..Len(t)
    BY <1>0, <2>1
  <2>3. \A i \in 1..Len(t) : i \in 1..Len(u)
    BY <1>0
  <2> QED
    BY <1>0, <2>2, <2>3
<1>3. n = IF I # {} THEN Max(I) ELSE 0
  BY DEF SelectLastInSeq
<1>4. SelectLastInSeq(t, LAMBDA b : b \notin LineEnds) = IF J # {} THEN Max(J) ELSE 0
  BY DEF SelectLastInSeq
<1>5. SelectLastInSeq(u, LAMBDA b : b \notin LineEnds) = IF K # {} THEN Max(K) ELSE 0
  BY DEF SelectLastInSeq
<1>6. I # {} => Max(I) \in I
  <2>1. I \subseteq 1..Len(t) /\ Len(t) \in Nat
    OBVIOUS
  <2> HIDE DEF I
  <2> QED
    BY <2>1, MaxOfBounded
<1>7. n \in 0..Len(t)
  BY <1>3, <1>6
<1>8. Bare(t) = SubSeq(t, 1, n)
  BY DEF Bare
<1>9. Strip(t) = SubSeq(t, 1, n)
  BY <1>1, <1>3, <1>4 DEF Strip
<1>10. Strip(u) = SubSeq(u, 1, n)
  BY <1>1, <1>2, <1>3, <1>5 DEF Strip
<1> HIDE DEF n
<1>11. SubSeq(u, 1, n) = SubSeq(t, 1, n)
  BY <1>0, <1>7
<1> QED
  BY <1>8, <1>9, <1>10, <1>11

\* One more byte changes none of the lines that have ended.
LEMMA LinesStay ==
    ASSUME NEW s \in Seq(Alphabet), NEW b \in Alphabet, NEW i \in Nat \ {0}, i <= Len(s) + 1
    PROVE  LineBefore(Append(s, b), i) = LineBefore(s, i)
<1> DEFINE I == {j \in 1..i - 1 : s[j] = "\n"}
           J == {j \in 1..i - 1 : Append(s, b)[j] = "\n"}
<1>1. \A j \in 1..i - 1 : Append(s, b)[j] = s[j]
  OBVIOUS
<1>2. I = J
  BY <1>1
<1>3. /\ LastNewline(s, i) = IF I # {} THEN Max(I) ELSE 0
      /\ LastNewline(Append(s, b), i) = IF J # {} THEN Max(J) ELSE 0
  BY DEF LastNewline, SelectLastInSubSeq
<1>4. LastNewline(s, i) \in 0..i - 1
  BY LastNewlineIs
<1>5. PICK n \in 0..i - 1 : n = LastNewline(s, i) /\ n = LastNewline(Append(s, b), i)
  BY <1>2, <1>3, <1>4
<1>6. SubSeq(Append(s, b), n + 1, i - 1) = SubSeq(s, n + 1, i - 1)
  BY <1>1
<1> QED
  BY <1>5, <1>6 DEF LineBefore, LastNewline

LEMMA TextsStay ==
    ASSUME NEW s \in Seq(Alphabet), NEW b \in Alphabet, NEW n \in Nat, n <= Len(s)
    PROVE  TextsUpTo(Append(s, b), n) = TextsUpTo(s, n)
<1> DEFINE t == Append(s, b)
<1>1. ASSUME NEW i \in 1..n PROVE TextMaker(t)[i] = TextMaker(s)[i]
  <2>1. /\ i \in Nat \ {0} /\ i <= Len(s) + 1 /\ i \in 1..Len(s) + 1 /\ i \in 1..Len(t) + 1
        /\ i # Len(s) + 1 /\ i # Len(t) + 1 /\ t[i] = s[i]
    OBVIOUS
  <2>2. LineBefore(t, i) = LineBefore(s, i)
    BY <2>1, LinesStay
  <2> HIDE DEF t
  <2>3. i \in Breaks(t) <=> i \in Breaks(s)
    BY <2>1 DEF Breaks
  <2>4. TextBefore(t, i) = TextBefore(s, i)
    BY <2>2, <2>3 DEF TextBefore
  <2> QED
    BY <2>1, <2>4 DEF TextMaker
<1> HIDE DEF t
<1>2. [i \in 1..n |-> TextMaker(t)[i]] = [i \in 1..n |-> TextMaker(s)[i]]
  BY <1>1
<1>3. UpTo(TextMaker(t), n) = UpTo(TextMaker(s), n)
  BY <1>2 DEF UpTo
<1> QED
  BY <1>3 DEF TextsUpTo, t

-----------------------------------------------------------------------------
(* What Next takes of the unread bytes, and what it makes of them.        *)

\* A blank line adds nothing to the texts before it, any other adds one.
LEMMA OneText == \A s, x : <<>> \o <<x>> = <<x>> /\ (s \in Seq(Seq(Alphabet)) => s \o <<>> = s)
                    /\ (s \in Seq(Seq(Alphabet)) /\ x \in Seq(Alphabet) => s \o <<x>> = Append(s, x))
  OBVIOUS

\* The next line of a body is not blank, and no JSON.
Bad(bytes, i) == LET text == Bare(LineBefore(bytes, i)) IN text # <<>> /\ ~ Decodes(text)

AllOfIt == ended = "eof" /\ got = Texts(sent)
AtLine  == (consumed = 0 \/ sent[consumed] = "\n") /\ got = TextsUpTo(sent, consumed)
AtEnd   == AllOfIt /\ consumed = Len(sent)

LEMMA UnreadIs ==
    ASSUME Bytes
    PROVE  /\ Unread \in Seq(Alphabet) /\ Len(Unread) = Len(sent) - consumed
           /\ consumed \in Nat /\ Len(sent) \in Nat /\ consumed <= Len(sent)
           /\ \A m \in 1..Len(Unread) : Unread[m] = sent[consumed + m]
           /\ BufferSize \in Nat \ {0}
<1> HIDE DEF Alphabet
<1> QED
  BY LineAssumption DEF Bytes, Unread, BufferSize

\* What Consume makes of n bytes that are, but for their newline, a line.
LEMMA ConsumesALine ==
    ASSUME Bytes, AtLine, NEW n \in Nat \ {0}, consumed + n <= Len(sent) + 1,
           Clear(sent, consumed, n), NEW k, Consume(k),
           Strip(SubSeq(Unread, 1, k)) = Bare(SubSeq(sent, consumed + 1, consumed + n - 1)),
           consumed + n = Len(sent) + 1 \/ sent[consumed + n] = "\n"
    PROVE  /\ consumed' = consumed + k
           /\ \/ /\ got' = TextsUpTo(sent, consumed + n)
                 /\ UNCHANGED <<pc, outcome>>
              \/ /\ got' = got /\ Bad(sent, consumed + n)
                 /\ pc' = "close" /\ outcome' = "error"
<1>0. consumed \in Nat /\ sent \in Seq(Alphabet)
  BY DEF Bytes
<1> DEFINE text == Strip(SubSeq(Unread, 1, k))
           line == LineBefore(sent, consumed + n)
<1>1. line = SubSeq(sent, consumed + 1, consumed + n - 1)
  BY <1>0, LineIs
<1>2. text = Bare(line)
  BY <1>1
<1>3. consumed' = consumed + k
  BY DEF Consume
<1>4. /\ text = <<>> => UNCHANGED <<pc, got, outcome>>
      /\ text # <<>> /\ Decodes(text) => got' = Append(got, text) /\ UNCHANGED <<pc, outcome>>
      /\ text # <<>> /\ ~ Decodes(text) => pc' = "close" /\ outcome' = "error" /\ got' = got
  BY DEF Consume, StreamEnds
<1>5. line \in Seq(Alphabet)
  <2>1. consumed + n \in Nat \ {0}
    BY <1>0
  <2> QED
    BY <1>0, <2>1, LineBeforeTyped
<1>6. text \in Seq(Alphabet)
  BY <1>2, <1>5, BareTyped
<1>7. TextBefore(sent, consumed + n) = IF text # <<>> THEN <<text>> ELSE <<>>
  <2>1. consumed + n \in Breaks(sent)
    BY <1>0 DEF Breaks
  <2> HIDE DEF text
  <2> QED
    BY <1>2, <2>1 DEF TextBefore
<1>8. /\ TextsUpTo(sent, consumed + n) = TextsUpTo(sent, consumed) \o TextBefore(sent, consumed + n)
      /\ TextsUpTo(sent, consumed) \in Seq(Seq(Alphabet))
  BY <1>0, TextsGoOn
<1>9. got = TextsUpTo(sent, consumed)
  BY DEF AtLine
<1>10. Bad(sent, consumed + n) <=> text # <<>> /\ ~ Decodes(text)
  BY <1>2 DEF Bad
<1> HIDE DEF text, line
<1>11. CASE text = <<>>
  <2>1. TextsUpTo(sent, consumed + n) = got
    BY <1>7, <1>8, <1>9, <1>11, OneText
  <2> QED
    BY <1>3, <1>4, <1>11, <2>1
<1>12. CASE text # <<>> /\ Decodes(text)
  <2>1. TextsUpTo(sent, consumed + n) = Append(got, text)
    BY <1>6, <1>7, <1>8, <1>9, <1>12, OneText
  <2> QED
    BY <1>3, <1>4, <1>12, <2>1
<1>13. CASE text # <<>> /\ ~ Decodes(text)
  BY <1>3, <1>4, <1>10, <1>13
<1> QED
  BY <1>11, <1>12, <1>13

LEMMA LineIsTaken ==
    ASSUME Bytes, AtLine \/ AtEnd, NEW n \in 1..BufferSize, NewlineAt(n), Consume(n)
    PROVE  /\ consumed + n <= Len(sent) /\ sent[consumed + n] = "\n"
           /\ consumed' = consumed + n
           /\ \/ /\ got' = TextsUpTo(sent, consumed + n)
                 /\ UNCHANGED <<pc, outcome>>
              \/ /\ got' = got /\ Bad(sent, consumed + n) /\ AtLine
                 /\ pc' = "close" /\ outcome' = "error"
<1>0. n \in 1..Len(Unread) /\ Unread[n] = "\n" /\ \A m \in 1..n - 1 : Unread[m] # "\n"
  BY UnreadIs DEF NewlineAt
<1>1. AtLine
  <2>1. Len(Unread) # 0
    BY <1>0
  <2> QED
    BY <2>1, UnreadIs DEF AtEnd
<1>2. consumed + n <= Len(sent) /\ sent[consumed + n] = "\n" /\ n \in Nat \ {0}
  BY <1>0, UnreadIs
<1>3. Clear(sent, consumed, n)
  <2>1. ASSUME NEW i \in consumed + 1..consumed + n - 1 PROVE sent[i] # "\n"
    <3>1. i - consumed \in 1..n - 1 /\ i - consumed \in 1..Len(Unread) /\ consumed + (i - consumed) = i
      BY <1>0, UnreadIs
    <3> QED
      BY <1>0, <3>1, UnreadIs
  <2> QED
    BY <1>1, <2>1 DEF AtLine, Clear
<1>4. Strip(SubSeq(Unread, 1, n)) = Bare(SubSeq(sent, consumed + 1, consumed + n - 1))
  <2> DEFINE t == SubSeq(sent, consumed + 1, consumed + n - 1)
  <2>0. sent \in Seq(Alphabet) /\ consumed \in Nat
    BY DEF Bytes
  <2>1. t \in Seq(Alphabet) /\ Len(t) = n - 1 /\ \A i \in 1..n - 1 : t[i] = sent[consumed + i]
    <3>0. PICK lo \in Int, hi \in Int : lo = consumed + 1 /\ hi = consumed + n - 1
      BY <1>2, UnreadIs
    <3>1. \A i \in lo..hi : sent[i] \in Alphabet
      BY <1>2, <2>0, <3>0, UnreadIs
    <3>2. /\ SubSeq(sent, lo, hi) \in Seq(Alphabet)
          /\ Len(SubSeq(sent, lo, hi)) = IF lo <= hi THEN hi - lo + 1 ELSE 0
          /\ \A i \in 1..hi - lo + 1 : SubSeq(sent, lo, hi)[i] = sent[lo + i - 1]
      BY <3>1, SubSeqProperties
    <3>3. \A i \in 1..n - 1 : lo + i - 1 = consumed + i
      BY ONLY <1>2, <2>0, <3>0
    <3>4. hi - lo + 1 = n - 1 /\ (lo <= hi => n - 1 = hi - lo + 1) /\ (~ (lo <= hi) => n - 1 = 0)
      BY ONLY <1>2, <2>0, <3>0, lo \in Int, hi \in Int
    <3>5. Len(SubSeq(sent, lo, hi)) = n - 1
      BY ONLY <3>2, <3>4
    <3>6. \A i \in 1..n - 1 : SubSeq(sent, lo, hi)[i] = sent[consumed + i]
      BY ONLY <3>2, <3>3, <3>4
    <3>7. t = SubSeq(sent, lo, hi)
      BY <3>0
    <3> QED
      BY ONLY <3>2, <3>5, <3>6, <3>7
  <2> HIDE DEF t
  <2>2. ASSUME NEW i \in 1..Len(t) PROVE t[i] # "\n"
    <3>1. i \in 1..n - 1 /\ i \in 1..Len(Unread)
      BY <1>0, <2>1, UnreadIs
    <3>2. Unread[i] = sent[consumed + i] /\ t[i] = sent[consumed + i]
      BY <2>1, <3>1, UnreadIs
    <3> QED
      BY <1>0, <3>1, <3>2
  <2>3. SubSeq(Unread, 1, n) = Append(t, "\n")
    <3>1. SubSeq(Unread, 1, n) \in Seq(Alphabet) /\ Len(SubSeq(Unread, 1, n)) = n
          /\ \A i \in 1..n : SubSeq(Unread, 1, n)[i] = Unread[i]
      BY <1>0, UnreadIs
    <3>2. "\n" \in Alphabet
      BY DEF Alphabet
    <3>3. Append(t, "\n") \in Seq(Alphabet) /\ Len(Append(t, "\n")) = n
          /\ \A i \in 1..n - 1 : Append(t, "\n")[i] = t[i]
          /\ Append(t, "\n")[n] = "\n"
      BY <1>2, <2>1, <3>2
    <3>4. \A i \in 1..n : SubSeq(Unread, 1, n)[i] = Append(t, "\n")[i]
      BY <1>0, <2>1, <3>1, <3>3, UnreadIs
    <3> QED
      BY <3>1, <3>3, <3>4, SeqEqual
  <2>4. Strip(Append(t, "\n")) = Bare(t)
    BY <2>1, <2>2, Stripping
  <2> QED
    BY <2>3, <2>4 DEF t
<1>5. consumed + n <= Len(sent) + 1
  BY <1>2, UnreadIs
<1> QED
  BY <1>1, <1>2, <1>3, <1>4, <1>5, ConsumesALine

\* There is no newline in the bytes that are there, up to the size of the buffer.
LEMMA NoLineYet ==
    ASSUME Bytes, ~ HasLine
    PROVE  \A m \in 1..Len(Unread) : m <= BufferSize => Unread[m] # "\n"
<1> DEFINE I == {m \in 1..Len(Unread) : m <= BufferSize /\ Unread[m] = "\n"}
<1>1. ASSUME I # {} PROVE FALSE
  <2>1. I \subseteq Nat
    OBVIOUS
  <2> HIDE DEF I
  <2>2. PICK n \in I : \A m \in I : n <= m
    BY <1>1, <2>1, LeastNumber
  <2> USE DEF I
  <2>3. n \in 1..Len(Unread) /\ n \in 1..BufferSize /\ Unread[n] = "\n" /\ Len(Unread) \in Nat
    BY UnreadIs
  <2>4. \A m \in 1..n - 1 : Unread[m] # "\n"
    BY <2>2, <2>3, UnreadIs
  <2>5. NewlineAt(n)
    BY <2>3, <2>4, UnreadIs DEF NewlineAt
  <2> QED
    BY <2>3, <2>5 DEF HasLine
<1> QED
  BY <1>1

LEMMA RestIsTaken ==
    ASSUME Bytes, AtLine \/ AtEnd, HasFragment, Consume(Len(Unread))
    PROVE  /\ consumed' = Len(sent)
           /\ \/ /\ got' = Texts(sent)
                 /\ UNCHANGED <<pc, outcome>>
              \/ /\ got' = got /\ Bad(sent, Len(sent) + 1) /\ AtLine
                 /\ pc' = "close" /\ outcome' = "error"
<1>0. Len(Unread) \in 1..BufferSize /\ ~ HasLine
  BY DEF HasFragment
<1>1. AtLine
  BY <1>0, UnreadIs DEF AtEnd
<1>2. \A m \in 1..Len(Unread) : Unread[m] # "\n"
  BY <1>0, NoLineYet, UnreadIs
<1> DEFINE n == Len(Unread) + 1
<1>3. n \in Nat \ {0} /\ consumed + n = Len(sent) + 1 /\ consumed + n <= Len(sent) + 1
      /\ consumed + n - 1 = Len(sent)
  <2>1. /\ Len(Unread) = Len(sent) - consumed
        /\ consumed \in Nat /\ Len(sent) \in Nat /\ consumed <= Len(sent)
    BY UnreadIs
  <2> QED
    BY ONLY <2>1
<1>4. Clear(sent, consumed, n)
  <2>1. ASSUME NEW i \in consumed + 1..consumed + n - 1 PROVE sent[i] # "\n"
    <3>1. i - consumed \in 1..Len(Unread) /\ consumed + (i - consumed) = i
      BY UnreadIs
    <3> QED
      BY <1>2, <3>1, UnreadIs
  <2> QED
    BY <1>1, <2>1 DEF AtLine, Clear
<1>5. Strip(SubSeq(Unread, 1, Len(Unread))) = Bare(SubSeq(sent, consumed + 1, consumed + n - 1))
  <2>1. Unread \in Seq(Alphabet)
    BY UnreadIs
  <2>2. SubSeq(Unread, 1, Len(Unread)) = Unread
    BY <2>1, SubSeqFull
  <2>3. Strip(Unread) = Bare(Unread)
    BY <1>2, <2>1, Stripping
  <2>4. Unread = SubSeq(sent, consumed + 1, consumed + n - 1)
    BY <1>3 DEF Unread
  <2> QED
    BY ONLY <2>2, <2>3, <2>4
<1> HIDE DEF n
<1>6. /\ consumed' = consumed + Len(Unread)
      /\ \/ /\ got' = TextsUpTo(sent, consumed + n)
            /\ UNCHANGED <<pc, outcome>>
         \/ /\ got' = got /\ Bad(sent, consumed + n)
            /\ pc' = "close" /\ outcome' = "error"
  BY <1>1, <1>3, <1>4, <1>5, ConsumesALine
<1>7. Texts(sent) = TextsUpTo(sent, Len(sent) + 1)
  BY TextsAreUpToTheEnd DEF Bytes
<1>8. consumed + Len(Unread) = Len(sent)
  BY UnreadIs
<1> QED
  BY <1>1, <1>3, <1>6, <1>7, <1>8

\* A body that has been read to its end has no more lines.
LEMMA EndIsTheEnd ==
    ASSUME Bytes, AtLine \/ AtEnd, Unread = <<>>, ended = "eof"
    PROVE  AllOfIt
<1>1. CASE AtEnd
  BY <1>1 DEF AtEnd
<1>2. CASE AtLine
  <2>0. sent \in Seq(Alphabet) /\ consumed \in Nat /\ consumed = Len(sent)
    <3>1. Len(Unread) = 0
      OBVIOUS
    <3> QED
      BY <3>1, UnreadIs DEF Bytes
  <2>1. Clear(sent, consumed, 1) /\ 1 \in Nat \ {0} /\ consumed + 1 <= Len(sent) + 1
    BY <1>2, <2>0 DEF AtLine, Clear
  <2>2. /\ TextsUpTo(sent, consumed + 1) = TextsUpTo(sent, consumed) \o TextBefore(sent, consumed + 1)
        /\ TextsUpTo(sent, consumed) \in Seq(Seq(Alphabet))
    BY <2>0, <2>1, TextsGoOn
  <2>3. LineBefore(sent, consumed + 1) = SubSeq(sent, consumed + 1, consumed + 1 - 1)
    BY <2>0, <2>1, LineIs
  <2>4. SubSeq(sent, consumed + 1, consumed + 1 - 1) = <<>>
    <3>1. consumed + 1 \in Int /\ consumed + 1 - 1 \in Int /\ consumed + 1 - 1 < consumed + 1
      BY <2>0
    <3> QED
      BY <3>1, SubSeqEmpty
  <2>5. Bare(<<>>) = <<>>
    <3> DEFINE n == SelectLastInSeq(<<>>, LAMBDA b : b # "\r")
    <3>1. n = 0
      BY DEF SelectLastInSeq
    <3>2. Bare(<<>>) = SubSeq(<<>>, 1, n)
      BY DEF Bare
    <3> HIDE DEF n
    <3> QED
      BY <3>1, <3>2
  <2>6. TextBefore(sent, consumed + 1) = <<>>
    BY <2>3, <2>4, <2>5 DEF TextBefore
  <2>7. TextsUpTo(sent, consumed + 1) = TextsUpTo(sent, consumed)
    BY <2>2, <2>6, OneText
  <2>8. Texts(sent) = TextsUpTo(sent, Len(sent) + 1)
    BY <2>0, TextsAreUpToTheEnd
  <2> QED
    BY <1>2, <2>0, <2>7, <2>8 DEF AllOfIt, AtLine
<1> QED
  BY <1>1, <1>2

-----------------------------------------------------------------------------
(* Where the chunks come from.                                             *)

SomeOfIt == \E c \in 0..Len(sent) : got = TextsUpTo(sent, c)

Cut ==
    /\ pc \notin {"next", "close", "returned"} => consumed = 0 /\ got = <<>>
    /\ pc = "next" => outcome = "none" /\ (AtLine \/ AtEnd)
    /\ pc \in {"close", "returned"} => AllOfIt \/ SomeOfIt
    /\ outcome = "eof" => AllOfIt

LEMMA TextsUpToNothing == \A s : TextsUpTo(s, 0) = <<>>
<1> SUFFICES ASSUME NEW s PROVE TextsUpTo(s, 0) = <<>>
  OBVIOUS
<1>1. [i \in 1..0 |-> TextMaker(s)[i]] = <<>>
  OBVIOUS
<1> QED
  BY <1>1, FlattenEmpty DEF TextsUpTo, UpTo

LEMMA SomeAtALine == Bytes /\ (AtLine \/ AtEnd) => AllOfIt \/ SomeOfIt
  BY DEF Bytes, AtLine, AtEnd, SomeOfIt

\* The framing of the body cuts it at its lines.
LEMMA FramingCuts ==
    ASSUME Bytes, Cut, Framing
    PROVE  Cut'
<1>0. pc = "next" /\ outcome = "none" /\ (AtLine \/ AtEnd) /\ sent' = sent /\ ended' = ended
  BY FramingKeeps DEF Cut
<1>1. (AllOfIt \/ SomeOfIt) /\ got' = got => (AllOfIt \/ SomeOfIt)'
  BY <1>0 DEF AllOfIt, SomeOfIt
<1>2. CASE NextLine
  <2>1. PICK n \in 1..BufferSize : NewlineAt(n) /\ Consume(n)
    BY <1>2 DEF NextLine
  <2>2. /\ consumed + n <= Len(sent) /\ sent[consumed + n] = "\n" /\ consumed' = consumed + n
        /\ \/ got' = TextsUpTo(sent, consumed + n) /\ UNCHANGED <<pc, outcome>>
           \/ got' = got /\ pc' = "close" /\ outcome' = "error"
    BY <1>0, <2>1, LineIsTaken
  <2>3. CASE got' = TextsUpTo(sent, consumed + n) /\ UNCHANGED <<pc, outcome>>
    <3>1. AtLine'
      BY <1>0, <2>2, <2>3 DEF AtLine
    <3> QED
      BY <1>0, <2>3, <3>1 DEF Cut
  <2>4. CASE got' = got /\ pc' = "close" /\ outcome' = "error"
    BY <1>0, <1>1, <2>4, SomeAtALine DEF Cut
  <2> QED
    BY <2>2, <2>3, <2>4
<1>3. CASE NextFragment
  <2>1. HasFragment /\ Consume(Len(Unread)) /\ ended = "eof"
    BY <1>3 DEF NextFragment, HasFragment
  <2>2. /\ consumed' = Len(sent)
        /\ \/ got' = Texts(sent) /\ UNCHANGED <<pc, outcome>>
           \/ got' = got /\ pc' = "close" /\ outcome' = "error"
    BY <1>0, <2>1, RestIsTaken
  <2>3. CASE got' = Texts(sent) /\ UNCHANGED <<pc, outcome>>
    <3>1. AtEnd'
      BY <1>0, <2>1, <2>2, <2>3 DEF AtEnd, AllOfIt
    <3> QED
      BY <1>0, <2>3, <3>1 DEF Cut
  <2>4. CASE got' = got /\ pc' = "close" /\ outcome' = "error"
    BY <1>0, <1>1, <2>4, SomeAtALine DEF Cut
  <2> QED
    BY <2>2, <2>3, <2>4
<1>4. CASE NextEof
  <2>1. got' = got /\ pc' = "close" /\ outcome' = "eof" /\ Unread = <<>> /\ ended = "eof"
    BY <1>4 DEF NextEof, StreamEnds
  <2>2. AllOfIt
    BY <1>0, <2>1, EndIsTheEnd
  <2>3. AllOfIt'
    BY <1>0, <2>1, <2>2 DEF AllOfIt
  <2> QED
    BY <2>1, <2>3 DEF Cut
<1>5. CASE NextTooLong \/ NextReadFails
  <2>1. got' = got /\ pc' = "close" /\ outcome' = "error"
    BY <1>5 DEF NextTooLong, NextReadFails, StreamEnds
  <2> QED
    BY <1>0, <1>1, <2>1, SomeAtALine DEF Cut
<1> QED
  BY <1>2, <1>3, <1>4, <1>5 DEF Framing

LEMMA InitCut == Init => Cut
  BY DEF Init, Cut

LEMMA StepCut == Orderly /\ Bytes /\ Cut /\ [Next]_vars => Cut'
<1> SUFFICES ASSUME Orderly, Bytes, Cut, [Next]_vars PROVE Cut'
  OBVIOUS
<1>0. ASSUME UNCHANGED <<sent, ended, consumed, got>>
      PROVE  AllOfIt' = AllOfIt /\ SomeOfIt' = SomeOfIt /\ AtLine' = AtLine /\ AtEnd' = AtEnd
  BY <1>0 DEF AllOfIt, SomeOfIt, AtLine, AtEnd
<1>1. ASSUME UNCHANGED <<sent, ended, consumed, got, pc, outcome>> PROVE Cut'
  BY <1>0, <1>1 DEF Cut
<1>2. CASE DoFails \/ Snippet \/ Decode
  <2>1. /\ pc \in {"await", "snippet", "decode"} /\ pc' = "returned" /\ outcome' \in {"ok", "error"}
        /\ UNCHANGED <<sent, ended, consumed, got>>
    BY <1>2 DEF DoFails, Snippet, Decode, Return, wireVars
  <2>2. 0 \in 0..Len(sent) /\ got = TextsUpTo(sent, 0)
    BY <2>1, TextsUpToNothing DEF Cut, Bytes
  <2>3. SomeOfIt
    BY <2>2 DEF SomeOfIt
  <2> QED
    BY <1>0, <2>1, <2>3 DEF Cut
<1>3. ASSUME NEW st, Receive(st) PROVE Cut'
  <2>1. pc = "await" /\ pc' = "decide" /\ UNCHANGED <<sent, ended, consumed, got, outcome>>
    BY <1>3 DEF Receive
  <2>2. outcome = "none"
    BY <2>1 DEF Orderly
  <2> QED
    BY <2>1, <2>2 DEF Cut
<1>4. CASE Decide
  <2>1. /\ pc = "decide" /\ pc' \in {"snippet", "next", "decode"}
        /\ UNCHANGED <<sent, ended, consumed, got, outcome>>
    BY <1>4 DEF Decide, wireVars
  <2>2. outcome = "none" /\ consumed = 0 /\ got = <<>>
    BY <2>1 DEF Orderly, Cut
  <2>3. AtLine
    BY <2>2, TextsUpToNothing DEF AtLine
  <2> QED
    BY <1>0, <2>1, <2>2, <2>3 DEF Cut
<1>5. CASE Framing
  BY <1>5, FramingCuts
<1>6. CASE Close
  <2>1. pc = "close" /\ pc' = "returned" /\ UNCHANGED <<sent, ended, consumed, got, outcome>>
    BY <1>6 DEF Close, wireVars
  <2> QED
    BY <1>0, <2>1 DEF Cut
<1>7. ASSUME NEW b \in Alphabet, SendByte(b) PROVE Cut'
  <2>1. /\ sent' = Append(sent, b) /\ ended = "open" /\ ended' = "open"
        /\ UNCHANGED <<consumed, got, pc, outcome>>
    BY <1>7 DEF SendByte, Environment
  <2>2. ~ AllOfIt /\ ~ AtEnd
    BY <2>1 DEF AllOfIt, AtEnd
  <2>0. sent \in Seq(Alphabet) /\ consumed \in Nat /\ consumed <= Len(sent) /\ Len(sent) \in Nat
    BY DEF Bytes
  <2>3. AtLine => AtLine'
    <3>1. consumed # 0 => sent'[consumed] = sent[consumed]
      BY <2>0, <2>1
    <3>2. TextsUpTo(sent', consumed) = TextsUpTo(sent, consumed)
      BY <2>0, <2>1, TextsStay
    <3> QED
      BY <2>1, <3>1, <3>2 DEF AtLine
  <2>4. SomeOfIt => SomeOfIt'
    <3> SUFFICES ASSUME NEW c \in 0..Len(sent), got = TextsUpTo(sent, c) PROVE SomeOfIt'
      BY DEF SomeOfIt
    <3>1. c \in Nat /\ c <= Len(sent) /\ c \in 0..Len(sent')
      BY <2>0, <2>1
    <3>2. TextsUpTo(sent', c) = TextsUpTo(sent, c)
      BY <2>0, <2>1, <3>1, TextsStay
    <3> QED
      BY <2>1, <3>1, <3>2 DEF SomeOfIt
  <2> QED
    BY <2>1, <2>2, <2>3, <2>4 DEF Cut
<1>8. ASSUME NEW how, EndBody(how) PROVE Cut'
  <2>1. ended = "open" /\ UNCHANGED <<sent, consumed, got, pc, outcome>>
    BY <1>8 DEF EndBody, Environment
  <2>2. ~ AllOfIt /\ ~ AtEnd
    BY <2>1 DEF AllOfIt, AtEnd
  <2>3. AtLine' = AtLine /\ SomeOfIt' = SomeOfIt
    BY <2>1 DEF AtLine, SomeOfIt
  <2> QED
    BY <2>1, <2>2, <2>3 DEF Cut
<1>9. CASE Cancel \/ Timeout
  BY <1>1, <1>9 DEF Cancel, Timeout, Environment
<1>10. CASE Returned \/ UNCHANGED vars
  BY <1>1, <1>10 DEF Returned, vars, wireVars
<1> QED
  BY <1>2, <1>3, <1>4, <1>5, <1>6, <1>7, <1>8, <1>9, <1>10 DEF Next, Client, Framing

\* The chunks of a stream are the lines of the body, in order, and all of them at its end.
THEOREM ChunksAreLines == Spec => []ChunksAreTheLines
<1>1. Orderly /\ Bytes /\ Cut => ChunksAreTheLines
  <2> SUFFICES ASSUME Orderly, Bytes, Cut
               PROVE  IsPrefix(got, Texts(sent)) /\ (outcome = "eof" => got = Texts(sent) /\ ended = "eof")
    BY DEF ChunksAreTheLines
  <2>0. sent \in Seq(Alphabet) /\ Len(sent) \in Nat
    BY DEF Bytes
  <2>1. AllOfIt \/ SomeOfIt
    <3>1. CASE pc \notin {"next", "close", "returned"}
      BY <2>0, <3>1, TextsUpToNothing DEF Cut, SomeOfIt
    <3>2. CASE pc \in {"next", "close", "returned"}
      BY <3>2, SomeAtALine DEF Cut
    <3> QED
      BY <3>1, <3>2
  <2>2. IsPrefix(got, Texts(sent))
    <3>1. CASE AllOfIt
      <4>1. 0 \in Nat /\ 0 <= Len(sent)
        BY <2>0
      <4> QED
        BY <2>0, <3>1, <4>1, TextsBegin DEF AllOfIt
    <3>2. ASSUME NEW c \in 0..Len(sent), got = TextsUpTo(sent, c) PROVE IsPrefix(got, Texts(sent))
      <4>1. c \in Nat /\ c <= Len(sent)
        BY <2>0
      <4> QED
        BY <2>0, <3>2, <4>1, TextsBegin
    <3> QED
      BY <2>1, <3>1, <3>2 DEF SomeOfIt
  <2>3. outcome = "eof" => got = Texts(sent) /\ ended = "eof"
    BY DEF Cut, AllOfIt
  <2> QED
    BY <2>2, <2>3
<1>2. Init => Cut
  BY InitCut
<1> QED
  BY <1>1, <1>2, InitOrderly, StepOrderly, StepBytes, StepCut, PTL DEF Spec

-----------------------------------------------------------------------------
(* Why a stream fails.                                                     *)

BadLine  == \E i \in 1..Len(sent) : sent[i] = "\n" /\ Bad(sent, i)
BadRest  == ended = "eof" /\ Bad(sent, Len(sent) + 1)
LongLine == \E c \in Nat : c + BufferSize <= Len(sent) /\ Clear(sent, c, BufferSize + 1)

Reason ==
    /\ op = "chat_stream" => ~ timedOut
    /\ pc = "decode" => op # "chat_stream"
    /\ op = "chat_stream" /\ outcome = "error" /\ IsSuccess(response) =>
           cancelled \/ ended = "broken" \/ BadLine \/ BadRest \/ LongLine

LEMMA TooLongIsLong ==
    ASSUME Bytes, AtLine \/ AtEnd, LineTooLong
    PROVE  LongLine
<1>0. /\ consumed \in Nat /\ BufferSize \in Nat \ {0} /\ Len(sent) \in Nat
      /\ Len(Unread) = Len(sent) - consumed
  BY UnreadIs
<1>1. ~ HasLine /\ Len(Unread) >= BufferSize
  BY DEF LineTooLong
<1>2. AtLine
  BY <1>0, <1>1 DEF AtEnd
<1>3. ASSUME NEW i \in consumed + 1..consumed + (BufferSize + 1) - 1 PROVE sent[i] # "\n"
  <2>1. /\ i - consumed \in 1..Len(Unread) /\ i - consumed <= BufferSize
        /\ consumed + (i - consumed) = i
    BY <1>0, <1>1
  <2> QED
    BY <1>1, <2>1, NoLineYet, UnreadIs
<1>4. Clear(sent, consumed, BufferSize + 1)
  BY <1>2, <1>3 DEF AtLine, Clear
<1>5. consumed + BufferSize <= Len(sent)
  BY <1>0, <1>1
<1> QED
  BY <1>0, <1>4, <1>5 DEF LongLine

\* The framing fails for what is in the body.
LEMMA FramingFails ==
    ASSUME Bytes, Orderly, Cut, Reason, Framing, outcome' = "error"
    PROVE  cancelled \/ ended = "broken" \/ BadLine \/ BadRest \/ LongLine
<1>0. pc = "next" /\ outcome = "none" /\ (AtLine \/ AtEnd) /\ op = "chat_stream"
  BY FramingKeeps DEF Cut, Orderly
<1>1. CASE NextLine
  <2>1. PICK n \in 1..BufferSize : NewlineAt(n) /\ Consume(n)
    BY <1>1 DEF NextLine
  <2>2. /\ consumed + n <= Len(sent) /\ sent[consumed + n] = "\n"
        /\ outcome' = outcome \/ Bad(sent, consumed + n)
    BY <1>0, <2>1, LineIsTaken
  <2>3. consumed + n \in 1..Len(sent)
    BY <2>2, UnreadIs
  <2> QED
    BY <1>0, <2>2, <2>3 DEF BadLine
<1>2. CASE NextFragment
  <2>1. HasFragment /\ Consume(Len(Unread)) /\ ended = "eof"
    BY <1>2 DEF NextFragment, HasFragment
  <2>2. outcome' = outcome \/ Bad(sent, Len(sent) + 1)
    BY <1>0, <2>1, RestIsTaken
  <2> QED
    BY <1>0, <2>1, <2>2 DEF BadRest
<1>3. CASE NextTooLong
  BY <1>0, <1>3, TooLongIsLong DEF NextTooLong
<1>4. CASE NextEof
  BY <1>4 DEF NextEof, StreamEnds
<1>5. CASE NextReadFails
  BY <1>0, <1>5 DEF NextReadFails, Aborted, Reason
<1> QED
  BY <1>1, <1>2, <1>3, <1>4, <1>5 DEF Framing

LEMMA InitReason == Init => Reason
  BY DEF Init, Reason

LEMMA StepReason == Orderly /\ Bytes /\ Cut /\ Reason /\ [Next]_vars => Reason'
<1> SUFFICES ASSUME Orderly, Bytes, Cut, Reason, [Next]_vars PROVE Reason'
  OBVIOUS
<1>0. ASSUME UNCHANGED <<sent, ended>>
      PROVE  BadLine' = BadLine /\ BadRest' = BadRest /\ LongLine' = LongLine
  BY <1>0 DEF BadLine, BadRest, LongLine
<1>1. ASSUME UNCHANGED <<op, pc, response, sent, ended, cancelled, timedOut, outcome>> PROVE Reason'
  BY <1>0, <1>1 DEF Reason
<1>2. CASE DoFails \/ Snippet
  <2>1. /\ pc \in {"await", "snippet"} /\ pc' = "returned" /\ UNCHANGED <<op, response, timedOut>>
    BY <1>2 DEF DoFails, Snippet, Return, wireVars
  <2>2. ~ IsSuccess(response)
    BY <2>1 DEF Orderly, IsSuccess
  <2> QED
    BY <2>1, <2>2 DEF Reason
<1>3. CASE Decode
  BY <1>3 DEF Decode, Return, wireVars, Reason
<1>4. ASSUME NEW st, Receive(st) PROVE Reason'
  <2>1. pc = "await" /\ pc' = "decide" /\ outcome' = outcome /\ UNCHANGED <<op, timedOut>>
    BY <1>4 DEF Receive
  <2>2. outcome = "none"
    BY <2>1 DEF Orderly
  <2> QED
    BY <2>1, <2>2 DEF Reason
<1>5. CASE Decide
  <2>1. /\ pc = "decide" /\ UNCHANGED <<op, timedOut, outcome>>
        /\ pc' = "decode" => op # "chat_stream"
    BY <1>5 DEF Decide
  <2>2. outcome = "none"
    BY <2>1 DEF Orderly
  <2> QED
    BY <2>1, <2>2 DEF Reason
<1>6. CASE Framing
  <2>1. /\ UNCHANGED <<op, response, sent, ended, cancelled, timedOut>>
        /\ pc' \in {"next", "close"}
    BY <1>6, FramingKeeps
  <2>2. outcome' = "error" => cancelled \/ ended = "broken" \/ BadLine \/ BadRest \/ LongLine
    BY <1>6, FramingFails
  <2> QED
    BY <1>0, <2>1, <2>2 DEF Reason
<1>7. CASE Close
  <2>1. pc' = "returned" /\ UNCHANGED <<op, response, sent, ended, cancelled, timedOut, outcome>>
    BY <1>7 DEF Close, wireVars
  <2> QED
    BY <1>0, <2>1 DEF Reason
<1>8. ASSUME NEW b \in Alphabet, SendByte(b) PROVE Reason'
  <2>1. /\ sent' = Append(sent, b) /\ ended = "open"
        /\ UNCHANGED <<op, pc, response, ended, cancelled, timedOut, outcome>>
    BY <1>8 DEF SendByte, Environment
  <2>0. sent \in Seq(Alphabet) /\ Len(sent) \in Nat /\ Len(sent') = Len(sent) + 1
        /\ \A i \in 1..Len(sent) : sent'[i] = sent[i]
    BY <2>1 DEF Bytes
  <2>2. BadLine => BadLine'
    <3> SUFFICES ASSUME NEW i \in 1..Len(sent), sent[i] = "\n", Bad(sent, i) PROVE BadLine'
      BY DEF BadLine
    <3>1. i \in 1..Len(sent') /\ sent'[i] = "\n" /\ i \in Nat \ {0} /\ i <= Len(sent) + 1
      BY <2>0
    <3>2. LineBefore(sent', i) = LineBefore(sent, i)
      BY <2>0, <2>1, <3>1, LinesStay
    <3>3. Bad(sent', i)
      BY <3>2 DEF Bad
    <3> QED
      BY <3>1, <3>3 DEF BadLine
  <2>3. ~ BadRest
    BY <2>1 DEF BadRest
  <2>4. LongLine => LongLine'
    <3> SUFFICES ASSUME NEW c \in Nat, c + BufferSize <= Len(sent), Clear(sent, c, BufferSize + 1)
                 PROVE  LongLine'
      BY DEF LongLine
    <3>0. BufferSize \in Nat \ {0} /\ BufferSize' = BufferSize
      BY UnreadIs DEF BufferSize
    <3>1. c + BufferSize <= Len(sent')
      BY <2>0, <3>0
    <3>2. Clear(sent', c, BufferSize + 1)
      <4>1. c = 0 \/ sent'[c] = "\n"
        BY <2>0, <3>0 DEF Clear
      <4>2. ASSUME NEW i \in c + 1..c + (BufferSize + 1) - 1 PROVE sent'[i] # "\n"
        BY <2>0, <3>0 DEF Clear
      <4> QED
        BY <4>1, <4>2 DEF Clear
    <3> QED
      BY <3>0, <3>1, <3>2 DEF LongLine
  <2> QED
    BY <2>1, <2>2, <2>3, <2>4 DEF Reason
<1>9. ASSUME NEW how, EndBody(how) PROVE Reason'
  <2>1. ended = "open" /\ UNCHANGED <<op, pc, response, sent, cancelled, timedOut, outcome>>
    BY <1>9 DEF EndBody, Environment
  <2>2. BadLine' = BadLine /\ LongLine' = LongLine
    BY <2>1 DEF BadLine, LongLine
  <2> QED
    BY <2>1, <2>2 DEF Reason, BadRest
<1>10. CASE Cancel
  <2>1. cancelled' = TRUE /\ UNCHANGED <<op, pc, timedOut>>
    BY <1>10 DEF Cancel, Environment
  <2> QED
    BY <2>1 DEF Reason
<1>11. CASE Timeout
  <2>1. op # "chat_stream" /\ UNCHANGED <<op, pc>>
    BY <1>11 DEF Timeout, HasTimeout, Environment
  <2> QED
    BY <2>1 DEF Reason
<1>12. CASE Returned \/ UNCHANGED vars
  BY <1>1, <1>12 DEF Returned, vars, wireVars
<1> QED
  BY <1>2, <1>3, <1>4, <1>5, <1>6, <1>7, <1>8, <1>9, <1>10, <1>11, <1>12
     DEF Next, Client, Framing

\* A line that fills the buffer is longer than MaxLine, wherever it ends.
LEMMA LongLineIsTooLong ==
    ASSUME Bytes, LongLine
    PROVE  \E i \in Breaks(sent) : Len(LineBefore(sent, i)) > MaxLine
<1>0. sent \in Seq(Alphabet) /\ Len(sent) \in Nat /\ BufferSize \in Nat /\ BufferSize > MaxLine /\ MaxLine \in Nat
  BY LineAssumption DEF Bytes, BufferSize
<1>1. PICK c \in Nat : c + BufferSize <= Len(sent) /\ Clear(sent, c, BufferSize + 1)
  BY DEF LongLine
<1> DEFINE I == {i \in Breaks(sent) : i > c}
<1>2. Len(sent) + 1 \in I /\ I \subseteq Nat
  BY <1>0, <1>1 DEF Breaks
<1> HIDE DEF I
<1>3. PICK k \in I : \A i \in I : k <= i
  BY <1>2, LeastNumber
<1>4. k \in Breaks(sent) /\ k \in Nat /\ k > c /\ k <= Len(sent) + 1
  BY <1>0 DEF I, Breaks
<1>5. ASSUME NEW i \in c + 1..k - 1 PROVE sent[i] # "\n"
  <2>1. i \in Nat /\ i > c /\ i \in 1..Len(sent) + 1 /\ ~ (k <= i)
    BY <1>0, <1>4
  <2>2. i \notin I
    BY <1>3, <2>1
  <2> QED
    BY <2>1, <2>2 DEF I, Breaks
<1>6. k >= c + BufferSize + 1
  <2>1. ASSUME k <= c + BufferSize PROVE FALSE
    <3>1. k # Len(sent) + 1
      BY <1>0, <1>1, <2>1
    <3>2. sent[k] = "\n"
      BY <1>4, <3>1 DEF Breaks
    <3>3. k \in c + 1..c + (BufferSize + 1) - 1
      BY <1>0, <1>4, <2>1
    <3> QED
      BY <1>1, <3>2, <3>3 DEF Clear
  <2> QED
    BY <1>0, <1>4, <2>1
<1>7. PICK n \in Nat \ {0} : k = c + n
  <2>1. k - c \in Nat \ {0} /\ k = c + (k - c)
    BY <1>4
  <2> QED
    BY <2>1
<1>8. Clear(sent, c, n) /\ c + n <= Len(sent) + 1
  BY <1>1, <1>4, <1>5, <1>7 DEF Clear
<1>9. LineBefore(sent, k) = SubSeq(sent, c + 1, c + n - 1)
  BY <1>0, <1>7, <1>8, LineIs
<1>10. Len(SubSeq(sent, c + 1, c + n - 1)) = n - 1
  <2>1. PICK lo \in Int, hi \in Int : lo = c + 1 /\ hi = c + n - 1
    OBVIOUS
  <2>2. \A i \in lo..hi : sent[i] \in Alphabet
    BY <1>0, <1>8, <2>1
  <2>3. Len(SubSeq(sent, lo, hi)) = IF lo <= hi THEN hi - lo + 1 ELSE 0
    BY <2>2, SubSeqProperties
  <2> QED
    BY <2>1, <2>3
<1>11. n - 1 > MaxLine
  BY <1>0, <1>6, <1>7
<1> QED
  BY <1>4, <1>9, <1>10, <1>11

\* A stream that is not cancelled fails for something that is in the body, or for its end.
THEOREM StreamFailures == Spec => []StreamFailsForAReason
<1>1. Orderly /\ Bytes /\ Reason => StreamFailsForAReason
  <2> SUFFICES ASSUME Bytes, cancelled \/ ended = "broken" \/ BadLine \/ BadRest \/ LongLine, ~ cancelled
               PROVE  \/ ended = "broken"
                      \/ \E i \in Breaks(sent) :
                             LET line == LineBefore(sent, i)
                             IN  Len(line) > MaxLine \/ (Bare(line) # <<>> /\ ~Decodes(Bare(line)))
    BY DEF StreamFailsForAReason, Reason
  <2>1. CASE BadLine
    <3>1. PICK i \in 1..Len(sent) : sent[i] = "\n" /\ Bad(sent, i)
      BY <2>1 DEF BadLine
    <3>2. i \in Breaks(sent)
      BY <3>1 DEF Breaks, Bytes
    <3> QED
      BY <3>1, <3>2 DEF Bad
  <2>2. CASE BadRest
    <3>1. Len(sent) + 1 \in Breaks(sent)
      BY DEF Breaks, Bytes
    <3> QED
      BY <2>2, <3>1 DEF BadRest, Bad
  <2>3. CASE LongLine
    BY <2>3, LongLineIsTooLong
  <2> QED
    BY <2>1, <2>2, <2>3
<1>2. Init => Cut /\ Reason
  BY InitCut, InitReason
<1> QED
  BY <1>1, <1>2, InitOrderly, StepOrderly, StepBytes, StepCut, StepReason, PTL DEF Spec
=============================================================================
