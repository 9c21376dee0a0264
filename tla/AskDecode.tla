----------------------------- MODULE AskDecode ------------------------------
(***************************************************************************)
(* What the gateway makes of the bytes a caller sends with POST /v1/ask:   *)
(* the two readings of its Authorization header, the Content-Type, and the *)
(* two Decodes of a body that is cut at MaxRequestBytes.                   *)
(*                                                                         *)
(* A header is its scheme, the spaces that follow it, and the token.  A    *)
(* body is a sequence of symbols: the braces that begin and end an object, *)
(* a blank, "q" for a byte of the query, "i" for a conversation id that is *)
(* no UUID, "u" for an unknown or mistyped field.                          *)
(***************************************************************************)
EXTENDS Integers, Sequences, FiniteSets, SequencesExt

CONSTANTS
    NoToken,            \* no usable Authorization header; no token configured
    MaxRequestBytes,    \* MaxRequestBytes of the configuration
    MaxQueryBytes       \* maxQueryBytes

\* What a body is made of.
Symbols == {"begin", "end", "blank", "q", "i", "u"}

ASSUME LimitsAssumption == {MaxRequestBytes, MaxQueryBytes} \subseteq Nat \ {0}

-----------------------------------------------------------------------------
(* The bearer token, read by the middleware and once more by the handler.  *)

Bearer == {"Bearer", "bearer", "BEARER"}

extractBearer(h) == IF h.spaces > 0 /\ h.scheme \in Bearer THEN h.token ELSE NoToken

\* Mutant: this copy of extractBearer does not trim the token.
parseUntrimmed(h) == IF h.spaces = 1 /\ h.scheme \in Bearer THEN h.token ELSE NoToken

parseBearerToken(h) == IF h.spaces > 0 /\ h.scheme \in Bearer THEN h.token ELSE NoToken

-----------------------------------------------------------------------------
(* The body.  An operator that judges it returns a status, or 0.           *)

requireJSON(contentType) ==
    IF contentType \in {"application/json", "APPLICATION/JSON", "application/json;charset=utf-8"}
    THEN 0 ELSE 415

TooLarge(body) == Len(body) > MaxRequestBytes

\* What http.MaxBytesReader lets the decoder see.
Seen(body) == IF TooLarge(body) THEN SubSeq(body, 1, MaxRequestBytes) ELSE body

\* Where the first value ends (0: not within these bytes).
ValueEnd(bytes) == SelectInSeq(bytes, LAMBDA b : b = "end")

FirstValue(bytes) == IF ValueEnd(bytes) = 0 THEN bytes ELSE SubSeq(bytes, 1, ValueEnd(bytes))

Blank(bytes) == \A i \in DOMAIN bytes : bytes[i] = "blank"

\* The scanner stops: something other than an object, or an object in it.
SyntaxError(bytes) ==
    \E i \in DOMAIN bytes :
        bytes[i] # "blank" /\ Blank(SubSeq(bytes, 1, i - 1)) # (bytes[i] = "begin")

\* An error of the body reader counts only when the first value is not complete
\* before it.
DecodeFirst(body) ==
    LET value == FirstValue(Seen(body))
    IN  CASE SyntaxError(value) -> 400
          [] ~SyntaxError(value) /\ ValueEnd(value) = 0 -> IF TooLarge(body) THEN 413 ELSE 400
          [] OTHER -> IF Contains(value, "u") THEN 400 ELSE 0

\* Mutant: what follows the object is never looked at.
IgnoreRest(body) == 0

\* The second Decode must find the end of the body: not bytes, and not the error
\* of a reader that is over its limit.
DecodeRest(body) ==
    LET rest == SubSeq(Seen(body), ValueEnd(Seen(body)) + 1, Len(Seen(body)))
    IN  IF Blank(rest) /\ ~TooLarge(body) THEN 0 ELSE 400

validateAskRequest(body) ==
    LET value == FirstValue(body)
        query == {i \in DOMAIN value : value[i] = "q"}
    IN  IF Cardinality(query) \in 1..MaxQueryBytes /\ ~Contains(value, "i") THEN 0 ELSE 400

\* The status ask ends with before it comes to the limiter; 0 if it goes on.
AskStatus(contentType, body) ==
    LET checks == <<requireJSON(contentType), DecodeFirst(body), DecodeRest(body),
                    validateAskRequest(body)>>
        failed == SelectInSeq(checks, LAMBDA st : st # 0)
    IN  IF failed = 0 THEN 0 ELSE checks[failed]
=============================================================================
