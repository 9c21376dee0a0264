---------------------------- MODULE GatewayProofs ----------------------------
(***************************************************************************)
(* Theorems about Gateway, for any finite set of requests, any tokens and  *)
(* any limit.  What AskStatus finds wrong with a body matters to the last  *)
(* of them only; the others need no more than the statuses it may name.    *)
(***************************************************************************)
EXTENDS Gateway, SequenceFacts, FiniteSetTheorems, TLAPS

-----------------------------------------------------------------------------
(* The tables and the pure operators.                                      *)

LEMMA Tables ==
    /\ Paths = {"limited", "answered", "chat_failed", "open_failed", "streamed", "cut", "plain"}
    /\ After["limited"].count = "audit" /\ After["limited"].audit = "reply"
    /\ After["limited"].reply = "leave"
    /\ After["answered"].count = "audit" /\ After["answered"].audit = "reply"
    /\ After["answered"].reply = "leave"
    /\ After["chat_failed"].count = "reply" /\ After["chat_failed"].reply = "leave"
    /\ After["open_failed"].count = "reply" /\ After["open_failed"].reply = "audit"
    /\ After["open_failed"].audit = "leave"
    /\ After["streamed"].count = "audit" /\ After["streamed"].audit = "leave"
    /\ After["cut"].count = "audit" /\ After["cut"].audit = "leave"
    /\ After["plain"].reply = "leave"
  BY DEF Paths, After

LEMMA Outcomes ==
    /\ Outcome["limited"] = "rate_limited" /\ Outcome["answered"] = "ok"
    /\ Outcome["streamed"] = "ok" /\ Outcome["open_failed"] = "error" /\ Outcome["cut"] = "error"
  BY DEF Outcome

LEMMA Entries ==
    Entry["ask"] = "decode" /\ Entry["tools"] = "reply" /\ Entry["models"] = "models"
  BY DEF Entry

LEMMA AskStatuses ==
    ASSUME NEW ct, NEW body
    PROVE  /\ AskStatus(ct, body) \in {0, 400, 413, 415}
           /\ AskStatus(ct, body) = 413 => TooLarge(body)
           /\ AskStatus(ct, body) = 0 =>
                  DecodeFirst(body) = 0 /\ DecodeRest(body) = 0 /\ validateAskRequest(body) = 0
<1> DEFINE checks == <<requireJSON(ct), DecodeFirst(body), DecodeRest(body),
                       validateAskRequest(body)>>
           I == {i \in 1..Len(checks) : checks[i] # 0}
<1>1. \A i \in 1..4 : checks[i] \in {0, 400, 413, 415} /\ (checks[i] = 413 => TooLarge(body))
  <2>1. requireJSON(ct) \in {0, 415}
    BY DEF requireJSON
  <2>2. DecodeFirst(body) \in {0, 400, 413} /\ (DecodeFirst(body) = 413 => TooLarge(body))
    <3> DEFINE value == FirstValue(Seen(body))
    <3>1. DecodeFirst(body) = CASE SyntaxError(value) -> 400
                                [] ~SyntaxError(value) /\ ValueEnd(value) = 0 -> IF TooLarge(body) THEN 413 ELSE 400
                                [] OTHER -> IF Contains(value, "u") THEN 400 ELSE 0
      BY DEF DecodeFirst
    <3>2. SyntaxError(value) \in BOOLEAN /\ (ValueEnd(value) = 0) \in BOOLEAN
      BY DEF SyntaxError
    <3> HIDE DEF value
    <3>3. CASE SyntaxError(value)
      BY <3>1, <3>2, <3>3
    <3>4. CASE ~SyntaxError(value)
      BY <3>1, <3>2, <3>4
    <3> QED
      BY <3>3, <3>4
  <2>3. DecodeRest(body) \in {0, 400}
    BY DEF DecodeRest
  <2>4. validateAskRequest(body) \in {0, 400}
    BY DEF validateAskRequest
  <2> QED
    BY <2>1, <2>2, <2>3, <2>4
<1>2. Len(checks) = 4
  OBVIOUS
<1>0. /\ checks[2] = DecodeFirst(body) /\ checks[3] = DecodeRest(body)
      /\ checks[4] = validateAskRequest(body)
  OBVIOUS
<1>3. SelectInSeq(checks, LAMBDA st : st # 0) = (IF I # {} THEN Min(I) ELSE 0)
  BY DEF SelectInSeq
<1> HIDE DEF checks
<1>4. ASSUME I # {} PROVE Min(I) \in I
  <2>1. \E i \in I : \A j \in I : i <= j
    BY <1>2, <1>4
  <2> QED
    BY <2>1 DEF Min
<1>5. AskStatus(ct, body) = LET f == SelectInSeq(checks, LAMBDA st : st # 0)
                            IN  IF f = 0 THEN 0 ELSE checks[f]
  BY DEF AskStatus, checks
<1>6. CASE I = {}
  <2>1. AskStatus(ct, body) = 0
    BY <1>3, <1>5, <1>6
  <2>2. checks[2] = 0 /\ checks[3] = 0 /\ checks[4] = 0
    BY <1>2, <1>6
  <2> QED
    BY <1>0, <2>1, <2>2
<1>7. CASE I # {}
  <2>1. AskStatus(ct, body) = checks[Min(I)] /\ Min(I) \in 1..4 /\ checks[Min(I)] # 0
    BY <1>2, <1>3, <1>4, <1>5, <1>7
  <2> HIDE DEF I
  <2> QED
    BY <1>1, <2>1
<1> QED
  BY <1>6, <1>7

\* The handler and the middleware read the same token, and name its caller alike.
LEMMA SameCaller ==
    ASSUME NEW r \in Requests
    PROVE  /\ TokenOf(r) \in Tokens \cup {NoToken}
           /\ CallerOf(r) = Principal(r) /\ BucketOf(r) = Principal(r) /\ Principal(r) \in Callers
<1>1. TokenOf(r) \in Tokens \cup {NoToken}
  BY RequestsAssumption DEF TokenOf, extractBearer
<1>2. TokenOf(r) = parseBearerToken(r.header)
  BY DEF TokenOf, extractBearer, parseBearerToken
<1> QED
  BY <1>1, <1>2 DEF CallerOf, Principal, BucketOf, Callers

-----------------------------------------------------------------------------
(* Where a request can be on its way, and what has become of it there.     *)

Undecided == {"idle", "auth", "decode", "limit", "chat", "open", "stream", "models"}

Fits(r) ==
    /\ phase[r] \in Undecided => path[r] = "plain" /\ code[r] = 0
    /\ phase[r] = "count" => path[r] # "plain"
    /\ phase[r] = "audit" => path[r] \in {"limited", "answered", "open_failed", "streamed", "cut"}
    /\ phase[r] = "reply" => path[r] \notin {"streamed", "cut"}
    /\ phase[r] \in {"count", "audit", "reply", "leave", "tally", "done", "past"} => code[r] # 0
    /\ phase[r] \in {"decode", "limit", "chat", "open", "stream"} \/ path[r] # "plain"
           => r.endpoint = "ask"
    /\ phase[r] = "models" => r.endpoint = "models"
    /\ phase[r] = "chat" \/ path[r] \in {"answered", "chat_failed"} => ~r.stream
    /\ phase[r] \in {"open", "stream"} \/ path[r] \in {"open_failed", "streamed", "cut"} => r.stream
    /\ path[r] = "limited" => code[r] = 429
    /\ path[r] \in {"answered", "streamed"} => code[r] = 200
    /\ path[r] \in {"chat_failed", "open_failed", "cut"} => code[r] \in {502, 503}
    /\ path[r] = "plain" /\ r.endpoint = "ask" => code[r] \in {0, 400, 401, 413, 415, 503}
    /\ path[r] = "plain" => code[r] # 429

Committed(r) ==
    /\ phase[r] \in Undecided \ {"stream"} => wire[r] = 0
    /\ phase[r] = "stream" => wire[r] = 200
    /\ path[r] \in {"streamed", "cut"} => wire[r] = 200
    /\ path[r] \notin {"streamed", "cut"} /\ phase[r] \in {"count", "reply"} => wire[r] = 0
    /\ path[r] \in {"limited", "answered"} /\ phase[r] = "audit" => wire[r] = 0
    /\ path[r] \notin {"streamed", "cut"} /\ ~(path[r] = "plain" /\ r.stream) => wire[r] \in {0, code[r]}
    /\ path[r] = "plain" => wire[r] \in {0, 200, code[r]}
    /\ path[r] = "open_failed" /\ phase[r] \in {"audit", "leave"} => wire[r] # 0
    /\ phase[r] \in {"leave", "tally", "done", "past"} => wire[r] # 0

Inv == TypeOK /\ GaugeIsExact /\ \A r \in Requests : Fits(r) /\ Committed(r)

LEMMA InitInv == Init => Inv
<1> SUFFICES ASSUME Init PROVE Inv
  OBVIOUS
<1>1. TypeOK
  BY LimitAssumption, Tables, NoTokenAssumption DEF Init, TypeOK, Phases, Ended, ZeroTotal, ZeroErrors, Statuses
<1>2. GaugeIsExact
  <2>1. {r \in Requests : phase[r] \notin NotServed} = {}
    BY DEF Init, NotServed
  <2> QED
    BY <2>1, FS_EmptySet DEF Init, GaugeIsExact
<1> QED
  BY <1>1, <1>2 DEF Init, Inv, Fits, Committed, Undecided

\* A step of one request leaves the others where they are.
Others(r) ==
    \A q \in Requests \ {r} : /\ phase'[q] = phase[q] /\ path'[q] = path[q]
                              /\ code'[q] = code[q] /\ wire'[q] = wire[q]

LEMMA OthersStay ==
    ASSUME TypeOK, NEW r \in Requests, Arrive(r) \/ Serve(r)
    PROVE  Others(r)
<1> USE DEF TypeOK, Others, Goto, Decide
<1>1. CASE Arrive(r)
  BY <1>1 DEF Arrive
<1>2. CASE Pass(r)
  BY <1>2 DEF Pass
<1>3. CASE Deny(r)
  BY <1>3 DEF Deny
<1>4. CASE RejectBody(r)
  BY <1>4 DEF RejectBody
<1>5. CASE AcceptBody(r) \/ Allow(r) \/ Limit(r)
  BY <1>5 DEF AcceptBody, Allow, Limit
<1>6. CASE Chat(r) \/ OpenFails(r) \/ OpenStream(r) \/ EndStream(r) \/ Models(r)
  BY <1>6 DEF Chat, OpenFails, OpenStream, EndStream, Models
<1>7. CASE Count(r) \/ LogAudit(r) \/ Reply(r) \/ Leave(r) \/ Tally(r)
  BY <1>7 DEF Count, LogAudit, Reply, Leave, Tally
<1> QED
  BY <1>1, <1>2, <1>3, <1>4, <1>5, <1>6, <1>7 DEF Serve

\* The step of a request leaves it where Fits and Committed say.
LEMMA RequestStep ==
    ASSUME Inv, NEW r \in Requests, Arrive(r) \/ Serve(r)
    PROVE  Fits(r)' /\ Committed(r)'
<1> USE DEF Fits, Committed, Undecided, Goto, Decide
<1>0. /\ TypeOK /\ Fits(r) /\ Committed(r)
      /\ phase \in [Requests -> Phases] /\ path \in [Requests -> Paths]
      /\ code \in [Requests -> Statuses \cup {0}] /\ wire \in [Requests -> Statuses \cup {0}]
      /\ r.endpoint \in Endpoints /\ r.stream \in BOOLEAN
  BY RequestsAssumption DEF Inv, TypeOK
<1>1. CASE Arrive(r)
  BY <1>0, <1>1 DEF Arrive
<1>2. CASE Pass(r)
  BY <1>0, <1>2, Entries DEF Pass, Endpoints
<1>3. CASE Deny(r)
  BY <1>0, <1>3 DEF Deny
<1>4. CASE RejectBody(r)
  <2>1. PICK st \in {400, 413, 415} : phase[r] = "decode" /\ Decide(r, "plain", st, "reply") /\ wire' = wire
    BY <1>4, AskStatuses DEF RejectBody
  <2> QED
    BY <1>0, <2>1
<1>5. CASE AcceptBody(r)
  BY <1>0, <1>5 DEF AcceptBody
<1>6. CASE Allow(r)
  BY <1>0, <1>6 DEF Allow
<1>7. CASE Limit(r)
  BY <1>0, <1>7 DEF Limit
<1>8. CASE Chat(r)
  BY <1>0, <1>8 DEF Chat, BridgeErrorStatuses
<1>9. CASE OpenFails(r)
  BY <1>0, <1>9 DEF OpenFails, BridgeErrorStatuses
<1>10. CASE OpenStream(r)
  BY <1>0, <1>10 DEF OpenStream
<1>11. CASE EndStream(r)
  BY <1>0, <1>11 DEF EndStream
<1>12. CASE Models(r)
  BY <1>0, <1>12 DEF Models, BridgeErrorStatuses
<1>13. CASE Count(r)
  <2>1. /\ phase[r] = "count" /\ phase' = [phase EXCEPT ![r] = After[path[r]].count]
        /\ path' = path /\ code' = code /\ wire' = wire
    BY <1>13 DEF Count
  <2> QED
    BY <1>0, <2>1, Tables
<1>14. CASE LogAudit(r)
  <2>1. /\ phase[r] = "audit" /\ phase' = [phase EXCEPT ![r] = After[path[r]].audit]
        /\ path' = path /\ code' = code /\ wire' = wire
    BY <1>14 DEF LogAudit
  <2> QED
    BY <1>0, <2>1, Tables
<1>15. CASE Reply(r)
  <2>1. /\ phase[r] = "reply" /\ phase' = [phase EXCEPT ![r] = After[path[r]].reply]
        /\ path' = path /\ code' = code /\ wire' = [wire EXCEPT ![r] = code[r]]
    BY <1>15 DEF Reply
  <2> QED
    BY <1>0, <2>1, Tables
<1>16. CASE Leave(r)
  BY <1>0, <1>16 DEF Leave
<1>17. CASE Tally(r)
  BY <1>0, <1>17 DEF Tally
<1> QED
  BY <1>1, <1>2, <1>3, <1>4, <1>5, <1>6, <1>7, <1>8, <1>9, <1>10, <1>11, <1>12, <1>13, <1>14,
     <1>15, <1>16, <1>17 DEF Serve

LEMMA StepFits ==
    ASSUME Inv, [Next]_vars
    PROVE  \A r \in Requests : Fits(r)' /\ Committed(r)'
<1> SUFFICES ASSUME NEW r \in Requests PROVE Fits(r)' /\ Committed(r)'
  OBVIOUS
<1>0. TypeOK /\ Fits(r) /\ Committed(r)
  BY DEF Inv
<1>1. ASSUME NEW q \in Requests, Arrive(q) \/ Serve(q) PROVE Fits(r)' /\ Committed(r)'
  <2>1. CASE q = r
    BY <1>1, <2>1, RequestStep
  <2>2. CASE q # r
    <3>1. phase'[r] = phase[r] /\ path'[r] = path[r] /\ code'[r] = code[r] /\ wire'[r] = wire[r]
      BY <1>0, <1>1, <2>2, OthersStay DEF Others
    <3> QED
      BY <1>0, <3>1 DEF Fits, Committed, Undecided
  <2> QED
    BY <2>1, <2>2
<1>2. CASE Crash
  <2>1. /\ path' = path /\ code' = code /\ wire' = wire
        /\ phase'[r] = CASE phase[r] \in {"idle", "past", "lost"} -> phase[r]
                         [] phase[r] = "done" -> "past"
                         [] OTHER -> "lost"
    BY <1>2 DEF Crash
  <2> QED
    BY <1>0, <2>1 DEF Fits, Committed, Undecided
<1>3. CASE UNCHANGED requestVars
  BY <1>0, <1>3 DEF requestVars, Fits, Committed, Undecided
<1>4. ASSUME \/ \E t \in Tokens \cup {NoToken} : Rotate(t)
             \/ \E c \in Callers : Refill(c)
             \/ Idle \/ UNCHANGED vars
      PROVE  UNCHANGED requestVars
  BY <1>4 DEF Rotate, Refill, Idle, vars
<1> QED
  BY <1>1, <1>2, <1>3, <1>4 DEF Next

LineSet == [request : Requests, caller : Callers, status : Statuses,
            outcome : {"ok", "error", "rate_limited"}]

RequestTypes ==
    /\ phase \in [Requests -> Phases] /\ path \in [Requests -> Paths]
    /\ code \in [Requests -> Statuses \cup {0}] /\ wire \in [Requests -> Statuses \cup {0}]

MetricTypes ==
    /\ inFlight \in Nat /\ rateLimited \in Nat /\ usage \in Nat
    /\ total \in [Endpoints -> [Statuses -> Nat]] /\ upstreamErrors \in [Ops -> Nat]

OtherTypes ==
    /\ secret \in Tokens \cup {NoToken} /\ secrets \subseteq Tokens
    /\ bucket \in [Callers -> 0..PerMinute] /\ auditLog \in Seq(LineSet)
    /\ refilled \in [Callers -> Nat] /\ rotations \in Nat /\ crashes \in Nat

LEMMA TypeParts ==
    /\ TypeOK => RequestTypes /\ MetricTypes /\ OtherTypes
    /\ RequestTypes' /\ MetricTypes' /\ OtherTypes' => TypeOK'
  BY DEF TypeOK, RequestTypes, MetricTypes, OtherTypes, LineSet

LEMMA MetricsKept == MetricTypes /\ UNCHANGED metricVars => MetricTypes'
  BY DEF MetricTypes, metricVars

LEMMA OthersKept ==
    OtherTypes /\ UNCHANGED <<secret, bucket, auditLog, boundVars>> => OtherTypes'
  BY DEF OtherTypes, boundVars

\* What is left to the actions is what they change.
Rest == <<secret, bucket, metricVars, auditLog, boundVars>>

\* What is in a sequence that has grown by one element.
LEMMA Appended ==
    ASSUME NEW S, NEW s \in Seq(S), NEW x
    PROVE  /\ DOMAIN Append(s, x) = 1..Len(s) + 1 /\ DOMAIN s = 1..Len(s) /\ Len(s) \in Nat
           /\ Append(s, x)[Len(s) + 1] = x
           /\ \A i \in DOMAIN s : i \in DOMAIN Append(s, x) /\ Append(s, x)[i] = s[i]
           /\ \A i \in DOMAIN Append(s, x) : i = Len(s) + 1 \/ i \in DOMAIN s
           /\ \A i \in DOMAIN Append(s, x) :
                  Append(s, x)[i] = x \/ (i \in DOMAIN s /\ Append(s, x)[i] = s[i])
  OBVIOUS

LEMMA GoesType ==
    ASSUME TypeOK, NEW r \in Requests, NEW ph \in Phases, Goto(r, ph),
           UNCHANGED <<path, code, wire>>
    PROVE  RequestTypes'
  BY DEF TypeOK, RequestTypes, Goto

LEMMA DecidesType ==
    ASSUME TypeOK, NEW r \in Requests, NEW ph \in Phases, NEW p \in Paths, NEW st \in Statuses,
           Decide(r, p, st, ph), wire' = wire, UNCHANGED Rest
    PROVE  TypeOK'
<1>1. RequestTypes'
  BY DEF TypeOK, RequestTypes, Decide, Goto
<1>2. MetricTypes' /\ OtherTypes'
  BY TypeParts, MetricsKept, OthersKept DEF Rest
<1> QED
  BY <1>1, <1>2, TypeParts

\* Where a step takes a request that is being served.
LEMMA Moves ==
    ASSUME Inv, NEW r \in Requests, Serve(r), ~Tally(r)
    PROVE  /\ phase[r] \in {"auth", "decode", "limit", "chat", "open", "stream", "models",
                            "count", "audit", "reply", "leave"}
           /\ Leave(r) => phase'[r] = "tally"
           /\ ~Leave(r) => phase'[r] \in {"decode", "limit", "chat", "open", "stream", "models",
                                          "count", "audit", "reply", "leave"}
<1> USE DEF Goto, Decide
<1>0. Fits(r) /\ phase \in [Requests -> Phases] /\ path \in [Requests -> Paths] /\ r.endpoint \in Endpoints
  BY RequestsAssumption DEF Inv, TypeOK
<1>1. CASE Pass(r)
  BY <1>0, <1>1, Entries DEF Pass, Endpoints, Leave
<1>2. CASE Deny(r) \/ RejectBody(r)
  BY <1>0, <1>2 DEF Deny, RejectBody, Leave
<1>3. CASE AcceptBody(r) \/ Allow(r) \/ Limit(r)
  BY <1>0, <1>3 DEF AcceptBody, Allow, Limit, Leave
<1>4. CASE Chat(r) \/ OpenFails(r) \/ OpenStream(r) \/ EndStream(r) \/ Models(r)
  BY <1>0, <1>4 DEF Chat, OpenFails, OpenStream, EndStream, Models, Leave
<1>5. CASE Count(r)
  <2>1. phase[r] = "count" /\ phase' = [phase EXCEPT ![r] = After[path[r]].count]
    BY <1>5 DEF Count
  <2> QED
    BY <1>0, <2>1, Tables DEF Fits, Leave
<1>6. CASE LogAudit(r)
  <2>1. phase[r] = "audit" /\ phase' = [phase EXCEPT ![r] = After[path[r]].audit]
    BY <1>6 DEF LogAudit
  <2> QED
    BY <1>0, <2>1, Tables DEF Fits, Leave
<1>7. CASE Reply(r)
  <2>1. phase[r] = "reply" /\ phase' = [phase EXCEPT ![r] = After[path[r]].reply]
    BY <1>7 DEF Reply
  <2> QED
    BY <1>0, <2>1, Tables DEF Fits, Leave
<1>8. CASE Leave(r)
  BY <1>0, <1>8 DEF Leave
<1> QED
  BY <1>1, <1>2, <1>3, <1>4, <1>5, <1>6, <1>7, <1>8 DEF Serve

LEMMA StepTypes == Inv /\ [Next]_vars => TypeOK'
<1> SUFFICES ASSUME Inv, [Next]_vars PROVE TypeOK'
  OBVIOUS
<1>0. /\ TypeOK /\ GaugeIsExact /\ \A r \in Requests : Fits(r) /\ Committed(r)
      /\ PerMinute \in Nat
      /\ \A r \in Requests : r.endpoint \in Endpoints /\ CallerOf(r) \in Callers /\ BucketOf(r) \in Callers
  BY RequestsAssumption, LimitAssumption, SameCaller DEF Inv
<1>1. ASSUME NEW r \in Requests, Arrive(r) PROVE TypeOK'
  <2>1. Goto(r, "auth") /\ UNCHANGED <<path, code, wire>> /\ "auth" \in Phases
    BY <1>1 DEF Arrive, Phases
  <2>2. RequestTypes'
    BY <1>0, <2>1, GoesType
  <2>3. MetricTypes'
    BY <1>0, <1>1, TypeParts DEF Arrive, MetricTypes
  <2>4. OtherTypes'
    BY <1>0, <1>1, TypeParts, OthersKept DEF Arrive
  <2> QED
    BY <2>2, <2>3, <2>4, TypeParts
<1>2. ASSUME NEW r \in Requests, Pass(r) PROVE TypeOK'
  <2>1. Entry[r.endpoint] \in Phases /\ "reply" \in Phases /\ "plain" \in Paths /\ 200 \in Statuses
    BY <1>0, Entries, Tables DEF Endpoints, Phases, Statuses
  <2>2. /\ wire' = wire /\ UNCHANGED Rest
        /\ \/ Decide(r, "plain", 200, "reply")
           \/ Goto(r, Entry[r.endpoint]) /\ UNCHANGED <<path, code>>
    BY <1>2, Entries DEF Pass, Rest
  <2> QED
    <3>1. CASE Decide(r, "plain", 200, "reply")
      BY <1>0, <2>1, <2>2, <3>1, DecidesType
    <3>2. CASE Goto(r, Entry[r.endpoint]) /\ UNCHANGED <<path, code>>
      BY <1>0, <2>1, <2>2, <3>2, GoesType, TypeParts, MetricsKept, OthersKept DEF Rest
    <3> QED
      BY <2>2, <3>1, <3>2
<1>3. ASSUME NEW r \in Requests, Deny(r) PROVE TypeOK'
  <2>1. PICK p \in Paths, st \in Statuses, ph \in Phases :
            Decide(r, p, st, ph) /\ wire' = wire /\ UNCHANGED Rest
    BY <1>3, Tables DEF Deny, Statuses, Phases, Rest
  <2> QED
    BY <1>0, <2>1, DecidesType
<1>4. ASSUME NEW r \in Requests, RejectBody(r) PROVE TypeOK'
  <2>1. PICK st \in {400, 413, 415} :
            /\ Decide(r, "plain", st, "reply")
            /\ wire' = wire /\ UNCHANGED Rest
    BY <1>4, AskStatuses DEF RejectBody, Rest
  <2>2. "plain" \in Paths /\ st \in Statuses /\ "reply" \in Phases
    BY Tables DEF Statuses, Phases
  <2> QED
    BY <1>0, <2>1, <2>2, DecidesType
<1>5. ASSUME NEW r \in Requests, AcceptBody(r) PROVE TypeOK'
  <2>1. Goto(r, "limit") /\ UNCHANGED <<path, code, wire>> /\ UNCHANGED Rest
    BY <1>5 DEF AcceptBody, Rest
  <2>2. "limit" \in Phases
    BY DEF Phases
  <2> QED
    BY <1>0, <2>1, <2>2, GoesType, TypeParts, MetricsKept, OthersKept DEF Rest
<1>6. ASSUME NEW r \in Requests, Allow(r) PROVE TypeOK'
  <2>1. bucket' \in [Callers -> 0..PerMinute]
    <3>1. bucket \in [Callers -> 0..PerMinute]
      BY <1>0, TypeParts DEF OtherTypes
    <3>2. \/ bucket[BucketOf(r)] > 0 /\ bucket' = [bucket EXCEPT ![BucketOf(r)] = @ - 1]
          \/ bucket' = bucket
      BY <1>6 DEF Allow
    <3> QED
      BY <1>0, <3>1, <3>2
  <2>2. RequestTypes'
    <3>1. \E ph \in {"open", "chat"} : Goto(r, ph) /\ UNCHANGED <<path, code, wire>>
      BY <1>6 DEF Allow
    <3>2. {"open", "chat"} \subseteq Phases
      BY DEF Phases
    <3> QED
      BY <1>0, <3>1, <3>2, GoesType
  <2>3. MetricTypes'
    BY <1>0, <1>6, TypeParts, MetricsKept DEF Allow
  <2>4. OtherTypes'
    BY <1>0, <1>6, <2>1, TypeParts DEF Allow, OtherTypes, boundVars
  <2> QED
    BY <2>2, <2>3, <2>4, TypeParts
<1>7. ASSUME NEW r \in Requests, Limit(r) PROVE TypeOK'
  <2>1. PICK p \in Paths, st \in Statuses, ph \in Phases :
            Decide(r, p, st, ph) /\ wire' = wire /\ UNCHANGED Rest
    BY <1>7, Tables DEF Limit, Statuses, Phases, Rest
  <2> QED
    BY <1>0, <2>1, DecidesType
<1>8. ASSUME NEW r \in Requests, Chat(r) \/ OpenFails(r) PROVE TypeOK'
  <2>1. PICK p \in Paths, st \in Statuses, ph \in Phases :
            Decide(r, p, st, ph) /\ wire' = wire /\ UNCHANGED Rest
    BY <1>8, Tables DEF Chat, OpenFails, BridgeErrorStatuses, Statuses, Phases, Rest
  <2> QED
    BY <1>0, <2>1, DecidesType
<1>9. ASSUME NEW r \in Requests, OpenStream(r) PROVE TypeOK'
  <2>1. RequestTypes'
    <3>1. phase' = [phase EXCEPT ![r] = "stream"] /\ wire' = [wire EXCEPT ![r] = 200]
          /\ UNCHANGED <<path, code>>
      BY <1>9 DEF OpenStream, Goto
    <3> QED
      BY <1>0, <3>1, TypeParts DEF RequestTypes, Phases, Statuses
  <2> QED
    BY <1>0, <1>9, <2>1, TypeParts, MetricsKept, OthersKept DEF OpenStream
<1>10. ASSUME NEW r \in Requests, EndStream(r) \/ Models(r) PROVE TypeOK'
  <2>1. PICK p \in Paths, st \in Statuses, ph \in Phases :
            Decide(r, p, st, ph) /\ wire' = wire /\ UNCHANGED Rest
    BY <1>10, Tables DEF EndStream, Models, BridgeErrorStatuses, Statuses, Phases, Rest
  <2> QED
    BY <1>0, <2>1, DecidesType
<1>11. ASSUME NEW r \in Requests, Count(r) PROVE TypeOK'
  <2>1. /\ phase[r] = "count" /\ Goto(r, After[path[r]].count) /\ UNCHANGED <<path, code, wire>>
        /\ rateLimited' \in {rateLimited, rateLimited + 1} /\ usage' \in {usage, usage + 1}
        /\ inFlight' = inFlight /\ total' = total
        /\ UNCHANGED <<secret, bucket, auditLog, boundVars>>
    BY <1>11 DEF Count
  <2>2. After[path[r]].count \in Phases
    BY <1>0, <2>1, Tables, TypeParts DEF Fits, Phases, RequestTypes
  <2>3. upstreamErrors' \in [Ops -> Nat]
    <3>1. \/ upstreamErrors' = [upstreamErrors EXCEPT !["chat"] = @ + 1]
          \/ upstreamErrors' = [upstreamErrors EXCEPT !["chat_stream"] = @ + 1]
          \/ upstreamErrors' = upstreamErrors
      BY <1>11 DEF Count
    <3> QED
      BY <1>0, <3>1, TypeParts DEF Ops, MetricTypes
  <2>4. RequestTypes'
    BY <1>0, <2>1, <2>2, GoesType
  <2>5. MetricTypes'
    BY <1>0, <2>1, <2>3, TypeParts DEF MetricTypes
  <2>6. OtherTypes'
    BY <1>0, <2>1, TypeParts, OthersKept
  <2> QED
    BY <2>4, <2>5, <2>6, TypeParts
<1>12. ASSUME NEW r \in Requests, LogAudit(r) PROVE TypeOK'
  <2>1. /\ phase[r] = "audit" /\ Goto(r, After[path[r]].audit) /\ UNCHANGED <<path, code, wire>>
        /\ auditLog' \in {auditLog, Append(auditLog, AuditLine(r))}
        /\ UNCHANGED metricVars /\ UNCHANGED <<secret, bucket, boundVars>>
    BY <1>12 DEF LogAudit
  <2>2. After[path[r]].audit \in Phases
    BY <1>0, <2>1, Tables DEF Fits, Phases
  <2>3. AuditLine(r) \in LineSet
    <3>1. Outcome[path[r]] \in {"ok", "error", "rate_limited"}
      <4>1. path[r] \in {"limited", "answered", "open_failed", "streamed", "cut"}
        BY <1>0, <2>1 DEF Fits
      <4> QED
        BY <4>1, Outcomes
    <3>2. code[r] \in Statuses
      BY <1>0, <2>1, TypeParts DEF Fits, RequestTypes
    <3> QED
      BY <1>0, <3>1, <3>2 DEF AuditLine, LineSet
  <2>4. OtherTypes'
    <3>1. auditLog' \in Seq(LineSet)
      <4>1. auditLog \in Seq(LineSet)
        BY <1>0, TypeParts DEF OtherTypes
      <4>2. Append(auditLog, AuditLine(r)) \in Seq(LineSet)
        BY ONLY <2>3, <4>1
      <4> QED
        BY <2>1, <4>1, <4>2
    <3> QED
      BY <1>0, <2>1, <3>1, TypeParts DEF OtherTypes, boundVars
  <2> QED
    BY <1>0, <2>1, <2>2, <2>4, GoesType, TypeParts, MetricsKept
<1>13. ASSUME NEW r \in Requests, Reply(r) PROVE TypeOK'
  <2>1. RequestTypes'
    <3>1. /\ phase[r] = "reply" /\ phase' = [phase EXCEPT ![r] = After[path[r]].reply]
          /\ wire' = [wire EXCEPT ![r] = code[r]] /\ path' = path /\ code' = code
      BY <1>13 DEF Reply, Goto
    <3>2. After[path[r]].reply \in Phases
      BY <1>0, <3>1, Tables, TypeParts DEF Fits, Phases, RequestTypes
    <3> QED
      BY <1>0, <3>1, <3>2, TypeParts DEF RequestTypes
  <2> QED
    BY <1>0, <1>13, <2>1, TypeParts, MetricsKept, OthersKept DEF Reply
<1>14. ASSUME NEW r \in Requests, Leave(r) PROVE TypeOK'
  <2>1. inFlight > 0
    <3> DEFINE S == {q \in Requests : phase[q] \notin NotServed}
    <3>1. r \in S
      BY <1>14 DEF Leave, NotServed, Ended
    <3>2. IsFiniteSet(S) /\ inFlight = Cardinality(S)
      BY <1>0, RequestsFinite, FS_Subset DEF GaugeIsExact
    <3>3. Cardinality(S) # 0 /\ inFlight \in Nat
      BY <1>0, <3>1, <3>2, FS_EmptySet, TypeParts DEF MetricTypes
    <3> QED
      BY <3>2, <3>3
  <2>2. RequestTypes'
    <3>1. Goto(r, "tally") /\ UNCHANGED <<path, code, wire>> /\ "tally" \in Phases
      BY <1>14 DEF Leave, Phases
    <3> QED
      BY <1>0, <3>1, GoesType
  <2>3. MetricTypes'
    BY <1>0, <1>14, <2>1, TypeParts DEF Leave, MetricTypes
  <2> QED
    BY <1>0, <1>14, <2>2, <2>3, TypeParts, OthersKept DEF Leave
<1>15. ASSUME NEW r \in Requests, Tally(r) PROVE TypeOK'
  <2>1. StatusLabel(r) \in Statuses
    BY <1>0, <1>15, TypeParts DEF Tally, StatusLabel, Committed, RequestTypes
  <2>2. MetricTypes'
    <3>1. total' \in [Endpoints -> [Statuses -> Nat]]
      BY <1>0, <1>15, <2>1, TypeParts DEF Tally, MetricTypes
    <3> QED
      BY <1>0, <1>15, <3>1, TypeParts DEF Tally, MetricTypes
  <2>3. RequestTypes'
    <3>1. Goto(r, "done") /\ UNCHANGED <<path, code, wire>> /\ "done" \in Phases
      BY <1>15 DEF Tally, Phases, Ended
    <3> QED
      BY <1>0, <3>1, GoesType
  <2> QED
    BY <1>0, <1>15, <2>2, <2>3, TypeParts, OthersKept DEF Tally
<1>16. ASSUME NEW t \in Tokens \cup {NoToken}, Rotate(t) PROVE TypeOK'
  <2>1. RequestTypes' /\ MetricTypes'
    BY <1>0, <1>16, TypeParts, MetricsKept DEF Rotate, RequestTypes, requestVars
  <2>2. OtherTypes'
    BY <1>0, <1>16, TypeParts DEF Rotate, OtherTypes
  <2> QED
    BY <2>1, <2>2, TypeParts
<1>17. ASSUME NEW c \in Callers, Refill(c) PROVE TypeOK'
  <2>1. RequestTypes' /\ MetricTypes'
    BY <1>0, <1>17, TypeParts, MetricsKept DEF Refill, RequestTypes, requestVars
  <2>2. OtherTypes'
    BY <1>0, <1>17, TypeParts DEF Refill, OtherTypes
  <2> QED
    BY <2>1, <2>2, TypeParts
<1>18. CASE Crash
  <2>1. RequestTypes'
    <3>1. ASSUME NEW r \in Requests
          PROVE  (CASE phase[r] \in {"idle", "past", "lost"} -> phase[r]
                    [] phase[r] = "done" -> "past"
                    [] OTHER -> "lost") \in Phases
      BY <1>0, TypeParts DEF Phases, Ended, RequestTypes
    <3> QED
      BY <1>0, <1>18, <3>1, TypeParts DEF Crash, RequestTypes
  <2>2. MetricTypes'
    BY <1>0, <1>18 DEF Crash, MetricTypes, ZeroTotal, ZeroErrors
  <2>3. OtherTypes'
    BY <1>0, <1>18, TypeParts DEF Crash, OtherTypes
  <2> QED
    BY <2>1, <2>2, <2>3, TypeParts
<1>19. CASE Idle \/ UNCHANGED vars
  BY <1>0, <1>19, TypeParts, MetricsKept, OthersKept DEF Idle, vars, RequestTypes, requestVars
<1> QED
  BY <1>1, <1>2, <1>3, <1>4, <1>5, <1>6, <1>7, <1>8, <1>9, <1>10, <1>11, <1>12, <1>13, <1>14,
     <1>15, <1>16, <1>17, <1>18, <1>19 DEF Next, Serve

\* The requests that are being served.
Served == {r \in Requests : phase[r] \notin NotServed}

LEMMA FiniteRequests ==
    ASSUME NEW S, S \subseteq Requests
    PROVE  IsFiniteSet(S) /\ Cardinality(S) \in Nat
  BY RequestsFinite, FS_Subset, FS_CardinalityType

\* A set of requests gains or loses one of them.
LEMMA GainOne ==
    ASSUME NEW S, NEW T, S \subseteq Requests, NEW r \in Requests, r \notin S, T = S \cup {r}
    PROVE  Cardinality(T) = Cardinality(S) + 1
  BY FiniteRequests, FS_AddElement

LEMMA LoseOne ==
    ASSUME NEW S, NEW T, S \subseteq Requests, NEW r \in Requests, r \in S, T = S \ {r}
    PROVE  Cardinality(T) = Cardinality(S) - 1
  BY FiniteRequests, FS_RemoveElement

LEMMA StepGauge == Inv /\ [Next]_vars => GaugeIsExact'
<1> SUFFICES ASSUME Inv, [Next]_vars PROVE GaugeIsExact'
  OBVIOUS
<1> USE DEF NotServed, Ended
<1>0. TypeOK /\ inFlight = Cardinality(Served) /\ Served \subseteq Requests /\ Served' \subseteq Requests
      /\ phase \in [Requests -> Phases]
      /\ \A r \in Requests : Fits(r)
  BY DEF Inv, GaugeIsExact, Served, TypeOK
<1>1. SUFFICES inFlight' = Cardinality(Served')
  BY DEF GaugeIsExact, Served
<1>2. ASSUME NEW r \in Requests, Arrive(r) PROVE inFlight' = Cardinality(Served')
  <2>1. phase[r] = "idle" /\ phase' = [phase EXCEPT ![r] = "auth"] /\ inFlight' = inFlight + 1
    BY <1>2 DEF Arrive, Goto
  <2>2. r \notin Served /\ Served' = Served \cup {r}
    BY <1>0, <2>1 DEF Served
  <2> QED
    BY <1>0, <2>1, <2>2, GainOne
<1>3. ASSUME NEW r \in Requests, Leave(r) PROVE inFlight' = Cardinality(Served')
  <2>1. phase[r] = "leave" /\ phase' = [phase EXCEPT ![r] = "tally"] /\ inFlight' = inFlight - 1
    BY <1>3 DEF Leave, Goto
  <2>2. r \in Served /\ Served' = Served \ {r}
    BY <1>0, <2>1 DEF Served
  <2> QED
    BY <1>0, <2>1, <2>2, LoseOne
<1>4. ASSUME NEW r \in Requests, Tally(r) PROVE inFlight' = Cardinality(Served')
  <2>1. phase[r] = "tally" /\ phase' = [phase EXCEPT ![r] = "done"] /\ inFlight' = inFlight
    BY <1>4 DEF Tally, Goto
  <2>2. Served' = Served
    BY <1>0, <2>1 DEF Served
  <2> QED
    BY <1>0, <2>1, <2>2
<1>5. ASSUME NEW r \in Requests, Serve(r), ~Leave(r), ~Tally(r) PROVE inFlight' = Cardinality(Served')
  <2>1. inFlight' = inFlight
    BY <1>5 DEF Serve, Pass, Deny, RejectBody, AcceptBody, Allow, Limit, Chat, OpenFails, OpenStream,
       EndStream, Models, Count, LogAudit, Reply, metricVars
  <2>2. phase[r] \notin NotServed /\ phase'[r] \notin NotServed
    BY <1>5, Moves DEF Inv
  <2>3. \A q \in Requests : phase'[q] \in NotServed <=> phase[q] \in NotServed
    BY <1>0, <1>5, <2>2, OthersStay DEF Others
  <2>4. Served' = Served
    BY <2>3 DEF Served
  <2> QED
    BY <1>0, <2>1, <2>4
<1>6. CASE Crash
  <2>1. Served' = {} /\ inFlight' = 0
    BY <1>6 DEF Crash, Served
  <2> QED
    BY <2>1, FS_EmptySet
<1>7. ASSUME \/ \E t \in Tokens \cup {NoToken} : Rotate(t)
             \/ \E c \in Callers : Refill(c)
             \/ Idle \/ UNCHANGED vars
      PROVE  inFlight' = Cardinality(Served')
  <2>1. phase' = phase /\ inFlight' = inFlight
    BY <1>7 DEF Rotate, Refill, Idle, vars, requestVars, metricVars
  <2> QED
    BY <1>0, <2>1 DEF Served
<1> QED
  BY <1>2, <1>3, <1>4, <1>5, <1>6, <1>7 DEF Next

LEMMA StepInv == Inv /\ [Next]_vars => Inv'
  BY StepTypes, StepGauge, StepFits DEF Inv

LEMMA InvHolds == Spec => []Inv
  BY InitInv, StepInv, PTL DEF Spec

\* Every variable keeps its type: no bucket is overdrawn, no counter lost, every
\* status is one the handlers know.
THEOREM TypeCorrect == Spec => []TypeOK
<1>1. Inv => TypeOK
  BY DEF Inv
<1> QED
  BY <1>1, InvHolds, PTL

\* The gauge is exact, whatever way the requests go.
THEOREM GaugeExact == Spec => []GaugeIsExact
<1>1. Inv => GaugeIsExact
  BY DEF Inv
<1> QED
  BY <1>1, InvHolds, PTL

-----------------------------------------------------------------------------
(* The totals.                                                             *)

Finished(e, st) == {r \in Requests : phase[r] = "done" /\ r.endpoint = e /\ wire[r] = st}

LEMMA StepTotals == Inv /\ TotalsMatchResponses /\ [Next]_vars => TotalsMatchResponses'
<1> SUFFICES ASSUME Inv, TotalsMatchResponses, [Next]_vars, NEW e \in Endpoints, NEW st \in Statuses
             PROVE  total'[e][st] = Cardinality(Finished(e, st)')
  BY DEF TotalsMatchResponses, Finished
<1>0. /\ TypeOK /\ total[e][st] = Cardinality(Finished(e, st))
      /\ Finished(e, st) \subseteq Requests /\ Cardinality(Finished(e, st)) \in Nat
      /\ phase \in [Requests -> Phases] /\ total \in [Endpoints -> [Statuses -> Nat]]
  BY FiniteRequests DEF Inv, TotalsMatchResponses, Finished, TypeOK
<1>1. ASSUME NEW r \in Requests, Tally(r) PROVE total'[e][st] = Cardinality(Finished(e, st)')
  <2>1. /\ phase[r] = "tally" /\ phase' = [phase EXCEPT ![r] = "done"] /\ wire' = wire
        /\ total' = [total EXCEPT ![r.endpoint][wire[r]] = @ + 1]
    BY <1>1 DEF Tally, Goto, StatusLabel
  <2>2. CASE r.endpoint = e /\ wire[r] = st
    <3>1. r \notin Finished(e, st) /\ Finished(e, st)' = Finished(e, st) \cup {r}
      BY <1>0, <2>1, <2>2 DEF Finished
    <3>2. total'[e][st] = total[e][st] + 1
      BY <1>0, <2>1, <2>2
    <3> QED
      BY <1>0, <3>1, <3>2, GainOne
  <2>3. CASE ~(r.endpoint = e /\ wire[r] = st)
    <3>1. Finished(e, st)' = Finished(e, st)
      BY <1>0, <2>1, <2>3 DEF Finished
    <3>2. total'[e][st] = total[e][st]
      BY <1>0, <2>1, <2>3
    <3> QED
      BY <1>0, <3>1, <3>2
  <2> QED
    BY <2>2, <2>3
<1>2. ASSUME NEW r \in Requests, Arrive(r) \/ (Serve(r) /\ ~Tally(r))
      PROVE  total'[e][st] = Cardinality(Finished(e, st)')
  <2>1. total' = total
    BY <1>2 DEF Arrive, Serve, Pass, Deny, RejectBody, AcceptBody, Allow, Limit, Chat, OpenFails,
       OpenStream, EndStream, Models, Count, LogAudit, Reply, Leave, metricVars
  <2>2. phase[r] # "done" /\ phase'[r] # "done"
    <3>1. CASE Arrive(r)
      BY <1>0, <3>1 DEF Arrive, Goto
    <3>2. CASE Serve(r) /\ ~Tally(r)
      BY <3>2, Moves
    <3> QED
      BY <1>2, <3>1, <3>2
  <2>3. \A q \in Requests \ {r} : phase'[q] = phase[q] /\ wire'[q] = wire[q]
    BY <1>0, <1>2, OthersStay DEF Others
  <2>4. Finished(e, st)' = Finished(e, st)
    BY <2>2, <2>3 DEF Finished
  <2> QED
    BY <1>0, <2>1, <2>4
<1>3. CASE Crash
  <2>1. Finished(e, st)' = {}
    BY <1>3 DEF Crash, Finished
  <2>2. total'[e][st] = 0
    BY <1>3 DEF Crash, ZeroTotal
  <2> QED
    BY <2>1, <2>2, FS_EmptySet
<1>4. ASSUME \/ \E t \in Tokens \cup {NoToken} : Rotate(t)
             \/ \E c \in Callers : Refill(c)
             \/ Idle \/ UNCHANGED vars
      PROVE  total'[e][st] = Cardinality(Finished(e, st)')
  <2>1. phase' = phase /\ wire' = wire /\ total' = total
    BY <1>4 DEF Rotate, Refill, Idle, vars, requestVars, metricVars
  <2> QED
    BY <1>0, <2>1 DEF Finished
<1> QED
  BY <1>1, <1>2, <1>3, <1>4 DEF Next

\* Every finished request is counted once, under the status its caller was sent.
THEOREM TotalsExact == Spec => []TotalsMatchResponses
<1>1. Init => TotalsMatchResponses
  <2> SUFFICES ASSUME Init, NEW e \in Endpoints, NEW st \in Statuses
               PROVE  total[e][st] = Cardinality(Finished(e, st))
    BY DEF TotalsMatchResponses, Finished
  <2>1. Finished(e, st) = {} /\ total[e][st] = 0
    BY DEF Init, Finished, ZeroTotal
  <2> QED
    BY <2>1, FS_EmptySet
<1> QED
  BY <1>1, InvHolds, StepTotals, PTL DEF Spec

-----------------------------------------------------------------------------
(* The auth middleware.                                                    *)

\* A request whose token was never configured.
Barred ==
    /\ secret \in secrets \cup {NoToken}
    /\ \A r \in Requests : TokenOf(r) \notin secrets =>
           /\ phase[r] \in {"idle", "auth", "reply", "leave", "tally"} \cup Ended
           /\ path[r] = "plain" /\ code[r] \in {0, 401, 503} /\ wire[r] \in {0, 401, 503}
           /\ \A i \in DOMAIN auditLog : auditLog[i].request # r

\* Only Rotate changes the tokens, and only LogAudit writes to the audit log.
LEMMA SecretsGrow ==
    ASSUME [Next]_vars
    PROVE  \/ secret' = secret /\ secrets' = secrets
           \/ \E t \in Tokens \cup {NoToken} : secret' = t /\ secrets' = secrets \cup ({t} \ {NoToken})
<1>1. ASSUME NEW r \in Requests, Arrive(r) \/ Serve(r) PROVE secret' = secret /\ secrets' = secrets
  BY <1>1 DEF Arrive, Serve, Pass, Deny, RejectBody, AcceptBody, Allow, Limit, Chat,
     OpenFails, OpenStream, EndStream, Models, Count, LogAudit, Reply, Leave, Tally, boundVars
<1>2. CASE \E c \in Callers : Refill(c)
  BY <1>2 DEF Refill
<1>3. CASE Crash
  BY <1>3 DEF Crash
<1>4. CASE Idle \/ UNCHANGED vars
  BY <1>4 DEF Idle, vars, boundVars
<1>5. CASE \E t \in Tokens \cup {NoToken} : Rotate(t)
  BY <1>5 DEF Rotate
<1> QED
  BY <1>1, <1>2, <1>3, <1>4, <1>5 DEF Next

LEMMA LogGrows ==
    ASSUME [Next]_vars
    PROVE  \/ auditLog' = auditLog
           \/ \E r \in Requests : LogAudit(r) /\ auditLog' = Append(auditLog, AuditLine(r))
<1>1. ASSUME NEW r \in Requests, Arrive(r) \/ (Serve(r) /\ ~LogAudit(r)) PROVE auditLog' = auditLog
  BY <1>1 DEF Arrive, Serve, Pass, Deny, RejectBody, AcceptBody, Allow, Limit, Chat,
     OpenFails, OpenStream, EndStream, Models, Count, Reply, Leave, Tally
<1>2. CASE \E r \in Requests : LogAudit(r)
  BY <1>2 DEF LogAudit
<1>3. ASSUME \/ \E t \in Tokens \cup {NoToken} : Rotate(t)
             \/ \E c \in Callers : Refill(c)
             \/ Crash \/ Idle \/ UNCHANGED vars
      PROVE  auditLog' = auditLog
  BY <1>3 DEF Rotate, Refill, Crash, Idle, vars
<1> QED
  BY <1>1, <1>2, <1>3 DEF Next

LEMMA StepBarred == Inv /\ Barred /\ [Next]_vars => Barred'
<1> SUFFICES ASSUME Inv, Barred, [Next]_vars PROVE Barred'
  OBVIOUS
<1>0. TypeOK /\ secrets \subseteq secrets' /\ secret' \in secrets' \cup {NoToken}
  <2>1. secret \in secrets \cup {NoToken} /\ TypeOK
    BY DEF Inv, Barred
  <2> QED
    BY <2>1, SecretsGrow
<1> SUFFICES ASSUME NEW r \in Requests, TokenOf(r) \notin secrets
             PROVE  /\ phase'[r] \in {"idle", "auth", "reply", "leave", "tally"} \cup Ended
                    /\ path'[r] = "plain" /\ code'[r] \in {0, 401, 503} /\ wire'[r] \in {0, 401, 503}
                    /\ \A i \in DOMAIN auditLog' : auditLog'[i].request # r
  BY <1>0 DEF Barred
<1>1. /\ phase[r] \in {"idle", "auth", "reply", "leave", "tally"} \cup Ended
      /\ path[r] = "plain" /\ code[r] \in {0, 401, 503} /\ wire[r] \in {0, 401, 503}
      /\ \A i \in DOMAIN auditLog : auditLog[i].request # r
      /\ phase \in [Requests -> Phases] /\ path \in [Requests -> Paths]
      /\ code \in [Requests -> Statuses \cup {0}] /\ wire \in [Requests -> Statuses \cup {0}]
      /\ ~Passes(r)
  BY <1>0 DEF Barred, TypeOK, Passes
<1>2. \A i \in DOMAIN auditLog' : auditLog'[i].request # r
  <2>1. CASE auditLog' = auditLog
    BY <1>1, <2>1
  <2>2. ASSUME NEW q \in Requests, LogAudit(q), auditLog' = Append(auditLog, AuditLine(q))
        PROVE  \A i \in DOMAIN auditLog' : auditLog'[i].request # r
    <3>1. q # r
      BY <1>1, <2>2 DEF LogAudit, Ended
    <3>2. AuditLine(q).request = q
      BY DEF AuditLine
    <3>3. \A i \in DOMAIN auditLog' : auditLog'[i] = AuditLine(q) \/ (i \in DOMAIN auditLog /\ auditLog'[i] = auditLog[i])
      BY <1>0, <2>2, Appended DEF TypeOK
    <3> QED
      BY <1>1, <3>1, <3>2, <3>3
  <2> QED
    BY <2>1, <2>2, LogGrows
<1>3. ASSUME NEW q \in Requests, Arrive(q) \/ Serve(q)
      PROVE  /\ phase'[r] \in {"idle", "auth", "reply", "leave", "tally"} \cup Ended
             /\ path'[r] = "plain" /\ code'[r] \in {0, 401, 503} /\ wire'[r] \in {0, 401, 503}
  <2>1. CASE q # r
    <3>1. phase'[r] = phase[r] /\ path'[r] = path[r] /\ code'[r] = code[r] /\ wire'[r] = wire[r]
      BY <1>0, <1>3, <2>1, OthersStay DEF Others
    <3> QED
      BY <1>1, <3>1
  <2>2. CASE q = r
    <3>1. Arrive(r) \/ Deny(r) \/ Reply(r) \/ Leave(r) \/ Tally(r)
      BY <1>1, <1>3, <2>2 DEF Serve, Pass, RejectBody, AcceptBody, Allow, Limit, Chat, OpenFails,
         OpenStream, EndStream, Models, Count, LogAudit, Ended
    <3>2. CASE Arrive(r) \/ Deny(r)
      BY <1>1, <3>2 DEF Arrive, Deny, Goto, Decide
    <3>3. CASE Reply(r)
      <4>1. After[path[r]].reply = "leave"
        BY <1>1, Tables
      <4> QED
        BY <1>1, <3>3, <4>1 DEF Reply, Goto
    <3>4. CASE Leave(r) \/ Tally(r)
      BY <1>1, <3>4 DEF Leave, Tally, Goto, Ended
    <3> QED
      BY <3>1, <3>2, <3>3, <3>4
  <2> QED
    BY <2>1, <2>2
<1>4. CASE Crash
  BY <1>1, <1>2, <1>4 DEF Crash, Ended
<1>5. ASSUME \/ \E t \in Tokens \cup {NoToken} : Rotate(t)
             \/ \E c \in Callers : Refill(c)
             \/ Idle \/ UNCHANGED vars
      PROVE  UNCHANGED requestVars
  BY <1>5 DEF Rotate, Refill, Idle, vars
<1> QED
  BY <1>1, <1>2, <1>3, <1>4, <1>5 DEF Next, requestVars

\* Without the configured token nothing behind the auth middleware is reached.
THEOREM AuthHolds == Spec => []NothingBehindAuthWithoutToken
<1>1. Init => Barred
  BY DEF Init, Barred
<1>2. Barred => NothingBehindAuthWithoutToken
  BY DEF Barred, NothingBehindAuthWithoutToken, LinesOf
<1> QED
  BY <1>1, <1>2, InvHolds, StepBarred, PTL DEF Spec

-----------------------------------------------------------------------------
(* The audit log.                                                          *)

Unaudited(r) ==
    \/ phase[r] \in Undecided \cup {"count", "audit"}
    \/ phase[r] = "reply" /\ path[r] \notin {"limited", "answered"}

\* One line per request, and none before its turn.
OneLine ==
    /\ \A i, j \in DOMAIN auditLog : auditLog[i].request = auditLog[j].request => i = j
    /\ \A r \in Requests : Unaudited(r) => \A i \in DOMAIN auditLog : auditLog[i].request # r

\* The line of a request that is answered after it was audited.
HasLine(r) ==
    \E i \in DOMAIN auditLog : /\ auditLog[i].request = r /\ auditLog[i].status = code[r]
                               /\ auditLog[i].caller = Principal(r)

AuditedFirst ==
    \A r \in Requests :
        path[r] \in {"limited", "answered"} /\ (phase[r] = "reply" \/ wire[r] # 0) => HasLine(r)

\* A request that has had its turn does not get another.
LEMMA TurnPasses ==
    ASSUME Inv, [Next]_vars, NEW r \in Requests, Unaudited(r)'
    PROVE  Unaudited(r) /\ ~LogAudit(r)
<1> USE DEF Unaudited, Undecided
<1>0. /\ TypeOK /\ Fits(r) /\ phase \in [Requests -> Phases] /\ path \in [Requests -> Paths]
  BY DEF Inv, TypeOK
<1>1. ASSUME Arrive(r) \/ Serve(r) PROVE Unaudited(r) /\ ~LogAudit(r)
  <2>1. CASE Arrive(r)
    BY <1>0, <2>1 DEF Arrive, LogAudit
  <2>2. CASE LogAudit(r)
    <3>1. /\ phase[r] = "audit" /\ phase' = [phase EXCEPT ![r] = After[path[r]].audit] /\ path' = path
      BY <2>2 DEF LogAudit, Goto
    <3> QED
      BY <1>0, <3>1, Tables DEF Fits
  <2>3. CASE Reply(r)
    <3>1. /\ phase[r] = "reply" /\ phase' = [phase EXCEPT ![r] = After[path[r]].reply] /\ path' = path
      BY <2>3 DEF Reply, Goto
    <3> QED
      BY <1>0, <3>1, Tables DEF Fits, LogAudit
  <2>4. CASE Leave(r) \/ Tally(r)
    BY <1>0, <2>4 DEF Leave, Tally, Goto
  <2>5. CASE Serve(r) /\ ~LogAudit(r) /\ ~Reply(r) /\ ~Leave(r) /\ ~Tally(r)
    <3>1. phase[r] \in Undecided \cup {"count"}
      BY <2>5 DEF Serve, Pass, Deny, RejectBody, AcceptBody, Allow, Limit, Chat, OpenFails, OpenStream,
         EndStream, Models, Count
    <3> QED
      BY <2>5, <3>1
  <2> QED
    BY <1>1, <2>1, <2>2, <2>3, <2>4, <2>5
<1>2. ASSUME ~Arrive(r), ~Serve(r) PROVE Unaudited(r) /\ ~LogAudit(r)
  <2>1. ASSUME NEW q \in Requests \ {r}, Arrive(q) \/ Serve(q) PROVE Unaudited(r)
    <3>1. phase'[r] = phase[r] /\ path'[r] = path[r]
      BY <1>0, <2>1, OthersStay DEF Others
    <3> QED
      BY <3>1
  <2>2. CASE Crash
    <3>1. phase'[r] = CASE phase[r] \in {"idle", "past", "lost"} -> phase[r]
                        [] phase[r] = "done" -> "past"
                        [] OTHER -> "lost"
      BY <2>2 DEF Crash
    <3>2. phase'[r] \notin {"past", "lost"}
      OBVIOUS
    <3> QED
      BY <3>1, <3>2 DEF LogAudit
  <2>3. ASSUME \/ \E t \in Tokens \cup {NoToken} : Rotate(t)
               \/ \E c \in Callers : Refill(c)
               \/ Idle \/ UNCHANGED vars
        PROVE  UNCHANGED requestVars
    BY <2>3 DEF Rotate, Refill, Idle, vars
  <2> QED
    BY <1>2, <2>1, <2>2, <2>3 DEF Next, requestVars, Serve
<1> QED
  BY <1>1, <1>2

LEMMA StepOneLine == Inv /\ OneLine /\ [Next]_vars => OneLine'
<1> SUFFICES ASSUME Inv, OneLine, [Next]_vars PROVE OneLine'
  OBVIOUS
<1>0. TypeOK
  BY DEF Inv
<1>1. CASE auditLog' = auditLog
  BY <1>1, TurnPasses DEF OneLine
<1>2. ASSUME NEW q \in Requests, LogAudit(q), auditLog' = Append(auditLog, AuditLine(q))
      PROVE  OneLine'
  <2>1. AuditLine(q).request = q /\ \A i \in DOMAIN auditLog : auditLog[i].request # q
    BY <1>2 DEF AuditLine, LogAudit, OneLine, Unaudited
  <2>2. /\ \A i \in DOMAIN auditLog' : i = Len(auditLog) + 1 \/ i \in DOMAIN auditLog
        /\ auditLog'[Len(auditLog) + 1] = AuditLine(q)
        /\ \A i \in DOMAIN auditLog : auditLog'[i] = auditLog[i]
    BY <1>0, <1>2, Appended DEF TypeOK
  <2>3. \A i, j \in DOMAIN auditLog' : auditLog'[i].request = auditLog'[j].request => i = j
    BY <2>1, <2>2 DEF OneLine
  <2>4. ASSUME NEW r \in Requests, Unaudited(r)', NEW i \in DOMAIN auditLog'
        PROVE  auditLog'[i].request # r
    <3>1. Unaudited(r) /\ r # q
      BY <1>2, <2>4, TurnPasses
    <3> QED
      BY <2>1, <2>2, <3>1 DEF OneLine
  <2> QED
    BY <2>3, <2>4 DEF OneLine
<1> QED
  BY <1>1, <1>2, LogGrows

LEMMA StepAuditedFirst ==
    ASSUME ~SinkFails, Inv, AuditedFirst, [Next]_vars
    PROVE  AuditedFirst'
<1> SUFFICES ASSUME NEW r \in Requests, path'[r] \in {"limited", "answered"},
                    phase'[r] = "reply" \/ wire'[r] # 0
             PROVE  HasLine(r)'
  BY DEF AuditedFirst
<1>0. /\ TypeOK /\ Fits(r) /\ Committed(r)
      /\ phase \in [Requests -> Phases] /\ path \in [Requests -> Paths]
      /\ code \in [Requests -> Statuses \cup {0}] /\ wire \in [Requests -> Statuses \cup {0}]
  BY DEF Inv, TypeOK
<1>1. ASSUME HasLine(r), code'[r] = code[r] PROVE HasLine(r)'
  <2>1. CASE auditLog' = auditLog
    BY <1>1, <2>1 DEF HasLine
  <2>2. ASSUME NEW q \in Requests, auditLog' = Append(auditLog, AuditLine(q)) PROVE HasLine(r)'
    <3>1. \A i \in DOMAIN auditLog : i \in DOMAIN auditLog' /\ auditLog'[i] = auditLog[i]
      BY <1>0, <2>2, Appended DEF TypeOK
    <3> QED
      BY <1>1, <3>1 DEF HasLine
  <2> QED
    BY <2>1, <2>2, LogGrows
<1>2. ASSUME path[r] = path'[r], code[r] = code'[r], phase[r] = "reply" \/ wire[r] # 0
      PROVE  HasLine(r)'
  BY <1>1, <1>2 DEF AuditedFirst
<1>3. CASE LogAudit(r)
  <2>1. /\ phase[r] = "audit" /\ path'[r] = path[r] /\ code'[r] = code[r]
        /\ auditLog' = Append(auditLog, AuditLine(r))
    BY <1>3 DEF LogAudit
  <2>2. AuditLine(r).request = r /\ AuditLine(r).status = code[r] /\ AuditLine(r).caller = Principal(r)
    BY SameCaller DEF AuditLine
  <2>3. Len(auditLog) + 1 \in DOMAIN auditLog' /\ auditLog'[Len(auditLog) + 1] = AuditLine(r)
    BY <1>0, <2>1, Appended DEF TypeOK
  <2> QED
    BY <2>1, <2>2, <2>3 DEF HasLine
<1>4. ASSUME Arrive(r) \/ Serve(r), ~LogAudit(r) PROVE HasLine(r)'
  <2>1. CASE Arrive(r)
    BY <1>0, <2>1 DEF Arrive, Fits, Committed, Undecided, Goto
  <2>2. CASE Pass(r)
    BY <1>0, <2>2 DEF Pass, Decide, Fits, Committed, Undecided
  <2>3. CASE Deny(r) \/ RejectBody(r)
    BY <1>0, <2>3 DEF Deny, RejectBody, Decide, Fits, Committed, Undecided
  <2>4. CASE AcceptBody(r) \/ Allow(r)
    BY <1>0, <2>4 DEF AcceptBody, Allow, Fits, Committed, Undecided
  <2>5. CASE Limit(r) \/ Chat(r) \/ OpenFails(r)
    BY <1>0, <2>5 DEF Limit, Chat, OpenFails, Decide, Goto, Fits, Committed, Undecided
  <2>6. CASE OpenStream(r) \/ EndStream(r) \/ Models(r)
    BY <1>0, <2>6 DEF OpenStream, EndStream, Models, Decide, Goto, Fits, Committed, Undecided
  <2>7. CASE Count(r)
    <3>1. /\ phase[r] = "count" /\ phase' = [phase EXCEPT ![r] = After[path[r]].count]
          /\ path' = path /\ wire' = wire
      BY <2>7 DEF Count, Goto
    <3> QED
      BY <1>0, <3>1, Tables DEF Fits, Committed
  <2>8. CASE Reply(r)
    <3>1. phase[r] = "reply" /\ path' = path /\ code' = code
      BY <2>8 DEF Reply
    <3> QED
      BY <1>2, <3>1
  <2>9. CASE Leave(r) \/ Tally(r)
    <3>1. phase[r] \in {"leave", "tally"} /\ path' = path /\ code' = code /\ wire' = wire
      BY <2>9 DEF Leave, Tally
    <3> QED
      BY <1>0, <1>2, <3>1 DEF Committed
  <2> QED
    BY <1>4, <2>1, <2>2, <2>3, <2>4, <2>5, <2>6, <2>7, <2>8, <2>9 DEF Serve
<1>5. ASSUME ~Arrive(r), ~Serve(r) PROVE HasLine(r)'
  <2>1. path'[r] = path[r] /\ code'[r] = code[r] /\ wire'[r] = wire[r]
        /\ (phase'[r] = "reply" => phase[r] = "reply")
    <3>1. ASSUME NEW q \in Requests \ {r}, Arrive(q) \/ Serve(q)
          PROVE  phase'[r] = phase[r] /\ path'[r] = path[r] /\ code'[r] = code[r] /\ wire'[r] = wire[r]
      BY <1>0, <3>1, OthersStay DEF Others
    <3>2. CASE Crash
      BY <1>0, <3>2 DEF Crash
    <3>3. ASSUME \/ \E t \in Tokens \cup {NoToken} : Rotate(t)
                 \/ \E c \in Callers : Refill(c)
                 \/ Idle \/ UNCHANGED vars
          PROVE  UNCHANGED requestVars
      BY <3>3 DEF Rotate, Refill, Idle, vars
    <3> QED
      BY <1>5, <3>1, <3>2, <3>3 DEF Next, requestVars
  <2> QED
    BY <1>2, <2>1
<1> QED
  BY <1>3, <1>4, <1>5

LEMMA LineCount ==
    ASSUME TypeOK, OneLine, NEW r \in Requests
    PROVE  Cardinality(LinesOf(r)) <= 1
<1>1. CASE LinesOf(r) = {}
  BY <1>1, FS_EmptySet
<1>2. ASSUME NEW i \in LinesOf(r) PROVE Cardinality(LinesOf(r)) <= 1
  <2>1. LinesOf(r) = {i}
    BY <1>2 DEF OneLine, LinesOf
  <2> QED
    BY <2>1, FS_Singleton
<1> QED
  BY <1>1, <1>2

\* Where the sink takes every line, a caller that holds an answer is in the audit
\* log, once and under its own name, even if the process has crashed since.
THEOREM AuditHolds == ~SinkFails => (Spec => []AnswersAreAudited)
<1> SUFFICES ASSUME ~SinkFails PROVE Spec => []AnswersAreAudited
  OBVIOUS
<1>1. Init => OneLine /\ AuditedFirst
  BY DEF Init, OneLine, AuditedFirst
<1>2. Inv /\ OneLine /\ AuditedFirst => AnswersAreAudited
  <2> SUFFICES ASSUME Inv, OneLine, AuditedFirst, NEW r \in Requests
               PROVE  /\ Cardinality(LinesOf(r)) <= 1
                      /\ r.endpoint = "ask" /\ (wire[r] = 429 \/ (wire[r] = 200 /\ ~r.stream)) =>
                             \E i \in LinesOf(r) :
                                 auditLog[i].status = wire[r] /\ auditLog[i].caller = Principal(r)
    BY DEF AnswersAreAudited
  <2>0. Fits(r) /\ Committed(r) /\ path \in [Requests -> Paths] /\ TypeOK
    BY DEF Inv, TypeOK
  <2>1. ASSUME r.endpoint = "ask", wire[r] = 429 \/ (wire[r] = 200 /\ ~r.stream)
        PROVE  \E i \in LinesOf(r) :
                   auditLog[i].status = wire[r] /\ auditLog[i].caller = Principal(r)
    <3>1. path[r] \notin {"streamed", "cut", "open_failed"}
      BY <2>0, <2>1, Tables DEF Fits, Committed
    <3>2. wire[r] = code[r]
      BY <2>0, <2>1, <3>1 DEF Committed
    <3>3. path[r] \in {"limited", "answered"}
      BY <2>0, <2>1, <3>1, <3>2, Tables DEF Fits
    <3>4. HasLine(r)
      BY <2>1, <3>3 DEF AuditedFirst
    <3> QED
      BY <3>2, <3>4 DEF HasLine, LinesOf
  <2> QED
    BY <2>0, <2>1, LineCount
<1>3. Inv /\ AuditedFirst /\ [Next]_vars => AuditedFirst'
  BY StepAuditedFirst
<1> QED
  BY <1>1, <1>2, <1>3, InvHolds, StepOneLine, PTL DEF Spec

-----------------------------------------------------------------------------
(* The buckets.                                                            *)

\* r has been let through by the limiter in this life of the process.
LetThrough(r) ==
    /\ phase[r] \notin {"idle", "past", "lost"}
    /\ phase[r] \in {"chat", "open", "stream"} \/ path[r] \in AskPaths

\* Only Allow lets a request through, and it stays so until the process ends.
LEMMA LetThroughByAllow ==
    ASSUME Inv, [Next]_vars, ~Crash, NEW r \in Requests
    PROVE  /\ LetThrough(r)' <=> LetThrough(r) \/ Allow(r)
           /\ Allow(r) => ~LetThrough(r)
<1> USE DEF LetThrough, AskPaths
<1>0. /\ TypeOK /\ Fits(r) /\ phase \in [Requests -> Phases] /\ path \in [Requests -> Paths]
      /\ r.endpoint \in Endpoints
  BY RequestsAssumption DEF Inv, TypeOK
<1>1. Allow(r) => ~LetThrough(r)
  BY <1>0 DEF Allow, Fits, Undecided
<1>2. CASE Arrive(r)
  BY <1>0, <1>2 DEF Arrive, Allow, Goto, Fits, Undecided
<1>3. CASE Pass(r)
  BY <1>0, <1>3, Entries DEF Pass, Allow, Goto, Decide, Fits, Undecided, Endpoints
<1>4. CASE Deny(r) \/ RejectBody(r)
  BY <1>0, <1>4 DEF Deny, RejectBody, Allow, Goto, Decide, Fits, Undecided
<1>5. CASE AcceptBody(r) \/ Limit(r)
  <2>1. phase[r] \in {"decode", "limit"} /\ path[r] = "plain"
    BY <1>0, <1>5 DEF AcceptBody, Limit, Fits, Undecided
  <2>2. CASE AcceptBody(r)
    BY <1>0, <2>1, <2>2 DEF AcceptBody, Allow, Goto
  <2>3. CASE Limit(r)
    <3>1. phase'[r] = "count" /\ path'[r] = "limited" /\ ~Allow(r)
      BY <1>0, <2>3, LimitAssumption DEF Limit, Allow, Decide, Goto
    <3> QED
      BY <2>1, <3>1
  <2> QED
    BY <1>5, <2>2, <2>3
<1>6. CASE Allow(r)
  <2>1. phase'[r] \in {"chat", "open"}
    BY <1>0, <1>6 DEF Allow, Goto
  <2> QED
    BY <1>1, <1>6, <2>1
<1>7. CASE Chat(r) \/ OpenFails(r) \/ OpenStream(r) \/ EndStream(r)
  BY <1>0, <1>7 DEF Chat, OpenFails, OpenStream, EndStream, Allow, Goto, Decide
<1>8. CASE Models(r)
  BY <1>0, <1>8 DEF Models, Allow, Goto, Decide, Fits, Undecided
<1>9. CASE Count(r) \/ LogAudit(r) \/ Reply(r)
  <2>1. phase[r] \in {"count", "audit", "reply"} /\ path' = path
    BY <1>9 DEF Count, LogAudit, Reply
  <2>2. phase'[r] \in {"count", "audit", "reply", "leave"}
    <3>1. CASE Count(r)
      <4>1. phase[r] = "count" /\ phase' = [phase EXCEPT ![r] = After[path[r]].count]
        BY <3>1 DEF Count, Goto
      <4> QED
        BY <1>0, <4>1, Tables DEF Fits
    <3>2. CASE LogAudit(r)
      <4>1. phase[r] = "audit" /\ phase' = [phase EXCEPT ![r] = After[path[r]].audit]
        BY <3>2 DEF LogAudit, Goto
      <4> QED
        BY <1>0, <4>1, Tables DEF Fits
    <3>3. CASE Reply(r)
      <4>1. phase[r] = "reply" /\ phase' = [phase EXCEPT ![r] = After[path[r]].reply]
        BY <3>3 DEF Reply, Goto
      <4> QED
        BY <1>0, <4>1, Tables DEF Fits
    <3> QED
      BY <1>9, <3>1, <3>2, <3>3
  <2> QED
    BY <2>1, <2>2 DEF Allow
<1>10. CASE Leave(r) \/ Tally(r)
  BY <1>0, <1>10 DEF Leave, Tally, Allow, Goto
<1>11. ASSUME ~Arrive(r), ~Serve(r) PROVE (LetThrough(r)' <=> LetThrough(r)) /\ ~Allow(r)
  <2>1. ASSUME NEW q \in Requests \ {r}, Arrive(q) \/ Serve(q) PROVE LetThrough(r)' <=> LetThrough(r)
    <3>1. phase'[r] = phase[r] /\ path'[r] = path[r]
      BY <1>0, <2>1, OthersStay DEF Others
    <3> QED
      BY <3>1
  <2>2. ASSUME \/ \E t \in Tokens \cup {NoToken} : Rotate(t)
               \/ \E c \in Callers : Refill(c)
               \/ Idle \/ UNCHANGED vars
        PROVE  UNCHANGED requestVars
    BY <2>2 DEF Rotate, Refill, Idle, vars
  <2> QED
    BY <1>11, <2>1, <2>2 DEF Next, requestVars, Serve
<1> QED
  BY <1>1, <1>2, <1>3, <1>4, <1>5, <1>6, <1>7, <1>8, <1>9, <1>10, <1>11 DEF Serve

LEMMA AdmittedAre ==
    ASSUME NEW c \in Callers
    PROVE  /\ Admitted(c) = {r \in Requests : LetThrough(r) /\ Principal(r) = c}
           /\ Admitted(c)' = {r \in Requests : LetThrough(r)' /\ Principal(r) = c}
  BY DEF Admitted, LetThrough, Principal, TokenOf

\* What is in a bucket and what was taken from it is what was put into it.
Paid(c) == bucket[c] + Cardinality(Admitted(c)) = PerMinute + refilled[c]

Turned(c) ==
    \E r \in Requests : phase[r] \notin {"past", "lost"} /\ path[r] = "limited" /\ Principal(r) = c

Account == LimiterEnabled =>
    \A c \in Callers : Paid(c) /\ (Turned(c) => Cardinality(Admitted(c)) >= PerMinute)

LEMMA StepAccount == Inv /\ Account /\ [Next]_vars => Account'
<1> SUFFICES ASSUME Inv, Account, [Next]_vars, LimiterEnabled, NEW c \in Callers
             PROVE  Paid(c)' /\ (Turned(c)' => Cardinality(Admitted(c))' >= PerMinute)
  BY DEF Account, LimiterEnabled
<1>0. /\ TypeOK /\ Paid(c) /\ (Turned(c) => Cardinality(Admitted(c)) >= PerMinute)
      /\ bucket \in [Callers -> 0..PerMinute] /\ refilled \in [Callers -> Nat] /\ PerMinute \in Nat
      /\ phase \in [Requests -> Phases] /\ path \in [Requests -> Paths]
      /\ Admitted(c) \subseteq Requests /\ Cardinality(Admitted(c)) \in Nat
  BY LimitAssumption, FiniteRequests DEF Inv, TypeOK, Account, Admitted
<1> HIDE DEF Admitted
<1>1. ASSUME NEW r \in Requests, Allow(r)
      PROVE  Paid(c)' /\ (Turned(c)' => Cardinality(Admitted(c))' >= PerMinute)
  <2>1. /\ bucket[BucketOf(r)] > 0 /\ bucket' = [bucket EXCEPT ![BucketOf(r)] = @ - 1]
        /\ refilled' = refilled /\ phase[r] = "limit" /\ path' = path /\ ~Crash
        /\ phase' = [phase EXCEPT ![r] = IF r.stream THEN "open" ELSE "chat"]
    BY <1>0, <1>1 DEF Allow, boundVars, LimiterEnabled, Crash, Goto
  <2>2. BucketOf(r) = Principal(r) /\ Principal(r) \in Callers
    BY SameCaller
  <2>3. \A q \in Requests : q # r => (LetThrough(q)' <=> LetThrough(q))
    BY <1>0, <2>1 DEF LetThrough
  <2>4. LetThrough(r)' /\ ~LetThrough(r)
    BY <1>1, <2>1, LetThroughByAllow
  <2>5. Turned(c)' => Turned(c)
    BY <1>0, <2>1 DEF Turned, Principal, TokenOf
  <2>6. CASE c = Principal(r)
    <3>1. r \notin Admitted(c) /\ Admitted(c)' = Admitted(c) \cup {r}
      BY <2>3, <2>4, <2>6, AdmittedAre
    <3>2. Cardinality(Admitted(c)') = Cardinality(Admitted(c)) + 1
      BY <1>0, <3>1, GainOne
    <3>3. bucket'[c] = bucket[c] - 1
      BY <1>0, <2>1, <2>2, <2>6
    <3> QED
      BY <1>0, <2>1, <2>5, <3>2, <3>3 DEF Paid
  <2>7. CASE c # Principal(r)
    <3>1. Admitted(c)' = Admitted(c)
      BY <2>3, <2>7, AdmittedAre
    <3>2. bucket'[c] = bucket[c]
      BY <1>0, <2>1, <2>2, <2>7
    <3> QED
      BY <1>0, <2>1, <2>5, <3>1, <3>2 DEF Paid
  <2> QED
    BY <2>6, <2>7
<1>2. ASSUME \A r \in Requests : ~Allow(r), ~Crash PROVE Admitted(c)' = Admitted(c)
  BY <1>2, LetThroughByAllow, AdmittedAre
<1>3. ASSUME NEW r \in Requests, Limit(r)
      PROVE  Paid(c)' /\ (Turned(c)' => Cardinality(Admitted(c))' >= PerMinute)
  <2>1. /\ bucket[BucketOf(r)] = 0 /\ bucket' = bucket /\ refilled' = refilled
        /\ phase[r] = "limit" /\ phase' = [phase EXCEPT ![r] = "count"]
        /\ path' = [path EXCEPT ![r] = "limited"] /\ crashes' = crashes
    BY ONLY <1>3 DEF Limit, Decide, Goto, boundVars
  <2>0. ~Crash
    BY <1>0, <2>1 DEF Crash, TypeOK
  <2>2. BucketOf(r) = Principal(r) /\ Principal(r) \in Callers
    BY SameCaller
  <2>3. \A q \in Requests : LetThrough(q)' <=> LetThrough(q)
    <3>1. \A q \in Requests : ~Allow(q)
      BY <1>0, <2>1 DEF Allow, Goto
    <3> QED
      BY <2>0, <3>1, LetThroughByAllow
  <2>4. Admitted(c)' = Admitted(c)
    BY <2>3, AdmittedAre
  <2>5. Paid(c)'
    BY <1>0, <2>1, <2>4 DEF Paid
  <2>6. CASE c = Principal(r)
    <3>1. Cardinality(Admitted(c)) >= PerMinute
      BY <1>0, <2>1, <2>2, <2>6 DEF Paid
    <3> QED
      BY <2>4, <2>5, <3>1
  <2>7. CASE c # Principal(r)
    <3>1. Turned(c)' => Turned(c)
      BY <1>0, <2>1, <2>7 DEF Turned, Principal, TokenOf
    <3> QED
      BY <1>0, <2>4, <2>5, <3>1
  <2> QED
    BY <2>6, <2>7
<1>4. ASSUME NEW r \in Requests, Arrive(r) \/ (Serve(r) /\ ~Allow(r) /\ ~Limit(r))
      PROVE  Paid(c)' /\ (Turned(c)' => Cardinality(Admitted(c))' >= PerMinute)
  <2>1. bucket' = bucket /\ refilled' = refilled /\ crashes' = crashes
    BY <1>4 DEF Arrive, Serve, Pass, Deny, RejectBody, AcceptBody, Chat, OpenFails,
       OpenStream, EndStream, Models, Count, LogAudit, Reply, Leave, Tally, boundVars
  <2>2. ~Crash
    BY <1>0, <2>1 DEF Crash, TypeOK
  <2>3. Admitted(c)' = Admitted(c)
    <3>1. \A q \in Requests : ~Allow(q)
      BY <1>0, <2>1, SameCaller DEF Allow
    <3> QED
      BY <1>2, <2>2, <3>1
  <2>4. Turned(c)' => Turned(c)
    <3>1. ASSUME NEW q \in Requests, phase'[q] \notin {"past", "lost"}, path'[q] = "limited"
          PROVE  phase[q] \notin {"past", "lost"} /\ path[q] = "limited"
      <4>1. CASE q # r
        BY <1>0, <1>4, <3>1, <4>1, OthersStay DEF Others
      <4>2. CASE q = r
        <5>1. phase[r] \notin {"past", "lost"}
          BY <1>4 DEF Arrive, Serve, Pass, Deny, RejectBody, AcceptBody, Chat, OpenFails,
             OpenStream, EndStream, Models, Count, LogAudit, Reply, Leave, Tally
        <5>2. CASE path' = path
          BY <3>1, <4>2, <5>1, <5>2
        <5>3. CASE \E p \in Paths \ {"limited"} : path' = [path EXCEPT ![r] = p]
          BY <1>0, <3>1, <4>2, <5>3
        <5>4. path' = path \/ \E p \in Paths \ {"limited"} : path' = [path EXCEPT ![r] = p]
          <6>1. CASE Arrive(r) \/ Pass(r)
            BY ONLY <6>1, Tables DEF Arrive, Pass, Decide
          <6>2. CASE Deny(r) \/ RejectBody(r)
            BY ONLY <6>2, Tables DEF Deny, RejectBody, Decide
          <6>3. CASE Chat(r) \/ OpenFails(r)
            BY ONLY <6>3, Tables DEF Chat, OpenFails, Decide
          <6>4. CASE OpenStream(r) \/ EndStream(r) \/ Models(r)
            BY ONLY <6>4, Tables DEF OpenStream, EndStream, Models, Decide
          <6>5. CASE AcceptBody(r) \/ Count(r) \/ LogAudit(r) \/ Reply(r) \/ Leave(r) \/ Tally(r)
            BY ONLY <6>5 DEF AcceptBody, Count, LogAudit, Reply, Leave, Tally
          <6> QED
            BY ONLY <1>4, <6>1, <6>2, <6>3, <6>4, <6>5 DEF Serve
        <5> QED
          BY <5>2, <5>3, <5>4
      <4> QED
        BY <4>1, <4>2
    <3> QED
      BY <3>1 DEF Turned, Principal, TokenOf
  <2> QED
    BY <1>0, <2>1, <2>3, <2>4 DEF Paid
<1>5. CASE Crash
  <2>1. bucket'[c] = PerMinute /\ refilled'[c] = 0
    BY <1>5 DEF Crash
  <2>2. \A r \in Requests : phase'[r] \in {"idle", "past", "lost"}
                              /\ (phase'[r] = "idle" => phase[r] = "idle") /\ path'[r] = path[r]
    BY <1>5 DEF Crash
  <2>3. Admitted(c)' = {}
    BY <2>2, AdmittedAre DEF LetThrough
  <2>4. ~Turned(c)'
    BY <1>0, <2>2 DEF Turned, Inv, Fits, Undecided
  <2> QED
    BY <1>0, <2>1, <2>3, <2>4, FS_EmptySet DEF Paid
<1>6. ASSUME NEW d \in Callers, Refill(d)
      PROVE  Paid(c)' /\ (Turned(c)' => Cardinality(Admitted(c))' >= PerMinute)
  <2>1. /\ phase' = phase /\ path' = path
        /\ bucket' = [bucket EXCEPT ![d] = @ + 1] /\ refilled' = [refilled EXCEPT ![d] = @ + 1]
    BY <1>6 DEF Refill, requestVars
  <2>2. Admitted(c)' = Admitted(c) /\ (Turned(c)' <=> Turned(c))
    BY <2>1 DEF Admitted, Turned, Principal, TokenOf
  <2> QED
    BY <1>0, <2>1, <2>2 DEF Paid
<1>7. ASSUME (\E t \in Tokens \cup {NoToken} : Rotate(t)) \/ Idle \/ UNCHANGED vars
      PROVE  Paid(c)' /\ (Turned(c)' => Cardinality(Admitted(c))' >= PerMinute)
  <2>1. phase' = phase /\ path' = path /\ bucket' = bucket /\ refilled' = refilled
    BY <1>7 DEF Rotate, Idle, vars, requestVars, boundVars
  <2>2. Admitted(c)' = Admitted(c) /\ (Turned(c)' <=> Turned(c))
    BY <2>1 DEF Admitted, Turned, Principal, TokenOf
  <2> QED
    BY <1>0, <2>1, <2>2 DEF Paid
<1> QED
  BY <1>1, <1>3, <1>4, <1>5, <1>6, <1>7 DEF Next

\* Each caller pays for its own requests, once each, and is refused only when its
\* own bucket is used up.
THEOREM EveryCallerPays == Spec => []CallersPayForThemselves
<1>1. Init => Account
  <2> SUFFICES ASSUME Init, NEW c \in Callers
               PROVE  Paid(c) /\ ~Turned(c)
    BY DEF Account
  <2>1. Admitted(c) = {}
    BY DEF Init, Admitted
  <2> QED
    BY <2>1, FS_EmptySet, LimitAssumption DEF Init, Paid, Turned
<1>2. Account => CallersPayForThemselves
  BY DEF Account, CallersPayForThemselves, Paid, Turned
<1> QED
  BY <1>1, <1>2, InvHolds, StepAccount, PTL DEF Spec

-----------------------------------------------------------------------------
(* The three records: metrics, audit log, answers.                         *)

OutcomePaths == {"limited", "answered", "open_failed", "streamed", "cut"}

\* Once decided, the way a request ends stays, and its two entries are made by
\* Count and LogAudit.
LEMMA Decided ==
    ASSUME Inv, [Next]_vars, ~Crash, NEW r \in Requests
    PROVE  /\ path[r] = "plain" => path'[r] = "plain" \/ (phase'[r] = "count" /\ ~Count(r))
           /\ path[r] # "plain" =>
                 /\ path'[r] = path[r]
                 /\ phase'[r] = "count" <=> (phase[r] = "count" /\ ~Count(r))
           /\ path[r] \in OutcomePaths => (Unaudited(r)' <=> (Unaudited(r) /\ ~LogAudit(r)))
           /\ Count(r) => phase[r] = "count" /\ phase'[r] # "count"
<1> USE DEF Unaudited, Undecided, OutcomePaths
<1>0. /\ TypeOK /\ Fits(r) /\ phase \in [Requests -> Phases] /\ path \in [Requests -> Paths]
      /\ r.endpoint \in Endpoints
  BY RequestsAssumption DEF Inv, TypeOK
<1>1. CASE Arrive(r)
  BY <1>0, <1>1 DEF Arrive, Count, LogAudit, Goto, Fits
<1>2. CASE Pass(r)
  BY <1>0, <1>2, Entries DEF Pass, Count, LogAudit, Goto, Decide, Fits, Endpoints
<1>3. CASE Deny(r) \/ RejectBody(r)
  BY <1>0, <1>3 DEF Deny, RejectBody, Count, LogAudit, Goto, Decide, Fits
<1>4. CASE AcceptBody(r) \/ Allow(r)
  BY <1>0, <1>4 DEF AcceptBody, Allow, Count, LogAudit, Goto, Fits
<1>5. CASE Limit(r) \/ Chat(r)
  BY <1>0, <1>5 DEF Limit, Chat, Count, LogAudit, Goto, Decide, Fits
<1>6. CASE OpenFails(r) \/ OpenStream(r) \/ EndStream(r)
  BY <1>0, <1>6 DEF OpenFails, OpenStream, EndStream, Count, LogAudit, Goto, Decide, Fits
<1>7. CASE Models(r)
  BY <1>0, <1>7 DEF Models, Count, LogAudit, Goto, Decide, Fits
<1>8. CASE Count(r)
  <2>1. phase[r] = "count" /\ phase' = [phase EXCEPT ![r] = After[path[r]].count] /\ path' = path
    BY <1>8 DEF Count, Goto
  <2> QED
    BY <1>0, <1>8, <2>1, Tables DEF Fits, LogAudit
<1>9. CASE LogAudit(r)
  <2>1. phase[r] = "audit" /\ phase' = [phase EXCEPT ![r] = After[path[r]].audit] /\ path' = path
    BY <1>9 DEF LogAudit, Goto
  <2> QED
    BY <1>0, <1>9, <2>1, Tables DEF Fits, Count
<1>10. CASE Reply(r)
  <2>1. phase[r] = "reply" /\ phase' = [phase EXCEPT ![r] = After[path[r]].reply] /\ path' = path
    BY <1>10 DEF Reply, Goto
  <2> QED
    BY <1>0, <2>1, Tables DEF Fits, Count, LogAudit
<1>11. CASE Leave(r) \/ Tally(r)
  BY <1>0, <1>11 DEF Leave, Tally, Count, LogAudit, Goto, Fits
<1>12. ASSUME ~Arrive(r), ~Serve(r)
       PROVE  phase'[r] = phase[r] /\ path'[r] = path[r] /\ ~Count(r) /\ ~LogAudit(r)
  <2>1. ASSUME NEW q \in Requests \ {r}, Arrive(q) \/ Serve(q)
        PROVE  phase'[r] = phase[r] /\ path'[r] = path[r]
    BY <1>0, <2>1, OthersStay DEF Others
  <2>2. ASSUME \/ \E t \in Tokens \cup {NoToken} : Rotate(t)
               \/ \E c \in Callers : Refill(c)
               \/ Idle \/ UNCHANGED vars
        PROVE  UNCHANGED requestVars
    BY <2>2 DEF Rotate, Refill, Idle, vars
  <2> QED
    BY <1>12, <2>1, <2>2 DEF Next, requestVars, Serve
<1> QED
  BY <1>0, <1>1, <1>2, <1>3, <1>4, <1>5, <1>6, <1>7, <1>8, <1>9, <1>10, <1>11, <1>12 DEF Serve

\* The requests of some paths that are in the metrics, and in the audit log.
Counted(P) == {r \in Requests : path[r] \in P /\ phase[r] # "count"}

Audited(P) == {r \in Requests : path[r] \in P /\ ~Unaudited(r)}

LEMMA CountedStep ==
    ASSUME Inv, [Next]_vars, ~Crash, NEW P, P \subseteq Paths \ {"plain"}
    PROVE  /\ (\A r \in Requests : ~Count(r)) => Counted(P)' = Counted(P)
           /\ \A r \in Requests : Count(r) =>
                  /\ path[r] \in P => r \notin Counted(P) /\ Counted(P)' = Counted(P) \cup {r}
                  /\ path[r] \notin P => Counted(P)' = Counted(P)
<1>1. ASSUME NEW r \in Requests
      PROVE  /\ r \in Counted(P)' <=> path'[r] \in P /\ phase'[r] # "count"
             /\ r \in Counted(P) <=> path[r] \in P /\ phase[r] # "count"
  BY DEF Counted
<1>2. ASSUME NEW r \in Requests
      PROVE  r \in Counted(P)' <=> r \in Counted(P) \/ (Count(r) /\ path[r] \in P)
  BY <1>1, Decided
<1>3. ASSUME NEW r \in Requests, Count(r) PROVE \A q \in Requests \ {r} : ~Count(q)
  <2>1. TypeOK
    BY DEF Inv
  <2>2. phase'[r] # phase[r]
    BY <1>3, Decided
  <2>3. ASSUME NEW q \in Requests \ {r}, Count(q) PROVE FALSE
    BY <2>1, <2>2, <2>3, OthersStay DEF Others, Serve
  <2> QED
    BY <2>3
<1>4. Counted(P) \subseteq Requests /\ Counted(P)' \subseteq Requests
  BY DEF Counted
<1>5. ASSUME NEW r \in Requests, Count(r)
      PROVE  /\ path[r] \in P => r \notin Counted(P) /\ Counted(P)' = Counted(P) \cup {r}
             /\ path[r] \notin P => Counted(P)' = Counted(P)
  <2>1. r \notin Counted(P)
    BY <1>1, <1>5, Decided
  <2> HIDE DEF Counted
  <2> QED
    BY <1>2, <1>3, <1>4, <1>5, <2>1
<1> HIDE DEF Counted
<1> QED
  BY <1>2, <1>4, <1>5

LEMMA AuditedStep ==
    ASSUME Inv, [Next]_vars, ~Crash, NEW P, P \subseteq OutcomePaths
    PROVE  /\ (\A r \in Requests : ~LogAudit(r)) => Audited(P)' = Audited(P)
           /\ \A r \in Requests : LogAudit(r) =>
                  /\ path[r] \in P => r \notin Audited(P) /\ Audited(P)' = Audited(P) \cup {r}
                  /\ path[r] \notin P => Audited(P)' = Audited(P)
<1>1. ASSUME NEW r \in Requests
      PROVE  /\ r \in Audited(P)' <=> path'[r] \in P /\ ~Unaudited(r)'
             /\ r \in Audited(P) <=> path[r] \in P /\ ~Unaudited(r)
  BY DEF Audited
<1>2. ASSUME NEW r \in Requests
      PROVE  r \in Audited(P)' <=> r \in Audited(P) \/ (LogAudit(r) /\ path[r] \in P)
  <2>1. phase'[r] = "count" => Unaudited(r)'
    BY DEF Unaudited
  <2>2. LogAudit(r) => Unaudited(r)
    BY DEF LogAudit, Unaudited
  <2> QED
    BY <1>1, <2>1, <2>2, Decided DEF OutcomePaths
<1>3. ASSUME NEW r \in Requests, LogAudit(r) PROVE \A q \in Requests \ {r} : ~LogAudit(q)
  <2>1. TypeOK /\ Fits(r) /\ phase \in [Requests -> Phases]
    BY DEF Inv, TypeOK
  <2>2. phase'[r] # phase[r]
    <3>1. phase[r] = "audit" /\ phase' = [phase EXCEPT ![r] = After[path[r]].audit]
      BY <1>3 DEF LogAudit, Goto
    <3> QED
      BY <2>1, <3>1, Tables DEF Fits
  <2>3. ASSUME NEW q \in Requests \ {r}, LogAudit(q) PROVE FALSE
    BY <2>1, <2>2, <2>3, OthersStay DEF Others, Serve
  <2> QED
    BY <2>3
<1>4. Audited(P) \subseteq Requests /\ Audited(P)' \subseteq Requests
  BY DEF Audited
<1>5. ASSUME NEW r \in Requests, LogAudit(r)
      PROVE  /\ path[r] \in P => r \notin Audited(P) /\ Audited(P)' = Audited(P) \cup {r}
             /\ path[r] \notin P => Audited(P)' = Audited(P)
  <2>1. r \notin Audited(P)
    BY <1>1, <1>5 DEF LogAudit, Unaudited
  <2> HIDE DEF Audited
  <2> QED
    BY <1>2, <1>3, <1>4, <1>5, <2>1
<1> HIDE DEF Audited
<1> QED
  BY <1>2, <1>4, <1>5

\* The counters move with the requests that are counted, and only with them.
LEMMA CountersStep ==
    ASSUME Inv, [Next]_vars, ~Crash
    PROVE  /\ (\A r \in Requests : ~Count(r)) =>
                  rateLimited' = rateLimited /\ usage' = usage /\ upstreamErrors' = upstreamErrors
           /\ \A r \in Requests : Count(r) =>
                  /\ path[r] \in {"limited", "answered", "chat_failed", "open_failed", "streamed", "cut"}
                  /\ rateLimited' = IF path[r] = "limited" THEN rateLimited + 1 ELSE rateLimited
                  /\ usage' = IF path[r] \in {"answered", "streamed"} THEN usage + 1 ELSE usage
                  /\ upstreamErrors'["chat_stream"] =
                         IF path[r] \in {"open_failed", "cut"} THEN upstreamErrors["chat_stream"] + 1
                         ELSE upstreamErrors["chat_stream"]
<1>1. ASSUME NEW r \in Requests, Arrive(r) \/ (Serve(r) /\ ~Count(r))
      PROVE  rateLimited' = rateLimited /\ usage' = usage /\ upstreamErrors' = upstreamErrors
  BY <1>1 DEF Arrive, Serve, Pass, Deny, RejectBody, AcceptBody, Allow, Limit, Chat,
     OpenFails, OpenStream, EndStream, Models, LogAudit, Reply, Leave, Tally, metricVars
<1>2. ASSUME \/ \E t \in Tokens \cup {NoToken} : Rotate(t)
             \/ \E c \in Callers : Refill(c)
             \/ Idle \/ UNCHANGED vars
      PROVE  rateLimited' = rateLimited /\ usage' = usage /\ upstreamErrors' = upstreamErrors
  BY <1>2 DEF Rotate, Refill, Idle, vars, metricVars
<1>3. ASSUME NEW r \in Requests, Count(r)
      PROVE  /\ path[r] \in {"limited", "answered", "chat_failed", "open_failed", "streamed", "cut"}
             /\ rateLimited' = IF path[r] = "limited" THEN rateLimited + 1 ELSE rateLimited
             /\ usage' = IF path[r] \in {"answered", "streamed"} THEN usage + 1 ELSE usage
             /\ upstreamErrors'["chat_stream"] =
                    IF path[r] \in {"open_failed", "cut"} THEN upstreamErrors["chat_stream"] + 1
                    ELSE upstreamErrors["chat_stream"]
  <2>0. path \in [Requests -> Paths] /\ path[r] # "plain" /\ upstreamErrors \in [Ops -> Nat]
    BY <1>3 DEF Inv, TypeOK, Fits, Count
  <2>1. path[r] \in {"limited", "answered", "chat_failed", "open_failed", "streamed", "cut"}
    BY <2>0, Tables
  <2>2. CASE path[r] = "chat_failed"
    BY <1>3, <2>0, <2>2 DEF Count, Ops
  <2>3. CASE path[r] \in {"open_failed", "cut"}
    BY <1>3, <2>0, <2>3 DEF Count, Ops
  <2>4. CASE path[r] \in {"limited", "answered", "streamed"}
    BY <1>3, <2>0, <2>4 DEF Count
  <2> QED
    BY <2>1, <2>2, <2>3, <2>4
<1> QED
  BY <1>1, <1>2, <1>3 DEF Next

LinesWith(o) == {i \in DOMAIN auditLog : auditLog[i].outcome = o}

LEMMA LinesAre ==
    /\ \A o : Logged(o) = Cardinality(LinesWith(o))
    /\ \A o : Logged(o)' = Cardinality(LinesWith(o)')
  BY DEF Logged, LinesWith

\* The audit log of one outcome moves with the requests that are audited.
LEMMA LoggedStep ==
    ASSUME Inv, [Next]_vars, ~SinkFails, NEW o
    PROVE  /\ (\A r \in Requests : ~LogAudit(r)) => Logged(o)' = Logged(o)
           /\ \A r \in Requests : LogAudit(r) =>
                  /\ path[r] \in OutcomePaths
                  /\ Outcome[path[r]] = o => Logged(o)' = Logged(o) + 1
                  /\ Outcome[path[r]] # o => Logged(o)' = Logged(o)
<1>0. auditLog \in Seq(LineSet)
  BY DEF Inv, TypeOK, LineSet
<1>1. ASSUME \A r \in Requests : ~LogAudit(r) PROVE Logged(o)' = Logged(o)
  BY <1>1, LogGrows DEF Logged
<1>2. ASSUME NEW r \in Requests, LogAudit(r)
      PROVE  /\ path[r] \in OutcomePaths
             /\ Outcome[path[r]] = o => Logged(o)' = Logged(o) + 1
             /\ Outcome[path[r]] # o => Logged(o)' = Logged(o)
  <2> DEFINE l == AuditLine(r)
             n == Len(auditLog)
  <2>1. path[r] \in OutcomePaths
    BY <1>2 DEF LogAudit, Inv, Fits, OutcomePaths
  <2>2. auditLog' = Append(auditLog, l)
    BY <1>2 DEF LogAudit
  <2>3. l.outcome = Outcome[path[r]]
    BY DEF AuditLine
  <2> HIDE DEF l
  <2>4. /\ DOMAIN auditLog' = 1..n + 1 /\ DOMAIN auditLog = 1..n /\ n \in Nat
        /\ auditLog'[n + 1] = l
        /\ \A i \in DOMAIN auditLog : i \in DOMAIN auditLog' /\ auditLog'[i] = auditLog[i]
        /\ \A i \in DOMAIN auditLog' : i = n + 1 \/ i \in DOMAIN auditLog
    BY <1>0, <2>2, Appended
  <2> HIDE DEF n
  <2>5. IsFiniteSet(LinesWith(o)) /\ n + 1 \notin LinesWith(o)
    <3>1. IsFiniteSet(1..n) /\ LinesWith(o) \subseteq 1..n /\ n + 1 \notin 1..n
      BY <2>4, FS_Interval DEF LinesWith
    <3> QED
      BY <3>1, FS_Subset
  <2>6. CASE Outcome[path[r]] = o
    <3>1. LinesWith(o)' = LinesWith(o) \cup {n + 1}
      BY <2>3, <2>4, <2>6 DEF LinesWith
    <3>2. Cardinality(LinesWith(o) \cup {n + 1}) = Cardinality(LinesWith(o)) + 1
      BY <2>5, FS_AddElement
    <3> QED
      BY <2>1, <2>6, <3>1, <3>2, LinesAre
  <2>7. CASE Outcome[path[r]] # o
    <3>1. LinesWith(o)' = LinesWith(o)
      BY <2>3, <2>4, <2>7 DEF LinesWith
    <3> QED
      BY <2>1, <2>7, <3>1, LinesAre
  <2> QED
    BY <2>6, <2>7
<1> QED
  BY <1>1, <1>2

\* A record that moves with a set of requests is as large as that set.
Books == crashes = 0 =>
    /\ \A r \in Requests : phase[r] \notin {"past", "lost"}
    /\ rateLimited = Cardinality(Counted({"limited"}))
    /\ usage = Cardinality(Counted({"answered", "streamed"}))
    /\ upstreamErrors["chat_stream"] = Cardinality(Counted({"open_failed", "cut"}))
    /\ Logged("rate_limited") = Cardinality(Audited({"limited"}))
    /\ Logged("ok") = Cardinality(Audited({"answered", "streamed"}))
    /\ Logged("error") = Cardinality(Audited({"open_failed", "cut"}))

LEMMA CountsKeepStep ==
    ASSUME Inv, [Next]_vars, ~Crash, NEW P, P \subseteq Paths \ {"plain"}, NEW n, NEW m,
           n = Cardinality(Counted(P)),
           (\A r \in Requests : ~Count(r)) => m = n,
           \A r \in Requests : Count(r) => m = IF path[r] \in P THEN n + 1 ELSE n
    PROVE  m = Cardinality(Counted(P)')
<1>1. CASE \A r \in Requests : ~Count(r)
  BY <1>1, CountedStep
<1>2. ASSUME NEW r \in Requests, Count(r) PROVE m = Cardinality(Counted(P)')
  <2>1. CASE path[r] \in P
    <3>1. r \notin Counted(P) /\ Counted(P)' = Counted(P) \cup {r}
      BY <1>2, <2>1, CountedStep
    <3>2. Counted(P) \subseteq Requests
      BY DEF Counted
    <3>3. Cardinality(Counted(P)') = Cardinality(Counted(P)) + 1
      BY <3>1, <3>2, GainOne
    <3> QED
      BY <1>2, <2>1, <3>3
  <2>2. CASE path[r] \notin P
    BY <1>2, <2>2, CountedStep
  <2> QED
    BY <2>1, <2>2
<1> QED
  BY <1>1, <1>2

LEMMA AuditKeepsStep ==
    ASSUME Inv, [Next]_vars, ~Crash, ~SinkFails, NEW P, P \subseteq OutcomePaths, NEW o,
           \A p \in OutcomePaths : Outcome[p] = o <=> p \in P,
           Logged(o) = Cardinality(Audited(P))
    PROVE  Logged(o)' = Cardinality(Audited(P)')
<1>1. CASE \A r \in Requests : ~LogAudit(r)
  BY <1>1, LoggedStep, AuditedStep
<1>2. ASSUME NEW r \in Requests, LogAudit(r) PROVE Logged(o)' = Cardinality(Audited(P)')
  <2>0. path[r] \in OutcomePaths
    BY <1>2, LoggedStep
  <2>1. CASE path[r] \in P
    <3>1. r \notin Audited(P) /\ Audited(P)' = Audited(P) \cup {r}
      BY <1>2, <2>1, AuditedStep
    <3>2. Audited(P) \subseteq Requests
      BY DEF Audited
    <3>3. Cardinality(Audited(P)') = Cardinality(Audited(P)) + 1
      BY <3>1, <3>2, GainOne
    <3>4. Logged(o)' = Logged(o) + 1
      BY <1>2, <2>0, <2>1, LoggedStep
    <3> QED
      BY <3>3, <3>4
  <2>2. CASE path[r] \notin P
    <3>1. Audited(P)' = Audited(P)
      BY <1>2, <2>2, AuditedStep
    <3>2. Logged(o)' = Logged(o)
      BY <1>2, <2>0, <2>2, LoggedStep
    <3> QED
      BY <3>1, <3>2
  <2> QED
    BY <2>1, <2>2
<1> QED
  BY <1>1, <1>2

LEMMA StepBooks == ~SinkFails /\ Inv /\ Books /\ [Next]_vars => Books'
<1> SUFFICES ASSUME ~SinkFails, Inv, Books, [Next]_vars, crashes' = 0 PROVE
         /\ \A r \in Requests : phase'[r] \notin {"past", "lost"}
         /\ rateLimited' = Cardinality(Counted({"limited"})')
         /\ usage' = Cardinality(Counted({"answered", "streamed"})')
         /\ upstreamErrors'["chat_stream"] = Cardinality(Counted({"open_failed", "cut"})')
         /\ Logged("rate_limited")' = Cardinality(Audited({"limited"})')
         /\ Logged("ok")' = Cardinality(Audited({"answered", "streamed"})')
         /\ Logged("error")' = Cardinality(Audited({"open_failed", "cut"})')
  BY DEF Books
<1>0. crashes = 0 /\ ~Crash /\ TypeOK /\ phase \in [Requests -> Phases]
  <2>1. crashes \in Nat /\ TypeOK /\ phase \in [Requests -> Phases]
    BY DEF Inv, TypeOK
  <2>2. ~Crash
    BY <2>1 DEF Crash
  <2>3. crashes' = crashes
    <3>1. ASSUME NEW r \in Requests, Arrive(r) \/ Serve(r) PROVE crashes' = crashes
      BY <3>1 DEF Arrive, Serve, Pass, Deny, RejectBody, AcceptBody, Allow, Limit, Chat,
         OpenFails, OpenStream, EndStream, Models, Count, LogAudit, Reply, Leave, Tally, boundVars
    <3>2. ASSUME \/ \E t \in Tokens \cup {NoToken} : Rotate(t)
                 \/ \E c \in Callers : Refill(c)
                 \/ Idle \/ UNCHANGED vars
          PROVE  crashes' = crashes
      BY <3>2 DEF Rotate, Refill, Idle, vars, boundVars
    <3> QED
      BY <2>2, <3>1, <3>2 DEF Next
  <2> QED
    BY <2>1, <2>2, <2>3
<1>1. /\ \A r \in Requests : phase[r] \notin {"past", "lost"}
      /\ rateLimited = Cardinality(Counted({"limited"}))
      /\ usage = Cardinality(Counted({"answered", "streamed"}))
      /\ upstreamErrors["chat_stream"] = Cardinality(Counted({"open_failed", "cut"}))
      /\ Logged("rate_limited") = Cardinality(Audited({"limited"}))
      /\ Logged("ok") = Cardinality(Audited({"answered", "streamed"}))
      /\ Logged("error") = Cardinality(Audited({"open_failed", "cut"}))
  BY <1>0 DEF Books
<1>2. ASSUME NEW r \in Requests PROVE phase'[r] \notin {"past", "lost"}
  <2>1. ASSUME NEW q \in Requests, Arrive(q) \/ Serve(q) PROVE phase'[r] \notin {"past", "lost"}
    <3>1. CASE q # r
      BY <1>0, <1>1, <2>1, <3>1, OthersStay DEF Others
    <3>2. CASE q = r
      <4>1. CASE Arrive(r)
        BY <1>0, <4>1 DEF Arrive, Goto
      <4>2. CASE Tally(r)
        BY <1>0, <4>2 DEF Tally, Goto
      <4>3. CASE Serve(r) /\ ~Tally(r)
        BY <4>3, Moves
      <4> QED
        BY <2>1, <3>2, <4>1, <4>2, <4>3
    <3> QED
      BY <3>1, <3>2
  <2>2. ASSUME \/ \E t \in Tokens \cup {NoToken} : Rotate(t)
               \/ \E c \in Callers : Refill(c)
               \/ Idle \/ UNCHANGED vars
        PROVE  phase' = phase
    BY <2>2 DEF Rotate, Refill, Idle, vars, requestVars
  <2> QED
    BY <1>0, <1>1, <2>1, <2>2 DEF Next
<1>3. /\ {"limited"} \subseteq Paths \ {"plain"} /\ {"answered", "streamed"} \subseteq Paths \ {"plain"}
      /\ {"open_failed", "cut"} \subseteq Paths \ {"plain"}
  BY Tables
<1>4. rateLimited' = Cardinality(Counted({"limited"})')
  <2>1. (\A r \in Requests : ~Count(r)) => rateLimited' = rateLimited
    BY <1>0, CountersStep
  <2>2. \A r \in Requests : Count(r) =>
            rateLimited' = IF path[r] \in {"limited"} THEN rateLimited + 1 ELSE rateLimited
    BY <1>0, CountersStep
  <2> QED
    BY <1>0, <1>1, <1>3, <2>1, <2>2, CountsKeepStep
<1>5. usage' = Cardinality(Counted({"answered", "streamed"})')
  <2>1. (\A r \in Requests : ~Count(r)) => usage' = usage
    BY <1>0, CountersStep
  <2>2. \A r \in Requests : Count(r) =>
            usage' = IF path[r] \in {"answered", "streamed"} THEN usage + 1 ELSE usage
    BY <1>0, CountersStep
  <2> QED
    BY <1>0, <1>1, <1>3, <2>1, <2>2, CountsKeepStep
<1>6. upstreamErrors'["chat_stream"] = Cardinality(Counted({"open_failed", "cut"})')
  <2>1. (\A r \in Requests : ~Count(r)) => upstreamErrors'["chat_stream"] = upstreamErrors["chat_stream"]
    BY <1>0, CountersStep
  <2>2. \A r \in Requests : Count(r) =>
            upstreamErrors'["chat_stream"] = IF path[r] \in {"open_failed", "cut"}
                                             THEN upstreamErrors["chat_stream"] + 1
                                             ELSE upstreamErrors["chat_stream"]
    BY <1>0, CountersStep
  <2> QED
    BY <1>0, <1>1, <1>3, <2>1, <2>2, CountsKeepStep
<1>7. Logged("rate_limited")' = Cardinality(Audited({"limited"})')
  <2>1. \A p \in OutcomePaths : Outcome[p] = "rate_limited" <=> p \in {"limited"}
    BY Outcomes DEF OutcomePaths
  <2>2. {"limited"} \subseteq OutcomePaths
    BY DEF OutcomePaths
  <2> QED
    BY <1>0, <1>1, <2>1, <2>2, AuditKeepsStep
<1>8. Logged("ok")' = Cardinality(Audited({"answered", "streamed"})')
  <2>1. \A p \in OutcomePaths : Outcome[p] = "ok" <=> p \in {"answered", "streamed"}
    BY Outcomes DEF OutcomePaths
  <2>2. {"answered", "streamed"} \subseteq OutcomePaths
    BY DEF OutcomePaths
  <2> QED
    BY <1>0, <1>1, <2>1, <2>2, AuditKeepsStep
<1>9. Logged("error")' = Cardinality(Audited({"open_failed", "cut"})')
  <2>1. \A p \in OutcomePaths : Outcome[p] = "error" <=> p \in {"open_failed", "cut"}
    BY Outcomes DEF OutcomePaths
  <2>2. {"open_failed", "cut"} \subseteq OutcomePaths
    BY DEF OutcomePaths
  <2> QED
    BY <1>0, <1>1, <2>1, <2>2, AuditKeepsStep
<1> QED
  BY <1>2, <1>4, <1>5, <1>6, <1>7, <1>8, <1>9

LEMMA InitBooks == Init => Books
<1> SUFFICES ASSUME Init PROVE Books
  OBVIOUS
<1>1. \A P : P \subseteq Paths \ {"plain"} => Counted(P) = {} /\ Audited(P) = {}
  BY DEF Init, Counted, Audited
<1>2. \A o : LinesWith(o) = {}
  BY DEF Init, LinesWith
<1>3. /\ Cardinality(Counted({"limited"})) = 0 /\ Cardinality(Counted({"answered", "streamed"})) = 0
      /\ Cardinality(Counted({"open_failed", "cut"})) = 0
      /\ Cardinality(Audited({"limited"})) = 0 /\ Cardinality(Audited({"answered", "streamed"})) = 0
      /\ Cardinality(Audited({"open_failed", "cut"})) = 0
  BY <1>1, FS_EmptySet, Tables
<1>4. \A o : Logged(o) = 0
  BY <1>2, FS_EmptySet, LinesAre
<1>5. \A r \in Requests : phase[r] = "idle"
  BY DEF Init
<1>6. rateLimited = 0 /\ usage = 0 /\ upstreamErrors["chat_stream"] = 0
  BY DEF Init, ZeroErrors, Ops
<1> QED
  BY <1>3, <1>4, <1>5, <1>6 DEF Books

\* Set inclusion orders the sizes of the sets of requests.
LEMMA NoMore ==
    ASSUME NEW S, NEW T, S \subseteq T, T \subseteq Requests
    PROVE  Cardinality(S) <= Cardinality(T)
  BY FiniteRequests, FS_Subset

LEMMA BooksAgree == Inv /\ Books => RecordsAgree
<1> SUFFICES ASSUME Inv, Books, crashes = 0
             PROVE  /\ Logged("rate_limited") <= rateLimited
                    /\ Sent(429) <= Logged("rate_limited")
                    /\ Settled => /\ Sent(429) = rateLimited /\ Logged("rate_limited") = rateLimited
                                  /\ Logged("ok") = usage
                                  /\ Logged("error") = upstreamErrors["chat_stream"]
  BY DEF RecordsAgree
<1> DEFINE Refused == {r \in Requests : wire[r] = 429}
<1>0. /\ \A r \in Requests : phase[r] \notin {"past", "lost"} /\ Fits(r) /\ Committed(r)
      /\ phase \in [Requests -> Phases] /\ path \in [Requests -> Paths]
  BY DEF Books, Inv, TypeOK
<1>1. Audited({"limited"}) \subseteq Counted({"limited"}) /\ Counted({"limited"}) \subseteq Requests
  BY DEF Audited, Counted, Unaudited
<1>2. Refused \subseteq Audited({"limited"})
  <2>1. ASSUME NEW r \in Requests, wire[r] = 429 PROVE path[r] = "limited" /\ ~Unaudited(r)
    <3>1. path[r] \notin {"streamed", "cut"}
      BY <1>0, <2>1 DEF Committed
    <3>2. path[r] # "plain"
      BY <1>0, <2>1 DEF Committed, Fits
    <3>3. wire[r] = code[r]
      BY <1>0, <2>1, <3>1, <3>2 DEF Committed
    <3>4. path[r] = "limited"
      BY <1>0, <2>1, <3>1, <3>2, <3>3, Tables DEF Fits
    <3> QED
      BY <1>0, <2>1, <3>4 DEF Committed, Unaudited, Undecided
  <2> QED
    BY <2>1 DEF Audited
<1>3. Settled => \A P : P \subseteq OutcomePaths => Audited(P) = Counted(P)
  BY <1>0 DEF Settled, Ended, Audited, Counted, Unaudited, Fits, Undecided, OutcomePaths
<1>4. Settled => Counted({"limited"}) \subseteq Refused
  <2>1. ASSUME Settled, NEW r \in Requests, path[r] = "limited" PROVE wire[r] = 429
    <3>1. phase[r] = "done"
      BY <1>0, <2>1 DEF Settled, Ended, Fits, Undecided
    <3> QED
      BY <1>0, <2>1, <3>1 DEF Fits, Committed
  <2> QED
    BY <2>1 DEF Counted
<1>5. Sent(429) = Cardinality(Refused)
  BY DEF Sent
<1> HIDE DEF Refused
<1>6. /\ rateLimited = Cardinality(Counted({"limited"}))
      /\ usage = Cardinality(Counted({"answered", "streamed"}))
      /\ upstreamErrors["chat_stream"] = Cardinality(Counted({"open_failed", "cut"}))
      /\ Logged("rate_limited") = Cardinality(Audited({"limited"}))
      /\ Logged("ok") = Cardinality(Audited({"answered", "streamed"}))
      /\ Logged("error") = Cardinality(Audited({"open_failed", "cut"}))
  BY DEF Books
<1>7. Logged("rate_limited") <= rateLimited
  BY <1>1, <1>6, NoMore
<1>8. Sent(429) <= Logged("rate_limited")
  <2>1. Audited({"limited"}) \subseteq Requests
    BY DEF Audited
  <2> QED
    BY <1>2, <1>5, <1>6, <2>1, NoMore
<1>9. ASSUME Settled
      PROVE  /\ Sent(429) = rateLimited /\ Logged("rate_limited") = rateLimited
             /\ Logged("ok") = usage /\ Logged("error") = upstreamErrors["chat_stream"]
  <2>1. /\ Audited({"limited"}) = Counted({"limited"})
        /\ Audited({"answered", "streamed"}) = Counted({"answered", "streamed"})
        /\ Audited({"open_failed", "cut"}) = Counted({"open_failed", "cut"})
    BY <1>3, <1>9 DEF OutcomePaths
  <2>2. Refused = Counted({"limited"})
    BY <1>2, <1>4, <1>9, <2>1
  <2> QED
    BY <1>5, <1>6, <2>1, <2>2
<1> QED
  BY <1>7, <1>8, <1>9

\* If no write to the audit sink fails, the metrics and the audit log agree with
\* what the callers were sent, while requests are under way and when none is.
THEOREM RecordsTellOneStory == ~SinkFails => (Spec => []RecordsAgree)
<1> SUFFICES ASSUME ~SinkFails PROVE Spec => []RecordsAgree
  OBVIOUS
<1>1. Inv /\ Books /\ [Next]_vars => Books'
  BY StepBooks
<1> QED
  BY <1>1, InvHolds, InitBooks, BooksAgree, PTL DEF Spec

-----------------------------------------------------------------------------
(* What is let through is one legal request, wherever the limit cuts it.   *)

LEMMA ValueEndIs ==
    ASSUME NEW s \in Seq(Symbols)
    PROVE  /\ ValueEnd(s) = 0 => \A i \in DOMAIN s : s[i] # "end"
           /\ ValueEnd(s) # 0 => /\ ValueEnd(s) \in DOMAIN s /\ s[ValueEnd(s)] = "end"
                                 /\ \A i \in 1..ValueEnd(s) - 1 : s[i] # "end"
<1> DEFINE I == {i \in 1..Len(s) : s[i] = "end"}
<1>1. ValueEnd(s) = IF I # {} THEN Min(I) ELSE 0
  BY DEF ValueEnd, SelectInSeq
<1>2. I # {} => Min(I) \in I /\ \A i \in I : Min(I) <= i
  <2>1. I \subseteq Nat
    OBVIOUS
  <2> HIDE DEF I
  <2> QED
    BY <2>1, MinOfNumbers
<1>3. CASE I = {}
  BY <1>1, <1>3
<1>4. CASE I # {}
  <2>1. ValueEnd(s) \in I /\ \A i \in I : ValueEnd(s) <= i
    BY <1>1, <1>2, <1>4
  <2> QED
    BY <2>1
<1> QED
  BY <1>3, <1>4

\* What DecodeFirst and DecodeRest leave of a body: its first "end" ends an object
\* behind which there is nothing.
LEMMA DecodedWhole ==
    ASSUME NEW body \in Seq(Symbols), DecodeFirst(body) = 0, DecodeRest(body) = 0
    PROVE  LET end   == ValueEnd(body)
               value == SubSeq(body, 1, end)
           IN  /\ ~ TooLarge(body) /\ FirstValue(body) = value
               /\ end \in DOMAIN body /\ body[end] = "end" /\ \A i \in 1..end - 1 : body[i] # "end"
               /\ ~ SyntaxError(value) /\ ~ Contains(value, "u")
               /\ \A i \in end + 1..Len(body) : body[i] = "blank"
<1> DEFINE end   == ValueEnd(body)
           value == FirstValue(body)
           rest  == SubSeq(body, end + 1, Len(body))
<1>1. ~ TooLarge(body) /\ Seen(body) = body
  BY DEF DecodeRest, Seen
<1>2. Blank(rest)
  BY <1>1 DEF DecodeRest
<1>3. DecodeFirst(body) = CASE SyntaxError(value) -> 400
                            [] ~SyntaxError(value) /\ ValueEnd(value) = 0 -> IF TooLarge(body) THEN 413 ELSE 400
                            [] OTHER -> IF Contains(value, "u") THEN 400 ELSE 0
  BY <1>1 DEF DecodeFirst
<1>4. ~ SyntaxError(value) /\ ValueEnd(value) # 0 /\ ~ Contains(value, "u")
  <2>1. SyntaxError(value) \in BOOLEAN
    BY DEF SyntaxError
  <2> HIDE DEF value
  <2>2. CASE SyntaxError(value)
    BY <1>3, <2>1, <2>2
  <2>3. CASE ~ SyntaxError(value)
    BY <1>1, <1>3, <2>1, <2>3
  <2> QED
    BY <2>2, <2>3
<1>5. end # 0 /\ value = SubSeq(body, 1, end)
  BY <1>4 DEF FirstValue
<1>6. end \in DOMAIN body /\ body[end] = "end" /\ \A i \in 1..end - 1 : body[i] # "end"
  BY <1>5, ValueEndIs
<1>7. ASSUME NEW i \in end + 1..Len(body) PROVE body[i] = "blank"
  <2>1. /\ end \in Nat /\ Len(body) \in Nat /\ i - end \in 1..Len(body) - end
        /\ end + 1 + (i - end) - 1 = i
    BY <1>6
  <2>2. PICK lo \in Int, hi \in Int : lo = end + 1 /\ hi = Len(body) /\ lo <= hi
    BY <2>1
  <2>3. \A j \in lo..hi : body[j] \in Symbols
    BY <2>1, <2>2
  <2>4. /\ Len(SubSeq(body, lo, hi)) = hi - lo + 1 /\ SubSeq(body, lo, hi) \in Seq(Symbols)
        /\ \A j \in 1..hi - lo + 1 : SubSeq(body, lo, hi)[j] = body[lo + j - 1]
    BY <2>2, <2>3, SubSeqProperties
  <2>5. rest = SubSeq(body, lo, hi)
    BY <2>2
  <2> HIDE DEF rest, end
  <2>6. i - end \in 1..hi - lo + 1 /\ lo + (i - end) - 1 = i
    BY <2>1, <2>2
  <2>7. i - end \in DOMAIN rest /\ rest[i - end] = body[i]
    BY <2>4, <2>5, <2>6
  <2> QED
    BY <1>2, <2>7 DEF Blank
<1> QED
  BY <1>1, <1>4, <1>5, <1>6, <1>7

LEMMA JudgedWhole ==
    ASSUME NEW ct, NEW body \in Seq(Symbols), AskStatus(ct, body) = 0
    PROVE  IsAskRequest(body)
<1> DEFINE end   == ValueEnd(body)
           value == SubSeq(body, 1, end)
<1>0. DecodeFirst(body) = 0 /\ DecodeRest(body) = 0 /\ validateAskRequest(body) = 0
  BY AskStatuses
<1>1. /\ ~ TooLarge(body) /\ FirstValue(body) = value
      /\ end \in DOMAIN body /\ body[end] = "end" /\ \A i \in 1..end - 1 : body[i] # "end"
      /\ ~ SyntaxError(value) /\ ~ Contains(value, "u")
      /\ \A i \in end + 1..Len(body) : body[i] = "blank"
  BY <1>0, DecodedWhole
<1>2. /\ Cardinality({i \in DOMAIN value : value[i] = "q"}) \in 1..MaxQueryBytes
      /\ ~ Contains(value, "i")
  <2> HIDE DEF value
  <2>1. validateAskRequest(body) =
            IF Cardinality({i \in DOMAIN value : value[i] = "q"}) \in 1..MaxQueryBytes /\ ~ Contains(value, "i")
            THEN 0 ELSE 400
    BY <1>1 DEF validateAskRequest
  <2> QED
    BY <1>0, <2>1
<1> HIDE DEF end
<1>3. /\ end \in Nat \ {0} /\ end <= Len(body) /\ DOMAIN body = 1..Len(body) /\ Len(body) \in Nat
      /\ Len(value) = end /\ DOMAIN value = 1..end /\ \A i \in 1..end : value[i] = body[i]
  BY <1>1
<1>4. ASSUME NEW i \in 1..end
      PROVE  Blank(SubSeq(value, 1, i - 1)) <=> \A j \in 1..i - 1 : body[j] = "blank"
  <2>1. /\ DOMAIN SubSeq(value, 1, i - 1) = 1..i - 1
        /\ \A j \in 1..i - 1 : SubSeq(value, 1, i - 1)[j] = body[j]
    BY <1>3
  <2> QED
    BY <2>1 DEF Blank
<1>5. ASSUME NEW i \in 1..end, body[i] # "blank"
      PROVE  body[i] = "begin" <=> \A j \in 1..i - 1 : body[j] = "blank"
  <2>1. Blank(SubSeq(value, 1, i - 1)) = (value[i] = "begin")
    BY <1>1, <1>3, <1>5 DEF SyntaxError
  <2> QED
    BY <1>3, <1>4, <2>1
<1> HIDE DEF value
<1>6. PICK first \in 1..end : body[first] # "blank" /\ \A j \in 1..first - 1 : body[j] = "blank"
  <2> DEFINE I == {i \in 1..end : body[i] # "blank"}
  <2>1. end \in I /\ I \subseteq Nat
    BY <1>1, <1>3
  <2> HIDE DEF I
  <2>2. PICK first \in I : \A i \in I : first <= i
    BY <2>1, LeastNumber
  <2>3. first \in 1..end /\ body[first] # "blank"
    BY DEF I
  <2>4. ASSUME NEW j \in 1..first - 1 PROVE body[j] = "blank"
    <3>1. j \in 1..end /\ j \in Nat /\ ~ (first <= j)
      BY <1>3, <2>3
    <3> QED
      BY <2>2, <3>1 DEF I
  <2> QED
    BY <2>3, <2>4
<1>7. body[first] = "begin"
  BY <1>5, <1>6
<1>8. first < end /\ first \in DOMAIN body /\ end \in DOMAIN body
  BY <1>1, <1>3, <1>7
<1>9. ASSUME NEW i \in DOMAIN body \ {first, end}
      PROVE  body[i] \in IF i \in first..end THEN {"q", "blank"} ELSE {"blank"}
  <2>1. CASE i \in first..end
    <3>1. i \in 1..end - 1 /\ i \in 1..end /\ first \in 1..i - 1
      BY <1>3, <1>8, <2>1
    <3>2. body[i] # "end"
      BY <1>1, <3>1
    <3>3. body[i] # "blank" => body[i] # "begin"
      BY <1>5, <1>6, <3>1
    <3>4. body[i] # "u" /\ body[i] # "i"
      BY <1>1, <1>2, <1>3, <3>1 DEF Contains
    <3>5. body[i] \in Symbols
      BY <1>3
    <3> QED
      BY <2>1, <3>2, <3>3, <3>4, <3>5 DEF Symbols
  <2>2. CASE i \notin first..end
    <3>1. i \in 1..first - 1 \/ i \in end + 1..Len(body)
      BY <1>3, <2>2
    <3> QED
      BY <1>1, <1>6, <2>2, <3>1
  <2> QED
    BY <2>1, <2>2
<1>10. {i \in DOMAIN value : value[i] = "q"} = {i \in DOMAIN body : body[i] = "q"}
  <2>1. \A i \in DOMAIN body : body[i] = "q" => i \in 1..end
    BY <1>1, <1>3
  <2> QED
    BY <1>3, <2>1
<1>11. Len(body) <= MaxRequestBytes
  BY <1>1, <1>3, LimitsAssumption DEF TooLarge
<1> QED
  BY <1>1, <1>2, <1>7, <1>8, <1>9, <1>10, <1>11 DEF IsAskRequest

Judged(r) ==
    /\ phase[r] \in {"limit", "chat", "open", "stream"} \/ path[r] # "plain"
           => AskStatus(r.contentType, r.body) = 0
    /\ code[r] = 413 => TooLarge(r.body)

LEMMA JudgedStep ==
    ASSUME Inv, NEW r \in Requests, Judged(r), Arrive(r) \/ Serve(r)
    PROVE  Judged(r)'
<1> USE DEF Judged, Goto, Decide
<1>0. /\ phase \in [Requests -> Phases] /\ path \in [Requests -> Paths]
      /\ code \in [Requests -> Statuses \cup {0}]
      /\ r.endpoint \in Endpoints /\ Fits(r)
  BY RequestsAssumption DEF Inv, TypeOK
<1>1. CASE Arrive(r)
  BY <1>0, <1>1 DEF Arrive
<1>2. CASE Pass(r)
  BY <1>0, <1>2, Entries DEF Pass, Endpoints
<1>3. CASE Deny(r)
  BY <1>0, <1>3 DEF Deny
<1>4. CASE RejectBody(r)
  <2>1. PICK st : /\ st = 413 => TooLarge(r.body)
                  /\ Decide(r, "plain", st, "reply")
    BY <1>4, AskStatuses DEF RejectBody
  <2> QED
    BY <1>0, <2>1
<1>5. CASE AcceptBody(r)
  BY <1>0, <1>5 DEF AcceptBody
<1>6. CASE Allow(r) \/ Limit(r)
  BY <1>0, <1>6 DEF Allow, Limit
<1>7. CASE Chat(r) \/ OpenFails(r) \/ OpenStream(r) \/ EndStream(r)
  BY <1>0, <1>7 DEF Chat, OpenFails, OpenStream, EndStream, BridgeErrorStatuses
<1>8. CASE Models(r)
  BY <1>0, <1>8 DEF Models, BridgeErrorStatuses, Fits, Undecided
<1>9. CASE Count(r) \/ LogAudit(r) \/ Reply(r)
  <2>1. /\ path' = path /\ code' = code
        /\ \/ phase[r] = "count" /\ phase' = [phase EXCEPT ![r] = After[path[r]].count]
           \/ phase[r] = "audit" /\ phase' = [phase EXCEPT ![r] = After[path[r]].audit]
           \/ phase[r] = "reply" /\ phase' = [phase EXCEPT ![r] = After[path[r]].reply]
    BY <1>9 DEF Count, LogAudit, Reply
  <2>2. phase'[r] \in {"audit", "reply", "leave"}
    BY <1>0, <2>1, Tables DEF Fits
  <2> QED
    BY <2>1, <2>2
<1>10. CASE Leave(r) \/ Tally(r)
  BY <1>0, <1>10 DEF Leave, Tally
<1> QED
  BY <1>1, <1>2, <1>3, <1>4, <1>5, <1>6, <1>7, <1>8, <1>9, <1>10 DEF Serve

AllJudged == \A r \in Requests : Judged(r)

LEMMA StepJudged == Inv /\ AllJudged /\ [Next]_vars => AllJudged'
<1> SUFFICES ASSUME Inv, AllJudged, [Next]_vars, NEW r \in Requests
             PROVE  Judged(r)'
  BY DEF AllJudged
<1>0. TypeOK /\ Judged(r)
  BY DEF Inv, AllJudged
<1>1. ASSUME NEW q \in Requests, Arrive(q) \/ Serve(q) PROVE Judged(r)'
  <2>1. CASE q = r
    BY <1>0, <1>1, <2>1, JudgedStep
  <2>2. CASE q # r
    <3>1. phase'[r] = phase[r] /\ path'[r] = path[r] /\ code'[r] = code[r]
      BY <1>0, <1>1, <2>2, OthersStay DEF Others
    <3> QED
      BY <1>0, <3>1 DEF Judged
  <2> QED
    BY <2>1, <2>2
<1>2. CASE Crash
  <2>1. /\ path' = path /\ code' = code
        /\ phase'[r] = CASE phase[r] \in {"idle", "past", "lost"} -> phase[r]
                         [] phase[r] = "done" -> "past"
                         [] OTHER -> "lost"
    BY <1>2 DEF Crash
  <2> QED
    BY <1>0, <2>1 DEF Judged
<1>3. CASE UNCHANGED requestVars
  BY <1>0, <1>3 DEF requestVars, Judged
<1>4. ASSUME \/ \E t \in Tokens \cup {NoToken} : Rotate(t)
             \/ \E c \in Callers : Refill(c)
             \/ Idle \/ UNCHANGED vars
      PROVE  UNCHANGED requestVars
  BY <1>4 DEF Rotate, Refill, Idle, vars
<1> QED
  BY <1>1, <1>2, <1>3, <1>4 DEF Next

\* Only an ask whose whole body is one legal request comes to the limiter or to
\* the bridge, and 413 is the answer only to a body that is over the limit.
THEOREM BodiesJudged == Spec => []BodiesAreJudgedWhole
<1>1. AllJudged => BodiesAreJudgedWhole
  <2> SUFFICES ASSUME NEW r \in Requests, Judged(r)
               PROVE  /\ phase[r] \in {"limit", "chat", "open", "stream"} \/ path[r] \in AskPaths \cup {"limited"}
                             => IsAskRequest(r.body)
                      /\ code[r] = 413 => Len(r.body) > MaxRequestBytes
    BY DEF BodiesAreJudgedWhole, AllJudged
  <2>1. "plain" \notin AskPaths \cup {"limited"}
    BY DEF AskPaths
  <2>2. AskStatus(r.contentType, r.body) = 0 => IsAskRequest(r.body)
    <3>1. r.body \in Seq(Symbols)
      BY RequestsAssumption
    <3> QED
      BY <3>1, JudgedWhole
  <2> QED
    BY <2>1, <2>2 DEF Judged, TooLarge
<1>2. Init => AllJudged
  BY DEF Init, Judged, AllJudged
<1> QED
  BY <1>1, <1>2, InvHolds, InitInv, StepInv, StepJudged, PTL DEF Spec

\* A first value that is cut off where the body is: its symbols are those of the body.
LEMMA FirstSymbols ==
    ASSUME NEW body \in Seq(Symbols), NEW end \in DOMAIN body
    PROVE  LET value == SubSeq(body, 1, end)
           IN  value \in Seq(Symbols) /\ DOMAIN value = 1..end /\ \A i \in 1..end : value[i] = body[i]
  OBVIOUS

\* A legal request that says it is JSON is never refused for its body.
THEOREM LegalIsAccepted ==
    \A ct, body : body \in Seq(Symbols) /\ requireJSON(ct) = 0 /\ IsAskRequest(body)
                      => AskStatus(ct, body) = 0
<1> SUFFICES ASSUME NEW ct, NEW body \in Seq(Symbols), requireJSON(ct) = 0, IsAskRequest(body)
             PROVE  AskStatus(ct, body) = 0
  OBVIOUS
<1>1. PICK first \in DOMAIN body, last \in DOMAIN body :
          /\ first < last /\ body[first] = "begin" /\ body[last] = "end"
          /\ \A i \in DOMAIN body \ {first, last} :
                 body[i] \in IF i \in first..last THEN {"q", "blank"} ELSE {"blank"}
  BY DEF IsAskRequest
<1> DEFINE value == SubSeq(body, 1, last)
<1>2. /\ DOMAIN body = 1..Len(body) /\ Len(body) \in Nat /\ first \in 1..Len(body) /\ last \in 1..Len(body)
      /\ \A i \in 1..Len(body) : body[i] = "end" => i = last
      /\ \A i \in 1..Len(body) : body[i] = "begin" => i = first
      /\ \A i \in 1..Len(body) : body[i] # "u" /\ body[i] # "i"
      /\ \A i \in 1..Len(body) : i < first \/ i > last => body[i] = "blank"
  BY <1>1
<1>3. ~ TooLarge(body) /\ Seen(body) = body
  BY <1>2, LimitsAssumption DEF IsAskRequest, TooLarge, Seen
<1>4. value \in Seq(Symbols) /\ DOMAIN value = 1..last /\ \A i \in 1..last : value[i] = body[i]
  BY FirstSymbols
<1>5. ValueEnd(body) = last /\ FirstValue(body) = value
  <2>1. ValueEnd(body) = last
    BY <1>1, <1>2, ValueEndIs
  <2> QED
    BY <1>2, <2>1 DEF FirstValue
<1> HIDE DEF value
<1>6. ValueEnd(value) # 0
  <2>1. last \in DOMAIN value /\ value[last] = "end"
    BY <1>1, <1>2, <1>4
  <2> QED
    BY <1>4, <2>1, ValueEndIs
<1>7. ~ SyntaxError(value)
  <2> SUFFICES ASSUME NEW i \in DOMAIN value, value[i] # "blank"
               PROVE  Blank(SubSeq(value, 1, i - 1)) = (value[i] = "begin")
    BY DEF SyntaxError
  <2>0. i \in 1..last /\ i \in 1..Len(body) /\ value[i] = body[i] /\ i >= first /\ Len(value) = last
    BY <1>2, <1>4
  <2>1. /\ DOMAIN SubSeq(value, 1, i - 1) = 1..i - 1
        /\ \A j \in 1..i - 1 : SubSeq(value, 1, i - 1)[j] = value[j]
    BY <1>4, <2>0
  <2>2. CASE i = first
    <3>1. \A j \in 1..i - 1 : value[j] = "blank"
      BY <1>2, <1>4, <2>0, <2>2
    <3>2. Blank(SubSeq(value, 1, i - 1)) = TRUE
      BY <2>1, <3>1 DEF Blank
    <3> QED
      BY <1>1, <2>0, <2>2, <3>2
  <2>3. CASE i # first
    <3>1. first \in 1..i - 1 /\ value[first] # "blank"
      BY <1>1, <1>2, <1>4, <2>0, <2>3
    <3>2. Blank(SubSeq(value, 1, i - 1)) = FALSE
      BY <2>1, <3>1 DEF Blank
    <3>3. (value[i] = "begin") = FALSE
      BY <1>2, <2>0, <2>3
    <3> QED
      BY <3>2, <3>3
  <2> QED
    BY <2>2, <2>3
<1>8. ~ Contains(value, "u") /\ ~ Contains(value, "i")
  <2>1. Len(value) = last
    BY <1>2, <1>4
  <2>2. \A i \in 1..Len(value) : value[i] # "u" /\ value[i] # "i"
    BY <1>2, <1>4, <2>1
  <2> QED
    BY <2>2 DEF Contains
<1>9. DecodeFirst(body) = 0
  <2>1. DecodeFirst(body) = CASE SyntaxError(value) -> 400
                              [] ~SyntaxError(value) /\ ValueEnd(value) = 0 -> IF TooLarge(body) THEN 413 ELSE 400
                              [] OTHER -> IF Contains(value, "u") THEN 400 ELSE 0
    BY <1>3, <1>5 DEF DecodeFirst
  <2> QED
    BY <1>6, <1>7, <1>8, <2>1
<1>10. DecodeRest(body) = 0
  <2>0. last \in Nat /\ Len(body) \in Nat
    BY ONLY <1>2
  <2>1. PICK lo \in Int, hi \in Int : lo = last + 1 /\ hi = Len(body)
    BY ONLY <2>0
  <2>2. \A j \in lo..hi : body[j] \in {"blank"}
    BY <1>2, <2>1
  <2>3. SubSeq(body, lo, hi) \in Seq({"blank"})
    BY <2>2, SubSeqProperties
  <2>4. Blank(SubSeq(body, lo, hi))
    BY <2>3 DEF Blank
  <2> QED
    BY <1>3, <1>5, <2>1, <2>4 DEF DecodeRest
<1>11. validateAskRequest(body) = 0
  <2>1. {i \in DOMAIN value : value[i] = "q"} = {i \in DOMAIN body : body[i] = "q"}
    <3>1. \A i \in DOMAIN body : body[i] = "q" => i \in 1..last
      BY <1>2
    <3> QED
      BY <1>2, <1>4, <3>1
  <2>2. Cardinality({i \in DOMAIN value : value[i] = "q"}) \in 1..MaxQueryBytes
    BY <2>1 DEF IsAskRequest
  <2> QED
    BY <1>5, <1>8, <2>2 DEF validateAskRequest
<1> DEFINE checks == <<requireJSON(ct), DecodeFirst(body), DecodeRest(body), validateAskRequest(body)>>
<1>12. checks = <<0, 0, 0, 0>>
  BY <1>9, <1>10, <1>11
<1>13. SelectInSeq(<<0, 0, 0, 0>>, LAMBDA st : st # 0) = 0
  <2>1. {i \in 1..Len(<<0, 0, 0, 0>>) : <<0, 0, 0, 0>>[i] # 0} = {}
    OBVIOUS
  <2> QED
    BY <2>1 DEF SelectInSeq
<1>14. AskStatus(ct, body) = LET f == SelectInSeq(checks, LAMBDA st : st # 0)
                             IN  IF f = 0 THEN 0 ELSE checks[f]
  BY DEF AskStatus
<1> HIDE DEF checks
<1> QED
  BY <1>12, <1>13, <1>14
=============================================================================
