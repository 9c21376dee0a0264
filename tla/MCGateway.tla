----------------------------- MODULE MCGateway -----------------------------
(***************************************************************************)
(* Requests for TLC.  "k1" and "k2" are bearer tokens, one of which the    *)
(* gateway is (or will be) configured with.                                *)
(***************************************************************************)
EXTENDS Gateway

\* The token of c1 comes with one space or with two.
Header(token, n) == [scheme |-> "Bearer", spaces |-> n, token |-> token]

Json == "application/json"

Valid == <<"begin", "q", "end">>

Ask(n, token, body, stream) ==
    [n |-> n, endpoint |-> "ask", header |-> Header(token, n), contentType |-> Json,
     body |-> body, stream |-> stream]

Get(endpoint, token) ==
    [n |-> 1, endpoint |-> endpoint, header |-> Header(token, 1), contentType |-> "",
     body |-> <<>>, stream |-> FALSE]

\* Two askers that share a token, one of them twice, and one with another token.
Asks == {Ask(1, "k1", Valid, FALSE), Ask(2, "k1", Append(Valid, "blank"), FALSE),
         Ask(1, "k1", Valid, TRUE), Ask(1, "k2", Valid, TRUE)}

\* A second value; blanks beyond the limit; a value that ends beyond the limit; a
\* query that is too long.
BadBodies == {Valid \o <<"begin">>, Valid \o <<"blank", "blank">>,
              <<"begin", "blank", "blank", "q", "end">>, <<"begin", "q", "q", "end">>}

BadAsks == {Ask(1, "k1", body, FALSE) : body \in BadBodies}
           \cup {[Ask(1, "k1", Valid, FALSE) EXCEPT !.contentType = "text/plain"],
                 [Ask(1, "k1", Valid, FALSE) EXCEPT !.header.scheme = "Basic"]}

Gets == {Get("tools", "k1"), Get("models", "k1")}

\* One refusal beside all that is served.
ServedRequests == Asks \cup Gets \cup {Ask(1, "k1", <<"begin">>, FALSE)}

AllRequests == Asks \cup BadAsks \cup Gets

MCCallerIdentity == [t \in Tokens |-> IF t = "k1" THEN "c1" ELSE "c2"]
=============================================================================
