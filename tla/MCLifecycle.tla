---------------------------- MODULE MCLifecycle ----------------------------
(***************************************************************************)
(* Environments and requests for TLC: every variable on its own with each  *)
(* kind of value, the two addresses together, a stream, a probe and a      *)
(* scrape.                                                                 *)
(***************************************************************************)
EXTENDS Lifecycle

Blank == [f \in Fields |-> Unset]

With(f, values) == {[Blank EXCEPT ![f] = v] : v \in values}

\* A value of its own for every variable.
AllSet == [BridgeURL |-> "https://bridge/mcp/", ListenAddr |-> "127.0.0.1:9090",
           DefaultModel |-> "m", RequestTimeout |-> "1s", MaxRequestBytes |-> "7",
           AuditLogQuery |-> " Yes", AuthTokenFile |-> "/token", RateLimitPerMin |-> "-1",
           MetricsListenAddr |-> ":8080"]

MCEnvironments ==
    {Blank, [AllSet EXCEPT !.AuditLogQuery = "", !.RateLimitPerMin = ""], AllSet}
    \cup UNION {With(f, {""}) : f \in Fields \ {"AuditLogQuery", "RateLimitPerMin"}}
    \cup With("BridgeURL", {"ftp://bridge", "http:/bridge", "%zz"})
    \cup With("RequestTimeout", {"0", "-1s", "soon"})
    \cup With("MaxRequestBytes", {"0", "-1", "many"})
    \cup With("RateLimitPerMin", {"many"}) \cup With("AuditLogQuery", {"maybe"})
    \cup With("ListenAddr", {"localhost:", ":99999", "localhost"})
    \cup With("MetricsListenAddr", {"127.0.0.1:8080"})

Ask    == [listener |-> "api", method |-> "POST", path |-> "/v1/ask"]
Probe  == [listener |-> "api", method |-> "GET", path |-> "/v1/health"]
Scrape == [listener |-> "metrics", method |-> "GET", path |-> "/metrics"]

MCRequests == {Ask, Probe, Scrape}
=============================================================================
