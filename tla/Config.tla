------------------------------- MODULE Config -------------------------------
(***************************************************************************)
(* internal/config, and the checks of the constructors that are given a    *)
(* Config: bridge.New and server.New.  An environment gives each field of  *)
(* a Config the value of its variable, or Unset.  The parsers of the       *)
(* standard library are tables of the values an environment may hold:      *)
(* what is not in a parser's table, it rejects.                            *)
(***************************************************************************)
EXTENDS Integers, TLC

Unset == "(unset)"

TextFields == {"BridgeURL", "ListenAddr", "DefaultModel", "AuthTokenFile", "MetricsListenAddr"}

Fields == TextFields \cup {"RequestTimeout", "MaxRequestBytes", "AuditLogQuery", "RateLimitPerMin"}

DefaultConfig ==
    [BridgeURL |-> "http://ollama-mcp-bridge:8000", ListenAddr |-> ":8080",
     DefaultModel |-> "granite4.2:8b", RequestTimeout |-> 120, MaxRequestBytes |-> 8192,
     AuditLogQuery |-> FALSE, AuthTokenFile |-> "/var/run/secrets/opencost-ai/token",
     RateLimitPerMin |-> 60, MetricsListenAddr |-> "127.0.0.1:9090"]

-----------------------------------------------------------------------------
(* The parsers.                                                            *)

\* time.ParseDuration, in seconds, and strconv.ParseInt.
Duration == ("1s" :> 1) @@ ("0" :> 0) @@ ("-1s" :> -1)
Integer  == ("7" :> 7) @@ ("0" :> 0) @@ ("-1" :> -1)

\* url.Parse: the scheme and the host.
Url == ("http://ollama-mcp-bridge:8000" :> <<"http", "ollama-mcp-bridge:8000">>)
       @@ ("https://bridge/mcp/" :> <<"https", "bridge">>)
       @@ ("ftp://bridge" :> <<"ftp", "bridge">>) @@ ("http:/bridge" :> <<"http", "">>)

\* net.SplitHostPort: the port.
PortOf == (":8080" :> "8080") @@ ("127.0.0.1:9090" :> "9090") @@ ("127.0.0.1:8080" :> "8080")
          @@ ("localhost:" :> "") @@ (":99999" :> "99999")

\* net.LookupPort knows no port above 65535.
LookupPort == {"8080", "9090"}

True  == {"1", "t", "true", "y", "yes", "on"}
False == {"0", "f", "false", "n", "no", "off"}

\* strings.TrimSpace and strings.ToLower.
Lowered == (" Yes" :> "yes") @@ ("OFF" :> "off")

-----------------------------------------------------------------------------
(* Load.                                                                   *)

parseBool(v) ==
    LET w == IF v \in DOMAIN Lowered THEN Lowered[v] ELSE v
    IN  {b \in BOOLEAN : w \in (IF b THEN True ELSE False)}

Lookup(table, v) == {table[x] : x \in {v} \cap DOMAIN table}

\* The value a set variable has for its field; none if it is rejected.
Parsed(f, v) ==
    CASE f \in TextFields                          -> {v} \ {""}
      [] f = "RequestTimeout"                      -> Lookup(Duration, v)
      [] f \in {"MaxRequestBytes", "RateLimitPerMin"} -> Lookup(Integer, v)
      [] f = "AuditLogQuery"                       -> parseBool(v)

\* An empty value of these two variables counts as unset.
IsSet(f, v) == v # Unset /\ (f \in {"AuditLogQuery", "RateLimitPerMin"} => v # "")

LoadFails(env) == \E f \in Fields : IsSet(f, env[f]) /\ Parsed(f, env[f]) = {}

Load(env) ==
    [f \in Fields |-> IF IsSet(f, env[f]) THEN CHOOSE x \in Parsed(f, env[f]) : TRUE
                      ELSE DefaultConfig[f]]

-----------------------------------------------------------------------------
(* Validate, and what it is there to make sure of.                         *)

validateListenAddr(addr) == addr \in DOMAIN PortOf /\ PortOf[addr] \in LookupPort

\* Mutant: zero is let through.
ValidateAllowsZero(c) ==
    /\ c.BridgeURL \in DOMAIN Url
    /\ Url[c.BridgeURL][1] \in {"http", "https"} /\ Url[c.BridgeURL][2] # ""
    /\ validateListenAddr(c.ListenAddr) /\ validateListenAddr(c.MetricsListenAddr)
    /\ c.DefaultModel # "" /\ c.AuthTokenFile # ""
    /\ c.RequestTimeout >= 0 /\ c.MaxRequestBytes >= 0

Validate(c) ==
    /\ c.BridgeURL \in DOMAIN Url
    /\ Url[c.BridgeURL][1] \in {"http", "https"} /\ Url[c.BridgeURL][2] # ""
    /\ validateListenAddr(c.ListenAddr) /\ validateListenAddr(c.MetricsListenAddr)
    /\ c.DefaultModel # "" /\ c.AuthTokenFile # ""
    /\ c.RequestTimeout > 0 /\ c.MaxRequestBytes > 0

\* bridge.New and server.New return no error.  (The other collaborators that
\* server.New requires are never nil where run calls it.)
BridgeNew(c) ==
    /\ c.BridgeURL \in DOMAIN Url
    /\ Url[c.BridgeURL][1] \in {"http", "https"} /\ Url[c.BridgeURL][2] # ""

ServerNew(c) == c.DefaultModel # "" /\ c.MaxRequestBytes > 0 /\ c.RequestTimeout > 0
=============================================================================
