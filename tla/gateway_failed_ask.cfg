\* An ask the bridge does not answer.
CONSTANTS
    Requests <- Asks
    Tokens = {"k1", "k2"}
    NoToken = ""
    CallerIdentity <- MCCallerIdentity
    MaxRequestBytes = 4
    MaxQueryBytes = 1
    PerMinute = 1
    SinkFails = FALSE
    MaxArrivals = 2
    MaxRefills = 0
    MaxRotations = 0
    MaxCrashes = 0
SPECIFICATION Spec
INVARIANT EveryAskIsAudited
