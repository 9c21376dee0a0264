\* An audit sink that may fail.
CONSTANTS
    Requests <- ServedRequests
    Tokens = {"k1", "k2"}
    NoToken = ""
    CallerIdentity <- MCCallerIdentity
    MaxRequestBytes = 4
    MaxQueryBytes = 1
    PerMinute = 1
    SinkFails = TRUE
    MaxArrivals = 2
    MaxRefills = 0
    MaxRotations = 0
    MaxCrashes = 0
SPECIFICATION FairSpec
PROPERTY RequestsEnd
