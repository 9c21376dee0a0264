\* Any two requests, one token per minute, one rotation, one crash.
CONSTANTS
    Requests <- AllRequests
    Tokens = {"k1", "k2"}
    NoToken = ""
    CallerIdentity <- MCCallerIdentity
    MaxRequestBytes = 4
    MaxQueryBytes = 1
    PerMinute = 1
    SinkFails = FALSE
    MaxArrivals = 2
    MaxRefills = 1
    MaxRotations = 1
    MaxCrashes = 1
SPECIFICATION Spec
INVARIANTS TypeOK GaugeIsExact TotalsMatchResponses RecordsAgree AnswersAreAudited
           CallersPayForThemselves NothingBehindAuthWithoutToken BodiesAreJudgedWhole
