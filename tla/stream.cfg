\* Both writers askStream may be given; up to three lines, room for two frames.
\* The handler's own fairness; bridge and client as each property assumes.
CONSTANTS
    Chunks <- AllChunks
    BadLine <- MCBadLine
    RequestModel = "m1"
    LogQuery = TRUE
    Wrappers = {"none", "statusWriter"}
    MaxLines = 3
    SendBuffer = 2
    DrainLines = 1
SPECIFICATION FairSpec
INVARIANTS TypeOK NothingLostOrReordered OneTerminalFrame AuditedOnce AuditMatchesStream
PROPERTIES SessionEnds HangUpReleases DeadlineBoundsStall
