\* A client that stops reading, over the wrapped writer.
CONSTANTS
    Chunks <- FewChunks
    BadLine <- MCBadLine
    RequestModel = "m1"
    LogQuery = FALSE
    Wrappers = {"statusWriter"}
    MaxLines = 2
    SendBuffer = 1
    DrainLines = 1
SPECIFICATION FairSpec
PROPERTY StallIsBounded
