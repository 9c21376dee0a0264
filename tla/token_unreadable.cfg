\* A reload whose read fails.
CONSTANTS
    Procs = {p1, p2}
    NoProc = NoProc
    Tokens = {"old", "new"}
    Bodies = {"old", "new"}
    Empty = ""
    TrimRight <- MCTrimRight
    Blanks <- MCBlanks
    Length <- MCLength
    MaxVersion = 2
    FineClock = TRUE
    QuietWrites = FALSE
SPECIFICATION Spec
SYMMETRY Symmetry
INVARIANT CachedTokenSurvives
