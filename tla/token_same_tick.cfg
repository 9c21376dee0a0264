\* Two contents of one size written within one tick.
CONSTANTS
    Procs = {p1, p2}
    NoProc = NoProc
    Tokens = {"old", "new"}
    Bodies = {"old", "new"}
    Empty = ""
    TrimRight <- MCTrimRight
    Blanks <- MCBlanks
    Length <- MCLength
    MaxVersion = 2
    FineClock = FALSE
    QuietWrites = TRUE
SPECIFICATION Spec
SYMMETRY Symmetry
INVARIANT OldTokenStops
