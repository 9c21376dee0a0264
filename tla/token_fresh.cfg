\* Two goroutines, a file rewritten twice on a clock that moves every time.
CONSTANTS
    Procs = {p1, p2}
    NoProc = NoProc
    Tokens = {"old", "new"}
    Bodies = {"old", "new"}
    Empty = ""
    TrimRight <- MCTrimRight
    Blanks <- MCBlanks
    Length <- MCLength
    MaxVersion = 3
    FineClock = TRUE
    QuietWrites = FALSE
SPECIFICATION Spec
SYMMETRY Symmetry
INVARIANTS TypeOK KeyNeverAhead AnswersAreCurrent
PROPERTIES NeverBackToAnOlderToken ServesLikeTheOracle
