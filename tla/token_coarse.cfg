\* Rotations between calls, on a clock that may stand still: the size alone
\* tells contents of different sizes apart.  (No symmetry: liveness.)
CONSTANTS
    Procs = {p1, p2}
    NoProc = NoProc
    Tokens = {"old", "new"}
    Bodies = {"oldnl", "new", "blank"}
    Empty = ""
    TrimRight <- MCTrimRight
    Blanks <- MCBlanks
    Length <- MCLength
    MaxVersion = 2
    FineClock = FALSE
    QuietWrites = TRUE
SPECIFICATION FairSpec
INVARIANT AnswersAreCurrent
PROPERTY CallsReturn
