\* Two calls, two operators.  The code's 25 s, 45 s and
\* 10 s keep their order and shrink to 1, 2 and 1.
CONSTANTS
    MaxCalls = 2
    Sessions = {s1}
    Tools = {Bash, AskUserQuestion}
    DialogTools = {AskUserQuestion}
    Operators = {tui, portal}
    HoldWindow = 1
    StaleAge = 2
    SweepEvery = 1
SPECIFICATION Spec
INVARIANTS
    AnswerIsFirstAccepted
    RowTellsTheAnswer
    SweepSparesHolds
    PendingIsBounded
SYMMETRY OperatorSymmetry
CHECK_DEADLOCK FALSE
