SPECIFICATION BillSpec
\* Requests are bounded in number: the instance stops when they are used up.
CHECK_DEADLOCK FALSE
CONSTANTS
    Completions = {q1, q2}  Aliases = {a}
    ClockBound = 1
INVARIANT
    EveryCallIsBilled
