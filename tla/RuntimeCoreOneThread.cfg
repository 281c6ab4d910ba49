SPECIFICATION Spec
SYMMETRY Symmetry
\* Requests are finite in number: the instance stops when all are answered.
CHECK_DEADLOCK FALSE
CONSTANTS
    None = None
    Requests = {r1, r2, r3, r4}
    Sids = {s1, s2}
    Keys = {k1, k2}
    Threads = 1
    TTL = 1
    MaxClock = 3
    MaxRestarts = 1
INVARIANTS
    Idempotent
    ResultsAreStamped
    NoStaleReplay
