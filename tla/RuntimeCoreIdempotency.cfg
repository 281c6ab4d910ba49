SPECIFICATION Spec
SYMMETRY Symmetry
\* Requests are finite in number: the instance stops when all are answered.
CHECK_DEADLOCK FALSE
CONSTANTS
    None = None
    Requests = {r1, r2, r3}
    Sids = {s1}
    Keys = {k1}
    Threads = 2
    TTL = 1
    MaxClock = 1
    MaxRestarts = 0
INVARIANT
    Idempotent
