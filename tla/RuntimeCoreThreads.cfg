SPECIFICATION Spec
SYMMETRY Symmetry
\* Requests are finite in number: the instance stops when all are answered.
CHECK_DEADLOCK FALSE
CONSTANTS
    None = None
    Requests = {r1, r2, r3, r4}
    Sids = {s1, s2}
    Keys = {k1}
    Threads = 3
    TTL = 0
    MaxClock = 1
    MaxRestarts = 1
INVARIANTS
    SessionEventsAgree
    ClosedStaysClosed
    LogMatchesAnswers
PROPERTY
    ImplementsSessionLog
