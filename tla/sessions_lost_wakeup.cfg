SPECIFICATION Spec
CONSTANTS
    Clients = {c1, c2}
    Keys = {k1, k2}
    Dbs = {d0}
    FirstDb = d0
    Nobody = nobody
    MaxBlocking = 1
    MaxQueue = 0
    Garbage = {FALSE}
    Allowed <- LostWakeups
SYMMETRY Symmetry
INVARIANTS
    WaitersHaveNothing
\* The worker or the process may end.
CHECK_DEADLOCK FALSE
