SPECIFICATION Spec
CONSTANTS
    Clients = {c1, c2}
    Keys = {k1}
    Dbs = {d0}
    FirstDb = d0
    Nobody = nobody
    MaxBlocking = 1
    MaxQueue = 1
    Garbage = {FALSE}
    Allowed <- Subscriptions
SYMMETRY Symmetry
INVARIANTS
    TypeOK
    BlockedOnce
    SubscribedWhileNeeded
\* The worker or the process may end.
CHECK_DEADLOCK FALSE
