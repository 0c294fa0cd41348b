SPECIFICATION Spec
CONSTANTS
    Clients = {c1, c2}
    Keys = {k1}
    Dbs = {d0, d1}
    FirstDb = d0
    Nobody = nobody
    MaxBlocking = 0
    MaxQueue = 1
    Garbage = {TRUE, FALSE}
    Allowed <- Transactions
SYMMETRY Symmetry
INVARIANTS
    
    QueueOnlyInTransaction
\* The worker or the process may end.
CHECK_DEADLOCK FALSE
