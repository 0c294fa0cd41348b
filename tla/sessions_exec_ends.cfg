SPECIFICATION FairSpec
CONSTANTS
    Clients = {c1, c2}
    Keys = {k1}
    Dbs = {d0}
    FirstDb = d0
    Nobody = nobody
    MaxBlocking = 0
    MaxQueue = 2
    Garbage = {FALSE}
    Allowed <- NestedMulti
PROPERTIES
    TransactionsEnd
\* The worker or the process may end.
CHECK_DEADLOCK FALSE
