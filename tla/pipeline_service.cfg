SPECIFICATION FairSpec
CONSTANTS
    Clients = {c1, c2}
    Fake = fake
    MaxSent = 2
    MaxInternal = 1
INVARIANTS
    TypeOK
    
    NoLostWakeup
    
PROPERTIES
    FifoRefinement
    
\* The workload is bounded and the worker or the process may end.
CHECK_DEADLOCK FALSE
