SPECIFICATION FairSpec
CONSTANTS
    Clients = {c1, c2}
    Fake = fake
    MaxSent = 1
    MaxInternal = 0
PROPERTIES
    ConnectedClientsAreAnswered
\* The workload is bounded and the worker or the process may end.
CHECK_DEADLOCK FALSE
