SPECIFICATION Spec
CONSTANTS
    Dbs = {d0, d1}
    FirstDb = d0
    MaxDepth = 3
    MaxStack = 3
    MaxResults = 2
INVARIANTS
    TypeOK
    ScriptsHaveTheirOwn
    SelectionIsKept
    AnswersAreOwn
\* The process may end.
CHECK_DEADLOCK FALSE
