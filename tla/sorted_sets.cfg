SPECIFICATION Spec
CONSTANTS
    Keys = {k1, k2}
    Members = {1, 2}
    MaxScore = 1
    Weights = {1, 2}
    MaxArgs = 2
    MaxRank = 2
SYMMETRY KeySymmetry
INVARIANTS
    TypeOK
    MembersAreListed
    
    
PROPERTIES
    OnlyIntersectionsMisalign
\* The process may end.
CHECK_DEADLOCK FALSE
