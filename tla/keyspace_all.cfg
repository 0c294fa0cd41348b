SPECIFICATION Spec
CONSTANTS
    Keys = {k1, k2}
    MaxLeft = 2
    Commands <- BasicCommands
SYMMETRY KeySymmetry
VIEW DbView
INVARIANTS
    TypeOK
PROPERTIES
    TypesAreStable
    NoStaleReads
    OnlyTheseLoseTrack
    OnlyTheseLeavePhantoms
