SPECIFICATION Spec
CONSTANTS
    Keys = {k1, k2}
    MaxLeft = 1
    Commands <- WithContainers
SYMMETRY KeySymmetry
VIEW DbView
INVARIANTS
    KnownKeysExist
PROPERTIES
    TypesAreStable
    OnlyTheseLoseTrack
