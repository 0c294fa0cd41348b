SPECIFICATION Spec
CONSTANTS
    Keys = {k1, k2}
    MaxLeft = 1
    Commands <- DelOnly
SYMMETRY KeySymmetry
INVARIANTS
    KeyCommandsAreAccepted
