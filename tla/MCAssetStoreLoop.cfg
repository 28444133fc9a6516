SPECIFICATION Spec
CONSTANTS
    Assets = {x1, x2, x3, x4}
    MaxLen = 4
SYMMETRY AssetSymmetry
INVARIANTS
    LoopUndisturbed
CHECK_DEADLOCK FALSE
