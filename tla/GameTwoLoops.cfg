SPECIFICATION Spec
CONSTANTS
    l1 = l1
    l2 = l2
    Names <- MCNames2
    MaxInGame = 2
    Width = 2
    Height = 1
    Directions <- MCDirections
    NONE = 0
    CountMod = 4
    RandMul = 3
    RandMod = 7
    Seeds <- MCSeeds
    Loops <- MCLoops
    Quiet = FALSE
SYMMETRY LoopSymmetry
CHECK_DEADLOCK FALSE
INVARIANTS
    AtMostOneLoop
