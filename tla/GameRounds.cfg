\* Two players on a board of three pixels, every thread scheduled fairly.
SPECIFICATION LiveSpec
CONSTANTS
    l1 = l1
    l2 = l2
    Names <- MCNames2
    MaxInGame = 2
    Width = 3
    Height = 1
    Directions <- MCDirections
    NONE = 0
    CountMod = 4
    RandMul = 3
    RandMod = 7
    Seeds <- MCSeeds
    Loops <- MCLoop1
    Quiet = TRUE
INVARIANTS
    AliveCountExact
    BoardIsStored
    EliminationIsFinal
PROPERTIES
    GameEnds
