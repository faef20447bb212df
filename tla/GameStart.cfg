\* Three players, two of whom fit NEW_GAME; no call in the ending window.
SPECIFICATION Spec
CONSTANTS
    l1 = l1
    l2 = l2
    Names <- MCNames3
    MaxInGame = 2
    Width = 2
    Height = 1
    Directions <- MCDirections
    NONE = 0
    CountMod = 4
    RandMul = 3
    RandMod = 7
    Seeds <- MCSeeds
    Loops <- MCLoops
    Quiet = TRUE
SYMMETRY LoopSymmetry
INVARIANTS
    TypeOK
    AtMostOneLoop
    RunningHasLoop
    ReadyCountExact
    NoMissedStart
    InGameIsInRoster
    StoreIndexIsEventNo
PROPERTIES
    StartNeedsAllReady
    IdsTellGamesApart
