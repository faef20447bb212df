\* Two games with other players on boards of other sizes; a client that was
\* sent nonsense exits.
SPECIFICATION LiveSpec
CONSTANTS
    Games <- MCGames
    Faulty <- MCFaulty
    MaxShown = 5
CHECK_DEADLOCK FALSE
INVARIANTS
    ShownUnderItsName
    ShownMakesSense
PROPERTIES
    StopsOnNonsenseOnly
    AllAreShown
