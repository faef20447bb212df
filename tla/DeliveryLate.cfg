SPECIFICATION Spec
CONSTANTS
    MaxGames = 2
    MaxEvents = 2
    PerDatagram = 2
    MaxInFlight = 3
    MaxShown = 9
    Ordered = FALSE
PROPERTIES
    ImplementsFeed
