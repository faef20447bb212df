\* Two games of up to three events, two events to a datagram, two datagrams
\* in flight, delivered in order.
SPECIFICATION LiveSpec
CONSTANTS
    MaxGames = 2
    MaxEvents = 3
    PerDatagram = 2
    MaxInFlight = 2
    MaxShown = 9
    Ordered = TRUE
INVARIANTS
    EventNoIsNext
    DatagramsAreTrue
PROPERTIES
    ImplementsFeed
    TakesOwnGame
    CatchesUp
