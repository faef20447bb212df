SPECIFICATION Spec
CONSTANTS
    a1 = a1
    a2 = a2
    a3 = a3
    n1 = n1
    n2 = n2
    n3 = n3
    Addresses <- MCAddresses3
    Names <- MCNames3
    OBSERVER = OBSERVER
    MaxSession = 2
    NOBODY = NOBODY
    Sends <- Message
    Quiet = TRUE
SYMMETRY Symmetry3
CHECK_DEADLOCK FALSE
INVARIANTS
    RosterMatches
    NoLockCycle
