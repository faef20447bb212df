\* Three key lines, two messages queued, both threads scheduled fairly.
SPECIFICATION LiveSpec
CONSTANTS
    Size = 6
    KeyLength <- MCKeyLength
    MaxLines = 3
    MaxMessages = 2
    MaxEvents = 1
CHECK_DEADLOCK FALSE
INVARIANTS
    TypeOK
    AlwaysRoom
    EachIsSentOnce
    NoLostWakeup
PROPERTIES
    ImplementsKeys
    HeldIsTold
    Exits
