SPECIFICATION LiveSpec
CONSTANTS
    a1 = a1
    a2 = a2
    a3 = a3
    n1 = n1
    n2 = n2
    n3 = n3
    Addresses <- MCAddresses3
    Names <- MCNames3
    OBSERVER = OBSERVER
    MaxSession = 2
    NOBODY = NOBODY
    Sends <- MCMessages
    Quiet = TRUE
CHECK_DEADLOCK FALSE
PROPERTIES
    AlwaysServes
    SilentAreDropped
