\* Two clients, three replies, every thread of execution scheduled fairly.
SPECIFICATION LiveSpec
CONSTANTS
    c1 = c1
    c2 = c2
    Clients <- MCClients
    MaxMessages = 3
INVARIANTS
    EachGetsAllInOrder
    NoLostWakeup
PROPERTIES
    AllIsSent
