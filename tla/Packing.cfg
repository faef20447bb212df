SPECIFICATION LiveSpec
CONSTANTS
    MaxDataLen = 70
    NameLengths <- ShortNames
    MaxStore = 8
    MaxDatagrams = 8
INVARIANTS
    NothingLost
    DatagramsFit
    FullButLast
PROPERTIES
    ReplyEnds
