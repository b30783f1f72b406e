CONSTANTS
    MaxPayload = 8
    Header = 3
    OuterHeader = 3
    MinCompress = 2
    Numbers = 4
    Commands = {1, 3, 4, 5, 6, 7, 8, 9, 10, 16, 17}
    Data = {2, 4}
    Replies <- Answers
    MaxPieces = 3
    MaxExchanges = 2

SPECIFICATION FairSpec
INVARIANTS TypeOK ServerGetsAll PacketsWhole
PROPERTIES RecvReturns
CHECK_DEADLOCK FALSE
