\* Two bundles of different priority, one packet lost.
SPECIFICATION QuicXferFairSpec
CONSTANTS
    b1 = b1  b2 = b2
    Bundles = {b1, b2}
    Size <- Sizes
    Ordinal <- Urgent
    SegMru = 2
    Services = {"reliable", "datagram"}
    MaxLoss = 1
INVARIANTS
    XferIntact
PROPERTIES
    SentArrives QuicSendReturns
CHECK_DEADLOCK FALSE  \* all bundles are sent, or the connection has failed
