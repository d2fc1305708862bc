\* A bundle of one segment from A to B, sent up to twice over one session.
SPECIFICATION SessFairSpec
CONSTANTS
    b1 = b1  s1 = s1
    Bundles = {b1}
    NoBundle = NoBundle
    Senders = {s1}
    Length <- Lengths
    TransferMtu = 2
    TxWindow = 2
    TxWindowBytes = 0
    PeerLens = {}
    MaxTransfers = 2
    PeerIds = {}
    SegLens = {}
    SegmentMru = 1
    TransferMru = 2
    MaxSegments = 4
INVARIANTS
    DeliveredOnce
PROPERTIES
    HandoverSpec NoBundleStuck
CHECK_DEADLOCK FALSE  \* an ended session takes no further step
