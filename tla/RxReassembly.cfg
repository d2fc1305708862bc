\* Two transfer ids, segments up to the Segment MRU of one octet and beyond it,
\* a Transfer MRU of two.
SPECIFICATION RxFairSpec
CONSTANTS
    PeerIds = {0, 1}
    SegLens = {1, 2}
    SegmentMru = 1
    TransferMru = 2
    MaxSegments = 3
INVARIANTS
    DeliveredIntact RepliesInOrder EndAckMeansDelivered
PROPERTIES
    TransferAnswered
CHECK_DEADLOCK FALSE  \* a session whose receiver is done takes no further step
